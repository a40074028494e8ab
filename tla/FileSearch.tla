------------------------------ MODULE FileSearch ------------------------------
(***************************************************************************)
(* exec of a script: search_file looks at the name and at its candidates   *)
(* in the directories of the path, and the interpreter then opens what it  *)
(* returned, while others create and remove files.  stat returns 0 for a   *)
(* file that exists, and search_file takes any other result for a find.    *)
(***************************************************************************)
EXTENDS Integers

CONSTANTS
  Scripts, \* what exec is called with
  Dirs,    \* the number of directories in the path
  Files,   \* what may exist or not
  FileOf,  \* the file that a name means by itself (0) and behind each directory
  NoFile   \* no name; no file

ASSUME SearchAssumption ==
  /\ Dirs \in Nat
  /\ FileOf \in [Scripts -> [0 .. Dirs -> Files]]
  /\ NoFile \notin Scripts \cup Files

VARIABLES
  exists,  \* the files that exist
  pc,      \* "idle", "stat" before a stat, "open" before the file is opened
  name,    \* the argument of the last exec
  at,      \* the candidate that is looked at, or was chosen
  outcome, \* the file that exec opened, or NoFile
  there,   \* history: the files that existed at some time in the last exec
  gone     \* history: the files that did not exist at some time in it

searchVars == <<exists, pc, name, at, outcome, there, gone>>

Candidate == FileOf[name][at]

SearchInit ==
  /\ exists \in SUBSET Files
  /\ pc = "idle" /\ name = NoFile /\ at = 0 /\ outcome = NoFile
  /\ there = {} /\ gone = {}

Exec(n) ==
  /\ pc = "idle"
  /\ pc' = "stat" /\ name' = n /\ at' = 0 /\ outcome' = NoFile
  /\ there' = exists /\ gone' = Files \ exists
  /\ UNCHANGED exists

\* stat fails: this candidate is returned.
Missing ==
  /\ pc = "stat" /\ Candidate \notin exists
  /\ pc' = "open"
  /\ UNCHANGED <<exists, name, at, outcome, there, gone>>

\* Mutant: the first directory that has the file is chosen.
FoundOpens ==
  /\ pc = "stat" /\ Candidate \in exists
  /\ IF at = 0 /\ Dirs > 0 THEN at' = 1 /\ UNCHANGED pc ELSE UNCHANGED at /\ pc' = "open"
  /\ UNCHANGED <<exists, name, outcome, there, gone>>

\* Mutant: the last candidate is returned in the end.
FoundLast ==
  /\ pc = "stat" /\ Candidate \in exists
  /\ IF at < Dirs THEN at' = at + 1 /\ UNCHANGED pc ELSE UNCHANGED at /\ pc' = "open"
  /\ UNCHANGED <<exists, name, outcome, there, gone>>

\* stat succeeds: on to the next directory, and after the last back to the name.
Found ==
  /\ pc = "stat" /\ Candidate \in exists
  /\ IF at < Dirs THEN at' = at + 1 /\ UNCHANGED pc ELSE at' = 0 /\ pc' = "open"
  /\ UNCHANGED <<exists, name, outcome, there, gone>>

\* luaL_dofile or duk_peval_file opens what search_file returned.
Open ==
  /\ pc = "open"
  /\ outcome' = IF Candidate \in exists THEN Candidate ELSE NoFile
  /\ pc' = "idle"
  /\ UNCHANGED <<exists, name, at, there, gone>>

Create(f) ==
  /\ f \notin exists
  /\ exists' = exists \cup {f}
  /\ there' = IF pc = "idle" THEN there ELSE there \cup {f}
  /\ UNCHANGED <<pc, name, at, outcome, gone>>

Remove(f) ==
  /\ f \in exists
  /\ exists' = exists \ {f}
  /\ gone' = IF pc = "idle" THEN gone ELSE gone \cup {f}
  /\ UNCHANGED <<pc, name, at, outcome, there>>

SearchNext ==
  \/ \E n \in Scripts : Exec(n)
  \/ Missing \/ Found \/ Open
  \/ \E f \in Files : Create(f) \/ Remove(f)

SearchSpec == SearchInit /\ [][SearchNext]_searchVars

-----------------------------------------------------------------------------

Returned == pc = "idle" /\ name # NoFile

Candidates == {FileOf[name][i] : i \in 0 .. Dirs}

\* A file that was there before exec was called is opened only when it is the
\* one the name means by itself, and only when every directory of the path has
\* been seen to hold the name too: the path finds no script, and a directory
\* without the script hides the one that exists.
OldScriptIsOwn ==
  Returned /\ outcome # NoFile /\ outcome \notin gone =>
    outcome = FileOf[name][0] /\ Candidates \subseteq there

\* A script that every candidate names or holds, and that stays, is run,
\* whatever else comes and goes: the relative names behind the directory "./".
StayingScriptRuns ==
  Returned /\ Candidates \cap gone = {} => outcome = FileOf[name][0]

=============================================================================
