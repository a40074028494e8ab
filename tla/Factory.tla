------------------------------ MODULE Factory ------------------------------
(***************************************************************************)
(* mlFactory and mlLib: loading libraries, making interpreters from them   *)
(* and finding the interpreter a callback belongs to.                      *)
(*                                                                         *)
(* Both keep their state in vectors that nothing protects.  The library    *)
(* starts no thread, but keeps a context per thread for its callbacks, so  *)
(* hosts may have several.  Every round of a loop over libs is a step of   *)
(* its own, with the loop over the runtimes of that library in it          *)
(* (mlLib.cpp:56-58) and the second access to libs[i] that                 *)
(* create_interpreter makes (mlFactory.cpp:75-76): vectors only grow, and  *)
(* a store that is under way makes the round a race all the same.          *)
(* push_back is two steps, between which the vector must not be touched.   *)
(* A push_back without spare capacity moves the elements, which makes the  *)
(* iterators of a find_if that has begun dangle.                           *)
(***************************************************************************)
EXTENDS Integers, Sequences, Functions

CONSTANTS
  Threads,
  Paths,      \* what load may be given
  Libraries,  \* shared objects: one may be reached by several paths
  Image,      \* the shared object that dlopen finds for a path, or Missing
  Missing,
  Complete,   \* the libraries that export both required symbols
  NameOf,     \* the name in a library's information
  Ids,        \* addresses of interpreters' states, what get_id returns
  Coroutines, \* states that scripts have made: of no interpreter's own
  Nothing     \* an unused local variable

ASSUME FactoryAssumption ==
  /\ Complete \subseteq Libraries
  /\ Image \in [Paths -> Libraries \cup {Missing}] /\ Missing \notin Libraries
  /\ DOMAIN NameOf = Libraries
  /\ Ids \cap Coroutines = {}

VARIABLES
  libs,        \* mlFactory::libs, each library with its runtimes
  capacity,    \* of that vector
  storage,     \* which of its storages that vector is in
  exceptions,  \* mlFactory::exceptions
  pc,          \* what each thread is doing
  lib,         \* local: the library load has opened
  at,          \* local: the index of a loop
  until, from, \* local: end and storage of the iterators of find_if
  want,        \* local: the name or identifier looked for, or a new identifier
  outcome,     \* history: how the last operation ended
  chosen,      \* history: which library create_interpreter has chosen for a name
  unfound,     \* history: identifiers for which search has answered NULL
  health       \* "undefined" after a data race or the use of a stale iterator

locals == <<lib, at, until, from, want>>
history == <<outcome, chosen, unfound>>
vars == <<libs, capacity, storage, exceptions, pc, locals, history, health>>

\* seen is history: how many libraries load had compared with this one.
Entry(l, n) == [image |-> l, runtimes |-> <<>>, seen |-> n]

Runtimes(k) == Range(libs[k].runtimes)
Registered == UNION {Runtimes(k) : k \in DOMAIN libs}

\* Vectors that another thread is in the middle of changing.
LibsBusy(t) == \E u \in Threads \ {t} : pc[u] = "storing"
RuntimesBusy(t, k) == \E u \in Threads \ {t} : pc[u] = "adding" /\ at[u] = k

At(t, label) == health = "ok" /\ pc[t] = label
Goto(t, label) == pc' = [pc EXCEPT ![t] = label]

\* An operation ends, and its local variables with it.
Return(t, o) ==
  /\ Goto(t, "idle")
  /\ outcome' = o
  /\ lib' = [lib EXCEPT ![t] = Missing]
  /\ at' = [at EXCEPT ![t] = 0]
  /\ until' = [until EXCEPT ![t] = 0]
  /\ from' = [from EXCEPT ![t] = 0]
  /\ want' = [want EXCEPT ![t] = Nothing]

\* load deletes the library and throws or answers NULL.  What it throws points
\* to the message of the deleted library.
Fail(t) ==
  /\ Return(t, IF exceptions = "yes" THEN "thrown" ELSE "null")
  /\ UNCHANGED <<libs, capacity, storage, exceptions, chosen, unfound, health>>

\* A thread meets a vector that is being changed.
Race(t) ==
  /\ health' = "undefined"
  /\ UNCHANGED <<libs, capacity, storage, exceptions, pc, locals, history>>

Advance(t) ==
  /\ at' = [at EXCEPT ![t] = @ + 1]
  /\ UNCHANGED <<libs, capacity, storage, exceptions, pc, lib, until, from, want, history, health>>

-----------------------------------------------------------------------------

Init ==
  /\ libs = <<>> /\ capacity = 0 /\ storage = 0
  /\ exceptions = "no"
  /\ pc = [t \in Threads |-> "idle"]
  /\ lib = [t \in Threads |-> Missing]
  /\ at = [t \in Threads |-> 0]
  /\ until = [t \in Threads |-> 0]
  /\ from = [t \in Threads |-> 0]
  /\ want = [t \in Threads |-> Nothing]
  /\ outcome = "none"
  /\ chosen = {} /\ unfound = {}
  /\ health = "ok"

\* The host assigns to mlFactory::exceptions.
SetExceptions(t) ==
  /\ At(t, "idle")
  /\ exceptions' = IF exceptions = "yes" THEN "no" ELSE "yes"
  /\ UNCHANGED <<libs, capacity, storage, pc, locals, history, health>>

\* load: the search path is empty, so that search_file returns the name it is
\* given, and mlLib opens it.
LoadMissing(t, p) ==
  /\ At(t, "idle")
  /\ Image[p] = Missing
  /\ Fail(t)

LoadOpen(t, p) ==
  /\ At(t, "idle")
  /\ Image[p] # Missing
  /\ lib' = [lib EXCEPT ![t] = Image[p]]
  /\ Goto(t, "opened")
  /\ UNCHANGED <<libs, capacity, storage, exceptions, at, until, from, want, history, health>>

\* Mutant: find_if from the second library on.
CheckBeginSecond(t) ==
  /\ At(t, "opened") /\ ~LibsBusy(t)
  /\ at' = [at EXCEPT ![t] = 2]
  /\ until' = [until EXCEPT ![t] = Len(libs)]
  /\ from' = [from EXCEPT ![t] = storage]
  /\ Goto(t, "checking")
  /\ UNCHANGED <<libs, capacity, storage, exceptions, lib, want, history, health>>

\* is_loaded: begin and end of the vector are taken ...
CheckBegin(t) ==
  /\ At(t, "opened") /\ ~LibsBusy(t)
  /\ at' = [at EXCEPT ![t] = 1]
  /\ until' = [until EXCEPT ![t] = Len(libs)]
  /\ from' = [from EXCEPT ![t] = storage]
  /\ Goto(t, "checking")
  /\ UNCHANGED <<libs, capacity, storage, exceptions, lib, want, history, health>>

\* ... and the libraries compared, as long as the vector is where it was.
CheckNext(t) ==
  /\ At(t, "checking") /\ at[t] <= until[t] /\ from[t] = storage
  /\ libs[at[t]].image # lib[t]
  /\ Advance(t)

\* Mutant: the new mlLib takes the place of the loaded one.
CheckFoundReplace(t) ==
  /\ At(t, "checking") /\ at[t] <= until[t] /\ from[t] = storage
  /\ libs[at[t]].image = lib[t]
  /\ libs' = [libs EXCEPT ![at[t]].runtimes = <<>>]
  /\ Return(t, "null")
  /\ UNCHANGED <<capacity, storage, exceptions, chosen, unfound, health>>

\* It is loaded: NULL, whatever the exceptions; the handle is never closed.
CheckFound(t) ==
  /\ At(t, "checking") /\ at[t] <= until[t] /\ from[t] = storage
  /\ libs[at[t]].image = lib[t]
  /\ Return(t, "null")
  /\ UNCHANGED <<libs, capacity, storage, exceptions, chosen, unfound, health>>

\* None is the same.  The result of find_if is compared with an end() that may
\* have been taken before it ...
CheckDone(t) ==
  /\ At(t, "checking") /\ at[t] > until[t]
  /\ Goto(t, "checked")
  /\ UNCHANGED <<libs, capacity, storage, exceptions, locals, history, health>>

\* ... or after it, which passes for a library found when the end has moved.
CheckMoved(t) ==
  /\ At(t, "checking") /\ at[t] > until[t] /\ ~LibsBusy(t)
  /\ Len(libs) # until[t] \/ storage # from[t]
  /\ Return(t, "null")
  /\ UNCHANGED <<libs, capacity, storage, exceptions, chosen, unfound, health>>

\* Mutant: load with a missing symbol answers NULL whatever the exceptions.
SymbolsMissingSilent(t) ==
  /\ At(t, "checked")
  /\ lib[t] \notin Complete
  /\ Return(t, "null")
  /\ UNCHANGED <<libs, capacity, storage, exceptions, chosen, unfound, health>>

\* mlLib::load and iregister.
SymbolsMissing(t) ==
  /\ At(t, "checked")
  /\ lib[t] \notin Complete
  /\ Fail(t)

SymbolsFound(t) ==
  /\ At(t, "checked")
  /\ lib[t] \in Complete
  /\ Goto(t, "registered")
  /\ UNCHANGED <<libs, capacity, storage, exceptions, locals, history, health>>

\* libs.push_back(l)
StoreBegin(t) ==
  /\ At(t, "registered") /\ ~LibsBusy(t)
  /\ IF Len(libs) = capacity
     THEN /\ storage' = storage + 1
          /\ capacity' = IF capacity = 0 THEN 1 ELSE 2 * capacity
     ELSE UNCHANGED <<storage, capacity>>
  /\ Goto(t, "storing")
  /\ UNCHANGED <<libs, exceptions, locals, history, health>>

StoreEnd(t) ==
  /\ At(t, "storing")
  /\ libs' = Append(libs, Entry(lib[t], until[t]))
  /\ Return(t, "library")
  /\ UNCHANGED <<capacity, storage, exceptions, chosen, unfound, health>>

-----------------------------------------------------------------------------

\* mlFactory::create_interpreter: the first library of that name, if any.
CreateByName(t, n) ==
  /\ At(t, "idle")
  /\ want' = [want EXCEPT ![t] = n]
  /\ at' = [at EXCEPT ![t] = 1]
  /\ Goto(t, "finding")
  /\ UNCHANGED <<libs, capacity, storage, exceptions, lib, until, from, history, health>>

\* Mutant: the loop forgets to advance.
FindNextStays(t) ==
  /\ At(t, "finding") /\ ~LibsBusy(t)
  /\ at[t] <= Len(libs)
  /\ NameOf[libs[at[t]].image] # want[t]
  /\ UNCHANGED vars

FindNext(t) ==
  /\ At(t, "finding") /\ ~LibsBusy(t)
  /\ at[t] <= Len(libs)
  /\ NameOf[libs[at[t]].image] # want[t]
  /\ Advance(t)

\* Mutant: any library of that name will do.
FindFoundAny(t) ==
  /\ At(t, "finding") /\ ~LibsBusy(t)
  /\ \E k \in DOMAIN libs :
       /\ NameOf[libs[k].image] = want[t]
       /\ at' = [at EXCEPT ![t] = k]
       /\ chosen' = chosen \cup {[name |-> want[t], place |-> k]}
  /\ Goto(t, "found")
  /\ UNCHANGED <<libs, capacity, storage, exceptions, lib, until, from, want, outcome, unfound, health>>

FindFound(t) ==
  /\ At(t, "finding") /\ ~LibsBusy(t)
  /\ at[t] <= Len(libs)
  /\ NameOf[libs[at[t]].image] = want[t]
  /\ chosen' = chosen \cup {[name |-> want[t], place |-> at[t]]}
  /\ Goto(t, "found")
  /\ UNCHANGED <<libs, capacity, storage, exceptions, locals, outcome, unfound, health>>

\* None: the function ends without a return.
FindNone(t) ==
  /\ At(t, "finding") /\ ~LibsBusy(t)
  /\ at[t] > Len(libs)
  /\ Return(t, "indeterminate")
  /\ UNCHANGED <<libs, capacity, storage, exceptions, chosen, unfound, health>>

\* create_interpreter of a library that load has returned.
CreateFrom(t, k) ==
  /\ At(t, "idle")
  /\ at' = [at EXCEPT ![t] = k]
  /\ Goto(t, "found")
  /\ UNCHANGED <<libs, capacity, storage, exceptions, lib, until, from, want, history, health>>

\* No interpreter has its state there.
Free(id) ==
  /\ id \notin Registered
  /\ \A u \in Threads : pc[u] = "adding" => want[u] # id

\* generate_func: a new interpreter, whose state is at an address that is not
\* in use; then runtimes.push_back and set_owner.
AddBegin(t, id) ==
  /\ At(t, "found") /\ ~RuntimesBusy(t, at[t])
  /\ Free(id)
  /\ want' = [want EXCEPT ![t] = id]
  /\ Goto(t, "adding")
  /\ UNCHANGED <<libs, capacity, storage, exceptions, lib, at, until, from, history, health>>

\* No memory for another interpreter: generate_func throws std::bad_alloc.
AddNone(t) ==
  /\ At(t, "found")
  /\ \A id \in Ids : ~Free(id)
  /\ Return(t, "thrown")
  /\ UNCHANGED <<libs, capacity, storage, exceptions, chosen, unfound, health>>

AddEnd(t) ==
  /\ At(t, "adding")
  /\ libs' = [libs EXCEPT ![at[t]].runtimes = Append(@, want[t])]
  /\ Return(t, "interpreter")
  /\ UNCHANGED <<capacity, storage, exceptions, chosen, unfound, health>>

-----------------------------------------------------------------------------

\* search, from a callback of a running interpreter, or of a coroutine.
Search(t, id) ==
  /\ At(t, "idle")
  /\ id \in Registered \cup Coroutines
  /\ want' = [want EXCEPT ![t] = id]
  /\ at' = [at EXCEPT ![t] = 1]
  /\ Goto(t, "searching")
  /\ UNCHANGED <<libs, capacity, storage, exceptions, lib, until, from, history, health>>

SearchNext(t) ==
  /\ At(t, "searching") /\ ~LibsBusy(t) /\ ~RuntimesBusy(t, at[t])
  /\ at[t] <= Len(libs)
  /\ want[t] \notin Runtimes(at[t])
  /\ Advance(t)

SearchFound(t) ==
  /\ At(t, "searching") /\ ~LibsBusy(t) /\ ~RuntimesBusy(t, at[t])
  /\ at[t] <= Len(libs)
  /\ want[t] \in Runtimes(at[t])
  /\ Return(t, "interpreter")
  /\ UNCHANGED <<libs, capacity, storage, exceptions, chosen, unfound, health>>

\* Mutant: the last library is not searched.
SearchNoneEarly(t) ==
  /\ At(t, "searching") /\ ~LibsBusy(t)
  /\ at[t] >= Len(libs)
  /\ unfound' = unfound \cup {want[t]}
  /\ Return(t, "null")
  /\ UNCHANGED <<libs, capacity, storage, exceptions, chosen, health>>

SearchNone(t) ==
  /\ At(t, "searching") /\ ~LibsBusy(t)
  /\ at[t] > Len(libs)
  /\ unfound' = unfound \cup {want[t]}
  /\ Return(t, "null")
  /\ UNCHANGED <<libs, capacity, storage, exceptions, chosen, health>>

\* Vectors touched while another thread changes them, or found moved.
Interference(t) ==
  /\ \/ /\ \/ pc[t] \in {"opened", "registered", "finding", "searching"}
           \/ pc[t] = "checking" /\ at[t] > until[t]
        /\ LibsBusy(t)
     \/ /\ pc[t] = "checking" /\ at[t] <= until[t]
        /\ from[t] # storage
     \/ /\ pc[t] = "found" /\ RuntimesBusy(t, at[t])
     \/ /\ pc[t] = "searching" /\ at[t] <= Len(libs)
        /\ RuntimesBusy(t, at[t])
  /\ health = "ok"
  /\ Race(t)

Begin(t) ==
  \/ SetExceptions(t)
  \/ \E p \in Paths : LoadMissing(t, p) \/ LoadOpen(t, p)
  \/ \E l \in Libraries : CreateByName(t, NameOf[l])
  \/ \E k \in DOMAIN libs : CreateFrom(t, k)
  \/ \E id \in Ids \cup Coroutines : Search(t, id)

Proceed(t) ==
  \/ CheckBegin(t) \/ CheckNext(t) \/ CheckFound(t) \/ CheckDone(t) \/ CheckMoved(t)
  \/ SymbolsMissing(t) \/ SymbolsFound(t) \/ StoreBegin(t) \/ StoreEnd(t)
  \/ FindNext(t) \/ FindFound(t) \/ FindNone(t)
  \/ \E id \in Ids : AddBegin(t, id)
  \/ AddNone(t) \/ AddEnd(t)
  \/ SearchNext(t) \/ SearchFound(t) \/ SearchNone(t)
  \/ Interference(t)

Next == \E t \in Threads : Begin(t) \/ Proceed(t)

\* Whoever calls an operation runs it to its end.
Fairness == \A t \in Threads : WF_vars(Proceed(t))

Spec == Init /\ [][Next]_vars /\ Fairness

-----------------------------------------------------------------------------

\* The type invariant.
TypeOK ==
  /\ libs \in Seq([image : Complete, runtimes : Seq(Ids), seen : Nat])
  /\ capacity \in Nat /\ storage \in Nat /\ Len(libs) <= capacity
  /\ exceptions \in {"yes", "no"}
  /\ pc \in [Threads -> {"idle", "opened", "checking", "checked", "registered", "storing",
                         "finding", "found", "adding", "searching"}]
  /\ lib \in [Threads -> Libraries \cup {Missing}]
  /\ at \in [Threads -> Nat] /\ until \in [Threads -> Nat] /\ from \in [Threads -> Nat]
  /\ want \in [Threads -> {NameOf[l] : l \in Libraries} \cup Ids \cup Coroutines \cup {Nothing}]
  /\ outcome \in {"none", "null", "thrown", "library", "interpreter", "indeterminate"}
  /\ chosen \subseteq [name : {NameOf[l] : l \in Libraries}, place : DOMAIN libs]
  /\ unfound \subseteq Ids \cup Coroutines
  /\ health \in {"ok", "undefined"}

\* A library is in the vector twice only if two loads of it overlapped: the
\* second had taken the end of the vector before the first stored it.
DuplicatesOverlap ==
  \A j, k \in DOMAIN libs :
    j < k /\ libs[j].image = libs[k].image => libs[k].seen < j

\* The search for a callback's interpreter never misses one that
\* create_interpreter has registered, while libraries and interpreters are
\* added under it.
SearchComplete == unfound \cap Ids = {}

\* A name means one library for good: what is loaded later, under the same
\* name, is never chosen.
OneLibraryPerName ==
  \A a, b \in chosen : a.name = b.name => a.place = b.place

\* With exceptions, a load that answers NULL means that the library is loaded
\* already, or that another thread has stored one since this load began to
\* compare.
NullMeansLoaded ==
  [][\A t \in Threads :
       /\ \/ pc[t] \in {"checking", "checked"} /\ pc'[t] = "idle"
          \/ pc' = pc /\ outcome' # outcome
       /\ outcome' = "null" /\ exceptions = "yes"
       => \/ \E k \in DOMAIN libs : libs[k].image = lib[t]
          \/ Len(libs) > until[t]]_vars

\* A host with one thread meets no data race, and no library twice.
AloneIsSafe ==
  (\A t, u \in Threads : t = u) =>
    /\ health = "ok"
    /\ \A j, k \in DOMAIN libs : libs[j].image = libs[k].image => j = k

\* The factory is a catalogue of libraries, whatever its threads do.
Catalog == INSTANCE LibraryCatalog WITH
  loaded <- {libs[k].image : k \in DOMAIN libs},
  made <- {m \in [library : Libraries, id : Ids] :
             \E k \in DOMAIN libs : m.library = libs[k].image /\ m.id \in Runtimes(k)}

CatalogSpec == Catalog!Spec

\* Every operation ends, also while other threads make the vectors longer.
OperationsReturn ==
  \A t \in Threads : pc[t] # "idle" ~> pc[t] = "idle" \/ health = "undefined"
=============================================================================
