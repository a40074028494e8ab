-------------------------- MODULE MetatypeRegistry --------------------------
(***************************************************************************)
(* The registry of metatypes: metatype_t::user_types, its construction     *)
(* during static initialisation, and metatype_t::generate, loop step by    *)
(* loop step.                                                              *)
(*                                                                         *)
(* user_types is a static object of mlVariable.cpp; the three built-in     *)
(* metatypes are static objects of mlCallback.cpp whose initialisers call  *)
(* generate().  C++ leaves the order of the two translation units open, so *)
(* the vector may be constructed before the three calls or after them.  In *)
(* the second case the calls work on zero-initialised storage, which reads *)
(* as an empty vector, and the constructor then empties it.                *)
(*                                                                         *)
(* Only identifiers are kept: the metadata buffer of a metatype is left    *)
(* out (generate() is only ever called without one).                       *)
(***************************************************************************)
EXTENDS Integers, Sequences

CONSTANT MaxTypeId        \* MAX_TYPE_ID

\* The number of static metatypes of mlCallback.cpp: C_CALLBACK_TYPE,
\* CLASS_CALLBACK_TYPE and default_metatype.
Builtins == 3

ASSUME RegistryAssumption == MaxTypeId \in Nat /\ MaxTypeId > Builtins

VARIABLES
  user_types,    \* identifiers in metatype_t::user_types, in push order
  construction,  \* the constructor of user_types: "pending", or it ran "early",
                 \* before the built-in metatypes were made, or "late", after
  builtin,       \* identifiers of the built-in metatypes, in source order
  issued,        \* identifiers returned to the program's own calls
  refused,       \* has a call thrown "Error: Max type exceed": "no" or "yes"
  pc,            \* "idle", or "scan" inside the loop of generate
  i, type_id     \* the locals of generate

vars == <<user_types, construction, builtin, issued, refused, pc, i, type_id>>

SeqRange(s) == {s[k] : k \in DOMAIN s}

Init ==
  /\ user_types = <<>>
  /\ construction = "pending"
  /\ builtin = <<>>
  /\ issued = <<>>
  /\ refused = "no"
  /\ pc = "idle"
  /\ i = 0
  /\ type_id = 0

\* Mutant: the vector keeps what was pushed before its construction.
ConstructKeeping ==
  /\ construction = "pending"
  /\ pc = "idle"
  /\ Len(builtin) \in {0, Builtins}
  /\ construction' = IF Len(builtin) = 0 THEN "early" ELSE "late"
  /\ UNCHANGED <<user_types, builtin, issued, refused, pc, i, type_id>>

\* The dynamic initialiser of mlVariable.cpp: it runs before or after the
\* whole of mlCallback.cpp's, never in the middle of it.
ConstructUserTypes ==
  /\ construction = "pending"
  /\ pc = "idle"
  /\ Len(builtin) \in {0, Builtins}
  /\ construction' = IF Len(builtin) = 0 THEN "early" ELSE "late"
  /\ user_types' = <<>>
  /\ UNCHANGED <<builtin, issued, refused, pc, i, type_id>>

\* A call of generate: by an initialiser of mlCallback.cpp until the three
\* built-in metatypes exist, by the program once both units are initialised.
CallGenerate ==
  /\ pc = "idle"
  /\ Len(builtin) < Builtins \/ construction # "pending"
  /\ pc' = "scan"
  /\ i' = 0
  /\ type_id' = 0
  /\ UNCHANGED <<user_types, construction, builtin, issued, refused>>

\* Mutant: the scan stops one element short.
AtEndShort == i >= Len(user_types) - 1

\* The loop condition i < user_types.size() fails.
AtEnd == i >= Len(user_types)

\* user_types[i].id == type_id
Occupied == user_types[i + 1] = type_id

\* Mutant: the bound is tested one too early.
ExhaustedEarly == type_id + 2 = MaxTypeId

\* The identifier that follows type_id is out of range.
Exhausted == type_id + 1 = MaxTypeId

\* Mutant: the rescan forgets to move on to the next identifier.
ScanSameId ==
  /\ pc = "scan"
  /\ ~AtEnd
  /\ Occupied
  /\ ~Exhausted
  /\ i' = 0
  /\ UNCHANGED <<user_types, construction, builtin, issued, refused, pc, type_id>>

\* type_id++; i = 0; and then the i++ of the for: the scan goes on at 1.
ScanOccupied ==
  /\ pc = "scan"
  /\ ~AtEnd
  /\ Occupied
  /\ ~Exhausted
  /\ type_id' = type_id + 1
  /\ i' = 1
  /\ UNCHANGED <<user_types, construction, builtin, issued, refused, pc>>

\* type_id++ reaches MAX_TYPE_ID: the exception leaves generate.
ScanThrow ==
  /\ pc = "scan"
  /\ ~AtEnd
  /\ Occupied
  /\ Exhausted
  /\ pc' = "idle"
  /\ i' = 0
  /\ type_id' = 0
  /\ refused' = "yes"
  /\ UNCHANGED <<user_types, construction, builtin, issued>>

ScanOther ==
  /\ pc = "scan"
  /\ ~AtEnd
  /\ ~Occupied
  /\ i' = i + 1
  /\ UNCHANGED <<user_types, construction, builtin, issued, refused, pc, type_id>>

\* The loop is over: type_id is registered and returned to the caller.
ScanReturn ==
  /\ pc = "scan"
  /\ AtEnd
  /\ user_types' = Append(user_types, type_id)
  /\ IF Len(builtin) < Builtins
     THEN builtin' = Append(builtin, type_id) /\ UNCHANGED issued
     ELSE issued' = Append(issued, type_id) /\ UNCHANGED builtin
  /\ pc' = "idle"
  /\ i' = 0
  /\ type_id' = 0
  /\ UNCHANGED <<construction, refused>>

Scan == ScanOccupied \/ ScanThrow \/ ScanOther \/ ScanReturn

Next == ConstructUserTypes \/ CallGenerate \/ Scan

\* A call of generate runs to its end in one thread.
Fairness == WF_vars(Scan)

Spec == Init /\ [][Next]_vars /\ Fairness

-----------------------------------------------------------------------------

\* Type invariant: identifiers stay below MAX_TYPE_ID and the loop variables
\* inside the vector.
TypeOK ==
  /\ user_types \in Seq(0 .. MaxTypeId - 1)
  /\ construction \in {"pending", "early", "late"}
  /\ builtin \in Seq(0 .. MaxTypeId - 1)
  /\ issued \in Seq(0 .. MaxTypeId - 1)
  /\ refused \in {"no", "yes"}
  /\ pc \in {"idle", "scan"}
  /\ i \in 0 .. Len(user_types)
  /\ type_id \in 0 .. MaxTypeId - 1

\* No two registered metatypes share an identifier, although the scan never
\* looks at user_types[0] again after a hit (mlVariable.cpp:36-46).
RegistryInjective ==
  \A j, k \in DOMAIN user_types : user_types[j] = user_types[k] => j = k

\* The program is never handed the same identifier twice, whatever order the
\* translation units were initialised in.
IssuedInjective ==
  \A j, k \in DOMAIN issued : issued[j] = issued[k] => j = k

\* A metatype of the program takes the identifier of a built-in one (so that
\* mlCallbackMgr::call would take its values for callbacks) exactly when the
\* registry was constructed after the built-ins, and then from the first call on.
ReissueExactlyWhenLate ==
  SeqRange(issued) \cap SeqRange(builtin) # {} <=> construction = "late" /\ issued # <<>>

\* The quadratic rescan always comes to an end.
GenerateReturns == pc = "scan" ~> pc = "idle"

\* From its construction on the registry is an identifier allocator: fresh
\* identifiers while there are any, an exception only when all MAX_TYPE_ID
\* of them are in use.
Allocator == INSTANCE IdAllocator WITH
  Ids   <- 0 .. MaxTypeId - 1,
  taken <- IF construction = "pending" THEN {} ELSE SeqRange(user_types)

AllocatorSpec == Allocator!Spec
=============================================================================
