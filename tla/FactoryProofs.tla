--------------------------- MODULE FactoryProofs ---------------------------
(***************************************************************************)
(* The factory, proved for any number of threads, paths, libraries and     *)
(* interpreters.                                                           *)
(*                                                                         *)
(* What a thread has found out about the vector stays true while others    *)
(* change it, because they only append: the libraries it has compared are  *)
(* other libraries, those it has passed have other names, and what it      *)
(* searches lies ahead of it.                                              *)
(***************************************************************************)
EXTENDS Factory, SequenceTheorems, TLAPS

Names == {NameOf[l] : l \in Libraries}
Loading == {"checking", "checked", "registered", "storing"}

\* What the place of a thread in its operation says about its local variables.
Local(t) ==
  /\ pc[t] \in {"found", "adding"} => at[t] \in DOMAIN libs
  /\ pc[t] \in {"opened", "checking", "checked"} => lib[t] \in Libraries
  /\ pc[t] \in {"registered", "storing"} => lib[t] \in Complete
  /\ pc[t] \in Loading => until[t] <= Len(libs)
  /\ pc[t] \in Loading \ {"checking"} => at[t] > until[t]
  /\ pc[t] \in {"checking", "finding", "searching"} => at[t] >= 1
  /\ pc[t] = "finding" => want[t] \in Names /\ at[t] <= Len(libs) + 1
  /\ pc[t] = "adding" => want[t] \in Ids
  /\ pc[t] = "searching" => want[t] \in Ids \cup Coroutines

\* The libraries load has compared are others than its own.
Compared(t) ==
  pc[t] \in Loading =>
    \A k \in 1 .. until[t] : k < at[t] => libs[k].image # lib[t]

\* Those create_interpreter has passed have other names.
Passed(t) ==
  pc[t] = "finding" =>
    \A k \in DOMAIN libs : k < at[t] => NameOf[libs[k].image] # want[t]

\* A registered interpreter lies ahead of the search for it.
Ahead(t) ==
  pc[t] = "searching" /\ want[t] \in Ids =>
    \E k \in DOMAIN libs : k >= at[t] /\ want[t] \in Runtimes(k)

\* What create_interpreter has chosen is the first library of the name.
Firsts ==
  \A c \in chosen :
    /\ NameOf[libs[c.place].image] = c.name
    /\ \A k \in DOMAIN libs : k < c.place => NameOf[libs[k].image] # c.name

\* One thread at most is storing, and there is room for what it stores.
Writer ==
  \A t \in Threads : pc[t] = "storing" =>
    /\ Len(libs) < capacity
    /\ \A u \in Threads : pc[u] = "storing" => u = t

Locals == \A t \in Threads : Local(t) /\ Compared(t) /\ Passed(t) /\ Ahead(t)

IInv == TypeOK /\ Writer /\ Locals /\ Firsts /\ DuplicatesOverlap /\ SearchComplete

-----------------------------------------------------------------------------

\* A vector as another thread may find it after a step: longer, its elements
\* what they were but for new interpreters.
Grows ==
  /\ Len(libs') >= Len(libs)
  /\ \A k \in DOMAIN libs :
       /\ k \in DOMAIN libs'
       /\ libs'[k].image = libs[k].image
       /\ libs'[k].seen = libs[k].seen
       /\ Runtimes(k) \subseteq Runtimes(k)'

\* The domain of the vector, and its elements.
LEMMA Vector ==
  ASSUME TypeOK
  PROVE  /\ Len(libs) \in Nat /\ DOMAIN libs = 1 .. Len(libs)
         /\ \A k \in DOMAIN libs :
              /\ libs[k] \in [image : Complete, runtimes : Seq(Ids), seen : Nat]
              /\ Runtimes(k) \subseteq Ids
<1>1. libs \in Seq([image : Complete, runtimes : Seq(Ids), seen : Nat])
  BY DEF TypeOK
<1>2. Len(libs) \in Nat /\ DOMAIN libs = 1 .. Len(libs)
  BY <1>1, LenProperties
<1>3. \A k \in DOMAIN libs : libs[k] \in [image : Complete, runtimes : Seq(Ids), seen : Nat]
  BY <1>1, <1>2, ElementOfSeq
<1>4. ASSUME NEW k \in DOMAIN libs PROVE Runtimes(k) \subseteq Ids
  <2>1. libs[k].runtimes \in Seq(Ids)
    BY <1>3
  <2>2. \A j \in DOMAIN libs[k].runtimes : libs[k].runtimes[j] \in Ids
    BY <2>1, LenProperties, ElementOfSeq
  <2> QED
    BY <2>2 DEF Runtimes, Range
<1> QED
  BY <1>2, <1>3, <1>4

\* Storing a library.
LEMMA Stored ==
  ASSUME TypeOK, NEW l \in Complete, NEW n \in Nat, libs' = Append(libs, Entry(l, n))
  PROVE  /\ libs' \in Seq([image : Complete, runtimes : Seq(Ids), seen : Nat])
         /\ Len(libs') = Len(libs) + 1
         /\ DOMAIN libs' = 1 .. Len(libs) + 1
         /\ libs'[Len(libs) + 1] = Entry(l, n)
         /\ \A k \in DOMAIN libs : libs'[k] = libs[k]
         /\ Grows
<1> DEFINE E == [image : Complete, runtimes : Seq(Ids), seen : Nat]
<1>1. Len(libs) \in Nat /\ DOMAIN libs = 1 .. Len(libs)
  BY Vector
<1>2. Entry(l, n) \in E
  <2>1. <<>> \in Seq(Ids)
    BY EmptySeq
  <2> QED
    BY <2>1 DEF Entry
<1>3. libs \in Seq(E)
  BY DEF TypeOK
<1>4. /\ libs' \in Seq(E)
      /\ Len(libs') = Len(libs) + 1
      /\ \A j \in 1 .. Len(libs) : libs'[j] = libs[j]
      /\ libs'[Len(libs) + 1] = Entry(l, n)
  BY <1>2, <1>3, AppendProperties
<1>5. DOMAIN libs' = 1 .. Len(libs) + 1
  BY <1>4, LenProperties
<1>6. Grows
  BY <1>1, <1>4, <1>5 DEF Grows, Runtimes
<1> QED
  BY <1>1, <1>4, <1>5, <1>6

\* Registering an interpreter.
LEMMA Registering ==
  ASSUME TypeOK, NEW k \in DOMAIN libs, NEW i \in Ids,
         libs' = [libs EXCEPT ![k].runtimes = Append(@, i)]
  PROVE  /\ libs' \in Seq([image : Complete, runtimes : Seq(Ids), seen : Nat])
         /\ Len(libs') = Len(libs)
         /\ DOMAIN libs' = DOMAIN libs
         /\ \A j \in DOMAIN libs :
              /\ libs'[j].image = libs[j].image
              /\ libs'[j].seen = libs[j].seen
              /\ j # k => Runtimes(j)' = Runtimes(j)
         /\ Runtimes(k)' = Runtimes(k) \cup {i}
         /\ Grows
<1> DEFINE E == [image : Complete, runtimes : Seq(Ids), seen : Nat]
           r == libs[k].runtimes
<1>1. /\ Len(libs) \in Nat /\ DOMAIN libs = 1 .. Len(libs)
      /\ \A j \in DOMAIN libs : libs[j] \in E
  BY Vector
<1>2. libs' = [libs EXCEPT ![k] = [libs[k] EXCEPT !.runtimes = Append(r, i)]]
  OBVIOUS
<1>3. /\ r \in Seq(Ids) /\ Append(r, i) \in Seq(Ids)
      /\ Len(r) \in Nat /\ DOMAIN r = 1 .. Len(r)
      /\ DOMAIN Append(r, i) = 1 .. Len(r) + 1
      /\ \A j \in 1 .. Len(r) : Append(r, i)[j] = r[j]
      /\ Append(r, i)[Len(r) + 1] = i
  <2>1. r \in Seq(Ids)
    BY <1>1
  <2>2. Append(r, i) \in Seq(Ids) /\ Len(Append(r, i)) = Len(r) + 1
    BY <2>1, AppendProperties
  <2> QED
    BY <2>1, <2>2, AppendProperties, LenProperties
<1>4. libs' \in [1 .. Len(libs) -> E]
  BY ZenonT(40), <1>1, <1>2, <1>3
<1>5. libs' \in Seq(E) /\ Len(libs') = Len(libs) /\ DOMAIN libs' = DOMAIN libs
  <2>1. libs' \in Seq(E)
    <3> HIDE DEF E
    <3> QED
      BY <1>1, <1>4, SeqDef
  <2> QED
    BY <1>1, <1>4, <2>1, LenProperties
<1>6. \A j \in DOMAIN libs :
        /\ libs'[j].image = libs[j].image
        /\ libs'[j].seen = libs[j].seen
        /\ j # k => libs'[j].runtimes = libs[j].runtimes
  BY <1>1, <1>2
<1>7. libs'[k].runtimes = Append(r, i)
  BY <1>1, <1>2
<1>8. Range(Append(r, i)) = Range(r) \cup {i}
  BY <1>3 DEF Range
<1>9. Runtimes(k)' = Runtimes(k) \cup {i}
  BY <1>7, <1>8 DEF Runtimes
<1>10. \A j \in DOMAIN libs : j # k => Runtimes(j)' = Runtimes(j)
  BY <1>6 DEF Runtimes
<1>11. Grows
  BY SMTT(30), <1>1, <1>5, <1>6, <1>9, <1>10 DEF Grows
<1> QED
  BY <1>5, <1>6, <1>9, <1>10, <1>11

-----------------------------------------------------------------------------

Labels == {"idle", "opened", "checking", "checked", "registered", "storing",
           "finding", "found", "adding", "searching"}
Wants == Names \cup Ids \cup Coroutines \cup {Nothing}

ThreadsTyped ==
  /\ pc \in [Threads -> Labels]
  /\ lib \in [Threads -> Libraries \cup {Missing}]
  /\ at \in [Threads -> Nat] /\ until \in [Threads -> Nat] /\ from \in [Threads -> Nat]
  /\ want \in [Threads -> Wants]

\* What a step may change: one thread, and how it may change the vector.
Mine(t) ==
  /\ health = "ok"
  /\ \A u \in Threads \ {t} :
       /\ pc'[u] = pc[u] /\ lib'[u] = lib[u] /\ at'[u] = at[u]
       /\ until'[u] = until[u] /\ from'[u] = from[u] /\ want'[u] = want[u]

LEMMA Step ==
  ASSUME TypeOK, Locals, NEW t \in Threads, Begin(t) \/ Proceed(t)
  PROVE  Mine(t) /\ ThreadsTyped'
<1>0. ThreadsTyped /\ Len(libs) \in Nat /\ storage \in Nat
  BY Vector DEF TypeOK, ThreadsTyped, Labels, Wants, Names
<1> USE <1>0 DEF At, Goto, Return, Race, Advance, Fail, Mine, locals, history, ThreadsTyped, Labels
<1>1. CASE SetExceptions(t)
  BY <1>1 DEF SetExceptions
<1>2. ASSUME NEW p \in Paths, LoadMissing(t, p) PROVE Mine(t) /\ ThreadsTyped'
  BY <1>2 DEF LoadMissing, Wants
<1>3. ASSUME NEW p \in Paths, LoadOpen(t, p) PROVE Mine(t) /\ ThreadsTyped'
  <2>1. Image[p] \in Libraries
    BY <1>3, FactoryAssumption DEF LoadOpen
  <2> QED
    BY <1>3, <2>1 DEF LoadOpen
<1>4. CASE CheckBegin(t)
  BY <1>4 DEF CheckBegin
<1>5. CASE CheckNext(t)
  BY <1>5 DEF CheckNext
<1>6. CASE CheckFound(t)
  BY <1>6 DEF CheckFound, Wants
<1>7. CASE CheckDone(t)
  BY <1>7 DEF CheckDone
<1>8. CASE CheckMoved(t)
  BY <1>8 DEF CheckMoved, Wants
<1>9. CASE SymbolsMissing(t)
  BY <1>9 DEF SymbolsMissing, Wants
<1>10. CASE SymbolsFound(t)
  BY <1>10 DEF SymbolsFound
<1>11. CASE StoreBegin(t)
  BY <1>11 DEF StoreBegin
<1>12. CASE StoreEnd(t)
  BY <1>12 DEF StoreEnd, Wants
<1>13. ASSUME NEW l \in Libraries, CreateByName(t, NameOf[l]) PROVE Mine(t) /\ ThreadsTyped'
  BY <1>13 DEF CreateByName, Wants, Names
<1>14. CASE FindNext(t)
  BY <1>14 DEF FindNext
<1>15. CASE FindFound(t)
  BY <1>15 DEF FindFound
<1>16. CASE FindNone(t)
  BY <1>16 DEF FindNone, Wants
<1>17. ASSUME NEW k \in DOMAIN libs, CreateFrom(t, k) PROVE Mine(t) /\ ThreadsTyped'
  BY <1>17, Vector DEF CreateFrom
<1>18. ASSUME NEW i \in Ids, AddBegin(t, i) PROVE Mine(t) /\ ThreadsTyped'
  BY <1>18 DEF AddBegin, Wants
<1>19. CASE AddNone(t)
  BY <1>19 DEF AddNone, Wants
<1>20. CASE AddEnd(t)
  BY <1>20 DEF AddEnd, Wants
<1>21. ASSUME NEW i \in Ids \cup Coroutines, Search(t, i) PROVE Mine(t) /\ ThreadsTyped'
  BY <1>21 DEF Search, Wants
<1>22. CASE SearchNext(t)
  BY <1>22 DEF SearchNext
<1>23. CASE SearchFound(t)
  BY <1>23 DEF SearchFound, Wants
<1>24. CASE SearchNone(t)
  BY <1>24 DEF SearchNone, Wants
<1>25. CASE Interference(t)
  BY <1>25 DEF Interference
<1> QED
  BY <1>1, <1>2, <1>3, <1>4, <1>5, <1>6, <1>7, <1>8, <1>9, <1>10, <1>11, <1>12, <1>13, <1>14,
     <1>15, <1>16, <1>17, <1>18, <1>19, <1>20, <1>21, <1>22, <1>23, <1>24, <1>25
     DEF Begin, Proceed

-----------------------------------------------------------------------------

\* Only the ends of push_back change the vector.
LEMMA Quiet ==
  ASSUME NEW t \in Threads, Begin(t) \/ Proceed(t), ~StoreEnd(t), ~AddEnd(t)
  PROVE  libs' = libs
<1> USE DEF Return, Race, Advance, Fail
<1>1. CASE Begin(t)
  BY <1>1 DEF Begin, SetExceptions, LoadMissing, LoadOpen, CreateByName, CreateFrom, Search
<1>2. CASE CheckBegin(t) \/ CheckNext(t) \/ CheckFound(t) \/ CheckDone(t) \/ CheckMoved(t)
  BY <1>2 DEF CheckBegin, CheckNext, CheckFound, CheckDone, CheckMoved
<1>3. CASE SymbolsMissing(t) \/ SymbolsFound(t) \/ StoreBegin(t)
  BY <1>3 DEF SymbolsMissing, SymbolsFound, StoreBegin
<1>4. CASE FindNext(t) \/ FindFound(t) \/ FindNone(t) \/ AddNone(t)
  BY <1>4 DEF FindNext, FindFound, FindNone, AddNone
<1>5. ASSUME NEW i \in Ids, AddBegin(t, i) PROVE libs' = libs
  BY <1>5 DEF AddBegin
<1>6. CASE SearchNext(t) \/ SearchFound(t) \/ SearchNone(t) \/ Interference(t)
  BY <1>6 DEF SearchNext, SearchFound, SearchNone, Interference
<1> QED
  BY <1>1, <1>2, <1>3, <1>4, <1>5, <1>6 DEF Proceed

\* The vector only grows.
LEMMA Growing ==
  ASSUME TypeOK, Locals, NEW t \in Threads, Begin(t) \/ Proceed(t)
  PROVE  /\ Grows
         /\ libs' \in Seq([image : Complete, runtimes : Seq(Ids), seen : Nat])
         /\ \A k \in DOMAIN libs' \ DOMAIN libs : k = Len(libs) + 1
<1>1. CASE libs' = libs
  BY <1>1, Vector DEF Grows, Runtimes, TypeOK
<1>2. CASE StoreEnd(t)
  <2>1. lib[t] \in Complete
    BY <1>2 DEF StoreEnd, At, Locals, Local
  <2>2. until[t] \in Nat /\ libs' = Append(libs, Entry(lib[t], until[t]))
    BY <1>2 DEF StoreEnd, TypeOK
  <2>3. /\ libs' \in Seq([image : Complete, runtimes : Seq(Ids), seen : Nat])
        /\ DOMAIN libs' = 1 .. Len(libs) + 1
        /\ Grows
    BY <2>1, <2>2, Stored
  <2> QED
    BY <2>3, Vector
<1>3. CASE AddEnd(t)
  <2>1. at[t] \in DOMAIN libs /\ want[t] \in Ids
    BY <1>3 DEF AddEnd, At, Locals, Local
  <2>2. libs' = [libs EXCEPT ![at[t]].runtimes = Append(@, want[t])]
    BY <1>3 DEF AddEnd
  <2> QED
    BY <2>1, <2>2, Registering
<1> QED
  BY <1>1, <1>2, <1>3, Quiet

\* What the other threads have found out stays true.
LEMMA Theirs ==
  ASSUME TypeOK, Locals, NEW t \in Threads, Begin(t) \/ Proceed(t),
         NEW u \in Threads, u # t
  PROVE  Local(u)' /\ Compared(u)' /\ Passed(u)' /\ Ahead(u)'
<1>1. /\ pc'[u] = pc[u] /\ lib'[u] = lib[u] /\ at'[u] = at[u]
      /\ until'[u] = until[u] /\ from'[u] = from[u] /\ want'[u] = want[u]
  BY Step DEF Mine
<1>2. Local(u) /\ Compared(u) /\ Passed(u) /\ Ahead(u)
  BY DEF Locals
<1>3. /\ Grows
      /\ \A k \in DOMAIN libs' \ DOMAIN libs : k = Len(libs) + 1
  BY Growing
<1>4. /\ Len(libs) \in Nat /\ Len(libs') \in Nat
      /\ DOMAIN libs = 1 .. Len(libs) /\ DOMAIN libs' = 1 .. Len(libs')
      /\ at[u] \in Nat /\ until[u] \in Nat
  BY Vector, Growing, LenProperties DEF TypeOK
<1>5. Local(u)'
  BY <1>1, <1>2, <1>3, <1>4 DEF Local, Grows
<1>6. Compared(u)'
  <2>1. SUFFICES ASSUME pc[u] \in Loading, NEW k \in 1 .. until[u], k < at[u]
                 PROVE  libs'[k].image # lib[u]
    BY <1>1 DEF Compared
  <2>2. k \in DOMAIN libs
    BY <2>1, <1>2, <1>4 DEF Local
  <2> QED
    BY <2>1, <2>2, <1>2, <1>3 DEF Compared, Grows
<1>7. Passed(u)'
  <2>1. SUFFICES ASSUME pc[u] = "finding", NEW k \in DOMAIN libs', k < at[u]
                 PROVE  NameOf[libs'[k].image] # want[u]
    BY <1>1 DEF Passed
  <2>2. k \in DOMAIN libs
    BY <2>1, <1>2, <1>3, <1>4 DEF Local
  <2> QED
    BY <2>1, <2>2, <1>2, <1>3 DEF Passed, Grows
<1>8. Ahead(u)'
  BY <1>1, <1>2, <1>3 DEF Ahead, Grows
<1> QED
  BY <1>5, <1>6, <1>7, <1>8

\* What a thread finds out is true when it does.
LEMMA Its ==
  ASSUME TypeOK, Locals, NEW t \in Threads, Begin(t) \/ Proceed(t)
  PROVE  Local(t)' /\ Compared(t)' /\ Passed(t)' /\ Ahead(t)'
<1> DEFINE Goal == Local(t)' /\ Compared(t)' /\ Passed(t)' /\ Ahead(t)'
<1>0. /\ ThreadsTyped
      /\ Len(libs) \in Nat /\ DOMAIN libs = 1 .. Len(libs)
      /\ \A k \in DOMAIN libs : libs[k].image \in Complete
  BY Vector DEF TypeOK, ThreadsTyped, Labels, Wants, Names
<1>00. Local(t) /\ Compared(t) /\ Passed(t) /\ Ahead(t)
  BY DEF Locals
<1>a. ASSUME pc'[t] \in {"idle", "opened"}, pc'[t] = "opened" => lib'[t] \in Libraries PROVE Goal
  BY <1>a DEF Local, Compared, Passed, Ahead, Loading
<1> USE <1>0 DEF At, Goto, Return, Race, Advance, Fail, locals, history, ThreadsTyped, Labels
<1>1. CASE SetExceptions(t)
  BY <1>1, <1>a DEF SetExceptions
<1>2. ASSUME NEW p \in Paths, LoadMissing(t, p) PROVE Goal
  BY <1>2, <1>a DEF LoadMissing
<1>3. ASSUME NEW p \in Paths, LoadOpen(t, p) PROVE Goal
  BY <1>3, <1>a, FactoryAssumption DEF LoadOpen
<1>4. CASE CheckBegin(t)
  BY <1>4, <1>00 DEF CheckBegin, Local, Compared, Passed, Ahead, Loading
<1>5. CASE CheckNext(t)
  BY <1>5, <1>00 DEF CheckNext, Local, Compared, Passed, Ahead, Loading
<1>6. CASE CheckFound(t)
  BY <1>6, <1>a DEF CheckFound
<1>7. CASE CheckDone(t)
  BY <1>7, <1>00 DEF CheckDone, Local, Compared, Passed, Ahead, Loading
<1>8. CASE CheckMoved(t)
  BY <1>8, <1>a DEF CheckMoved
<1>9. CASE SymbolsMissing(t)
  BY <1>9, <1>a DEF SymbolsMissing
<1>10. CASE SymbolsFound(t)
  BY <1>10, <1>00 DEF SymbolsFound, Local, Compared, Passed, Ahead, Loading
<1>11. CASE StoreBegin(t)
  BY <1>11, <1>00 DEF StoreBegin, Local, Compared, Passed, Ahead, Loading
<1>12. CASE StoreEnd(t)
  BY <1>12, <1>a DEF StoreEnd
<1>13. ASSUME NEW l \in Libraries, CreateByName(t, NameOf[l]) PROVE Goal
  BY <1>13 DEF CreateByName, Names, Local, Compared, Passed, Ahead, Loading
<1>14. CASE FindNext(t)
  BY <1>14, <1>00 DEF FindNext, Local, Compared, Passed, Ahead, Loading
<1>15. CASE FindFound(t)
  BY <1>15, <1>00 DEF FindFound, Local, Compared, Passed, Ahead, Loading
<1>16. CASE FindNone(t)
  BY <1>16, <1>a DEF FindNone
<1>17. ASSUME NEW k \in DOMAIN libs, CreateFrom(t, k) PROVE Goal
  BY <1>17 DEF CreateFrom, Local, Compared, Passed, Ahead, Loading
<1>18. ASSUME NEW i \in Ids, AddBegin(t, i) PROVE Goal
  BY <1>18, <1>00 DEF AddBegin, Local, Compared, Passed, Ahead, Loading
<1>19. CASE AddNone(t)
  BY <1>19, <1>a DEF AddNone
<1>20. CASE AddEnd(t)
  BY <1>20, <1>a DEF AddEnd
<1>21. ASSUME NEW i \in Ids \cup Coroutines, Search(t, i) PROVE Goal
  <2>1. i \in Ids => \E k \in DOMAIN libs : i \in Runtimes(k)
    BY <1>21, FactoryAssumption DEF Search, Registered
  <2>2. i \in Ids => \E k \in DOMAIN libs : k >= 1 /\ i \in Runtimes(k)
    BY <2>1
  <2> QED
    BY <1>21, <2>2 DEF Search, Local, Compared, Passed, Ahead, Loading, Runtimes
<1>22. CASE SearchNext(t)
  BY <1>22, <1>00 DEF SearchNext, Local, Compared, Passed, Ahead, Loading, Runtimes
<1>23. CASE SearchFound(t)
  BY <1>23, <1>a DEF SearchFound
<1>24. CASE SearchNone(t)
  BY <1>24, <1>a DEF SearchNone
<1>25. CASE Interference(t)
  BY <1>25, <1>00 DEF Interference, Local, Compared, Passed, Ahead, Loading, Runtimes
<1> QED
  BY <1>1, <1>2, <1>3, <1>4, <1>5, <1>6, <1>7, <1>8, <1>9, <1>10, <1>11, <1>12, <1>13, <1>14,
     <1>15, <1>16, <1>17, <1>18, <1>19, <1>20, <1>21, <1>22, <1>23, <1>24, <1>25
     DEF Begin, Proceed

-----------------------------------------------------------------------------

LEMMA WriterStep ==
  ASSUME TypeOK, Writer, Locals, NEW t \in Threads, Begin(t) \/ Proceed(t)
  PROVE  /\ Writer'
         /\ capacity' \in Nat /\ storage' \in Nat /\ Len(libs') <= capacity'
<1>0. /\ ThreadsTyped /\ Mine(t)
      /\ Len(libs) \in Nat /\ capacity \in Nat /\ storage \in Nat /\ Len(libs) <= capacity
  BY Vector, Step DEF TypeOK, ThreadsTyped, Labels, Wants, Names
<1> USE DEF At, Goto, Return, Race, Advance, Fail, locals, history, ThreadsTyped, Labels
<1>1. CASE StoreBegin(t)
  <2>1. \A u \in Threads \ {t} : pc[u] # "storing"
    BY <1>1 DEF StoreBegin, LibsBusy
  <2>2. /\ libs' = libs /\ pc' = [pc EXCEPT ![t] = "storing"]
    BY <1>1 DEF StoreBegin
  <2>3. capacity' \in Nat /\ Len(libs) < capacity' /\ storage' \in Nat
    BY <1>0, <1>1 DEF StoreBegin
  <2> QED
    BY <1>0, <2>1, <2>2, <2>3 DEF Writer
<1>2. CASE StoreEnd(t)
  <2>1. lib[t] \in Complete /\ until[t] \in Nat
    BY <1>0, <1>2 DEF StoreEnd, Locals, Local
  <2>2. Len(libs') = Len(libs) + 1
    BY <1>2, <2>1, Stored DEF StoreEnd
  <2>3. Len(libs) < capacity /\ \A u \in Threads \ {t} : pc[u] # "storing"
    BY <1>2 DEF Writer, StoreEnd
  <2>4. \A u \in Threads : pc'[u] # "storing"
    BY <1>0, <1>2, <2>3 DEF StoreEnd, Mine
  <2> QED
    BY <1>0, <1>2, <2>2, <2>3, <2>4 DEF Writer, StoreEnd
<1>3. CASE AddEnd(t)
  <2>1. at[t] \in DOMAIN libs /\ want[t] \in Ids
    BY <1>3 DEF AddEnd, Locals, Local
  <2>2. Len(libs') = Len(libs)
    BY <1>3, <2>1, Registering DEF AddEnd
  <2>3. \A u \in Threads : pc'[u] = "storing" => pc[u] = "storing"
    BY <1>0, <1>3 DEF AddEnd, Mine
  <2> QED
    BY <1>0, <1>3, <2>2, <2>3 DEF Writer, AddEnd
<1>4. CASE ~StoreBegin(t) /\ ~StoreEnd(t) /\ ~AddEnd(t)
  <2>1. libs' = libs
    BY <1>4, Quiet
  <2>2. pc'[t] # "storing" /\ UNCHANGED <<capacity, storage>>
    <3>1. CASE Begin(t)
      BY <3>1, <1>0 DEF Begin, SetExceptions, LoadMissing, LoadOpen, CreateByName, CreateFrom, Search
    <3>2. CASE CheckBegin(t) \/ CheckNext(t) \/ CheckFound(t) \/ CheckDone(t) \/ CheckMoved(t)
      BY <3>2, <1>0 DEF CheckBegin, CheckNext, CheckFound, CheckDone, CheckMoved
    <3>3. CASE SymbolsMissing(t) \/ SymbolsFound(t)
      BY <3>3, <1>0 DEF SymbolsMissing, SymbolsFound
    <3>4. CASE FindNext(t) \/ FindFound(t) \/ FindNone(t) \/ AddNone(t)
      BY <3>4, <1>0 DEF FindNext, FindFound, FindNone, AddNone
    <3>5. ASSUME NEW i \in Ids, AddBegin(t, i) PROVE pc'[t] # "storing" /\ UNCHANGED <<capacity, storage>>
      BY <3>5, <1>0 DEF AddBegin
    <3>6. CASE SearchNext(t) \/ SearchFound(t) \/ SearchNone(t) \/ Interference(t)
      BY <3>6, <1>0 DEF SearchNext, SearchFound, SearchNone, Interference
    <3> QED
      BY <1>4, <3>1, <3>2, <3>3, <3>4, <3>5, <3>6 DEF Proceed
  <2>3. \A u \in Threads : pc'[u] = "storing" => pc[u] = "storing"
    BY <1>0, <2>2 DEF Mine
  <2> QED
    BY <1>0, <2>1, <2>2, <2>3 DEF Writer
<1> QED
  BY <1>1, <1>2, <1>3, <1>4

\* Only the ends of the two searches change the history.
LEMMA Silent ==
  ASSUME TypeOK, NEW t \in Threads, Begin(t) \/ Proceed(t)
  PROVE  /\ exceptions' \in {"yes", "no"} /\ health' \in {"ok", "undefined"}
         /\ outcome' \in {"none", "null", "thrown", "library", "interpreter", "indeterminate"}
         /\ ~FindFound(t) => chosen' = chosen
         /\ ~SearchNone(t) => unfound' = unfound
<1> DEFINE Typed ==
       /\ exceptions' \in {"yes", "no"} /\ health' \in {"ok", "undefined"}
       /\ outcome' \in {"none", "null", "thrown", "library", "interpreter", "indeterminate"}
<1>0. /\ exceptions \in {"yes", "no"} /\ health \in {"ok", "undefined"}
      /\ outcome \in {"none", "null", "thrown", "library", "interpreter", "indeterminate"}
  BY DEF TypeOK
<1> USE <1>0 DEF At, Goto, Return, Race, Advance, Fail, locals, history
<1>1. ASSUME SetExceptions(t) PROVE Typed /\ chosen' = chosen /\ unfound' = unfound
  BY <1>1 DEF SetExceptions
<1>2. ASSUME NEW p \in Paths, LoadMissing(t, p) \/ LoadOpen(t, p)
      PROVE  Typed /\ chosen' = chosen /\ unfound' = unfound
  BY <1>2 DEF LoadMissing, LoadOpen
<1>3. ASSUME CheckBegin(t) \/ CheckNext(t) \/ CheckFound(t) \/ CheckDone(t) \/ CheckMoved(t)
      PROVE  Typed /\ chosen' = chosen /\ unfound' = unfound
  BY <1>3 DEF CheckBegin, CheckNext, CheckFound, CheckDone, CheckMoved
<1>4. ASSUME SymbolsMissing(t) \/ SymbolsFound(t) \/ StoreBegin(t) \/ StoreEnd(t)
      PROVE  Typed /\ chosen' = chosen /\ unfound' = unfound
  BY <1>4 DEF SymbolsMissing, SymbolsFound, StoreBegin, StoreEnd
<1>5. ASSUME (\E l \in Libraries : CreateByName(t, NameOf[l])) \/ (\E k \in DOMAIN libs : CreateFrom(t, k))
      PROVE  Typed /\ chosen' = chosen /\ unfound' = unfound
  BY <1>5 DEF CreateByName, CreateFrom
<1>6. ASSUME FindNext(t) \/ FindNone(t)
      PROVE  Typed /\ chosen' = chosen /\ unfound' = unfound
  BY <1>6 DEF FindNext, FindNone
<1>7. ASSUME FindFound(t) PROVE Typed /\ unfound' = unfound
  BY <1>7 DEF FindFound
<1>8. ASSUME (\E i \in Ids : AddBegin(t, i)) \/ AddNone(t) \/ AddEnd(t)
      PROVE  Typed /\ chosen' = chosen /\ unfound' = unfound
  BY <1>8 DEF AddBegin, AddNone, AddEnd
<1>9. ASSUME (\E i \in Ids \cup Coroutines : Search(t, i)) \/ SearchNext(t) \/ SearchFound(t)
      PROVE  Typed /\ chosen' = chosen /\ unfound' = unfound
  BY <1>9 DEF Search, SearchNext, SearchFound
<1>10. ASSUME SearchNone(t) PROVE Typed /\ chosen' = chosen
  BY <1>10 DEF SearchNone
<1>11. ASSUME Interference(t)
       PROVE  Typed /\ chosen' = chosen /\ unfound' = unfound
  BY <1>11 DEF Interference
<1> HIDE DEF Typed
<1>12. Typed /\ (~FindFound(t) => chosen' = chosen) /\ (~SearchNone(t) => unfound' = unfound)
  BY <1>1, <1>2, <1>3, <1>4, <1>5, <1>6, <1>7, <1>8, <1>9, <1>10, <1>11 DEF Begin, Proceed
<1> QED
  BY <1>12 DEF Typed

LEMMA FirstsStep ==
  ASSUME TypeOK, Locals, Firsts, NEW t \in Threads, Begin(t) \/ Proceed(t)
  PROVE  Firsts' /\ chosen' \subseteq [name : Names, place : DOMAIN libs']
<1>1. /\ Grows
      /\ \A k \in DOMAIN libs' \ DOMAIN libs : k = Len(libs) + 1
      /\ Len(libs) \in Nat /\ DOMAIN libs = 1 .. Len(libs)
  BY Growing, Vector
<1>2. chosen \subseteq [name : Names, place : DOMAIN libs]
  BY DEF TypeOK, Names
<1>3. CASE chosen' = chosen
  <2>1. chosen' \subseteq [name : Names, place : DOMAIN libs']
    BY <1>1, <1>2, <1>3 DEF Grows
  <2>2. SUFFICES ASSUME NEW c \in chosen
                 PROVE  /\ NameOf[libs'[c.place].image] = c.name
                        /\ \A k \in DOMAIN libs' : k < c.place => NameOf[libs'[k].image] # c.name
    BY <1>3, <2>1 DEF Firsts
  <2>3. c.place \in DOMAIN libs
    BY <1>2
  <2>4. \A k \in DOMAIN libs' : k < c.place => k \in DOMAIN libs
    BY <1>1, <2>3
  <2> QED
    BY <1>1, <2>3, <2>4 DEF Firsts, Grows
<1>4. CASE FindFound(t)
  <2>1. /\ at[t] \in Nat /\ at[t] <= Len(libs) /\ NameOf[libs[at[t]].image] = want[t]
        /\ pc[t] = "finding" /\ libs' = libs
        /\ chosen' = chosen \cup {[name |-> want[t], place |-> at[t]]}
    BY <1>4 DEF FindFound, At, TypeOK
  <2>2. Local(t) /\ Passed(t)
    BY DEF Locals
  <2>3. want[t] \in Names /\ at[t] \in DOMAIN libs
    BY <1>1, <2>1, <2>2 DEF Local
  <2>4. \A k \in DOMAIN libs : k < at[t] => NameOf[libs[k].image] # want[t]
    BY <2>1, <2>2 DEF Passed
  <2>5. chosen' \subseteq [name : Names, place : DOMAIN libs']
    BY <1>2, <2>1, <2>3
  <2>6. \A c \in chosen' : c \in chosen \/ c = [name |-> want[t], place |-> at[t]]
    BY <2>1
  <2> QED
    BY <2>1, <2>4, <2>5, <2>6 DEF Firsts
<1> QED
  BY <1>3, <1>4, Silent

LEMMA DuplicatesStep ==
  ASSUME TypeOK, Locals, DuplicatesOverlap, NEW t \in Threads, Begin(t) \/ Proceed(t)
  PROVE  DuplicatesOverlap'
<1>1. Len(libs) \in Nat /\ DOMAIN libs = 1 .. Len(libs)
  BY Vector
<1>2. CASE StoreEnd(t)
  <2>1. lib[t] \in Complete /\ pc[t] = "storing" /\ Compared(t) /\ Local(t)
    BY <1>2 DEF StoreEnd, At, Locals, Local
  <2>2. until[t] \in Nat /\ at[t] \in Nat /\ libs' = Append(libs, Entry(lib[t], until[t]))
    BY <1>2 DEF StoreEnd, TypeOK
  <2>3. /\ DOMAIN libs' = 1 .. Len(libs) + 1
        /\ libs'[Len(libs) + 1] = Entry(lib[t], until[t])
        /\ \A k \in DOMAIN libs : libs'[k] = libs[k]
    BY <2>1, <2>2, Stored
  <2>4. \A k \in 1 .. until[t] : libs[k].image # lib[t]
    BY <2>1, <2>2 DEF Compared, Local, Loading
  <2>5. SUFFICES ASSUME NEW j \in DOMAIN libs', NEW k \in DOMAIN libs',
                        j < k, libs'[j].image = libs'[k].image
                 PROVE  libs'[k].seen < j
    BY DEF DuplicatesOverlap
  <2>6. CASE k \in DOMAIN libs
    BY <1>1, <2>3, <2>5, <2>6 DEF DuplicatesOverlap
  <2>7. CASE k = Len(libs) + 1
    <3>1. libs'[k].seen = until[t] /\ libs'[k].image = lib[t]
      BY <2>3, <2>7 DEF Entry
    <3>2. j \in DOMAIN libs /\ libs[j].image = lib[t]
      BY <1>1, <2>3, <2>5, <2>7, <3>1
    <3> QED
      BY <1>1, <2>2, <2>4, <3>1, <3>2
  <2> QED
    BY <1>1, <2>3, <2>6, <2>7
<1>3. CASE AddEnd(t)
  <2>1. at[t] \in DOMAIN libs /\ want[t] \in Ids
    BY <1>3 DEF AddEnd, At, Locals, Local
  <2>2. /\ DOMAIN libs' = DOMAIN libs
        /\ \A j \in DOMAIN libs : libs'[j].image = libs[j].image /\ libs'[j].seen = libs[j].seen
    BY <1>3, <2>1, Registering DEF AddEnd
  <2> QED
    BY <2>2 DEF DuplicatesOverlap
<1>4. CASE libs' = libs
  BY <1>4 DEF DuplicatesOverlap
<1> QED
  BY <1>2, <1>3, <1>4, Quiet

LEMMA SearchStep ==
  ASSUME TypeOK, Locals, SearchComplete, NEW t \in Threads, Begin(t) \/ Proceed(t)
  PROVE  SearchComplete' /\ unfound' \subseteq Ids \cup Coroutines
<1>1. unfound \subseteq Ids \cup Coroutines
  BY DEF TypeOK
<1>2. CASE SearchNone(t)
  <2>1. /\ pc[t] = "searching" /\ at[t] > Len(libs) /\ at[t] \in Nat
        /\ unfound' = unfound \cup {want[t]}
    BY <1>2 DEF SearchNone, At, TypeOK
  <2>2. Ahead(t) /\ want[t] \in Ids \cup Coroutines
    BY <2>1 DEF Locals, Local
  <2>3. want[t] \notin Ids
    BY <2>1, <2>2, Vector DEF Ahead
  <2> QED
    BY <1>1, <2>1, <2>2, <2>3 DEF SearchComplete
<1>3. CASE unfound' = unfound
  BY <1>1, <1>3 DEF SearchComplete
<1> QED
  BY <1>2, <1>3, Silent

-----------------------------------------------------------------------------

LEMMA Initially == Init => IInv
<1> SUFFICES ASSUME Init PROVE IInv
  OBVIOUS
<1>1. libs = <<>> /\ Len(libs) = 0 /\ DOMAIN libs = {}
  BY EmptySeq DEF Init
<1>2. TypeOK
  BY <1>1, EmptySeq DEF Init, TypeOK
<1>3. Writer /\ Locals
  BY DEF Init, Writer, Locals, Local, Compared, Passed, Ahead, Loading
<1>4. Firsts /\ SearchComplete
  BY DEF Init, Firsts, SearchComplete
<1>5. DuplicatesOverlap
  BY <1>1 DEF DuplicatesOverlap
<1> QED
  BY <1>2, <1>3, <1>4, <1>5 DEF IInv

\* IInv depends on the variables only.
LEMMA Stutters ==
  ASSUME IInv, UNCHANGED vars
  PROVE  IInv'
BY DEF vars, locals, history, IInv, TypeOK, Writer, Locals, Local, Compared, Passed, Ahead,
       Runtimes, Firsts, DuplicatesOverlap, SearchComplete

\* A step of a thread keeps the invariant.
LEMMA Kept ==
  ASSUME IInv, NEW t \in Threads, Begin(t) \/ Proceed(t)
  PROVE  IInv'
<1> USE DEF IInv
<1>1. Locals'
  BY Its, Theirs DEF Locals
<1>2. TypeOK'
  <2>1. libs' \in Seq([image : Complete, runtimes : Seq(Ids), seen : Nat])
    BY Growing
  <2>2. ThreadsTyped'
    BY Step
  <2>3. capacity' \in Nat /\ storage' \in Nat /\ Len(libs') <= capacity'
    BY WriterStep
  <2>4. chosen' \subseteq [name : Names, place : DOMAIN libs'] /\ unfound' \subseteq Ids \cup Coroutines
    BY FirstsStep, SearchStep
  <2>5. /\ exceptions' \in {"yes", "no"} /\ health' \in {"ok", "undefined"}
        /\ outcome' \in {"none", "null", "thrown", "library", "interpreter", "indeterminate"}
    BY Silent
  <2> QED
    BY <2>1, <2>2, <2>3, <2>4, <2>5 DEF TypeOK, ThreadsTyped, Labels, Wants, Names
<1>3. Writer' /\ Firsts' /\ DuplicatesOverlap' /\ SearchComplete'
  BY WriterStep, FirstsStep, DuplicatesStep, SearchStep
<1> QED
  BY <1>1, <1>2, <1>3

\* Everything above, of every reachable state.
THEOREM Invariant == Spec => []IInv
<1>1. Init => IInv
  BY Initially
<1>2. IInv /\ [Next]_vars => IInv'
  <2>1. SUFFICES ASSUME IInv, [Next]_vars PROVE IInv'
    OBVIOUS
  <2>2. CASE Next
    BY <2>1, <2>2, Kept DEF Next
  <2>3. CASE UNCHANGED vars
    BY <2>1, <2>3, Stutters
  <2> QED
    BY <2>1, <2>2, <2>3
<1> QED
  BY <1>1, <1>2, PTL DEF Spec

\* The vectors and every thread's local variables keep their types.
THEOREM Types == Spec => []TypeOK
BY Invariant, PTL DEF IInv

\* Two loads store one library twice only if they overlap.
THEOREM Duplicates == Spec => []DuplicatesOverlap
BY Invariant, PTL DEF IInv

\* No registered interpreter is missed by the search for it.
THEOREM Searches == Spec => []SearchComplete
BY Invariant, PTL DEF IInv

\* A name means one library for good.
THEOREM NamesStay == Spec => []OneLibraryPerName
<1>1. IInv => OneLibraryPerName
  <2>1. SUFFICES ASSUME IInv, NEW a \in chosen, NEW b \in chosen, a.name = b.name
                 PROVE  a.place = b.place
    BY DEF OneLibraryPerName
  <2>2. a.place \in DOMAIN libs /\ b.place \in DOMAIN libs
    BY <2>1 DEF IInv, TypeOK
  <2>3. ~(a.place < b.place) /\ ~(b.place < a.place)
    BY <2>1, <2>2 DEF IInv, Firsts
  <2>4. a.place \in Nat /\ b.place \in Nat
    BY <2>1, <2>2, Vector DEF IInv
  <2> QED
    BY <2>3, <2>4
<1> QED
  BY <1>1, Invariant, PTL

-----------------------------------------------------------------------------

\* A host with one thread finds the vector as it has left it.
Alone == \A t, u \in Threads : t = u

Undisturbed ==
  /\ health = "ok"
  /\ \A t \in Threads :
       /\ pc[t] \in Loading => until[t] = Len(libs)
       /\ pc[t] = "checking" => from[t] = storage
  /\ \A k \in DOMAIN libs : libs[k].seen = k - 1

LEMMA UndisturbedStep ==
  ASSUME IInv, Alone, Undisturbed, NEW t \in Threads, Begin(t) \/ Proceed(t)
  PROVE  Undisturbed'
<1> USE DEF IInv
<1>0. /\ ThreadsTyped /\ health = "ok"
      /\ Len(libs) \in Nat /\ DOMAIN libs = 1 .. Len(libs)
      /\ \A u \in Threads : u = t
      /\ pc[t] \in Loading => until[t] = Len(libs)
      /\ pc[t] = "checking" => from[t] = storage
      /\ \A k \in DOMAIN libs : libs[k].seen = k - 1
  BY Vector DEF TypeOK, ThreadsTyped, Labels, Wants, Names, Alone, Undisturbed
<1> DEFINE Calm ==
       /\ health' = "ok"
       /\ pc'[t] \in Loading => until'[t] = Len(libs)
       /\ pc'[t] = "checking" => from'[t] = storage'
<1> USE <1>0 DEF At, Goto, Return, Advance, Fail, locals, history, ThreadsTyped, Labels, Loading
<1>1. ASSUME SetExceptions(t) PROVE Calm
  BY <1>1 DEF SetExceptions
<1>2. ASSUME NEW p \in Paths, LoadMissing(t, p) \/ LoadOpen(t, p) PROVE Calm
  BY <1>2 DEF LoadMissing, LoadOpen
<1>3. ASSUME CheckBegin(t) \/ CheckNext(t) PROVE Calm
  BY <1>3 DEF CheckBegin, CheckNext
<1>4. ASSUME CheckFound(t) \/ CheckDone(t) PROVE Calm
  BY <1>4 DEF CheckFound, CheckDone
<1>5. ASSUME CheckMoved(t) PROVE Calm
  BY <1>5 DEF CheckMoved
<1>6. ASSUME SymbolsMissing(t) \/ SymbolsFound(t) \/ StoreBegin(t) PROVE Calm
  BY <1>6 DEF SymbolsMissing, SymbolsFound, StoreBegin
<1>7. ASSUME (\E l \in Libraries : CreateByName(t, NameOf[l])) \/ (\E k \in DOMAIN libs : CreateFrom(t, k))
      PROVE  Calm
  BY <1>7 DEF CreateByName, CreateFrom
<1>8. ASSUME FindNext(t) \/ FindFound(t) \/ FindNone(t) PROVE Calm
  BY <1>8 DEF FindNext, FindFound, FindNone
<1>9. ASSUME (\E i \in Ids : AddBegin(t, i)) \/ AddNone(t) PROVE Calm
  BY <1>9 DEF AddBegin, AddNone
<1>10. ASSUME (\E i \in Ids \cup Coroutines : Search(t, i)) \/ SearchNext(t) \/ SearchFound(t) \/ SearchNone(t)
       PROVE  Calm
  BY <1>10 DEF Search, SearchNext, SearchFound, SearchNone
<1>11. ~Interference(t)
  BY DEF Interference, LibsBusy, RuntimesBusy
<1>12. ASSUME libs' = libs, Calm PROVE Undisturbed'
  BY <1>12 DEF Undisturbed
<1>13. ASSUME StoreEnd(t) PROVE Undisturbed'
  <2>1. lib[t] \in Complete /\ pc[t] = "storing"
    BY <1>13 DEF StoreEnd, Locals, Local
  <2>2. libs' = Append(libs, Entry(lib[t], until[t])) /\ until[t] \in Nat
    BY <1>13 DEF StoreEnd
  <2>3. /\ DOMAIN libs' = 1 .. Len(libs) + 1
        /\ libs'[Len(libs) + 1] = Entry(lib[t], until[t])
        /\ \A k \in DOMAIN libs : libs'[k] = libs[k]
    BY <2>1, <2>2, Stored
  <2>4. Entry(lib[t], until[t]).seen = Len(libs)
    BY <2>1 DEF Entry
  <2>5. \A k \in DOMAIN libs' : libs'[k].seen = k - 1
    BY <2>3, <2>4
  <2>6. pc'[t] = "idle" /\ health' = "ok"
    BY <1>13 DEF StoreEnd
  <2> QED
    BY <2>5, <2>6 DEF Undisturbed
<1>14. ASSUME AddEnd(t) PROVE Undisturbed'
  <2>1. at[t] \in DOMAIN libs /\ want[t] \in Ids
    BY <1>14 DEF AddEnd, Locals, Local
  <2>2. /\ DOMAIN libs' = DOMAIN libs
        /\ \A j \in DOMAIN libs : libs'[j].seen = libs[j].seen
    BY <1>14, <2>1, Registering DEF AddEnd
  <2>3. pc'[t] = "idle" /\ health' = "ok"
    BY <1>14 DEF AddEnd
  <2> QED
    BY <2>2, <2>3 DEF Undisturbed
<1> HIDE DEF Calm
<1>15. StoreEnd(t) \/ AddEnd(t) \/ Calm
  BY <1>1, <1>2, <1>3, <1>4, <1>5, <1>6, <1>7, <1>8, <1>9, <1>10, <1>11 DEF Begin, Proceed
<1> QED
  BY <1>12, <1>13, <1>14, <1>15, Quiet

\* A host with one thread meets no data race and no library twice.
THEOREM AloneSafe == Spec => []AloneIsSafe
<1> DEFINE J == IInv /\ (Alone => Undisturbed)
<1>1. Init => J
  BY Initially, EmptySeq DEF Init, Undisturbed, Loading
<1>2. J /\ [Next]_vars => J'
  <2>1. SUFFICES ASSUME J, [Next]_vars PROVE J'
    OBVIOUS
  <2>2. CASE Next
    <3>1. PICK t \in Threads : Begin(t) \/ Proceed(t)
      BY <2>2 DEF Next
    <3> QED
      BY <2>1, <3>1, Kept, UndisturbedStep DEF Alone
  <2>3. CASE UNCHANGED vars
    <3>1. IInv'
      BY <2>1, <2>3, Stutters
    <3>2. Undisturbed => Undisturbed'
      BY <2>3 DEF vars, locals, history, Undisturbed
    <3> QED
      BY <2>1, <3>1, <3>2 DEF Alone
  <2> QED
    BY <2>1, <2>2, <2>3
<1>3. J => AloneIsSafe
  <2>1. SUFFICES ASSUME J, Alone PROVE AloneIsSafe
    BY DEF AloneIsSafe, Alone
  <2>2. SUFFICES ASSUME NEW j \in DOMAIN libs, NEW k \in DOMAIN libs,
                        libs[j].image = libs[k].image
                 PROVE  j = k
    BY <2>1 DEF AloneIsSafe, Undisturbed
  <2>3. /\ j < k => libs[k].seen < j
        /\ k < j => libs[j].seen < k
    BY <2>1, <2>2 DEF IInv, DuplicatesOverlap
  <2>4. libs[j].seen = j - 1 /\ libs[k].seen = k - 1 /\ j \in Nat /\ k \in Nat
    BY <2>1, Vector DEF IInv, Undisturbed
  <2> QED
    BY <2>3, <2>4
<1> QED
  BY <1>1, <1>2, <1>3, PTL DEF Spec

-----------------------------------------------------------------------------

\* The address of a new interpreter is nobody else's until it is registered.
Fresh ==
  \A t \in Threads : pc[t] = "adding" =>
    /\ want[t] \notin Registered
    /\ \A u \in Threads \ {t} : pc[u] = "adding" => want[u] # want[t]

LEMMA FreshStep ==
  ASSUME IInv, Fresh, NEW t \in Threads, Begin(t) \/ Proceed(t)
  PROVE  Fresh'
<1> USE DEF IInv
<1>0. ThreadsTyped /\ Mine(t)
  BY Step DEF TypeOK, ThreadsTyped, Labels, Wants, Names
<1> USE <1>0 DEF At, Goto, Return, Race, Advance, Fail, locals, history, ThreadsTyped, Labels
<1>1. ASSUME NEW i \in Ids, AddBegin(t, i) PROVE Fresh'
  <2>1. /\ libs' = libs /\ pc'[t] = "adding" /\ want'[t] = i
    BY <1>1 DEF AddBegin
  <2>2. i \notin Registered /\ \A u \in Threads : pc[u] = "adding" => want[u] # i
    BY <1>1 DEF AddBegin, Free
  <2>3. Registered' = Registered
    BY <2>1 DEF Registered, Runtimes
  <2> QED
    BY <2>1, <2>2, <2>3 DEF Fresh, Mine
<1>2. ASSUME AddEnd(t) PROVE Fresh'
  <2>1. at[t] \in DOMAIN libs /\ want[t] \in Ids /\ pc[t] = "adding" /\ pc'[t] = "idle"
    BY <1>2 DEF AddEnd, Locals, Local
  <2>2. PICK k \in DOMAIN libs, i \in Ids : k = at[t] /\ i = want[t]
    BY <2>1
  <2>3. libs' = [libs EXCEPT ![k].runtimes = Append(@, i)]
    BY <1>2, <2>2 DEF AddEnd
  <2>4. /\ DOMAIN libs' = DOMAIN libs
        /\ \A j \in DOMAIN libs : j # k => Runtimes(j)' = Runtimes(j)
        /\ Runtimes(k)' = Runtimes(k) \cup {i}
    BY <2>3, Registering
  <2>5. \A j \in DOMAIN libs' : j \in DOMAIN libs /\ Runtimes(j)' \subseteq Runtimes(j) \cup {i}
    BY <2>4
  <2>6. Registered' \subseteq Registered \cup {want[t]}
    BY <2>2, <2>5 DEF Registered
  <2> QED
    BY <2>1, <2>6 DEF Fresh, Mine
<1>3. ASSUME StoreEnd(t) PROVE Fresh'
  <2>1. lib[t] \in Complete /\ pc'[t] = "idle"
    BY <1>3 DEF StoreEnd, Locals, Local
  <2>2. /\ Len(libs) \in Nat /\ DOMAIN libs = 1 .. Len(libs)
        /\ DOMAIN libs' = 1 .. Len(libs) + 1
        /\ libs'[Len(libs) + 1] = Entry(lib[t], until[t])
        /\ \A k \in DOMAIN libs : libs'[k] = libs[k]
    BY <1>3, <2>1, Stored, Vector DEF StoreEnd
  <2>3. PICK n \in Nat : n = Len(libs) + 1
    BY <2>2
  <2>4. libs'[n].runtimes = <<>>
    BY <2>2, <2>3 DEF Entry
  <2>5. Runtimes(n)' = {}
    BY <2>4, EmptySeq DEF Runtimes, Range
  <2>6. \A k \in DOMAIN libs : Runtimes(k)' = Runtimes(k)
    BY <2>2 DEF Runtimes
  <2>7. \A k \in DOMAIN libs' : k \in DOMAIN libs \/ k = n
    BY <2>2, <2>3
  <2>8. Registered' \subseteq Registered
    BY <2>5, <2>6, <2>7 DEF Registered
  <2> QED
    BY <2>1, <2>8 DEF Fresh, Mine
<1> DEFINE Still == libs' = libs /\ (pc'[t] = "adding" => pc[t] = "adding" /\ want'[t] = want[t])
<1>4. ASSUME Still PROVE Fresh'
  <2>1. Registered' = Registered
    BY <1>4 DEF Registered, Runtimes
  <2> QED
    BY <1>4, <2>1 DEF Fresh, Mine
<1>5. ASSUME Begin(t) PROVE Still
  BY <1>5 DEF Begin, SetExceptions, LoadMissing, LoadOpen, CreateByName, CreateFrom, Search
<1>6. ASSUME CheckBegin(t) \/ CheckNext(t) \/ CheckFound(t) \/ CheckDone(t) \/ CheckMoved(t) PROVE Still
  BY <1>6 DEF CheckBegin, CheckNext, CheckFound, CheckDone, CheckMoved
<1>7. ASSUME SymbolsMissing(t) \/ SymbolsFound(t) \/ StoreBegin(t) PROVE Still
  BY <1>7 DEF SymbolsMissing, SymbolsFound, StoreBegin
<1>8. ASSUME FindNext(t) \/ FindFound(t) \/ FindNone(t) \/ AddNone(t) PROVE Still
  BY <1>8 DEF FindNext, FindFound, FindNone, AddNone
<1>9. ASSUME SearchNext(t) \/ SearchFound(t) \/ SearchNone(t) \/ Interference(t) PROVE Still
  BY <1>9 DEF SearchNext, SearchFound, SearchNone, Interference
<1> HIDE DEF Still
<1> QED
  BY <1>1, <1>2, <1>3, <1>4, <1>5, <1>6, <1>7, <1>8, <1>9 DEF Proceed

\* Every step of the factory is a step of the catalogue, or none.
LEMMA CatalogStep ==
  ASSUME IInv, Fresh, NEW t \in Threads, Begin(t) \/ Proceed(t)
  PROVE  Catalog!Next
         \/ UNCHANGED << {libs[k].image : k \in DOMAIN libs},
                        {m \in [library : Libraries, id : Ids] :
                           \E k \in DOMAIN libs : m.library = libs[k].image /\ m.id \in Runtimes(k)} >>
<1> DEFINE loaded == {libs[k].image : k \in DOMAIN libs}
           made == {m \in [library : Libraries, id : Ids] :
                      \E k \in DOMAIN libs : m.library = libs[k].image /\ m.id \in Runtimes(k)}
<1> USE DEF IInv
<1>0. /\ Len(libs) \in Nat /\ DOMAIN libs = 1 .. Len(libs)
      /\ \A k \in DOMAIN libs : libs[k].image \in Libraries
      /\ Complete \subseteq Libraries
  BY Vector, FactoryAssumption
<1>1. ASSUME libs' = libs PROVE UNCHANGED <<loaded, made>>
  BY <1>1 DEF Runtimes
<1>2. ASSUME StoreEnd(t) PROVE Catalog!Next \/ UNCHANGED <<loaded, made>>
  <2>1. lib[t] \in Complete /\ until[t] \in Nat
    BY <1>2 DEF StoreEnd, At, Locals, Local, TypeOK
  <2>2. PICK l \in Complete, n \in Nat, m \in Nat : l = lib[t] /\ n = Len(libs) + 1 /\ m = until[t]
    BY <1>0, <2>1
  <2>3. libs' = Append(libs, Entry(l, m))
    BY <1>2, <2>2 DEF StoreEnd
  <2>4. /\ DOMAIN libs' = 1 .. n
        /\ libs'[n] = Entry(l, m)
        /\ \A k \in DOMAIN libs : libs'[k] = libs[k]
    BY <2>2, <2>3, Stored
  <2>5. /\ libs'[n].runtimes = <<>>
        /\ libs'[n].image = l
    BY <2>4 DEF Entry
  <2>6. Runtimes(n)' = {}
    BY <2>5, EmptySeq DEF Runtimes, Range
  <2>7. \A k \in DOMAIN libs : Runtimes(k)' = Runtimes(k) /\ libs'[k].image = libs[k].image
    BY <2>4 DEF Runtimes
  <2>8. /\ \A k \in DOMAIN libs' : k \in DOMAIN libs \/ k = n
        /\ \A k \in DOMAIN libs : k \in DOMAIN libs'
        /\ n \in DOMAIN libs'
    BY <1>0, <2>2, <2>4
  <2>9. made' = made
    <3>1. ASSUME NEW x \in made' PROVE x \in made
      BY <2>6, <2>7, <2>8, <3>1
    <3>2. ASSUME NEW x \in made PROVE x \in made'
      BY <2>7, <2>8, <3>2
    <3> HIDE DEF made
    <3> QED
      BY <3>1, <3>2
  <2>10. loaded' = loaded \cup {l}
    BY <2>5, <2>7, <2>8
  <2>11. CASE l \in loaded
    BY <2>9, <2>10, <2>11
  <2>12. CASE l \notin loaded
    <3>1. Catalog!Load(l)
      BY <2>9, <2>10, <2>12 DEF Catalog!Load
    <3> QED
      BY <1>0, <3>1 DEF Catalog!Next
  <2> QED
    BY <2>11, <2>12
<1>3. ASSUME AddEnd(t) PROVE Catalog!Next
  <2>1. /\ at[t] \in DOMAIN libs /\ want[t] \in Ids /\ want[t] \notin Registered
    BY <1>3 DEF AddEnd, At, Locals, Local, Fresh
  <2>2. PICK k \in DOMAIN libs, i \in Ids, l \in Libraries : k = at[t] /\ i = want[t] /\ l = libs[k].image
    BY <1>0, <2>1
  <2>3. libs' = [libs EXCEPT ![k].runtimes = Append(@, i)]
    BY <1>3, <2>2 DEF AddEnd
  <2>4. /\ DOMAIN libs' = DOMAIN libs
        /\ \A j \in DOMAIN libs :
             libs'[j].image = libs[j].image /\ (j # k => Runtimes(j)' = Runtimes(j))
        /\ Runtimes(k)' = Runtimes(k) \cup {i}
    BY <2>3, Registering
  <2>5. loaded' = loaded
    BY <2>4
  <2>6. l \in loaded
    BY <2>2
  <2>7. made' = made \cup {[library |-> l, id |-> i]}
    <3>1. ASSUME NEW x \in made', x \notin made PROVE x = [library |-> l, id |-> i]
      <4>1. PICK j \in DOMAIN libs : x.library = libs[j].image /\ x.id \in Runtimes(j)'
        BY <2>4, <3>1
      <4>2. j = k /\ x.id = i
        BY <2>4, <3>1, <4>1
      <4> QED
        BY <2>2, <3>1, <4>1, <4>2
    <3>2. ASSUME NEW x \in made PROVE x \in made'
      <4>1. PICK j \in DOMAIN libs : x.library = libs[j].image /\ x.id \in Runtimes(j)
        BY <3>2
      <4>2. x.id \in Runtimes(j)'
        BY <2>4, <4>1
      <4> QED
        BY <2>4, <3>2, <4>1, <4>2
    <3>3. [library |-> l, id |-> i] \in made'
      BY <2>2, <2>4
    <3> HIDE DEF made
    <3> QED
      BY <3>1, <3>2, <3>3
  <2>8. \A x \in made : x.id # i
    BY <2>1, <2>2 DEF Registered
  <2>9. Catalog!Make(l, i)
    BY <2>5, <2>6, <2>7, <2>8 DEF Catalog!Make
  <2> QED
    BY <2>9 DEF Catalog!Next
<1> QED
  BY <1>1, <1>2, <1>3, Quiet

\* The factory implements the catalogue of libraries and interpreters.
THEOREM ImplementsCatalog == Spec => CatalogSpec
<1> DEFINE K == IInv /\ Fresh
<1>1. Init => K
  BY Initially DEF Init, Fresh
<1>2. K /\ [Next]_vars => K'
  <2>1. SUFFICES ASSUME K, [Next]_vars PROVE K'
    OBVIOUS
  <2>2. CASE Next
    BY <2>1, <2>2, Kept, FreshStep DEF Next
  <2>3. CASE UNCHANGED vars
    <3>1. Fresh'
      BY <2>1, <2>3 DEF vars, locals, Fresh, Registered, Runtimes
    <3> QED
      BY <2>1, <2>3, <3>1, Stutters
  <2> QED
    BY <2>1, <2>2, <2>3
<1>3. Init => Catalog!Init
  <2>1. SUFFICES ASSUME Init PROVE Catalog!Init
    OBVIOUS
  <2>2. libs = <<>> /\ Len(libs) = 0 /\ DOMAIN libs = {}
    BY <2>1, EmptySeq DEF Init
  <2> QED
    BY <2>2 DEF Catalog!Init
<1>4. K /\ [Next]_vars
      => [Catalog!Next]_<< {libs[k].image : k \in DOMAIN libs},
                          {m \in [library : Libraries, id : Ids] :
                             \E k \in DOMAIN libs : m.library = libs[k].image /\ m.id \in Runtimes(k)} >>
  <2>1. CASE K /\ Next
    BY <2>1, CatalogStep DEF Next
  <2>2. CASE UNCHANGED vars
    BY <2>2 DEF vars, Runtimes
  <2> QED
    BY <2>1, <2>2
<1> QED
  BY <1>1, <1>2, <1>3, <1>4, PTL DEF Spec, CatalogSpec, Catalog!Spec

-----------------------------------------------------------------------------

\* The vector can have moved under a comparison only because of a library
\* that has been stored since, or is being stored.
Moved ==
  \A t \in Threads : pc[t] = "checking" =>
    from[t] = storage \/ Len(libs) > until[t] \/ \E u \in Threads : pc[u] = "storing"

LEMMA MovedStep ==
  ASSUME IInv, Moved, NEW t \in Threads, Begin(t) \/ Proceed(t)
  PROVE  Moved'
<1> USE DEF IInv
<1>0. /\ ThreadsTyped /\ Mine(t) /\ ThreadsTyped'
      /\ Len(libs) \in Nat /\ Len(libs') \in Nat /\ Len(libs') >= Len(libs)
      /\ \A u \in Threads : pc[u] \in Loading => until[u] <= Len(libs)
  BY Step, Vector, Growing, LenProperties
     DEF TypeOK, ThreadsTyped, Labels, Wants, Names, Grows, Locals, Local
<1> USE <1>0 DEF At, Goto, Return, Race, Advance, Fail, locals, history, ThreadsTyped
<1>1. ASSUME StoreBegin(t) PROVE Moved'
  <2>1. pc'[t] = "storing"
    BY <1>1 DEF StoreBegin
  <2> QED
    BY <2>1 DEF Moved
<1>2. ASSUME StoreEnd(t) PROVE Moved'
  <2>1. lib[t] \in Complete /\ until[t] \in Nat
    BY <1>2 DEF StoreEnd, Locals, Local
  <2>2. Len(libs') = Len(libs) + 1
    BY <1>2, <2>1, Stored DEF StoreEnd
  <2>3. \A u \in Threads : pc'[u] = "checking" => pc[u] = "checking" /\ until'[u] = until[u] /\ u # t
    BY <1>2 DEF StoreEnd, Mine
  <2> QED
    BY <2>2, <2>3 DEF Moved, Loading
<1> DEFINE Still ==
       /\ storage' = storage /\ pc[t] # "storing"
       /\ pc'[t] = "checking" =>
            \/ from'[t] = storage
            \/ pc[t] = "checking" /\ from'[t] = from[t] /\ until'[t] = until[t]
<1>3. ASSUME Still PROVE Moved'
  <2>1. \A u \in Threads : pc[u] = "storing" => pc'[u] = "storing"
    BY <1>3 DEF Mine
  <2>2. SUFFICES ASSUME NEW u \in Threads, pc'[u] = "checking"
                 PROVE  \/ from'[u] = storage' \/ Len(libs') > until'[u]
                        \/ \E v \in Threads : pc'[v] = "storing"
    BY DEF Moved
  <2>3. CASE u = t /\ from'[t] = storage
    BY <1>3, <2>3
  <2>4. CASE pc[u] = "checking" /\ from'[u] = from[u] /\ until'[u] = until[u]
    BY <1>3, <2>1, <2>4 DEF Moved
  <2> QED
    BY <1>3, <2>2, <2>3, <2>4 DEF Mine
<1>4. ASSUME Begin(t) PROVE Still
  BY <1>4 DEF Begin, SetExceptions, LoadMissing, LoadOpen, CreateByName, CreateFrom, Search
<1>5. ASSUME CheckBegin(t) \/ CheckNext(t) \/ CheckFound(t) \/ CheckDone(t) \/ CheckMoved(t) PROVE Still
  BY <1>5 DEF CheckBegin, CheckNext, CheckFound, CheckDone, CheckMoved
<1>6. ASSUME SymbolsMissing(t) \/ SymbolsFound(t) PROVE Still
  BY <1>6 DEF SymbolsMissing, SymbolsFound
<1>7. ASSUME FindNext(t) \/ FindFound(t) \/ FindNone(t) PROVE Still
  BY <1>7 DEF FindNext, FindFound, FindNone
<1>8. ASSUME (\E i \in Ids : AddBegin(t, i)) \/ AddNone(t) \/ AddEnd(t) PROVE Still
  BY <1>8 DEF AddBegin, AddNone, AddEnd
<1>9. ASSUME SearchNext(t) \/ SearchFound(t) \/ SearchNone(t) \/ Interference(t) PROVE Still
  BY <1>9 DEF SearchNext, SearchFound, SearchNone, Interference
<1> HIDE DEF Still
<1> QED
  BY <1>1, <1>2, <1>3, <1>4, <1>5, <1>6, <1>7, <1>8, <1>9 DEF Proceed

\* With exceptions, a load that answers NULL has met its library, or a vector
\* that has become longer.
LEMMA NullStep ==
  ASSUME IInv, Moved, exceptions = "yes",
         NEW t \in Threads, Begin(t) \/ Proceed(t),
         NEW u \in Threads, outcome' = "null",
         \/ pc[u] \in {"checking", "checked"} /\ pc'[u] = "idle"
         \/ pc' = pc /\ outcome' # outcome
  PROVE  (\E k \in DOMAIN libs : libs[k].image = lib[u]) \/ Len(libs) > until[u]
<1> USE DEF IInv
<1> DEFINE Goal == (\E k \in DOMAIN libs : libs[k].image = lib[u]) \/ Len(libs) > until[u]
<1>0. /\ ThreadsTyped /\ Mine(t)
      /\ Len(libs) \in Nat /\ DOMAIN libs = 1 .. Len(libs)
      /\ \A v \in Threads : pc[v] \in Loading => until[v] <= Len(libs)
      /\ \A v \in Threads : pc[v] = "checking" => at[v] >= 1
  BY Step, Vector DEF TypeOK, ThreadsTyped, Labels, Wants, Names, Locals, Local
<1>00. pc' # pc => u = t
  BY <1>0 DEF Mine
<1> USE <1>0, <1>00 DEF At, Goto, Return, Race, Advance, Fail, locals, history, ThreadsTyped, Labels
<1>1. ASSUME CheckFound(t) PROVE Goal
  <2>1. at[t] \in DOMAIN libs /\ libs[at[t]].image = lib[t] /\ pc'[t] = "idle" /\ pc[t] = "checking"
    BY <1>1 DEF CheckFound, Loading
  <2> QED
    BY <2>1
<1>2. ASSUME CheckMoved(t) PROVE Goal
  <2>1. /\ pc[t] = "checking" /\ pc'[t] = "idle" /\ (Len(libs) # until[t] \/ storage # from[t])
        /\ ~LibsBusy(t)
    BY <1>2 DEF CheckMoved
  <2>2. until[t] <= Len(libs)
    BY <2>1 DEF Loading
  <2>3. \A v \in Threads : pc[v] # "storing"
    BY <2>1 DEF LibsBusy
  <2>4. from[t] = storage \/ Len(libs) > until[t]
    BY <2>1, <2>3 DEF Moved
  <2>5. u = t
    BY <2>1
  <2> QED
    BY <2>1, <2>2, <2>4, <2>5
<1> DEFINE Other ==
       \/ outcome' # "null"
       \/ outcome' = outcome /\ ~(pc[t] \in {"checking", "checked"} /\ pc'[t] = "idle")
       \/ pc'[t] # pc[t] /\ pc[t] \notin {"checking", "checked"}
<1>3. Other => Goal
  BY DEF Mine
<1>4. ASSUME Begin(t) PROVE Other
  BY <1>4 DEF Begin, SetExceptions, LoadMissing, LoadOpen, CreateByName, CreateFrom, Search
<1>5. ASSUME CheckBegin(t) \/ CheckNext(t) \/ CheckDone(t) PROVE Other
  BY <1>5 DEF CheckBegin, CheckNext, CheckDone
<1>6. ASSUME SymbolsMissing(t) \/ SymbolsFound(t) \/ StoreBegin(t) \/ StoreEnd(t) PROVE Other
  BY <1>6 DEF SymbolsMissing, SymbolsFound, StoreBegin, StoreEnd
<1>7. ASSUME FindNext(t) \/ FindFound(t) \/ FindNone(t) PROVE Other
  BY <1>7 DEF FindNext, FindFound, FindNone
<1>8. ASSUME (\E i \in Ids : AddBegin(t, i)) \/ AddNone(t) \/ AddEnd(t) PROVE Other
  BY <1>8 DEF AddBegin, AddNone, AddEnd
<1>9. ASSUME SearchNext(t) \/ SearchFound(t) \/ SearchNone(t) \/ Interference(t) PROVE Other
  BY <1>9 DEF SearchNext, SearchFound, SearchNone, Interference
<1> HIDE DEF Other, Goal
<1>10. Goal
  BY <1>1, <1>2, <1>3, <1>4, <1>5, <1>6, <1>7, <1>8, <1>9 DEF Proceed
<1> QED
  BY <1>10 DEF Goal

\* NULL from a load that should throw means that the library is loaded, or
\* that loads overlapped.
THEOREM NullsExplained == Spec => NullMeansLoaded
<1> DEFINE K == IInv /\ Moved
           A == \A t \in Threads :
                  /\ \/ pc[t] \in {"checking", "checked"} /\ pc'[t] = "idle"
                     \/ pc' = pc /\ outcome' # outcome
                  /\ outcome' = "null" /\ exceptions = "yes"
                  => \/ \E k \in DOMAIN libs : libs[k].image = lib[t]
                     \/ Len(libs) > until[t]
<1>1. Init => K
  BY Initially DEF Init, Moved
<1>2. K /\ [Next]_vars => K'
  <2>1. SUFFICES ASSUME K, [Next]_vars PROVE K'
    OBVIOUS
  <2>2. CASE Next
    BY <2>1, <2>2, Kept, MovedStep DEF Next
  <2>3. CASE UNCHANGED vars
    <3>1. Moved'
      BY <2>1, <2>3 DEF vars, locals, Moved
    <3> QED
      BY <2>1, <2>3, <3>1, Stutters
  <2> QED
    BY <2>1, <2>2, <2>3
<1>3. K /\ [Next]_vars => [A]_vars
  <2>1. SUFFICES ASSUME K, Next PROVE A
    OBVIOUS
  <2>2. PICK t \in Threads : Begin(t) \/ Proceed(t)
    BY <2>1 DEF Next
  <2> QED
    BY <2>1, <2>2, NullStep
<1> QED
  BY <1>1, <1>2, <1>3, PTL DEF Spec, NullMeansLoaded
=============================================================================
