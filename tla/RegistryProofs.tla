--------------------------- MODULE RegistryProofs ---------------------------
(***************************************************************************)
(* Proofs about MetatypeRegistry, for every value of MAX_TYPE_ID: the      *)
(* identifiers are unique, the built-in ones are handed out again exactly  *)
(* in the late construction order, and the safety part of the registry     *)
(* implements IdAllocator.                                                 *)
(***************************************************************************)
EXTENDS MetatypeRegistry, SequenceTheorems, TLAPS

\* The n-th metatype pushed carries identifier n, counting from 0.
Dense(s) == \A k \in 1 .. Len(s) : s[k] = k - 1

\* What the scan has established: every identifier below type_id is taken,
\* and unless all of them are, i has not gone past type_id.
ScanInv ==
  /\ pc = "scan" => /\ type_id <= Len(user_types)
                    /\ i <= type_id \/ type_id = Len(user_types)
  /\ pc = "idle" => i = 0 /\ type_id = 0

\* The registry holds the built-in metatypes and then the program's, or, in
\* the late order, the program's alone.
ContentInv ==
  /\ Dense(user_types)
  /\ Len(builtin) <= Builtins
  /\ Dense(builtin)
  /\ construction = "pending" => issued = <<>> /\ user_types = builtin
  /\ Len(builtin) < Builtins => construction # "late" /\ issued = <<>> /\ user_types = builtin
  /\ construction = "early" => Len(user_types) = Len(builtin) + Len(issued)
  /\ construction = "early" => \A k \in 1 .. Len(issued) : issued[k] = Len(builtin) + k - 1
  /\ construction = "late" => Len(builtin) = Builtins /\ user_types = issued
  /\ pc = "scan" => Len(builtin) < Builtins \/ construction # "pending"

IInv == TypeOK /\ ScanInv /\ ContentInv

-----------------------------------------------------------------------------

\* Appending the length of a dense sequence keeps it dense.
LEMMA AppendDense ==
  ASSUME NEW s \in Seq(Nat), Dense(s)
  PROVE  Dense(Append(s, Len(s)))
<1>1. Len(s) \in Nat
  BY LenProperties
<1>2. QED
  BY <1>1, AppendProperties DEF Dense

\* The elements of a sequence after an Append.
LEMMA AppendRange ==
  ASSUME NEW S, NEW s \in Seq(S), NEW e \in S
  PROVE  SeqRange(Append(s, e)) = SeqRange(s) \cup {e}
<1> DEFINE t == Append(s, e)
<1>1. /\ Len(s) \in Nat /\ DOMAIN s = 1 .. Len(s)
      /\ DOMAIN t = 1 .. Len(s) + 1
      /\ \A k \in 1 .. Len(s) : t[k] = s[k]
      /\ t[Len(s) + 1] = e
  BY LenProperties, AppendProperties
<1> HIDE DEF t
<1>2. SeqRange(t) \subseteq SeqRange(s) \cup {e}
  BY <1>1 DEF SeqRange
<1>3. SeqRange(s) \subseteq SeqRange(t)
  BY <1>1 DEF SeqRange
<1>4. Len(s) + 1 \in DOMAIN t
  BY <1>1
<1>5. e \in SeqRange(t)
  BY <1>1, <1>4 DEF SeqRange
<1>6. QED
  BY <1>2, <1>3, <1>5 DEF t

\* What the type invariant says of the three sequences.
LEMMA Lengths ==
  ASSUME TypeOK
  PROVE  /\ Len(user_types) \in Nat /\ DOMAIN user_types = 1 .. Len(user_types)
         /\ Len(builtin) \in Nat /\ DOMAIN builtin = 1 .. Len(builtin)
         /\ Len(issued) \in Nat /\ DOMAIN issued = 1 .. Len(issued)
         /\ \A k \in 1 .. Len(user_types) : user_types[k] \in 0 .. MaxTypeId - 1
         /\ issued # <<>> => Len(issued) > 0
         /\ i \in 0 .. Len(user_types)
         /\ type_id \in 0 .. MaxTypeId - 1
<1>1. /\ user_types \in Seq(0 .. MaxTypeId - 1)
      /\ builtin \in Seq(0 .. MaxTypeId - 1)
      /\ issued \in Seq(0 .. MaxTypeId - 1)
  BY DEF TypeOK
<1>2. /\ Len(user_types) \in Nat /\ DOMAIN user_types = 1 .. Len(user_types)
      /\ \A k \in 1 .. Len(user_types) : user_types[k] \in 0 .. MaxTypeId - 1
  BY <1>1, LenProperties, ElementOfSeq
<1>3. Len(builtin) \in Nat /\ DOMAIN builtin = 1 .. Len(builtin)
  BY <1>1, LenProperties
<1>4. Len(issued) \in Nat /\ DOMAIN issued = 1 .. Len(issued)
  BY <1>1, LenProperties
<1>5. issued # <<>> => Len(issued) > 0
  BY <1>1, EmptySeq
<1>6. QED
  BY <1>2, <1>3, <1>4, <1>5 DEF TypeOK

\* When the scan ends, type_id is the number of registered metatypes.
LEMMA EndOfScan ==
  ASSUME TypeOK, ScanInv, pc = "scan", AtEnd
  PROVE  type_id = Len(user_types)
  BY RegistryAssumption DEF TypeOK, ScanInv, AtEnd

\* Inside the vector the scan is at the metatype with identifier i.
LEMMA AtElement ==
  ASSUME TypeOK, ContentInv, ~AtEnd
  PROVE  /\ i + 1 \in 1 .. Len(user_types) /\ i < Len(user_types)
         /\ user_types[i + 1] = i
<1>1. i \in 0 .. Len(user_types) /\ Len(user_types) \in Nat
  BY Lengths
<1>2. i + 1 \in 1 .. Len(user_types) /\ i < Len(user_types)
  BY <1>1 DEF AtEnd
<1>3. \A k \in 1 .. Len(user_types) : user_types[k] = k - 1
  BY DEF ContentInv, Dense
<1>4. user_types[i + 1] = (i + 1) - 1
  BY <1>2, <1>3
<1>5. QED
  BY <1>1, <1>2, <1>4

\* The initialisers of mlCallback.cpp make no more than three metatypes.
LEMMA BuiltinCount ==
  ASSUME TypeOK, ContentInv, ~(Len(builtin) < Builtins)
  PROVE  Len(builtin) = Builtins
<1>1. Len(builtin) \in Nat
  BY Lengths
<1>2. Len(builtin) <= Builtins
  BY DEF ContentInv
<1>3. QED
  BY SMTT(30), <1>1, <1>2 DEF Builtins

LEMMA InitIInv == Init => IInv
<1> SUFFICES ASSUME Init PROVE IInv
  OBVIOUS
<1>1. Len(<<>>) = 0 /\ <<>> \in Seq(0 .. MaxTypeId - 1)
  BY EmptySeq
<1>2. TypeOK
  BY <1>1, RegistryAssumption DEF Init, TypeOK, Builtins
<1>3. ScanInv
  BY DEF Init, ScanInv
<1>4. ContentInv
  BY <1>1 DEF Init, ContentInv, Dense, Builtins
<1>5. QED
  BY <1>2, <1>3, <1>4 DEF IInv

LEMMA NextIInv == IInv /\ [Next]_vars => IInv'
<1> SUFFICES ASSUME IInv, [Next]_vars PROVE IInv'
  OBVIOUS
<1> USE RegistryAssumption DEF Builtins
<1>a. TypeOK /\ ScanInv /\ ContentInv
  BY DEF IInv
<1>0. Len(<<>>) = 0 /\ <<>> \in Seq(0 .. MaxTypeId - 1)
  BY EmptySeq
<1>1. CASE ConstructUserTypes
  <2>1. TypeOK'
    BY <1>a, <1>0, <1>1 DEF ConstructUserTypes, TypeOK, ScanInv
  <2>2. ScanInv'
    BY <1>a, <1>1 DEF ConstructUserTypes, ScanInv
  <2>3. issued = <<>> /\ user_types' = <<>> /\ issued' = issued /\ builtin' = builtin
        /\ pc' = "idle"
    BY <1>a, <1>1 DEF ConstructUserTypes, ContentInv
  <2>4. Dense(user_types')
    BY <1>a, <1>0, <2>3 DEF Dense
  <2>5. CASE Len(builtin) = 0
    <3>1. construction' = "early"
      BY <1>1, <2>5 DEF ConstructUserTypes
    <3>2. QED
      BY <1>0, <2>1, <2>2, <2>3, <2>4, <2>5, <3>1 DEF ContentInv, IInv
  <2>6. CASE Len(builtin) = Builtins
    <3>1. construction' = "late"
      BY <1>1, <2>6 DEF ConstructUserTypes
    <3>2. QED
      BY <1>0, <2>1, <2>2, <2>3, <2>4, <2>6, <3>1 DEF ContentInv, IInv
  <2>7. QED
    BY <1>1, <2>5, <2>6 DEF ConstructUserTypes
<1>2. CASE CallGenerate
  BY <1>2 DEF CallGenerate, TypeOK, ScanInv, ContentInv, Dense, IInv
<1>3. CASE ScanOccupied
  <2>1. TypeOK'
    BY <1>a, <1>3 DEF ScanOccupied, AtEnd, Exhausted, TypeOK
  <2>2. type_id < Len(user_types)
    BY <1>a, <1>3, AtElement DEF ScanOccupied, Occupied
  <2>3. ScanInv'
    BY <1>a, <1>3, <2>2 DEF ScanOccupied, TypeOK, ScanInv
  <2>4. ContentInv'
    BY <1>a, <1>3 DEF ScanOccupied, ContentInv, Dense
  <2>5. QED
    BY <1>a, <2>1, <2>3, <2>4 DEF IInv
<1>4. CASE ScanThrow
  BY <1>4 DEF ScanThrow, TypeOK, ScanInv, ContentInv, Dense, IInv
<1>5. CASE ScanOther
  <2>1. TypeOK'
    BY <1>a, <1>5 DEF ScanOther, AtEnd, TypeOK
  <2>2. i # type_id
    BY <1>a, <1>5, AtElement DEF ScanOther, Occupied
  <2>3. ScanInv'
    BY <1>a, <1>5, <2>2 DEF ScanOther, TypeOK, ScanInv
  <2>4. ContentInv'
    BY <1>a, <1>5 DEF ScanOther, ContentInv, Dense
  <2>5. QED
    BY <1>a, <2>1, <2>3, <2>4 DEF IInv
<1>6. CASE ScanReturn
  <2> DEFINE S == 0 .. MaxTypeId - 1
  <2>1. type_id = Len(user_types) /\ type_id \in S
    BY <1>a, <1>6, EndOfScan DEF ScanReturn, TypeOK
  <2>2. /\ user_types \in Seq(S) /\ builtin \in Seq(S) /\ issued \in Seq(S)
        /\ user_types \in Seq(Nat) /\ builtin \in Seq(Nat)
        /\ Len(user_types) \in Nat /\ Len(builtin) \in Nat /\ Len(issued) \in Nat
    BY <1>a, LenProperties, SeqMonotonic DEF TypeOK
  <2>3. Dense(user_types')
    BY <1>a, <1>6, <2>1, <2>2, AppendDense DEF ScanReturn, ContentInv
  <2>4. user_types' \in Seq(S) /\ Len(user_types') = Len(user_types) + 1
    BY <1>a, <1>6, <2>1, <2>2, AppendProperties DEF ScanReturn
  <2>5. ScanInv' /\ pc' = "idle" /\ i' = 0 /\ type_id' = 0
    BY <1>6 DEF ScanReturn, ScanInv
  <2>6. CASE Len(builtin) < Builtins
    <3>1. builtin' = Append(builtin, type_id) /\ issued' = issued
      BY <1>6, <2>6 DEF ScanReturn
    <3>2. builtin' \in Seq(S) /\ Len(builtin') = Len(builtin) + 1
      BY <1>a, <3>1, <2>1, <2>2, AppendProperties
    <3>3. construction # "late" /\ issued = <<>> /\ user_types = builtin /\ Len(issued) = 0
      BY <1>a, <2>6, EmptySeq DEF ContentInv
    <3>4. user_types' = builtin'
      BY <1>a, <1>6, <3>1, <3>3 DEF ScanReturn
    <3>5. TypeOK'
      BY <1>a, <1>6, <2>2, <2>4, <2>5, <3>1, <3>2, RegistryAssumption DEF ScanReturn, TypeOK
    <3>6. ContentInv'
      <4>1. construction' = construction /\ Dense(builtin') /\ issued' = <<>>
        BY <1>a, <1>6, <2>3, <3>1, <3>3, <3>4 DEF ScanReturn
      <4>2. Len(builtin') \in Nat /\ Len(builtin') <= Builtins /\ Len(issued') = 0
        BY <2>2, <2>6, <3>2, <3>3, <4>1
      <4>3. QED
        BY <2>3, <2>5, <3>3, <3>4, <4>1, <4>2 DEF ContentInv
    <3>7. QED
      BY <2>5, <3>5, <3>6 DEF IInv
  <2>7. CASE ~(Len(builtin) < Builtins)
    <3>1. /\ builtin' = builtin /\ construction' = construction
          /\ user_types' = Append(user_types, type_id)
          /\ issued' = Append(issued, type_id)
      BY <1>6, <2>7 DEF ScanReturn
    <3>2. issued' \in Seq(S) /\ Len(issued') = Len(issued) + 1
      BY <1>a, <3>1, <2>1, <2>2, AppendProperties
    <3>3. construction # "pending" /\ construction \in {"early", "late"}
      BY <1>a, <1>6, <2>7 DEF ScanReturn, ContentInv, TypeOK
    <3>4. Len(builtin) = Builtins /\ Dense(builtin)
      BY <1>a, <2>7, BuiltinCount DEF ContentInv
    <3>5. TypeOK'
      <4>1. refused' \in {"no", "yes"} /\ construction' \in {"pending", "early", "late"}
        <5>1. refused' = refused /\ construction' = construction
          BY <1>6 DEF ScanReturn
        <5>2. refused \in {"no", "yes"} /\ construction \in {"pending", "early", "late"}
          BY <1>a DEF TypeOK
        <5>3. QED
          BY <5>1, <5>2
      <4>2. 0 \in 0 .. Len(user_types') /\ 0 \in 0 .. MaxTypeId - 1
        BY <2>2, <2>4
      <4>3. QED
        BY <2>2, <2>4, <2>5, <3>1, <3>2, <4>1, <4>2 DEF TypeOK
    <3>6. CASE construction = "late"
      <4>1. user_types' = issued'
        BY <1>a, <3>1, <3>6 DEF ContentInv
      <4>2. /\ Len(builtin') = Builtins /\ Dense(builtin')
            /\ construction' = "late"
        BY <1>a, <3>1, <3>4, <3>6
      <4>3. ContentInv'
        BY <2>3, <2>5, <4>1, <4>2 DEF ContentInv
      <4>4. QED
        BY <2>5, <3>5, <4>3 DEF IInv
    <3>7. CASE construction = "early"
      <4>1. /\ Len(user_types) = Len(builtin) + Len(issued)
            /\ \A k \in 1 .. Len(issued) : issued[k] = Len(builtin) + k - 1
        BY <1>a, <3>7 DEF ContentInv
      <4>2. \A k \in 1 .. Len(issued) : issued'[k] = issued[k]
        BY <1>a, <3>1, <2>1, <2>2, AppendProperties
      <4>3. issued'[Len(issued) + 1] = Len(user_types)
        BY <3>1, <2>1, <2>2, AppendProperties
      <4>4. \A k \in 1 .. Len(issued') : issued'[k] = Len(builtin') + k - 1
        BY <2>2, <3>1, <3>2, <4>1, <4>2, <4>3
      <4>5. Len(user_types') = Len(builtin') + Len(issued')
        BY <2>2, <2>4, <3>1, <3>2, <4>1
      <4>6. Len(builtin') = Builtins /\ Dense(builtin') /\ construction' = "early"
        BY <3>1, <3>4, <3>7
      <4>7. ContentInv'
        BY <2>3, <2>5, <4>4, <4>5, <4>6 DEF ContentInv
      <4>8. QED
        BY <2>5, <3>5, <4>7 DEF IInv
    <3>8. QED
      BY <3>3, <3>6, <3>7
  <2>8. QED
    BY <2>6, <2>7
<1>7. CASE UNCHANGED vars
  BY <1>7 DEF vars, AtEnd, TypeOK, ScanInv, ContentInv, Dense, IInv
<1>8. QED
  BY <1>1, <1>2, <1>3, <1>4, <1>5, <1>6, <1>7 DEF Next, Scan

LEMMA Invariance == Spec => []IInv
  BY InitIInv, NextIInv, PTL DEF Spec

-----------------------------------------------------------------------------

\* Type correctness.
THEOREM TypeCorrect == Spec => []TypeOK
  BY Invariance, PTL DEF IInv

\* generate never registers an identifier twice (mlVariable.cpp:33-58).
THEOREM RegistryUnique == Spec => []RegistryInjective
<1>1. IInv => RegistryInjective
  <2> SUFFICES ASSUME IInv PROVE RegistryInjective
    OBVIOUS
  <2>1. DOMAIN user_types = 1 .. Len(user_types) /\ Len(user_types) \in Nat
    BY Lengths DEF IInv
  <2>2. \A k \in 1 .. Len(user_types) : user_types[k] = k - 1
    BY DEF IInv, ContentInv, Dense
  <2>3. QED
    BY <2>1, <2>2 DEF RegistryInjective
<1>2. QED
  BY <1>1, Invariance, PTL

\* The program's metatypes are told apart in both construction orders.
THEOREM IssuedUnique == Spec => []IssuedInjective
<1>1. IInv => IssuedInjective
  <2> SUFFICES ASSUME IInv PROVE IssuedInjective
    OBVIOUS
  <2>1. /\ DOMAIN issued = 1 .. Len(issued)
        /\ Len(issued) \in Nat /\ Len(builtin) \in Nat
    BY Lengths DEF IInv
  <2>2. CASE construction = "pending"
    <3>1. Len(issued) = 0
      BY <2>2, EmptySeq DEF IInv, ContentInv
    <3>2. QED
      BY <2>1, <3>1 DEF IssuedInjective
  <2>3. CASE construction = "early"
    <3>1. \A k \in 1 .. Len(issued) : issued[k] = Len(builtin) + k - 1
      BY <2>3 DEF IInv, ContentInv
    <3>2. QED
      BY <2>1, <3>1 DEF IssuedInjective
  <2>4. CASE construction = "late"
    <3>1. \A k \in 1 .. Len(issued) : issued[k] = k - 1
      BY <2>4 DEF IInv, ContentInv, Dense
    <3>2. QED
      BY <2>1, <3>1 DEF IssuedInjective
  <2>5. QED
    BY <2>2, <2>3, <2>4 DEF IInv, TypeOK
<1>2. QED
  BY <1>1, Invariance, PTL

\* A built-in identifier is handed out a second time in the late order only,
\* and there from the first call on.
THEOREM ReissueLate == Spec => []ReissueExactlyWhenLate
<1>1. IInv => ReissueExactlyWhenLate
  <2> SUFFICES ASSUME IInv PROVE ReissueExactlyWhenLate
    OBVIOUS
  <2> USE DEF IInv, Builtins
  <2>0. /\ DOMAIN issued = 1 .. Len(issued) /\ DOMAIN builtin = 1 .. Len(builtin)
        /\ Len(issued) \in Nat /\ Len(builtin) \in Nat
        /\ \A k \in 1 .. Len(builtin) : builtin[k] = k - 1
    BY Lengths DEF ContentInv, Dense
  <2>1. CASE construction = "early"
    <3>1. \A k \in 1 .. Len(issued) : issued[k] = Len(builtin) + k - 1
      BY <2>1 DEF ContentInv
    <3>2. \A b \in 1 .. Len(builtin), c \in 1 .. Len(issued) : builtin[b] # issued[c]
      BY <2>0, <3>1
    <3>3. SeqRange(issued) \cap SeqRange(builtin) = {}
      BY <2>0, <3>2 DEF SeqRange
    <3>4. QED
      BY <2>1, <3>3 DEF ReissueExactlyWhenLate
  <2>4. CASE construction = "pending"
    <3>1. issued = <<>> /\ SeqRange(issued) = {}
      BY <2>4 DEF ContentInv, SeqRange
    <3>2. QED
      BY <2>4, <3>1 DEF ReissueExactlyWhenLate
  <2>2. CASE construction = "late" /\ issued = <<>>
    BY <2>2 DEF ReissueExactlyWhenLate, SeqRange
  <2>3. CASE construction = "late" /\ issued # <<>>
    <3>1. construction # "pending" /\ Len(builtin) = 3 /\ user_types = issued
      BY <2>3 DEF ContentInv, TypeOK
    <3>2. 1 \in DOMAIN issued /\ 1 \in DOMAIN builtin
      BY <2>3, <3>1 DEF TypeOK
    <3>3. issued[1] = 0 /\ builtin[1] = 0
      BY <3>1, <3>2 DEF ContentInv, TypeOK, Dense
    <3>4. 0 \in SeqRange(issued) /\ 0 \in SeqRange(builtin)
      BY <3>2, <3>3 DEF SeqRange
    <3>5. QED
      BY <2>3, <3>4 DEF ReissueExactlyWhenLate
  <2>5. QED
    BY <2>1, <2>2, <2>3, <2>4 DEF TypeOK
<1>2. QED
  BY <1>1, Invariance, PTL

\* The registry implements the identifier allocator: every return of generate
\* is an Allocate, every exception a Refuse, every other step stutters.
THEOREM Refinement == Spec => AllocatorSpec
<1> DEFINE map == IF construction = "pending" THEN {} ELSE SeqRange(user_types)
<1>1. Init => Allocator!Init
  BY DEF Init, Allocator!Init
<1>2. IInv /\ [Next]_vars => [Allocator!Next]_(Allocator!vars)
  <2> SUFFICES ASSUME IInv, [Next]_vars
               PROVE  Allocator!Next \/ (map' = map /\ refused' = refused)
    BY DEF Allocator!vars
  <2> USE RegistryAssumption DEF IInv, Builtins
  <2>1. CASE ConstructUserTypes
    BY <2>1 DEF ConstructUserTypes, SeqRange
  <2>2. CASE CallGenerate \/ ScanOccupied \/ ScanOther \/ UNCHANGED vars
    BY <2>2 DEF CallGenerate, ScanOccupied, ScanOther, vars
  <2>3. CASE ScanThrow
    <3>0. /\ DOMAIN user_types = 1 .. Len(user_types) /\ Len(user_types) \in Nat
          /\ \A k \in 1 .. Len(user_types) : user_types[k] = k - 1 /\ user_types[k] \in 0 .. MaxTypeId - 1
      BY Lengths DEF ContentInv, Dense
    <3>1. i + 1 \in 1 .. Len(user_types) /\ i = type_id
      BY <2>3, AtElement DEF ScanThrow, Occupied
    <3>2. type_id = MaxTypeId - 1
      BY <2>3 DEF ScanThrow, Exhausted, TypeOK
    <3>3. construction # "pending"
      BY <3>1, <3>2 DEF ContentInv, TypeOK, Dense
    <3>4. ASSUME NEW id \in 0 .. MaxTypeId - 1
          PROVE  id \in SeqRange(user_types)
      <4>1. id + 1 \in DOMAIN user_types
        BY <3>0, <3>1, <3>2, <3>4
      <4>2. user_types[id + 1] = id
        BY <3>0, <3>4, <4>1
      <4>3. QED
        BY <4>1, <4>2 DEF SeqRange
    <3>5. SeqRange(user_types) = 0 .. MaxTypeId - 1
      BY <3>0, <3>4 DEF SeqRange
    <3>6. map = 0 .. MaxTypeId - 1 /\ map' = map /\ refused' = "yes"
      BY <2>3, <3>3, <3>5 DEF ScanThrow
    <3>7. QED
      BY <3>6 DEF Allocator!Next, Allocator!Refuse
  <2>4. CASE ScanReturn
    <3>1. type_id = Len(user_types)
      BY <2>4, EndOfScan DEF ScanReturn
    <3>2. SeqRange(user_types') = SeqRange(user_types) \cup {type_id}
      <4>1. user_types \in Seq(0 .. MaxTypeId - 1) /\ type_id \in 0 .. MaxTypeId - 1
        BY DEF TypeOK
      <4>2. user_types' = Append(user_types, type_id)
        BY <2>4 DEF ScanReturn
      <4>3. QED
        BY <4>1, <4>2, AppendRange
    <3>3. type_id \in (0 .. MaxTypeId - 1) \ SeqRange(user_types)
      BY <3>1 DEF SeqRange, TypeOK, ContentInv, Dense
    <3>4. construction' = construction /\ refused' = refused
      BY <2>4 DEF ScanReturn
    <3>5. CASE construction # "pending"
      BY <3>2, <3>3, <3>4, <3>5 DEF Allocator!Next, Allocator!Allocate
    <3>6. CASE construction = "pending"
      BY <3>4, <3>6
    <3>7. QED
      BY <3>5, <3>6
  <2>5. QED
    BY <2>1, <2>2, <2>3, <2>4 DEF Next, Scan
<1>3. QED
  BY <1>1, <1>2, Invariance, PTL DEF Spec, AllocatorSpec, Allocator!Spec

-----------------------------------------------------------------------------

\* The part of GenerateReturns that needs no fairness.  Every step of the scan
\* raises its progress, although i goes back to 1 on each hit ...
Progress == type_id * (Len(user_types) + 1) + i

Advances == pc = "scan" /\ pc' = "scan" => Progress' > Progress

\* ... which is bounded, so that a call of generate makes at most MAX_TYPE_ID
\* times as many steps as there are places to look at (mlVariable.cpp:36-46).
Bounded == Progress \in 0 .. MaxTypeId * (Len(user_types) + 1) - 1

LEMMA Products ==
  ASSUME NEW a \in Nat, NEW b \in Nat
  PROVE  /\ a * b \in Nat
         /\ (a + 1) * b = a * b + b
  OBVIOUS

LEMMA LessTimes ==
  ASSUME NEW a \in Nat, NEW c \in Nat, NEW b \in Nat, a < c
  PROVE  a * b + b <= c * b
<1>1. PICK d \in Nat : c = (a + 1) + d
  <2>1. c - (a + 1) \in Nat /\ c = (a + 1) + (c - (a + 1))
    OBVIOUS
  <2>2. QED
    BY <2>1
<1>2. c * b = (a + 1) * b + d * b /\ d * b \in Nat
  BY <1>1
<1>3. QED
  BY <1>2, Products

\* The loop of generate always moves on.
THEOREM ScanAdvances == Spec => [][Advances]_vars
<1>1. ASSUME IInv, [Next]_vars PROVE [Advances]_vars
  <2> SUFFICES ASSUME pc = "scan", pc' = "scan", ~UNCHANGED vars PROVE Progress' > Progress
    BY DEF Advances
  <2>1. ScanOccupied \/ ScanOther
    BY <1>1 DEF Next, Scan, ConstructUserTypes, CallGenerate, ScanThrow, ScanReturn
  <2>2. PICK L \in Nat : L = Len(user_types) + 1 /\ Len(user_types)' + 1 = L
    <3>1. Len(user_types) \in Nat
      BY <1>1, Lengths DEF IInv
    <3>2. user_types' = user_types
      BY <2>1 DEF ScanOccupied, ScanOther
    <3>3. QED
      BY <3>1, <3>2
  <2>3. i \in Nat /\ type_id \in Nat /\ i < L
    BY <1>1, <2>2, Lengths, RegistryAssumption DEF IInv
  <2>4. Progress = type_id * L + i /\ Progress' = type_id' * L + i'
    BY <2>2 DEF Progress
  <2>5. type_id * L \in Nat /\ (type_id + 1) * L = type_id * L + L
    BY <2>2, <2>3, Products
  <2>6. CASE ScanOccupied
    <3>1. type_id' = type_id + 1 /\ i' = 1
      BY <2>6 DEF ScanOccupied
    <3>2. Progress' = (type_id * L + L) + 1
      BY <2>4, <2>5, <3>1
    <3>3. QED
      BY <2>3, <2>4, <2>5, <3>2
  <2>7. CASE ScanOther
    <3>1. type_id' = type_id /\ i' = i + 1
      BY <2>7 DEF ScanOther
    <3>2. QED
      BY <2>3, <2>4, <2>5, <3>1
  <2>8. QED
    BY <2>1, <2>6, <2>7
<1>2. QED
  BY <1>1, Invariance, PTL DEF Spec

\* And it has only so far to go.
THEOREM ScanBounded == Spec => []Bounded
<1>1. IInv => Bounded
  <2> SUFFICES ASSUME IInv PROVE Bounded
    OBVIOUS
  <2>1. PICK L \in Nat : L = Len(user_types) + 1
    BY Lengths DEF IInv
  <2>2. i \in Nat /\ type_id \in Nat /\ i < L /\ MaxTypeId \in Nat /\ type_id < MaxTypeId
    BY <2>1, Lengths, RegistryAssumption DEF IInv
  <2>3. type_id * L \in Nat /\ MaxTypeId * L \in Nat /\ type_id * L + L <= MaxTypeId * L
    BY <2>1, <2>2, Products, LessTimes
  <2>4. Progress = type_id * L + i
    BY <2>1 DEF Progress
  <2>5. type_id * L + i \in 0 .. MaxTypeId * L - 1
    BY <2>2, <2>3
  <2>6. QED
    BY <2>1, <2>4, <2>5 DEF Bounded
<1>2. QED
  BY <1>1, Invariance, PTL
=============================================================================
