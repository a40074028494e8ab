---------------------------- MODULE LuaPushProofs ----------------------------
(***************************************************************************)
(* How much of the stack set needs, and that the functions of an object    *)
(* are registered, proved for any objects, leftovers and number of places. *)
(***************************************************************************)
EXTENDS LuaPush, SequenceTheorems, TLAPS

Spots == Plain \cup {Nil, Callback, Old} \cup Names \cup [table : Nat]

Ranks(r, D) ==
  /\ D \in Nat /\ r \in [Objects -> 1 .. D]
  /\ \A x \in Objects : \A y \in Values(x) \cap Objects : r[y] < r[x]

Typed ==
  /\ content \in [Objects -> Contents] /\ root \in Arguments /\ given \in Leftovers
  /\ stack \in Seq(Spots)
  /\ walking \in Seq(Objects)
  /\ done \in Seq(Nat) /\ Len(done) = Len(walking)
  /\ \E S : tables \in Seq(S)
  /\ val \in Arguments
  /\ pc \in {"push", "field", "pushed", "end"}
  /\ health \in {"ok", "undefined", "overrun"}

\* No more of the stack is taken than two places for every object.
Height ==
  /\ pc = "push" => Len(stack) <= Len(given) + 2 * Len(walking)
  /\ pc = "field" => Len(walking) >= 1 /\ Len(stack) <= Len(given) + 2 * Len(walking) - 1
  /\ pc = "pushed" => Len(stack) <= Len(given) + 2 * Len(walking) + 1

\* The objects that are pushed lie in each other.
Inside == pc = "push" /\ walking # <<>> => val \in Values(walking[Len(walking)])

Descent ==
  \A D, r : Ranks(r, D) => \A i \in 1 .. Len(walking) : r[walking[i]] + i <= D + 1

\* A function of the host is only ever on top of the stack, above the name
\* under which it was registered.
Named(n) == \E f \in Functions : <<n, f>> \in registered

OnTop ==
  /\ \A j \in 1 .. Len(stack) : stack[j] = Callback => pc = "pushed" /\ j = Len(stack)
  /\ pc = "push" /\ walking # <<>> =>
       Len(stack) >= 1 /\ Top \in Names /\ (val \in Functions => Named(Top))
  /\ pc = "pushed" /\ walking # <<>> /\ Len(stack) >= 2 /\ Top = Callback => Named(Key)

IInv ==
  /\ Typed /\ Height /\ Inside /\ Descent /\ OnTop
  /\ CallableIsNamed /\ OverrunOnlyDeep

-----------------------------------------------------------------------------

\* Popping n values.
LEMMA Popping ==
  ASSUME NEW S, NEW s \in Seq(S), NEW n \in Nat, n <= Len(s)
  PROVE  /\ SubSeq(s, 1, Len(s) - n) \in Seq(S)
         /\ Len(SubSeq(s, 1, Len(s) - n)) = Len(s) - n
         /\ \A j \in 1 .. Len(s) - n : SubSeq(s, 1, Len(s) - n)[j] = s[j]
<1>1. PICK m \in Nat : m = Len(s) - n
  BY LenProperties
<1>2. \A k \in 1 .. m : s[k] \in S
  BY <1>1, LenProperties, ElementOfSeq
<1>3. /\ SubSeq(s, 1, m) \in Seq(S)
      /\ Len(SubSeq(s, 1, m)) = IF 1 <= m THEN m - 1 + 1 ELSE 0
      /\ \A k \in 1 .. m - 1 + 1 : SubSeq(s, 1, m)[k] = s[1 + k - 1]
  BY <1>2, SubSeqProperties
<1> QED
  BY <1>1, <1>3

LEMMA Lengths ==
  ASSUME Typed
  PROVE  /\ Len(given) \in Nat /\ Len(stack) \in Nat /\ Len(walking) \in Nat
         /\ \A j \in 1 .. Len(walking) : walking[j] \in Objects /\ done[j] \in Nat
         /\ walking = <<>> <=> Len(walking) = 0
         /\ Last(walking) = walking[Len(walking)] /\ Last(done) = done[Len(walking)]
<1>1. given \in Seq(Plain \cup {Old})
  BY PushAssumption DEF Typed
<1>2. stack \in Seq(Spots) /\ walking \in Seq(Objects) /\ done \in Seq(Nat)
  BY DEF Typed
<1>3. Len(given) \in Nat /\ Len(stack) \in Nat /\ Len(walking) \in Nat
  BY <1>1, <1>2, LenProperties
<1>4. walking = <<>> <=> Len(walking) = 0
  BY <1>2, EmptySeq
<1> QED
  BY <1>2, <1>3, <1>4, ElementOfSeq DEF Typed, Last

\* The next field of the object that is pushed.
LEMMA FieldThere ==
  ASSUME Typed, Len(walking) >= 1, FieldsLeft
  PROVE  /\ Field \in [name : Names, value : Variables]
         /\ Field.value \in Values(walking[Len(walking)])
         /\ Last(done) + 1 \in 1 .. Len(content[walking[Len(walking)]])
<1>1. PICK x \in Objects, d \in Nat : x = walking[Len(walking)] /\ x = Last(walking) /\ d = Last(done)
  BY Lengths
<1>2. content[x] \in Seq([name : Names, value : Variables])
  BY PushAssumption DEF Typed
<1>3. Len(content[x]) \in Nat /\ DOMAIN content[x] = 1 .. Len(content[x])
  BY <1>2, LenProperties
<1>4. d + 1 \in DOMAIN content[x]
  BY <1>1, <1>3 DEF FieldsLeft
<1>5. content[x][d + 1] \in [name : Names, value : Variables]
  BY <1>2, <1>3, <1>4, ElementOfSeq
<1>6. Field = content[x][d + 1]
  BY <1>1 DEF Field
<1> QED
  BY <1>1, <1>3, <1>4, <1>5, <1>6 DEF Values

LEMMA Initially == Init => IInv
<1> SUFFICES ASSUME Init PROVE IInv
  OBVIOUS
<1>1. given \in Seq(Plain \cup {Old}) /\ Len(given) \in Nat
  BY PushAssumption, LenProperties DEF Init
<1>2. walking = <<>> /\ Len(walking) = 0 /\ done = <<>> /\ Len(done) = 0
  BY EmptySeq DEF Init
<1>3. Typed
  <2>1. stack \in Seq(Spots)
    BY <1>1, SeqMonotonic DEF Init, Spots
  <2>2. walking \in Seq(Objects) /\ done \in Seq(Nat) /\ tables \in Seq(Nat)
    BY EmptySeq DEF Init
  <2> QED
    BY <1>2, <2>1, <2>2 DEF Init, Typed
<1>4. Height /\ Inside /\ Descent
  BY <1>1, <1>2 DEF Init, Height, Inside, Descent
<1>5. OnTop
  <2>1. \A j \in 1 .. Len(given) : given[j] \in Plain \cup {Old}
    BY <1>1, ElementOfSeq
  <2> QED
    BY <1>2, <2>1, PushAssumption DEF Init, OnTop
<1>6. CallableIsNamed /\ OverrunOnlyDeep
  BY DEF Init, CallableIsNamed, OverrunOnlyDeep
<1> QED
  BY <1>3, <1>4, <1>5, <1>6 DEF IInv

-----------------------------------------------------------------------------

LEMMA PushScalarStep ==
  ASSUME IInv, PushScalar PROVE IInv'
<1>1. PICK y : y = IF val \in Functions THEN Callback ELSE val
  OBVIOUS
<1>2. /\ pc = "push" /\ pc' = "pushed" /\ health' = "ok" /\ stack' = Append(stack, y)
      /\ UNCHANGED <<content, root, given, tables, registered, walking, done, val>>
      /\ val \in Plain \cup Functions \cup {Nil}
  BY <1>1 DEF PushScalar, At, Fixed
<1>3. /\ stack \in Seq(Spots) /\ y \in Spots
      /\ Len(stack) \in Nat /\ Len(given) \in Nat /\ Len(walking) \in Nat
  BY <1>1, <1>2, Lengths DEF IInv, Typed, Spots
<1>4. /\ stack' \in Seq(Spots) /\ Len(stack') = Len(stack) + 1
      /\ \A j \in 1 .. Len(stack) : stack'[j] = stack[j]
      /\ stack'[Len(stack) + 1] = y
  BY <1>2, <1>3, AppendProperties
<1>5. Typed'
  BY <1>2, <1>4 DEF IInv, Typed
<1>6. Height'
  BY <1>2, <1>3, <1>4 DEF IInv, Height
<1>7. Inside' /\ Descent'
  BY <1>2 DEF IInv, Inside, Descent, Ranks, Values
<1>8. OnTop'
  <2>1. \A j \in 1 .. Len(stack') : stack'[j] = Callback => j = Len(stack')
    BY <1>2, <1>3, <1>4 DEF IInv, OnTop
  <2>2. ASSUME walking # <<>>, Top' = Callback PROVE Named(Key)'
    <3>1. val \in Functions
      BY <1>1, <1>2, <1>3, <1>4, <2>2, PushAssumption DEF Top
    <3>2. Named(Top) /\ Len(stack) >= 1
      BY <1>2, <2>2, <3>1 DEF IInv, OnTop
    <3>3. Key' = Top
      BY <1>3, <1>4, <3>2 DEF Key, Top
    <3> QED
      BY <1>2, <3>2, <3>3 DEF Named
  <2> QED
    BY <1>2, <2>1, <2>2 DEF OnTop
<1>9. CallableIsNamed' /\ OverrunOnlyDeep'
  BY <1>2 DEF IInv, CallableIsNamed, OverrunOnlyDeep
<1> QED
  BY <1>5, <1>6, <1>7, <1>8, <1>9 DEF IInv

LEMMA PushNothingStep ==
  ASSUME IInv, PushNothing PROVE IInv'
<1>1. /\ pc = "push" /\ pc' = "pushed" /\ health' = "ok"
      /\ UNCHANGED <<content, root, given, stack, tables, registered, walking, done, val>>
  BY DEF PushNothing, At, Fixed
<1>2. Len(stack) \in Nat /\ Len(given) \in Nat /\ Len(walking) \in Nat
  BY Lengths DEF IInv
<1>3. Typed' /\ Inside' /\ Descent'
  BY <1>1 DEF IInv, Typed, Inside, Descent, Ranks, Values
<1>4. Height'
  BY <1>1, <1>2 DEF IInv, Height
<1>5. OnTop'
  <2>1. \A j \in 1 .. Len(stack) : stack[j] # Callback
    BY <1>1 DEF IInv, OnTop
  <2>2. walking # <<>> => Top # Callback
    BY <1>1, PushAssumption DEF IInv, OnTop
  <2> QED
    BY <1>1, <2>1, <2>2 DEF OnTop, Top
<1>6. CallableIsNamed' /\ OverrunOnlyDeep'
  BY <1>1 DEF IInv, CallableIsNamed, OverrunOnlyDeep
<1> QED
  BY <1>3, <1>4, <1>5, <1>6 DEF IInv

\* An object is entered: it lies in the one that is pushed, if any is.
LEMMA PushObjectStep ==
  ASSUME IInv, PushObject PROVE IInv'
<1>1. PICK x \in Objects : x = val
  BY DEF PushObject
<1>2. PICK y : y = TableAt(Len(tables) + 1)
  OBVIOUS
<1>3. /\ pc = "push" /\ pc' = "field" /\ health' = "ok"
      /\ stack' = Append(stack, y) /\ tables' = Append(tables, NoFields)
      /\ walking' = Append(walking, x) /\ done' = Append(done, 0)
      /\ UNCHANGED <<content, root, given, registered, val>>
  BY <1>1, <1>2 DEF PushObject, At, Fixed
<1>4. PICK n \in Nat : n = Len(walking)
  BY Lengths DEF IInv
<1>5. PICK S : tables \in Seq(S)
  BY DEF IInv, Typed
<1>6. /\ tables' \in Seq(S \cup {NoFields}) /\ Len(tables) \in Nat
      /\ Len(tables') = Len(tables) + 1
      /\ \A i \in 1 .. Len(tables) : tables'[i] = tables[i]
      /\ tables'[Len(tables) + 1] = NoFields
  <2>1. tables \in Seq(S \cup {NoFields})
    BY <1>5, SeqMonotonic
  <2> QED
    BY <1>3, <2>1, AppendProperties, LenProperties
<1>7. stack \in Seq(Spots) /\ y \in Spots /\ Len(stack) \in Nat /\ Len(given) \in Nat
  BY <1>2, <1>6, Lengths DEF IInv, Typed, Spots, TableAt
<1>8. /\ stack' \in Seq(Spots) /\ Len(stack') = Len(stack) + 1
      /\ \A j \in 1 .. Len(stack) : stack'[j] = stack[j]
      /\ stack'[Len(stack) + 1] = y
  BY <1>3, <1>7, AppendProperties
<1>9. /\ walking' \in Seq(Objects) /\ Len(walking') = n + 1
      /\ \A i \in 1 .. n : walking'[i] = walking[i]
      /\ walking'[n + 1] = x
  BY <1>3, <1>4, AppendProperties DEF IInv, Typed
<1>10. /\ done' \in Seq(Nat) /\ Len(done') = n + 1
       /\ \A i \in 1 .. n : done'[i] = done[i]
       /\ done'[n + 1] = 0
  BY <1>3, <1>4, AppendProperties DEF IInv, Typed
<1>11. Typed'
  BY <1>3, <1>6, <1>8, <1>9, <1>10 DEF IInv, Typed
<1>12. Height' /\ Inside'
  BY <1>3, <1>4, <1>7, <1>8, <1>9 DEF IInv, Height, Inside
<1>13. Descent'
  <2>0. \A o \in Objects : Values(o)' = Values(o)
    BY <1>3 DEF Values
  <2>1. SUFFICES ASSUME NEW D, NEW r, Ranks(r, D), NEW i \in 1 .. n + 1
                 PROVE  r[walking'[i]] + i <= D + 1
    BY <1>9, <2>0 DEF Descent, Ranks
  <2>2. CASE i # n + 1
    BY <1>4, <1>9, <2>1, <2>2 DEF IInv, Descent
  <2>3. CASE i = n + 1 /\ n = 0
    BY <1>9, <2>1, <2>3 DEF Ranks
  <2>4. CASE i = n + 1 /\ n # 0
    <3>1. x \in Values(walking[n]) /\ walking[n] \in Objects
      BY <1>1, <1>3, <1>4, <2>4, Lengths DEF IInv, Inside
    <3>2. r[x] < r[walking[n]] /\ r[x] \in Nat /\ r[walking[n]] \in Nat /\ D \in Nat
      BY <2>1, <3>1 DEF Ranks
    <3>3. r[walking[n]] + n <= D + 1
      BY <1>4, <2>1, <2>4 DEF IInv, Descent
    <3> QED
      BY <1>9, <2>4, <3>2, <3>3
  <2> QED
    BY <2>2, <2>3, <2>4
<1>14. OnTop'
  <2>1. y # Callback
    BY <1>2, <1>6, PushAssumption DEF TableAt
  <2> QED
    BY <1>3, <1>7, <1>8, <2>1 DEF IInv, OnTop
<1>15. CallableIsNamed'
  <2>1. DOMAIN tables = 1 .. Len(tables) /\ DOMAIN tables' = 1 .. Len(tables) + 1
    BY <1>5, <1>6, LenProperties
  <2>2. DOMAIN NoFields = {}
    BY DEF NoFields
  <2>3. \A i \in DOMAIN tables' : (i \in DOMAIN tables /\ tables'[i] = tables[i]) \/ tables'[i] = NoFields
    BY <1>6, <2>1
  <2>4. \A i \in DOMAIN tables : \A k \in DOMAIN tables[i] : tables[i][k] = Callback => Named(k)
    BY DEF IInv, CallableIsNamed, Named
  <2>5. \A i \in DOMAIN tables' : \A k \in DOMAIN tables'[i] : tables'[i][k] = Callback => Named(k)
    BY <2>2, <2>3, <2>4
  <2> QED
    BY <1>3, <2>5 DEF CallableIsNamed, Named
<1>16. OverrunOnlyDeep'
  BY <1>3 DEF OverrunOnlyDeep
<1> QED
  BY <1>11, <1>12, <1>13, <1>14, <1>15, <1>16 DEF IInv

LEMMA NextFieldStep ==
  ASSUME IInv, NextField PROVE IInv'
<1>1. PICK k, v : k = Field.name /\ v = Field.value
  OBVIOUS
<1>2. /\ pc = "field" /\ pc' = "push" /\ health' = "ok" /\ FieldsLeft
      /\ stack' = Append(stack, k) /\ val' = v
      /\ registered' = IF v \in Functions THEN registered \cup {<<k, v>>} ELSE registered
      /\ UNCHANGED <<content, root, given, tables, walking, done>>
  BY <1>1 DEF NextField, At, Fixed, Registering
<1>3. Len(walking) >= 1
  BY <1>2 DEF IInv, Height
<1>4. k \in Names /\ v \in Variables /\ v \in Values(walking[Len(walking)])
  BY <1>1, <1>2, <1>3, FieldThere DEF IInv
<1>5. /\ stack \in Seq(Spots) /\ k \in Spots
      /\ Len(stack) \in Nat /\ Len(given) \in Nat /\ Len(walking) \in Nat
  BY <1>4, Lengths DEF IInv, Typed, Spots
<1>6. /\ stack' \in Seq(Spots) /\ Len(stack') = Len(stack) + 1
      /\ \A j \in 1 .. Len(stack) : stack'[j] = stack[j]
      /\ stack'[Len(stack) + 1] = k
  BY <1>2, <1>5, AppendProperties
<1>7. Typed'
  BY <1>2, <1>4, <1>6 DEF IInv, Typed, Arguments
<1>8. Height'
  BY <1>2, <1>5, <1>6 DEF IInv, Height
<1>9. Inside' /\ Descent'
  BY <1>2, <1>4 DEF IInv, Inside, Descent, Ranks, Values
<1>10. OnTop'
  <2>1. Top' = k
    BY <1>5, <1>6 DEF Top
  <2>2. v \in Functions => Named(k)'
    BY <1>2 DEF Named
  <2>3. k # Callback
    BY <1>4, PushAssumption
  <2> QED
    BY <1>2, <1>4, <1>5, <1>6, <2>1, <2>2, <2>3 DEF IInv, OnTop
<1>11. CallableIsNamed' /\ OverrunOnlyDeep'
  BY <1>2 DEF IInv, CallableIsNamed, OverrunOnlyDeep
<1> QED
  BY <1>7, <1>8, <1>9, <1>10, <1>11 DEF IInv

\* Every object that is pushed has a rank of its own.
LEMMA OverrunStep ==
  ASSUME IInv, Overrun PROVE IInv'
<1>1. /\ health' = "overrun"
      /\ UNCHANGED <<content, root, given, stack, tables, registered, walking, done, val, pc>>
      /\ pc \in {"push", "field"} /\ ~Room
  BY DEF Overrun, At, Fixed
<1>2. PICK n \in Nat : n = Len(walking)
  BY Lengths DEF IInv
<1>3. Len(stack) \in Nat /\ Len(given) \in Nat /\ Slots \in Nat
  BY Lengths, PushAssumption DEF IInv
<1>4. Typed' /\ Height' /\ Inside' /\ Descent' /\ CallableIsNamed'
  BY <1>1 DEF IInv, Typed, Height, Inside, Descent, Ranks, Values, CallableIsNamed
<1>5. OnTop'
  BY <1>1 DEF IInv, OnTop, Named, Top, Key
<1>6. OverrunOnlyDeep'
  <2>1. SUFFICES ASSUME NEW D \in 0 .. (Slots - 1) \div 2, Nesting(D) PROVE FALSE
    BY <1>1 DEF OverrunOnlyDeep, Nesting, Values
  <2>2. D \in Nat /\ 2 * D + 1 <= Slots
    BY <1>3
  <2>3. PICK r : Ranks(r, D)
    BY <2>1, <2>2 DEF Nesting, Ranks
  <2>4. n <= D
    <3>1. CASE n = 0
      BY <2>2, <3>1
    <3>2. CASE n # 0
      <4>1. walking[n] \in Objects /\ r[walking[n]] + n <= D + 1
        BY <1>2, <2>3, <3>2, Lengths DEF IInv, Descent
      <4>2. r[walking[n]] \in 1 .. D
        BY <2>3, <4>1 DEF Ranks
      <4> QED
        BY <2>2, <4>1, <4>2
    <3> QED
      BY <3>1, <3>2
  <2>5. Len(stack) <= Len(given) + 2 * n
    BY <1>1, <1>2, <1>3 DEF IInv, Height
  <2>6. Len(stack) >= Len(given) + Slots
    BY <1>1, <1>3 DEF Room
  <2> QED
    BY <1>3, <2>2, <2>4, <2>5, <2>6
<1> QED
  BY <1>4, <1>5, <1>6 DEF IInv

LEMMA SetFieldStep ==
  ASSUME IInv, SetField PROVE IInv'
<1>1. PICK key, x : key = Key /\ x = Top
  OBVIOUS
<1>2. PICK n \in Nat : n = Len(walking)
  BY Lengths DEF IInv
<1>3. /\ pc = "pushed" /\ pc' = "field" /\ health' = "ok" /\ n >= 1 /\ Len(stack) > 2
      /\ stack' = SubSeq(stack, 1, Len(stack) - 2)
      /\ done' = [done EXCEPT ![Len(done)] = @ + 1]
      /\ UNCHANGED <<content, root, given, registered, walking, val>>
  BY <1>2, Lengths DEF SetField, At, Fixed, Back, IInv
<1>4. /\ Len(stack) \in Nat /\ Len(given) \in Nat /\ stack \in Seq(Spots)
      /\ done \in Seq(Nat) /\ Len(done) = n
  BY <1>2, Lengths DEF IInv, Typed
<1>5. /\ stack' \in Seq(Spots) /\ Len(stack') = Len(stack) - 2
      /\ \A j \in 1 .. Len(stack) - 2 : stack'[j] = stack[j]
  BY <1>3, <1>4, Popping
<1>6. done' \in Seq(Nat) /\ Len(done') = n
  <2>1. n \in 1 .. Len(done) /\ done[n] + 1 \in Nat
    BY <1>3, <1>4, ElementOfSeq
  <2>2. done' = [done EXCEPT ![n] = done[n] + 1]
    BY <1>3, <1>4
  <2> QED
    BY <1>4, <2>1, <2>2, ExceptSeq
<1>7. x = Callback => Named(key)
  BY <1>1, <1>2, <1>3, <1>4, Lengths DEF IInv, OnTop
<1>8. (\E S : tables' \in Seq(S)) /\ CallableIsNamed'
  <2>1. CASE UNCHANGED tables
    BY <1>3, <2>1 DEF IInv, Typed, CallableIsNamed
  <2>2. CASE Target \in Made /\ tables' = [tables EXCEPT ![Target.table] = With(@, Key, Top)]
    <3>1. PICK i \in DOMAIN tables : Target = TableAt(i)
      BY <2>2 DEF Made
    <3>2. PICK w : w = With(tables[i], key, x)
      OBVIOUS
    <3>3. tables' = [tables EXCEPT ![i] = w]
      BY <1>1, <2>2, <3>1, <3>2 DEF TableAt
    <3>4. PICK S : tables \in Seq(S)
      BY DEF IInv, Typed
    <3>5. tables \in Seq(S \cup {w}) /\ w \in S \cup {w} /\ i \in 1 .. Len(tables)
      BY <3>4, SeqMonotonic, LenProperties
    <3>6. tables' \in Seq(S \cup {w})
      BY <3>3, <3>5, ExceptSeq
    <3>7. \A k \in DOMAIN w : w[k] = Callback => Named(k)
      <4>1. \A k \in DOMAIN w : IF k = key THEN w[k] = x ELSE k \in DOMAIN tables[i] /\ w[k] = tables[i][k]
        BY <3>2 DEF With
      <4> QED
        BY <1>7, <4>1 DEF IInv, CallableIsNamed, Named
    <3>8. DOMAIN tables' = DOMAIN tables /\ \A j \in DOMAIN tables : tables'[j] = IF j = i THEN w ELSE tables[j]
      BY <3>3
    <3>9. CallableIsNamed'
      BY <1>3, <3>7, <3>8 DEF IInv, CallableIsNamed, Named
    <3> QED
      BY <3>6, <3>9
  <2> QED
    BY <2>1, <2>2 DEF SetField
<1>9. Typed'
  BY <1>2, <1>3, <1>5, <1>6, <1>8 DEF IInv, Typed
<1>10. Height'
  BY <1>2, <1>3, <1>4, <1>5 DEF IInv, Height
<1>11. Inside' /\ Descent'
  BY <1>3 DEF IInv, Inside, Descent, Ranks, Values
<1>12. OnTop'
  <2>1. \A j \in 1 .. Len(stack) - 2 : stack[j] # Callback
    BY <1>3, <1>4 DEF IInv, OnTop
  <2> QED
    BY <1>3, <1>4, <1>5, <2>1 DEF OnTop
<1>13. OverrunOnlyDeep'
  BY <1>3 DEF OverrunOnlyDeep
<1> QED
  BY <1>8, <1>9, <1>10, <1>11, <1>12, <1>13 DEF IInv

LEMMA EndObjectStep ==
  ASSUME IInv, EndObject PROVE IInv'
<1>1. PICK n \in Nat : n = Len(walking)
  BY Lengths DEF IInv
<1>2. /\ pc = "field" /\ pc' = "pushed" /\ health' = "ok" /\ n >= 1
      /\ walking' = SubSeq(walking, 1, Len(walking) - 1)
      /\ done' = SubSeq(done, 1, Len(done) - 1)
      /\ UNCHANGED <<content, root, given, stack, tables, registered, val>>
  BY <1>1 DEF EndObject, At, Fixed, Front, IInv, Height
<1>3. walking \in Seq(Objects) /\ done \in Seq(Nat) /\ Len(done) = n /\ 1 \in Nat
  BY <1>1 DEF IInv, Typed
<1>4. /\ walking' \in Seq(Objects) /\ Len(walking') = n - 1
      /\ \A i \in 1 .. n - 1 : walking'[i] = walking[i]
  <2>1. 1 <= Len(walking)
    BY <1>1, <1>2
  <2>2. /\ SubSeq(walking, 1, Len(walking) - 1) \in Seq(Objects)
        /\ Len(SubSeq(walking, 1, Len(walking) - 1)) = Len(walking) - 1
        /\ \A j \in 1 .. Len(walking) - 1 : SubSeq(walking, 1, Len(walking) - 1)[j] = walking[j]
    BY <1>3, <2>1, Popping
  <2> QED
    BY <1>1, <1>2, <2>2
<1>5. done' \in Seq(Nat) /\ Len(done') = n - 1
  <2>1. 1 <= Len(done)
    BY <1>2, <1>3
  <2>2. /\ SubSeq(done, 1, Len(done) - 1) \in Seq(Nat)
        /\ Len(SubSeq(done, 1, Len(done) - 1)) = Len(done) - 1
    BY <1>3, <2>1, Popping
  <2> QED
    BY <1>2, <1>3, <2>2
<1>6. Len(stack) \in Nat /\ Len(given) \in Nat
  BY Lengths DEF IInv
<1>7. Typed'
  BY <1>2, <1>4, <1>5 DEF IInv, Typed
<1>8. Height' /\ Inside'
  BY <1>1, <1>2, <1>4, <1>6 DEF IInv, Height, Inside
<1>9. Descent'
  <2>0. \A y \in Objects : Values(y)' = Values(y)
    BY <1>2 DEF Values
  <2>1. SUFFICES ASSUME NEW D, NEW r, Ranks(r, D), NEW i \in 1 .. n - 1
                 PROVE  r[walking'[i]] + i <= D + 1
    BY <1>4, <2>0 DEF Descent, Ranks
  <2>2. i \in 1 .. n
    BY <1>2
  <2> QED
    BY <1>1, <1>4, <2>1, <2>2 DEF IInv, Descent
<1>10. OnTop'
  <2>1. \A j \in 1 .. Len(stack) : stack[j] # Callback
    BY <1>2 DEF IInv, OnTop
  <2>2. Len(stack) >= 2 => Top # Callback
    BY <1>6, <2>1 DEF Top
  <2> QED
    BY <1>2, <2>1, <2>2 DEF OnTop, Top
<1>11. CallableIsNamed' /\ OverrunOnlyDeep'
  BY <1>2 DEF IInv, CallableIsNamed, OverrunOnlyDeep
<1> QED
  BY <1>7, <1>8, <1>9, <1>10, <1>11 DEF IInv

LEMMA SetGlobalStep ==
  ASSUME IInv, SetGlobal PROVE IInv'
<1>1. /\ pc = "pushed" /\ pc' = "end" /\ health' = "ok" /\ stack # <<>>
      /\ stack' = SubSeq(stack, 1, Len(stack) - 1)
      /\ UNCHANGED <<content, root, given, tables, registered, walking, done, val>>
  BY DEF SetGlobal, At, Fixed, Back
<1>2. stack \in Seq(Spots) /\ Len(stack) \in Nat /\ Len(stack) >= 1 /\ 1 \in Nat
  BY <1>1, Lengths, EmptySeq DEF IInv, Typed
<1>3. /\ stack' \in Seq(Spots) /\ Len(stack') = Len(stack) - 1
      /\ \A j \in 1 .. Len(stack) - 1 : stack'[j] = stack[j]
  BY <1>1, <1>2, Popping
<1>4. Typed' /\ Height' /\ Inside' /\ Descent'
  <2>1. Typed'
    BY <1>1, <1>3 DEF IInv, Typed
  <2>2. Height' /\ Inside'
    BY <1>1 DEF Height, Inside
  <2>3. Descent'
    BY <1>1 DEF IInv, Descent, Ranks, Values
  <2> QED
    BY <2>1, <2>2, <2>3
<1>5. OnTop'
  BY <1>1, <1>2, <1>3 DEF IInv, OnTop
<1>6. CallableIsNamed' /\ OverrunOnlyDeep'
  BY <1>1 DEF IInv, CallableIsNamed, OverrunOnlyDeep
<1> QED
  BY <1>4, <1>5, <1>6 DEF IInv

LEMMA SetGlobalFailsStep ==
  ASSUME IInv, SetGlobalFails PROVE IInv'
<1>1. /\ health' = "undefined"
      /\ UNCHANGED <<content, root, given, stack, tables, registered, walking, done, val, pc>>
  BY DEF SetGlobalFails, Fixed
<1>2. Typed' /\ Height' /\ Inside' /\ Descent' /\ CallableIsNamed' /\ OverrunOnlyDeep'
  BY <1>1 DEF IInv, Typed, Height, Inside, Descent, Ranks, Values, CallableIsNamed, OverrunOnlyDeep
<1>3. OnTop'
  BY <1>1 DEF IInv, OnTop, Named, Top, Key
<1> QED
  BY <1>2, <1>3 DEF IInv

-----------------------------------------------------------------------------

\* The inductive invariant: two places of the stack for every object that is
\* pushed, these objects lie in each other, and a function on the stack lies
\* above its name.
THEOREM Invariant == Spec => []IInv
<1>1. ASSUME IInv, [Next]_vars PROVE IInv'
  <2>1. CASE UNCHANGED vars
    <3>1. UNCHANGED <<content, root, given, stack, tables, registered, walking, done, val, pc, health>>
      BY <2>1 DEF vars
    <3>2. Typed' /\ Height' /\ Inside' /\ Descent' /\ CallableIsNamed'
      BY <1>1, <3>1 DEF IInv, Typed, Height, Inside, Descent, Ranks, Values, CallableIsNamed
    <3>3. OnTop'
      BY <1>1, <3>1 DEF IInv, OnTop, Named, Top, Key
    <3>4. OverrunOnlyDeep'
      BY <1>1, <3>1 DEF IInv, OverrunOnlyDeep, Nesting, Values
    <3> QED
      BY <3>2, <3>3, <3>4 DEF IInv
  <2>2. CASE Next
    BY <1>1, <2>2, PushScalarStep, PushNothingStep, PushObjectStep, NextFieldStep, OverrunStep,
       SetFieldStep, EndObjectStep, SetGlobalStep, SetGlobalFailsStep DEF Next
  <2> QED
    BY <1>1, <2>1, <2>2
<1> QED
  BY <1>1, Initially, PTL DEF Spec

\* Objects nested D deep never overrun a stack with 2 * D + 1 places.
THEOREM NestedObjectsFit == Spec => []OverrunOnlyDeep
<1>1. IInv => OverrunOnlyDeep
  BY DEF IInv
<1> QED
  BY <1>1, Invariant, PTL

\* A script finds no function of the host in a table under a name under which
\* iLua.cpp:57-58 has not registered one.
THEOREM CallablesNamed == Spec => []CallableIsNamed
<1>1. IInv => CallableIsNamed
  BY DEF IInv
<1> QED
  BY <1>1, Invariant, PTL

-----------------------------------------------------------------------------

\* The i-th table, made of the object from[i], has got its first q fields.
Filled(i, q, from) ==
  LET c == content[from[i]]
      through == {k \in 1 .. q : c[k].value # Nil}
  IN  /\ DOMAIN tables[i] = {c[k].name : k \in through}
      /\ \A k \in through : Looks(tables[i][c[k].name], c[k].value, from)

\* What is pushed: the next field of the innermost object, or the root.
Current(j) == content[walking[j]][done[j] + 1]
Due == IF walking = <<>> THEN root ELSE Current(Len(walking)).value

\* Every object that is pushed has its table on the stack, and above it the name
\* of the field in which the next one lies.
Levels(from, at) ==
  /\ at \in [1 .. Len(walking) -> DOMAIN tables]
  /\ \A i, j \in 1 .. Len(walking) : at[i] = at[j] => i = j
  /\ \A j \in 1 .. Len(walking) :
       /\ stack[Len(given) + 2 * j - 1] = TableAt(at[j])
       /\ from[at[j]] = walking[j]
       /\ done[j] <= Len(content[walking[j]])
       /\ j < Len(walking) \/ pc # "field" =>
            done[j] < Len(content[walking[j]]) /\ stack[Len(given) + 2 * j] = Current(j).name
       /\ j < Len(walking) => Current(j).value = walking[j + 1]
  /\ walking # <<>> => walking[1] = root

\* The tables that are pushed have the fields that they are through with, the
\* others all.
Tabled(from, at) ==
  /\ from \in [DOMAIN tables -> Objects]
  /\ \A j \in 1 .. Len(walking) : Filled(at[j], done[j], from)
  /\ \A i \in DOMAIN tables :
       (\A j \in 1 .. Len(walking) : at[j] # i) => Filled(i, Len(content[from[i]]), from)

Progress(from) ==
  /\ pc = "push" => val = Due /\ Len(stack) = Len(given) + 2 * Len(walking)
  /\ pc = "field" => walking # <<>> /\ Len(stack) = Len(given) + 2 * Len(walking) - 1
  /\ pc = "pushed" =>
       IF Due = Valueless THEN Len(stack) = Len(given) + 2 * Len(walking)
       ELSE Len(stack) = Len(given) + 2 * Len(walking) + 1 /\ Looks(Top, Due, from)
  /\ pc = "end" =>
       /\ walking = <<>>
       /\ IF root = Valueless THEN given # <<>> ELSE stack = given /\ Looks(global, root, from)
  /\ pc # "end" => \A j \in 1 .. Len(given) : stack[j] = given[j]

\* No table of a script was touched, and every table that was made looks like its
\* object as far as that was walked.
Clean == old = NoFields /\ \E from, at : Levels(from, at) /\ Tabled(from, at) /\ Progress(from)

\* The types of what is on the stack and in the tables.
Sorted ==
  /\ stack \in Seq(LuaValues) /\ Len(stack) <= Len(given) + Slots
  /\ \A i \in DOMAIN tables : \A k \in DOMAIN tables[i] : tables[i][k] \in LuaValues \ {Nil}
  /\ registered \subseteq (Names \cup {Global}) \X Functions

SInv == Sorted /\ Clean

-----------------------------------------------------------------------------

LEMMA NoDisorder ==
  ASSUME Sorted, UNCHANGED <<given, stack, tables, registered>>
  PROVE  Sorted'
  BY DEF Sorted, LuaValues, Made

LEMMA Pushed ==
  ASSUME IInv, Sorted, Room, NEW y \in LuaValues, stack' = Append(stack, y), UNCHANGED <<given, tables>>
  PROVE  stack' \in Seq(LuaValues)' /\ Len(stack') <= Len(given') + Slots
<1>1. LuaValues' = LuaValues
  BY DEF LuaValues, Made
<1>2. stack \in Seq(LuaValues) /\ Len(stack) \in Nat /\ Len(given) \in Nat /\ Slots \in Nat
  BY Lengths, PushAssumption DEF IInv, Sorted
<1>3. stack' \in Seq(LuaValues) /\ Len(stack') = Len(stack) + 1
  BY <1>2, AppendProperties
<1> QED
  BY <1>1, <1>2, <1>3 DEF Room

LEMMA PushScalarSorted == ASSUME IInv, Sorted, PushScalar PROVE Sorted'
<1>1. PICK y : y = IF val \in Functions THEN Callback ELSE val
  OBVIOUS
<1>2. /\ Room /\ stack' = Append(stack, y) /\ UNCHANGED <<given, tables, registered>>
      /\ y \in LuaValues
  BY <1>1 DEF PushScalar, Fixed, LuaValues
<1>3. stack' \in Seq(LuaValues)' /\ Len(stack') <= Len(given') + Slots
  BY <1>2, Pushed
<1> QED
  BY <1>2, <1>3 DEF Sorted, LuaValues, Made

LEMMA NextFieldSorted == ASSUME IInv, Sorted, NextField PROVE Sorted'
<1>1. PICK k, v : k = Field.name /\ v = Field.value
  OBVIOUS
<1>2. /\ Room /\ stack' = Append(stack, k) /\ UNCHANGED <<given, tables>>
      /\ registered' = IF v \in Functions THEN registered \cup {<<k, v>>} ELSE registered
      /\ pc = "field" /\ FieldsLeft
  BY <1>1 DEF NextField, Fixed, Registering, At
<1>3. k \in Names
  BY <1>1, <1>2, FieldThere DEF IInv, Height
<1>4. stack' \in Seq(LuaValues)' /\ Len(stack') <= Len(given') + Slots
  BY <1>2, <1>3, Pushed DEF LuaValues
<1>5. registered' \subseteq (Names \cup {Global}) \X Functions
  BY <1>2, <1>3 DEF Sorted
<1> QED
  BY <1>2, <1>4, <1>5 DEF Sorted, LuaValues, Made

\* What a new table changes of the tables that were made.
LEMMA OneMore ==
  ASSUME IInv, tables' = Append(tables, NoFields)
  PROVE  /\ Len(tables) \in Nat /\ DOMAIN tables = 1 .. Len(tables)
         /\ DOMAIN tables' = 1 .. Len(tables) + 1
         /\ \A i \in DOMAIN tables : tables'[i] = tables[i]
         /\ tables'[Len(tables) + 1] = NoFields
<1>1. PICK S : tables \in Seq(S)
  BY DEF IInv, Typed
<1>2. tables \in Seq(S \cup {NoFields})
  BY <1>1, SeqMonotonic
<1>3. /\ tables' \in Seq(S \cup {NoFields}) /\ Len(tables') = Len(tables) + 1
      /\ \A i \in 1 .. Len(tables) : tables'[i] = tables[i]
      /\ tables'[Len(tables) + 1] = NoFields
  BY <1>2, AppendProperties
<1> QED
  BY <1>2, <1>3, LenProperties

LEMMA PushObjectSorted == ASSUME IInv, Sorted, PushObject PROVE Sorted'
<1>1. PICK y : y = TableAt(Len(tables) + 1)
  OBVIOUS
<1>2. /\ Room /\ stack' = Append(stack, y) /\ UNCHANGED <<given, registered>>
      /\ tables' = Append(tables, NoFields)
  BY <1>1 DEF PushObject, Fixed
<1>3. LuaValues \subseteq LuaValues' /\ y \in LuaValues'
  BY <1>1, <1>2, OneMore DEF LuaValues, Made
<1>4. /\ stack \in Seq(LuaValues) /\ Len(stack) \in Nat /\ Len(given) \in Nat /\ Slots \in Nat
  BY Lengths, PushAssumption DEF IInv, Sorted
<1>5. stack \in Seq(LuaValues')
  BY <1>3, <1>4, SeqMonotonic
<1>6. stack' \in Seq(LuaValues') /\ Len(stack') = Len(stack) + 1
  BY <1>2, <1>3, <1>5, AppendProperties
<1>7. \A i \in DOMAIN tables' : \A k \in DOMAIN tables'[i] : tables'[i][k] \in LuaValues' \ {Nil}
  <2>1. DOMAIN NoFields = {}
    BY DEF NoFields
  <2> QED
    BY <1>2, <1>3, <2>1, OneMore DEF Sorted
<1> QED
  BY <1>2, <1>4, <1>6, <1>7 DEF Sorted, Room

\* What lua_settable does to the tables that were made, and to Old.
LEMMA FieldSet ==
  ASSUME IInv, SetField
  PROVE  /\ DOMAIN tables' = DOMAIN tables
         /\ \/ Target = Old /\ tables' = tables
            \/ \E i \in DOMAIN tables :
                 /\ Target = TableAt(i) /\ old' = old
                 /\ tables' = [tables EXCEPT ![i] = With(tables[i], Key, Top)]
<1>1. CASE Target = Old
  BY <1>1 DEF SetField
<1>2. CASE Target # Old
  <2>1. PICK i \in DOMAIN tables : Target = TableAt(i)
    BY <1>2 DEF SetField, Made
  <2>2. tables' = [tables EXCEPT ![i] = With(tables[i], Key, Top)] /\ old' = old
    BY <1>2, <2>1 DEF SetField, TableAt
  <2> QED
    BY <2>1, <2>2
<1> QED
  BY <1>1, <1>2

LEMMA SetFieldSorted == ASSUME IInv, Sorted, SetField PROVE Sorted'
<1>1. /\ UNCHANGED <<given, registered>> /\ Len(stack) > 2
      /\ stack' = SubSeq(stack, 1, Len(stack) - 2)
  BY DEF SetField, Fixed, Back
<1>2. LuaValues' = LuaValues
  BY FieldSet DEF LuaValues, Made
<1>3. stack \in Seq(LuaValues) /\ Len(stack) \in Nat /\ Len(given) \in Nat /\ Slots \in Nat
  BY Lengths, PushAssumption DEF IInv, Sorted
<1>4. stack' \in Seq(LuaValues) /\ Len(stack') = Len(stack) - 2
  BY <1>1, <1>3, Popping
<1>5. Top \in LuaValues
  BY <1>1, <1>3, ElementOfSeq DEF Top
<1>6. \A i \in DOMAIN tables' : \A k \in DOMAIN tables'[i] : tables'[i][k] \in LuaValues \ {Nil}
  <2>1. CASE tables' = tables
    BY <2>1 DEF Sorted
  <2>2. ASSUME NEW i \in DOMAIN tables, tables' = [tables EXCEPT ![i] = With(tables[i], Key, Top)]
        PROVE  \A j \in DOMAIN tables' : \A k \in DOMAIN tables'[j] : tables'[j][k] \in LuaValues \ {Nil}
    <3>1. \A k \in DOMAIN With(tables[i], Key, Top) :
            With(tables[i], Key, Top)[k] \in LuaValues \ {Nil}
      BY <1>5 DEF With, Sorted
    <3> QED
      BY <2>2, <3>1 DEF Sorted
  <2> QED
    BY <2>1, <2>2, FieldSet
<1> QED
  BY <1>1, <1>2, <1>3, <1>4, <1>6 DEF Sorted

LEMMA SetGlobalSorted == ASSUME IInv, Sorted, SetGlobal PROVE Sorted'
<1>1. /\ UNCHANGED <<given, registered, tables>> /\ stack # <<>>
      /\ stack' = SubSeq(stack, 1, Len(stack) - 1)
  BY DEF SetGlobal, Fixed, Back
<1>2. LuaValues' = LuaValues
  BY <1>1 DEF LuaValues, Made
<1>3. /\ stack \in Seq(LuaValues) /\ Len(stack) \in Nat /\ Len(given) \in Nat /\ Slots \in Nat
      /\ 1 <= Len(stack) /\ 1 \in Nat
  BY <1>1, Lengths, EmptySeq, PushAssumption DEF IInv, Sorted
<1>4. stack' \in Seq(LuaValues) /\ Len(stack') = Len(stack) - 1
  BY <1>1, <1>3, Popping
<1> QED
  BY <1>1, <1>2, <1>3, <1>4 DEF Sorted

LEMMA SortedNext == ASSUME IInv, Sorted, [Next]_vars PROVE Sorted'
<1>1. CASE PushNothing \/ Overrun \/ EndObject \/ SetGlobalFails \/ UNCHANGED vars
  <2>1. UNCHANGED <<given, stack, tables, registered>>
    BY <1>1 DEF PushNothing, Overrun, EndObject, SetGlobalFails, Fixed, vars
  <2> QED
    BY <2>1, NoDisorder
<1> QED
  BY <1>1, PushScalarSorted, PushObjectSorted, NextFieldSorted, SetFieldSorted, SetGlobalSorted DEF Next

-----------------------------------------------------------------------------

\* A value goes on looking like what it was made of.
LEMMA LooksKept ==
  ASSUME DOMAIN tables \subseteq DOMAIN tables', NEW from, NEW from2,
         \A i \in DOMAIN tables : from2[i] = from[i],
         NEW v, NEW o, Looks(v, o, from)
  PROVE  Looks(v, o, from2)'
  BY DEF Looks, TableAt

LEMMA FilledKept ==
  ASSUME content' = content, DOMAIN tables \subseteq DOMAIN tables', NEW from, NEW from2,
         \A i \in DOMAIN tables : from2[i] = from[i],
         NEW i \in DOMAIN tables, tables'[i] = tables[i], NEW q, Filled(i, q, from)
  PROVE  Filled(i, q, from2)'
<1>1. PICK c : c = content[from[i]] /\ c = content'[from2[i]]
  OBVIOUS
<1>2. /\ DOMAIN tables[i] = {c[k].name : k \in {l \in 1 .. q : c[l].value # Nil}}
      /\ \A k \in 1 .. q : c[k].value # Nil => Looks(tables[i][c[k].name], c[k].value, from)
  BY ZenonT(40), <1>1 DEF Filled
<1>3. ASSUME NEW k \in 1 .. q, c[k].value # Nil
      PROVE  Looks(tables[i][c[k].name], c[k].value, from2)'
  <2>1. PICK v, o : v = tables[i][c[k].name] /\ o = c[k].value /\ v = tables'[i][c[k].name]
    OBVIOUS
  <2>2. Looks(v, o, from2)'
    BY <1>2, <1>3, <2>1, LooksKept
  <2> QED
    BY <2>1, <2>2
<1>4. content'[from2[i]] = c /\ tables'[i] = tables[i]
  BY <1>1
<1> QED
  BY ZenonT(40), <1>2, <1>3, <1>4 DEF Filled

\* One more field of a table.
LEMMA FilledMore ==
  ASSUME IInv, content' = content, DOMAIN tables' = DOMAIN tables,
         NEW from, NEW i \in DOMAIN tables, from[i] \in Objects, NEW q \in Nat,
         NEW c, c = content[from[i]], q + 1 \in 1 .. Len(c),
         Filled(i, q, from),
         NEW v, Looks(v, c[q + 1].value, from),
         tables'[i] = With(tables[i], c[q + 1].name, v)
  PROVE  Filled(i, q + 1, from)'
<1>1. /\ c \in Contents /\ c \in Seq([name : Names, value : Variables])
      /\ DOMAIN c = 1 .. Len(c) /\ Len(c) \in Nat
  BY PushAssumption, LenProperties DEF IInv, Typed
<1>2. \A k \in 1 .. q + 1 : c[k] \in [name : Names, value : Variables]
  <2>1. \A k \in 1 .. q + 1 : k \in 1 .. Len(c)
    BY <1>1
  <2> QED
    BY <1>1, <2>1, ElementOfSeq
<1>3. \A k \in 1 .. q : c[k].name # c[q + 1].name
  <2>1. \A k, l \in DOMAIN c : c[k].name = c[l].name => k = l
    BY <1>1, PushAssumption
  <2>2. \A k \in 1 .. q : k \in DOMAIN c /\ q + 1 \in DOMAIN c /\ k # q + 1
    BY <1>1
  <2> QED
    BY <2>1, <2>2
<1>4. PICK o, name : o = c[q + 1].value /\ name = c[q + 1].name
  OBVIOUS
<1>5. v = Nil <=> o = Nil
  <2>1. ASSUME NEW k \in DOMAIN tables PROVE TableAt(k) # Nil
    <3>1. PICK S : tables \in Seq(S)
      BY DEF IInv, Typed
    <3>2. k \in Nat
      BY <3>1, LenProperties
    <3>3. TableAt(k) \in [table : Nat]
      BY <3>2 DEF TableAt
    <3> QED
      BY <3>3, PushAssumption
  <2>2. Nil \notin Objects /\ Nil \notin Functions /\ Callback # Nil
    BY PushAssumption DEF Scalars
  <2> QED
    BY <1>4, <2>1, <2>2 DEF Looks
<1>6. /\ DOMAIN tables[i] = {c[k].name : k \in {l \in 1 .. q : c[l].value # Nil}}
      /\ \A k \in 1 .. q : c[k].value # Nil => Looks(tables[i][c[k].name], c[k].value, from)
  BY DEF Filled
<1>7. \A k \in 1 .. q + 1 : k \in 1 .. q \/ k = q + 1
  OBVIOUS
<1>8. \A k \in 1 .. q : k \in 1 .. q + 1
  OBVIOUS
<1>9. q + 1 \in 1 .. q + 1
  OBVIOUS
<1>10. name \notin DOMAIN tables[i]
  BY <1>3, <1>4, <1>6
<1>11. DOMAIN tables'[i] = IF v = Nil THEN DOMAIN tables[i] ELSE DOMAIN tables[i] \cup {name}
  BY <1>4, <1>10 DEF With
<1>12. DOMAIN tables'[i] = {c[k].name : k \in {l \in 1 .. q + 1 : c[l].value # Nil}}
  BY <1>4, <1>5, <1>6, <1>7, <1>8, <1>9, <1>11
<1>13. /\ \A k \in DOMAIN tables[i] : tables'[i][k] = tables[i][k]
       /\ v # Nil => tables'[i][name] = v
  BY <1>4, <1>10 DEF With
<1>14. ASSUME NEW k \in 1 .. q + 1, c[k].value # Nil
       PROVE  Looks(tables[i][c[k].name], c[k].value, from)'
  <2>1. CASE k \in 1 .. q
    <3>1. PICK w, p : w = tables[i][c[k].name] /\ p = c[k].value
      OBVIOUS
    <3>2. Looks(w, p, from) /\ tables'[i][c[k].name] = w
      BY <1>6, <1>13, <1>14, <2>1, <3>1
    <3>3. Looks(w, p, from)'
      BY <3>2, LooksKept
    <3> QED
      BY <3>1, <3>2, <3>3
  <2>2. CASE k = q + 1
    <3>1. Looks(v, o, from)'
      BY <1>4, LooksKept
    <3> QED
      BY <1>4, <1>5, <1>13, <1>14, <2>2, <3>1
  <2> QED
    BY <1>7, <2>1, <2>2
<1>15. content'[from[i]] = c
  OBVIOUS
<1> QED
  BY <1>12, <1>14, <1>15 DEF Filled

\* An action that changes neither the tables nor which of them are pushed.
LEMMA StillPushed ==
  ASSUME NEW from, NEW at, Levels(from, at), Tabled(from, at),
         UNCHANGED <<content, root, given, tables, walking, done>>,
         \A j \in 1 .. Len(walking) :
           /\ stack'[Len(given) + 2 * j - 1] = stack[Len(given) + 2 * j - 1]
           /\ j < Len(walking) \/ pc' # "field" =>
                done[j] < Len(content[walking[j]]) /\ stack'[Len(given) + 2 * j] = Current(j).name
  PROVE  Levels(from, at)' /\ Tabled(from, at)'
<1>1. \A j : Current(j)' = Current(j)
  BY DEF Current
<1>2. Levels(from, at)'
  BY <1>1 DEF Levels, TableAt
<1>3. \A i, q : Filled(i, q, from)' <=> Filled(i, q, from)
  BY DEF Filled, Looks, TableAt
<1>4. Tabled(from, at)'
  BY <1>3 DEF Tabled
<1> QED
  BY <1>2, <1>4

LEMMA InitiallyClean == Init => SInv
<1> SUFFICES ASSUME Init PROVE SInv
  OBVIOUS
<1>1. given \in Seq(Plain \cup {Old}) /\ Len(given) \in Nat /\ Slots \in Nat
  BY PushAssumption, LenProperties DEF Init
<1>2. /\ walking = <<>> /\ Len(walking) = 0 /\ tables = <<>> /\ DOMAIN tables = {}
      /\ stack = given /\ pc = "push" /\ val = root /\ old = NoFields
  BY EmptySeq DEF Init
<1>3. Sorted
  <2>1. stack \in Seq(LuaValues)
    BY <1>1, <1>2, SeqMonotonic DEF LuaValues
  <2> QED
    BY <1>1, <1>2, <2>1 DEF Init, Sorted
<1>4. Clean
  <2> DEFINE none == [i \in {} |-> root]
  <2>1. Levels(none, none)
    BY <1>2 DEF Levels
  <2>2. Tabled(none, none)
    BY <1>2 DEF Tabled
  <2>3. Progress(none)
    BY <1>1, <1>2 DEF Progress, Due
  <2> QED
    BY <1>2, <2>1, <2>2, <2>3 DEF Clean
<1> QED
  BY <1>3, <1>4 DEF SInv

LEMMA PushScalarClean == ASSUME IInv, Clean, PushScalar PROVE Clean'
<1>1. PICK y : y = IF val \in Functions THEN Callback ELSE val
  OBVIOUS
<1>2. /\ pc = "push" /\ pc' = "pushed" /\ stack' = Append(stack, y)
      /\ UNCHANGED <<content, root, given, tables, old, walking, done, val>>
      /\ val \in Plain \cup Functions \cup {Nil}
  BY <1>1 DEF PushScalar, At, Fixed
<1>3. PICK from, at : Levels(from, at) /\ Tabled(from, at) /\ Progress(from)
  BY DEF Clean
<1>4. PICK L \in Nat, n \in Nat : L = Len(given) /\ n = Len(walking)
  BY Lengths DEF IInv
<1>5. Len(stack) = L + 2 * n /\ val = Due
  BY <1>2, <1>3, <1>4 DEF Progress
<1>6. /\ Len(stack') = L + 2 * n + 1
      /\ \A j \in 1 .. L + 2 * n : stack'[j] = stack[j]
      /\ stack'[L + 2 * n + 1] = y
  <2>1. stack \in Seq(Spots) /\ y \in Spots
    BY <1>1, <1>2 DEF IInv, Typed, Spots
  <2> QED
    BY <1>2, <1>4, <1>5, <2>1, AppendProperties
<1>7. Levels(from, at)' /\ Tabled(from, at)'
  <2>1. \A j \in 1 .. n : L + 2 * j - 1 \in 1 .. L + 2 * n /\ L + 2 * j \in 1 .. L + 2 * n
    BY <1>4
  <2>2. \A j \in 1 .. Len(walking) :
           /\ stack'[Len(given) + 2 * j - 1] = stack[Len(given) + 2 * j - 1]
           /\ j < Len(walking) \/ pc' # "field" =>
                done[j] < Len(content[walking[j]]) /\ stack'[Len(given) + 2 * j] = Current(j).name
    BY <1>2, <1>3, <1>4, <1>6, <2>1 DEF Levels
  <2> QED
    BY <1>2, <1>3, <2>2, StillPushed
<1>8. Progress(from)'
  <2>1. Due' = val /\ val # Valueless
    BY <1>2, <1>5, PushAssumption DEF Due, Current, Variables, Scalars
  <2>2. Looks(y, val, from)'
    BY <1>1, <1>2, PushAssumption DEF Looks, Scalars
  <2>3. Top' = y
    BY <1>6 DEF Top
  <2>4. \A j \in 1 .. L : stack'[j] = given[j]
    BY <1>2, <1>3, <1>4, <1>6 DEF Progress
  <2> QED
    BY <1>2, <1>4, <1>6, <2>1, <2>2, <2>3, <2>4 DEF Progress
<1> QED
  BY <1>2, <1>7, <1>8 DEF Clean

LEMMA PushNothingClean == ASSUME IInv, Clean, PushNothing PROVE Clean'
<1>1. /\ pc = "push" /\ pc' = "pushed" /\ val = Valueless
      /\ UNCHANGED <<content, root, given, stack, tables, old, walking, done, val>>
  BY DEF PushNothing, At, Fixed
<1>2. PICK from, at : Levels(from, at) /\ Tabled(from, at) /\ Progress(from)
  BY DEF Clean
<1>3. Levels(from, at)' /\ Tabled(from, at)'
  BY ZenonT(40), <1>1, <1>2, StillPushed DEF Levels
<1>4. Progress(from)'
  <2>1. Due' = Due
    BY <1>1 DEF Due, Current
  <2> QED
    BY <1>1, <1>2, <2>1 DEF Progress
<1> QED
  BY <1>1, <1>3, <1>4 DEF Clean

LEMMA NextFieldClean == ASSUME IInv, Clean, NextField PROVE Clean'
<1>1. PICK k, v : k = Field.name /\ v = Field.value
  OBVIOUS
<1>2. /\ pc = "field" /\ pc' = "push" /\ stack' = Append(stack, k) /\ val' = v /\ FieldsLeft
      /\ UNCHANGED <<content, root, given, tables, old, walking, done>>
  BY <1>1 DEF NextField, At, Fixed
<1>3. PICK from, at : Levels(from, at) /\ Tabled(from, at) /\ Progress(from)
  BY DEF Clean
<1>4. PICK L \in Nat, n \in Nat : L = Len(given) /\ n = Len(walking)
  BY Lengths DEF IInv
<1>5. Len(stack) = L + 2 * n - 1 /\ n >= 1 /\ walking # <<>>
  BY <1>2, <1>3, <1>4, Lengths DEF Progress, IInv
<1>6. Field = Current(n) /\ k \in Names /\ done[n] < Len(content[walking[n]])
  <2>1. Last(walking) = walking[n] /\ Last(done) = done[n]
    BY <1>4, Lengths DEF IInv
  <2> QED
    BY <1>1, <1>2, <1>4, <1>5, <2>1, FieldThere DEF IInv, Field, FieldsLeft, Current
<1>7. /\ Len(stack') = L + 2 * n
      /\ \A j \in 1 .. L + 2 * n - 1 : stack'[j] = stack[j]
      /\ stack'[L + 2 * n] = k
  <2>1. stack \in Seq(Spots) /\ k \in Spots
    BY <1>6 DEF IInv, Typed, Spots
  <2>2. /\ Len(stack') = Len(stack) + 1
        /\ \A j \in 1 .. Len(stack) : stack'[j] = stack[j]
        /\ stack'[Len(stack) + 1] = k
    BY <1>2, <2>1, AppendProperties
  <2>3. Len(stack) + 1 = L + 2 * n
    BY <1>5
  <2> QED
    BY <1>5, <2>2, <2>3
<1>8. Levels(from, at)' /\ Tabled(from, at)'
  <2>1. \A j \in 1 .. n : L + 2 * j - 1 \in 1 .. L + 2 * n - 1 /\ (j < n => L + 2 * j \in 1 .. L + 2 * n - 1)
    BY <1>4
  <2>2. \A j \in 1 .. n : j < n \/ j = n
    BY <1>4
  <2>3. ASSUME NEW j \in 1 .. Len(walking)
        PROVE  /\ stack'[Len(given) + 2 * j - 1] = stack[Len(given) + 2 * j - 1]
               /\ j < Len(walking) \/ pc' # "field" =>
                    done[j] < Len(content[walking[j]]) /\ stack'[Len(given) + 2 * j] = Current(j).name
    <3>1. CASE j < n
      BY <1>3, <1>4, <1>7, <2>1, <3>1 DEF Levels
    <3>2. CASE j = n
      BY <1>1, <1>4, <1>6, <1>7, <2>1, <3>2
    <3> QED
      BY <1>4, <2>2, <3>1, <3>2
  <2> QED
    BY <1>2, <1>3, <2>3, StillPushed
<1>9. Progress(from)'
  <2>1. Due' = v
    BY <1>1, <1>2, <1>4, <1>5, <1>6 DEF Due, Current
  <2>2. \A j \in 1 .. L : stack'[j] = given[j]
    <3>1. \A j \in 1 .. L : j \in 1 .. L + 2 * n - 1
      BY <1>5
    <3> QED
      BY <1>2, <1>3, <1>4, <1>7, <3>1 DEF Progress
  <2> QED
    BY <1>2, <1>4, <1>7, <2>1, <2>2 DEF Progress
<1> QED
  BY <1>2, <1>8, <1>9 DEF Clean

LEMMA SetGlobalClean == ASSUME IInv, Clean, SetGlobal PROVE Clean'
<1>1. /\ pc = "pushed" /\ pc' = "end" /\ walking = <<>> /\ stack # <<>>
      /\ global' = Top /\ stack' = SubSeq(stack, 1, Len(stack) - 1)
      /\ UNCHANGED <<content, root, given, tables, old, walking, done>>
  BY DEF SetGlobal, At, Fixed, Back
<1>2. PICK from, at : Levels(from, at) /\ Tabled(from, at) /\ Progress(from)
  BY DEF Clean
<1>3. PICK L \in Nat : L = Len(given)
  BY Lengths DEF IInv
<1>4. Len(walking) = 0 /\ Due = root
  BY <1>1, Lengths DEF IInv, Due
<1>5. Levels(from, at)' /\ Tabled(from, at)'
  BY <1>1, <1>2, <1>4, StillPushed
<1>6. Progress(from)'
  <2>1. CASE root = Valueless
    <3>1. Len(stack) = Len(given)
      BY <1>1, <1>2, <1>3, <1>4, <2>1 DEF Progress
    <3>2. given # <<>>
      <4>1. stack \in Seq(Spots) /\ Len(stack) # 0
        BY <1>1, EmptySeq DEF IInv, Typed
      <4> QED
        BY <1>3, <3>1, <4>1, EmptySeq
    <3> QED
      BY <1>1, <2>1, <3>2 DEF Progress
  <2>2. CASE root # Valueless
    <3>1. Len(stack) = L + 1 /\ Looks(Top, root, from) /\ \A j \in 1 .. L : stack[j] = given[j]
      BY <1>1, <1>2, <1>3, <1>4, <2>2 DEF Progress
    <3>2. stack' \in Seq(Spots) /\ Len(stack') = L /\ \A j \in 1 .. L : stack'[j] = stack[j]
      <4>1. stack \in Seq(Spots) /\ 1 \in Nat /\ 1 <= Len(stack) /\ Len(stack) - 1 = L
        BY <3>1 DEF IInv, Typed
      <4>2. /\ SubSeq(stack, 1, Len(stack) - 1) \in Seq(Spots)
            /\ Len(SubSeq(stack, 1, Len(stack) - 1)) = Len(stack) - 1
            /\ \A j \in 1 .. Len(stack) - 1 : SubSeq(stack, 1, Len(stack) - 1)[j] = stack[j]
        BY <4>1, Popping
      <4> QED
        BY <1>1, <4>1, <4>2
    <3>3. stack' = given
      <4>1. given \in Seq(Plain \cup {Old})
        BY PushAssumption DEF IInv, Typed
      <4> QED
        BY <1>3, <3>1, <3>2, <4>1, SeqEqual
    <3>4. PICK g, o : g = Top /\ o = root
      OBVIOUS
    <3>5. Looks(g, o, from)'
      BY <1>1, <3>1, <3>4, LooksKept
    <3> QED
      BY <1>1, <2>2, <3>3, <3>4, <3>5 DEF Progress
  <2> QED
    BY <2>1, <2>2
<1> QED
  BY <1>1, <1>5, <1>6 DEF Clean

\* An object that is entered gets a table of its own.
LEMMA PushObjectClean == ASSUME IInv, Clean, PushObject PROVE Clean'
<1>1. PICK o \in Objects : o = val
  BY DEF PushObject
<1>2. PICK m \in Nat : m = Len(tables) /\ DOMAIN tables = 1 .. m
  <2>1. PICK S : tables \in Seq(S)
    BY DEF IInv, Typed
  <2> QED
    BY <2>1, LenProperties
<1>3. PICK L \in Nat, n \in Nat : L = Len(given) /\ n = Len(walking)
  BY Lengths DEF IInv
<1>4. /\ pc = "push" /\ pc' = "field" /\ stack' = Append(stack, TableAt(m + 1))
      /\ tables' = Append(tables, NoFields)
      /\ walking' = Append(walking, o) /\ done' = Append(done, 0)
      /\ UNCHANGED <<content, root, given, old>>
  BY <1>1, <1>2 DEF PushObject, At, Fixed
<1>5. PICK from, at : Levels(from, at) /\ Tabled(from, at) /\ Progress(from)
  BY DEF Clean
<1>6. Len(stack) = L + 2 * n /\ o = Due
  BY <1>1, <1>3, <1>4, <1>5 DEF Progress
<1>7. /\ Len(stack') = L + 2 * n + 1
      /\ \A j \in 1 .. L + 2 * n : stack'[j] = stack[j]
      /\ stack'[L + 2 * n + 1] = TableAt(m + 1)
  <2>1. stack \in Seq(Spots) /\ TableAt(m + 1) \in Spots
    BY DEF IInv, Typed, Spots, TableAt
  <2> QED
    BY <1>4, <1>6, <2>1, AppendProperties
<1>8. /\ Len(walking') = n + 1 /\ walking'[n + 1] = o /\ walking' # <<>>
      /\ \A j \in 1 .. n : walking'[j] = walking[j]
      /\ done'[n + 1] = 0
      /\ \A j \in 1 .. n : done'[j] = done[j]
  <2>1. walking \in Seq(Objects) /\ done \in Seq(Nat) /\ Len(done) = n
    BY <1>3 DEF IInv, Typed
  <2>2. /\ walking' \in Seq(Objects) /\ Len(walking') = n + 1 /\ walking'[n + 1] = o
        /\ \A j \in 1 .. n : walking'[j] = walking[j]
    BY <1>3, <1>4, <2>1, AppendProperties
  <2>3. done'[n + 1] = 0 /\ \A j \in 1 .. n : done'[j] = done[j]
    BY <1>4, <2>1, AppendProperties
  <2> QED
    BY <2>2, <2>3, EmptySeq
<1>9. /\ DOMAIN tables' = 1 .. m + 1 /\ tables'[m + 1] = NoFields
      /\ \A i \in 1 .. m : tables'[i] = tables[i]
  BY <1>2, <1>4, OneMore
<1>10. PICK from2, at2 :
         /\ from2 = [i \in 1 .. m + 1 |-> IF i = m + 1 THEN o ELSE from[i]]
         /\ at2 = [j \in 1 .. n + 1 |-> IF j = n + 1 THEN m + 1 ELSE at[j]]
  OBVIOUS
<1>11. /\ at \in [1 .. n -> 1 .. m] /\ from \in [1 .. m -> Objects]
       /\ \A j \in 1 .. n : at2[j] = at[j] /\ at[j] \in 1 .. m
       /\ \A i \in 1 .. m : from2[i] = from[i]
       /\ at2[n + 1] = m + 1 /\ from2[m + 1] = o
  <2>1. at \in [1 .. n -> 1 .. m] /\ from \in [1 .. m -> Objects]
    BY <1>2, <1>3, <1>5 DEF Levels, Tabled
  <2>2. \A j \in 1 .. n : j \in 1 .. n + 1 /\ j # n + 1
    OBVIOUS
  <2>3. \A i \in 1 .. m : i \in 1 .. m + 1 /\ i # m + 1
    OBVIOUS
  <2>4. n + 1 \in 1 .. n + 1 /\ m + 1 \in 1 .. m + 1
    OBVIOUS
  <2> QED
    BY <1>10, <2>1, <2>2, <2>3, <2>4
<1>12. \A j \in 1 .. n + 1 : j \in 1 .. n \/ j = n + 1
  OBVIOUS
<1>13. ASSUME NEW j \in 1 .. n
       PROVE  /\ stack'[L + 2 * j - 1] = TableAt(at2[j])
              /\ from2[at2[j]] = walking'[j]
              /\ done'[j] < Len(content[walking'[j]]) /\ done'[j] <= Len(content[walking'[j]])
              /\ stack'[L + 2 * j] = Current(j).name
              /\ Current(j).value = walking'[j + 1]
              /\ Current(j)' = Current(j)
  <2>1. L + 2 * j - 1 \in 1 .. L + 2 * n /\ L + 2 * j \in 1 .. L + 2 * n
    OBVIOUS
  <2>2. Current(j)' = Current(j)
    BY <1>4, <1>8 DEF Current
  <2>3. /\ stack[L + 2 * j - 1] = TableAt(at[j]) /\ from[at[j]] = walking[j]
        /\ done[j] < Len(content[walking[j]]) /\ done[j] <= Len(content[walking[j]])
        /\ stack[L + 2 * j] = Current(j).name
        /\ j < n => Current(j).value = walking[j + 1]
    BY <1>3, <1>4, <1>5 DEF Levels
  <2>4. Current(j).value = walking'[j + 1]
    <3>1. CASE j < n
      <4>1. j + 1 \in 1 .. n
        BY <3>1
      <4> QED
        BY <1>8, <2>3, <3>1, <4>1
    <3>2. CASE j = n
      BY <1>3, <1>6, <1>8, <3>2, Lengths DEF Due, IInv
    <3> QED
      BY <3>1, <3>2
  <2> QED
    BY ZenonT(40), <1>7, <1>8, <1>11, <2>1, <2>2, <2>3, <2>4
<1>14. Levels(from2, at2)'
  <2>1. at2 \in [1 .. n + 1 -> 1 .. m + 1]
    BY <1>10, <1>11
  <2>2. \A i, j \in 1 .. n + 1 : at2[i] = at2[j] => i = j
    <3>1. \A i, j \in 1 .. n : at[i] = at[j] => i = j
      BY <1>3, <1>5 DEF Levels
    <3>2. \A j \in 1 .. n : at2[j] # m + 1
      BY <1>11
    <3> QED
      BY <1>11, <1>12, <3>1, <3>2
  <2>3. /\ stack'[L + 2 * (n + 1) - 1] = TableAt(at2[n + 1])
        /\ from2[at2[n + 1]] = walking'[n + 1]
        /\ done'[n + 1] <= Len(content[walking'[n + 1]])
    <3>1. Len(content[o]) \in Nat
      BY PushAssumption, LenProperties DEF IInv, Typed
    <3>2. L + 2 * (n + 1) - 1 = L + 2 * n + 1
      OBVIOUS
    <3> QED
      BY <1>7, <1>8, <1>11, <3>1, <3>2
  <2>4. walking'[1] = root
    <3>1. CASE n = 0
      BY <1>3, <1>6, <1>8, <3>1, Lengths DEF Due, IInv
    <3>2. CASE n # 0
      BY <1>3, <1>5, <1>8, <3>2, Lengths DEF Levels, IInv
    <3> QED
      BY <3>1, <3>2
  <2>5. ASSUME NEW j \in 1 .. n + 1
        PROVE  /\ stack'[L + 2 * j - 1] = TableAt(at2[j])
               /\ from2[at2[j]] = walking'[j]
               /\ done'[j] <= Len(content[walking'[j]])
               /\ j < n + 1 => done'[j] < Len(content[walking'[j]])
    <3>1. CASE j \in 1 .. n
      BY <1>13, <3>1
    <3>2. CASE j = n + 1
      BY <2>3, <3>2
    <3> QED
      BY <1>12, <3>1, <3>2
  <2>6. ASSUME NEW j \in 1 .. n + 1, j < n + 1
        PROVE  (Current(j).name)' = stack'[L + 2 * j] /\ (Current(j).value)' = walking'[j + 1]
    <3>1. j \in 1 .. n
      BY <2>6
    <3> QED
      BY <1>13, <3>1
  <2>7. ASSUME NEW j \in 1 .. n + 1
        PROVE  (/\ stack[Len(given) + 2 * j - 1] = TableAt(at2[j])
                /\ from2[at2[j]] = walking[j]
                /\ done[j] <= Len(content[walking[j]])
                /\ j < Len(walking) \/ pc # "field" =>
                     done[j] < Len(content[walking[j]]) /\ stack[Len(given) + 2 * j] = Current(j).name
                /\ j < Len(walking) => Current(j).value = walking[j + 1])'
    BY <1>3, <1>4, <1>8, <2>5, <2>6 DEF TableAt
  <2>8. at2 \in [1 .. Len(walking') -> DOMAIN tables']
    BY <1>8, <1>9, <2>1
  <2> QED
    BY <1>4, <1>8, <2>2, <2>4, <2>7, <2>8 DEF Levels
<1>15. Tabled(from2, at2)'
  <2>1. from2 \in [1 .. m + 1 -> Objects]
    BY <1>10, <1>11
  <2>2. ASSUME NEW i \in 1 .. m, NEW q, Filled(i, q, from) PROVE Filled(i, q, from2)'
    <3>1. /\ content' = content /\ DOMAIN tables \subseteq DOMAIN tables' /\ i \in DOMAIN tables
          /\ \A k \in DOMAIN tables : from2[k] = from[k]
          /\ tables'[i] = tables[i]
      BY <1>2, <1>4, <1>9, <1>11
    <3> QED
      BY <2>2, <3>1, FilledKept
  <2>3. Filled(m + 1, 0, from2)'
    <3>1. DOMAIN tables'[m + 1] = {}
      BY <1>9 DEF NoFields
    <3> QED
      BY <3>1 DEF Filled
  <2>4. ASSUME NEW j \in 1 .. n + 1 PROVE Filled(at2[j], done[j], from2)'
    <3>1. CASE j = n + 1
      BY <1>8, <1>11, <2>3, <3>1
    <3>2. CASE j \in 1 .. n
      <4>1. PICK i, q : i \in 1 .. m /\ i = at[j] /\ q = done[j] /\ q = done'[j] /\ i = at2[j]
        BY <1>8, <1>11, <3>2
      <4>2. Filled(i, q, from)
        BY <1>3, <1>5, <3>2, <4>1 DEF Tabled
      <4>3. Filled(i, q, from2)'
        BY <2>2, <4>1, <4>2
      <4> QED
        BY <4>1, <4>3
    <3> QED
      BY <1>12, <3>1, <3>2
  <2>5. ASSUME NEW i \in 1 .. m + 1, \A j \in 1 .. n + 1 : at2[j] # i
        PROVE  Filled(i, Len(content[from2[i]]), from2)'
    <3>1. i \in 1 .. m
      BY <1>11, <2>5
    <3>2. \A j \in 1 .. n : at[j] # i
      BY <1>11, <2>5
    <3>3. PICK q : q = Len(content[from[i]]) /\ q = Len(content'[from2[i]])
      BY <1>4, <1>11, <3>1
    <3>4. Filled(i, q, from)
      BY <1>2, <1>3, <1>5, <3>1, <3>2, <3>3 DEF Tabled
    <3>5. Filled(i, q, from2)'
      BY <2>2, <3>1, <3>4
    <3> QED
      BY <3>3, <3>5
  <2> QED
    BY <1>8, <1>9, <2>1, <2>4, <2>5 DEF Tabled
<1>16. Progress(from2)'
  <2>1. \A j \in 1 .. L : stack'[j] = given[j]
    <3>1. \A j \in 1 .. L : j \in 1 .. L + 2 * n
      OBVIOUS
    <3> QED
      BY <1>3, <1>4, <1>5, <1>7, <3>1 DEF Progress
  <2>2. Len(stack') = L + 2 * (n + 1) - 1
    BY <1>7
  <2> QED
    BY <1>3, <1>4, <1>8, <2>1, <2>2 DEF Progress
<1> QED
  BY <1>4, <1>14, <1>15, <1>16 DEF Clean

\* Only the root may be valueless.
LEMMA FieldsHaveValues ==
  ASSUME IInv, NEW from, NEW at, Levels(from, at), pc # "field", walking # <<>>
  PROVE  Due # Valueless
<1>1. PICK n \in Nat : n = Len(walking)
  BY Lengths DEF IInv
<1>2. n \in 1 .. n /\ walking[n] \in Objects /\ done[n] \in Nat
  BY <1>1, Lengths DEF IInv
<1>3. done[n] < Len(content[walking[n]]) /\ Due = content[walking[n]][done[n] + 1].value
  BY <1>1, <1>2 DEF Levels, Due, Current
<1>4. content[walking[n]] \in Seq([name : Names, value : Variables])
  BY <1>2, PushAssumption DEF IInv, Typed
<1>5. done[n] + 1 \in 1 .. Len(content[walking[n]])
  BY <1>2, <1>3, <1>4, LenProperties
<1>6. content[walking[n]][done[n] + 1] \in [name : Names, value : Variables]
  BY <1>4, <1>5, ElementOfSeq
<1> QED
  BY <1>3, <1>6, PushAssumption

\* The field is set in the table of the innermost object.
LEMMA SetFieldRight ==
  ASSUME IInv, SetField, Clean PROVE Clean'
<1>1. PICK L \in Nat, n \in Nat : L = Len(given) /\ n = Len(walking)
  BY Lengths DEF IInv
<1>2. /\ pc = "pushed" /\ pc' = "field" /\ n >= 1 /\ walking # <<>> /\ Len(done) = n /\ done \in Seq(Nat)
      /\ stack' = SubSeq(stack, 1, Len(stack) - 2)
      /\ done' = [done EXCEPT ![n] = done[n] + 1]
      /\ UNCHANGED <<content, root, given, walking>>
  BY <1>1, Lengths DEF SetField, At, Fixed, Back, IInv, Typed
<1>3. PICK from, at : Levels(from, at) /\ Tabled(from, at) /\ Progress(from)
  BY DEF Clean
<1>0. Due # Valueless
  BY <1>2, <1>3, FieldsHaveValues
<1>4. PICK i, q, c, k, x :
         i = at[n] /\ q = done[n] /\ c = content[walking[n]] /\ k = Current(n).name /\ x = Top
  OBVIOUS
<1>5. /\ i \in DOMAIN tables /\ at \in [1 .. n -> DOMAIN tables] /\ from \in [DOMAIN tables -> Objects]
      /\ stack[L + 2 * n - 1] = TableAt(i) /\ stack[L + 2 * n] = k
      /\ from[i] = walking[n] /\ q < Len(c)
      /\ Len(stack) = L + 2 * n + 1 /\ Looks(x, Due, from)
  <2>1. n \in 1 .. n
    BY <1>2
  <2> QED
    BY <1>0, <1>1, <1>2, <1>3, <1>4, <2>1 DEF Levels, Tabled, Progress
<1>6. Due = c[q + 1].value /\ k = c[q + 1].name
  BY <1>1, <1>2, <1>4 DEF Due, Current
<1>7. q \in Nat /\ q + 1 \in 1 .. Len(c)
  <2>1. n \in 1 .. n /\ walking[n] \in Objects
    BY <1>1, <1>2, Lengths DEF IInv
  <2>2. q \in Nat
    BY <1>2, <1>4, <2>1, ElementOfSeq
  <2>3. Len(c) \in Nat
    BY <1>4, <2>1, PushAssumption, LenProperties DEF IInv, Typed
  <2> QED
    BY <1>5, <2>2, <2>3
<1>8. Target = TableAt(i) /\ Key = k
  <2>1. Len(stack) - 2 = L + 2 * n - 1 /\ Len(stack) - 1 = L + 2 * n
    BY <1>5
  <2> QED
    BY <1>5, <2>1 DEF Target, Key
<1>9. DOMAIN tables' = DOMAIN tables /\ old' = old /\ tables' = [tables EXCEPT ![i] = With(tables[i], k, x)]
  <2>1. TableAt(i) # Old
    <3>1. PICK S : tables \in Seq(S)
      BY DEF IInv, Typed
    <3>2. TableAt(i) \in [table : Nat]
      BY <1>5, <3>1, LenProperties DEF TableAt
    <3> QED
      BY <3>2, PushAssumption
  <2>2. \A j : TableAt(j) = TableAt(i) => j = i
    BY DEF TableAt
  <2> QED
    BY <1>4, <1>8, <2>1, <2>2, FieldSet
<1>10. tables'[i] = With(tables[i], k, x) /\ \A j \in DOMAIN tables : j # i => tables'[j] = tables[j]
  BY <1>5, <1>9
<1>11. done'[n] = q + 1 /\ \A j \in 1 .. n : j < n => done'[j] = done[j]
  <2>1. n \in 1 .. Len(done) /\ DOMAIN done = 1 .. Len(done)
    BY <1>2, LenProperties
  <2> QED
    BY <1>2, <1>4, <2>1
<1>12. Len(stack') = L + 2 * n - 1 /\ \A j \in 1 .. L + 2 * n - 1 : stack'[j] = stack[j]
  <2>1. stack \in Seq(Spots) /\ 2 <= Len(stack) /\ Len(stack) - 2 = L + 2 * n - 1
    BY <1>2, <1>5 DEF IInv, Typed
  <2>2. /\ Len(SubSeq(stack, 1, Len(stack) - 2)) = Len(stack) - 2
        /\ \A j \in 1 .. Len(stack) - 2 : SubSeq(stack, 1, Len(stack) - 2)[j] = stack[j]
    BY <2>1, Popping
  <2> QED
    BY <1>2, <2>1, <2>2
<1>13. \A j \in 1 .. n : j < n \/ j = n
  OBVIOUS
<1>14. ASSUME NEW j \in 1 .. n
       PROVE  (/\ stack[Len(given) + 2 * j - 1] = TableAt(at[j])
               /\ from[at[j]] = walking[j]
               /\ done[j] <= Len(content[walking[j]])
               /\ j < Len(walking) \/ pc # "field" =>
                    done[j] < Len(content[walking[j]]) /\ stack[Len(given) + 2 * j] = Current(j).name
               /\ j < Len(walking) => Current(j).value = walking[j + 1])'
  <2>1. L + 2 * j - 1 \in 1 .. L + 2 * n - 1
    OBVIOUS
  <2>2. CASE j < n
    <3>1. L + 2 * j \in 1 .. L + 2 * n - 1
      BY <2>2
    <3>2. Current(j)' = Current(j)
      BY <1>2, <1>11, <2>2 DEF Current
    <3>3. /\ stack[L + 2 * j - 1] = TableAt(at[j])
          /\ from[at[j]] = walking[j]
          /\ done[j] <= Len(content[walking[j]])
          /\ done[j] < Len(content[walking[j]]) /\ stack[L + 2 * j] = Current(j).name
          /\ Current(j).value = walking[j + 1]
      BY <1>1, <1>3, <2>2 DEF Levels
    <3> QED
      BY <1>1, <1>2, <1>11, <1>12, <2>1, <2>2, <3>1, <3>2, <3>3 DEF TableAt
  <2>3. CASE j = n
    <3>1. q + 1 <= Len(c)
      BY <1>7
    <3> QED
      BY <1>1, <1>2, <1>4, <1>5, <1>11, <1>12, <2>1, <2>3, <3>1 DEF TableAt
  <2> QED
    BY <1>13, <2>2, <2>3
<1>15. Levels(from, at)'
  BY <1>1, <1>2, <1>3, <1>9, <1>14 DEF Levels
<1>16. ASSUME NEW j \in DOMAIN tables, j # i, NEW p, Filled(j, p, from) PROVE Filled(j, p, from)'
  BY <1>2, <1>9, <1>10, <1>16, FilledKept
<1>17. Filled(i, q + 1, from)'
  <2>1. n \in 1 .. n
    BY <1>2
  <2>2. Filled(i, q, from) /\ from[i] \in Objects /\ c = content[from[i]]
    BY <1>1, <1>3, <1>4, <1>5, <2>1 DEF Tabled
  <2> QED
    BY <1>2, <1>5, <1>6, <1>7, <1>9, <1>10, <2>2, FilledMore
<1>18. Tabled(from, at)'
  <2>1. ASSUME NEW j \in 1 .. n PROVE Filled(at[j], done[j], from)'
    <3>1. CASE j = n
      BY <1>4, <1>11, <1>17, <3>1
    <3>2. CASE j < n
      <4>1. PICK l, p : l = at[j] /\ p = done[j] /\ p = done'[j] /\ l \in DOMAIN tables
        BY <1>5, <1>11, <3>2
      <4>2. n \in 1 .. n /\ j # n
        BY <3>2
      <4>3. l # i
        BY <1>1, <1>3, <1>4, <4>1, <4>2 DEF Levels
      <4>4. Filled(l, p, from)
        BY <1>1, <1>3, <4>1 DEF Tabled
      <4>5. Filled(l, p, from)'
        BY <1>16, <4>1, <4>3, <4>4
      <4> QED
        BY <4>1, <4>5
    <3> QED
      BY <1>13, <3>1, <3>2
  <2>2. ASSUME NEW j \in DOMAIN tables, \A l \in 1 .. n : at[l] # j
        PROVE  Filled(j, Len(content[from[j]]), from)'
    <3>1. j # i
      BY <1>2, <1>4, <2>2
    <3>2. PICK p : p = Len(content[from[j]])
      OBVIOUS
    <3>3. Filled(j, p, from)
      BY <1>1, <1>3, <2>2, <3>2 DEF Tabled
    <3>4. Filled(j, p, from)'
      BY <1>16, <3>1, <3>3
    <3> QED
      BY <1>2, <3>2, <3>4
  <2> QED
    BY <1>1, <1>2, <1>5, <1>9, <2>1, <2>2 DEF Tabled
<1>19. Progress(from)'
  <2>1. \A j \in 1 .. L : stack'[j] = given[j]
    <3>1. \A j \in 1 .. L : j \in 1 .. L + 2 * n - 1
      BY <1>2
    <3> QED
      BY <1>1, <1>2, <1>3, <1>12, <3>1 DEF Progress
  <2> QED
    BY <1>1, <1>2, <1>12, <2>1 DEF Progress
<1> QED
  BY <1>9, <1>15, <1>18, <1>19 DEF Clean

\* A table that has all its fields is on top of the stack.
LEMMA EndObjectClean == ASSUME IInv, Clean, EndObject PROVE Clean'
<1>1. PICK L \in Nat, n \in Nat : L = Len(given) /\ n = Len(walking)
  BY Lengths DEF IInv
<1>2. PICK from, at : Levels(from, at) /\ Tabled(from, at) /\ Progress(from)
  BY DEF Clean
<1>3. /\ pc = "field" /\ pc' = "pushed" /\ ~FieldsLeft /\ walking # <<>> /\ n >= 1 /\ n \in 1 .. n
      /\ walking' = SubSeq(walking, 1, Len(walking) - 1)
      /\ done' = SubSeq(done, 1, Len(done) - 1)
      /\ UNCHANGED <<content, root, given, stack, tables, old>>
  BY <1>1, <1>2, Lengths DEF EndObject, At, Fixed, Front, IInv, Progress
<1>0. PICK m \in Nat : m = n - 1
  BY <1>3
<1>4. PICK o, i : m = n - 1 /\ o = walking[n] /\ i = at[n]
  BY <1>0
<1>5. /\ Len(walking') = m /\ \A j \in 1 .. m : walking'[j] = walking[j]
      /\ \A j \in 1 .. m : done'[j] = done[j]
      /\ walking' = <<>> <=> m = 0
  <2>1. walking \in Seq(Objects) /\ done \in Seq(Nat) /\ Len(done) = n /\ 1 \in Nat /\ 1 <= n
    BY <1>1, <1>3 DEF IInv, Typed
  <2>2. /\ SubSeq(walking, 1, Len(walking) - 1) \in Seq(Objects)
        /\ Len(SubSeq(walking, 1, Len(walking) - 1)) = Len(walking) - 1
        /\ \A j \in 1 .. Len(walking) - 1 : SubSeq(walking, 1, Len(walking) - 1)[j] = walking[j]
    BY <1>1, <2>1, Popping
  <2>3. \A j \in 1 .. Len(done) - 1 : SubSeq(done, 1, Len(done) - 1)[j] = done[j]
    BY <2>1, Popping
  <2> QED
    BY <1>1, <1>3, <1>4, <2>1, <2>2, <2>3, EmptySeq
<1>6. /\ at \in [1 .. n -> DOMAIN tables] /\ from \in [DOMAIN tables -> Objects]
      /\ stack[L + 2 * n - 1] = TableAt(i) /\ from[i] = o /\ i \in DOMAIN tables /\ o \in Objects
      /\ done[n] <= Len(content[o])
      /\ Len(stack) = L + 2 * m + 1
  BY SMTT(30), <1>1, <1>2, <1>3, <1>4, Lengths DEF Levels, Tabled, Progress, IInv
<1>7. done[n] = Len(content[o])
  <2>1. Last(walking) = o /\ Last(done) = done[n] /\ done[n] \in Nat
    BY <1>1, <1>3, <1>4, Lengths DEF IInv
  <2>2. Len(content[o]) \in Nat
    BY <1>6, PushAssumption, LenProperties DEF IInv, Typed
  <2> QED
    BY <1>3, <1>6, <2>1, <2>2 DEF FieldsLeft
<1>8. PICK at2 : at2 = [j \in 1 .. m |-> at[j]]
  OBVIOUS
<1>9. ASSUME NEW j \in 1 .. m
      PROVE  /\ j \in 1 .. n /\ j < n /\ at2[j] = at[j]
             /\ Current(j)' = Current(j)
             /\ stack[L + 2 * j - 1] = TableAt(at[j])
             /\ from[at[j]] = walking[j]
             /\ done[j] <= Len(content[walking[j]])
             /\ done[j] < Len(content[walking[j]]) /\ stack[L + 2 * j] = Current(j).name
             /\ Current(j).value = walking[j + 1]
  <2>1. j \in 1 .. n /\ j < n /\ at2[j] = at[j]
    BY <1>4, <1>8
  <2>2. Current(j)' = Current(j)
    BY <1>3, <1>5 DEF Current
  <2> QED
    BY <1>1, <1>2, <2>1, <2>2 DEF Levels
<1>10. Levels(from, at2)'
  <2>1. at2 \in [1 .. m -> DOMAIN tables]
    BY <1>6, <1>8, <1>9
  <2>2. \A j, l \in 1 .. m : at2[j] = at2[l] => j = l
    <3>1. \A j, l \in 1 .. n : at[j] = at[l] => j = l
      BY <1>1, <1>2 DEF Levels
    <3> QED
      BY SMTT(30), <1>9, <3>1
  <2>3. ASSUME NEW j \in 1 .. m
        PROVE  (/\ stack[Len(given) + 2 * j - 1] = TableAt(at2[j])
                /\ from[at2[j]] = walking[j]
                /\ done[j] <= Len(content[walking[j]])
                /\ j < Len(walking) \/ pc # "field" =>
                     done[j] < Len(content[walking[j]]) /\ stack[Len(given) + 2 * j] = Current(j).name
                /\ j < Len(walking) => Current(j).value = walking[j + 1])'
    <3>1. j < m => j + 1 \in 1 .. m
      OBVIOUS
    <3> QED
      BY ZenonT(40), <1>1, <1>3, <1>5, <1>9, <3>1 DEF TableAt
  <2>4. m # 0 => walking'[1] = root
    BY <1>1, <1>2, <1>3, <1>5 DEF Levels
  <2> QED
    BY <1>3, <1>5, <2>1, <2>2, <2>3, <2>4 DEF Levels
<1>11. Tabled(from, at2)'
  <2>1. \A j, q : Filled(j, q, from)' <=> Filled(j, q, from)
    BY <1>3 DEF Filled, Looks, TableAt
  <2>2. ASSUME NEW j \in 1 .. m PROVE Filled(at2[j], done[j], from)'
    <3>1. Filled(at[j], done[j], from)
      BY <1>1, <1>2, <1>9 DEF Tabled
    <3> QED
      BY <1>5, <1>9, <2>1, <3>1
  <2>3. ASSUME NEW j \in DOMAIN tables, \A l \in 1 .. m : at2[l] # j
        PROVE  Filled(j, Len(content[from[j]]), from)
    <3>1. CASE j = i
      BY <1>1, <1>2, <1>3, <1>4, <1>6, <1>7, <3>1 DEF Tabled
    <3>2. CASE j # i
      <4>1. \A l \in 1 .. n : l \in 1 .. m \/ l = n
        BY <1>4
      <4>2. \A l \in 1 .. n : at[l] # j
        BY <1>4, <1>9, <2>3, <3>2, <4>1
      <4> QED
        BY <1>1, <1>2, <4>2 DEF Tabled
    <3> QED
      BY <3>1, <3>2
  <2>4. ASSUME NEW j \in DOMAIN tables, \A l \in 1 .. m : at2[l] # j
        PROVE  Filled(j, Len(content[from[j]]), from)'
    <3>1. PICK q : q = Len(content[from[j]])
      OBVIOUS
    <3>2. Filled(j, q, from)'
      BY <2>1, <2>3, <2>4, <3>1
    <3> QED
      BY <1>3, <3>1, <3>2
  <2> QED
    BY <1>3, <1>5, <1>6, <2>2, <2>4 DEF Tabled
<1>12. Progress(from)'
  <2>1. Due' = o
    <3>1. CASE m = 0
      <4>1. n = 1 /\ walking[1] = root
        BY <1>2, <1>3, <1>4, <3>1 DEF Levels
      <4> QED
        BY <1>3, <1>4, <1>5, <3>1, <4>1 DEF Due
    <3>2. CASE m # 0
      <4>1. m \in 1 .. m /\ m + 1 = n
        BY <1>4, <3>2
      <4>2. Current(m)' = Current(m) /\ Current(m).value = o
        BY <1>4, <1>9, <4>1
      <4>3. Due' = (Current(m).value)'
        BY <1>5, <3>2 DEF Due
      <4> QED
        BY <4>2, <4>3
    <3> QED
      BY <3>1, <3>2
  <2>2. Top' = TableAt(i)
    <3>1. L + 2 * m + 1 = L + 2 * n - 1
      BY <1>4
    <3> QED
      BY <1>3, <1>6, <3>1 DEF Top
  <2>3. PICK x : x = TableAt(i)
    OBVIOUS
  <2>4. Looks(x, o, from)
    BY <1>6, <2>3 DEF Looks
  <2>5. Looks(x, o, from)'
    BY <1>3, <2>4, LooksKept
  <2>6. o # Valueless
    BY <1>6, PushAssumption DEF Variables
  <2>7. \A j \in 1 .. L : stack'[j] = given[j]
    BY <1>1, <1>2, <1>3 DEF Progress
  <2> QED
    BY <1>1, <1>3, <1>5, <1>6, <2>1, <2>2, <2>3, <2>5, <2>6, <2>7 DEF Progress
<1> QED
  BY <1>3, <1>10, <1>11, <1>12 DEF Clean

LEMMA StaysClean ==
  ASSUME Clean, UNCHANGED <<content, root, given, stack, tables, old, global, walking, done, val, pc>>
  PROVE  Clean'
<1>1. PICK from, at : Levels(from, at) /\ Tabled(from, at) /\ Progress(from)
  BY DEF Clean
<1>2. Levels(from, at)' /\ Tabled(from, at)'
  BY SMTT(30), <1>1, StillPushed DEF Levels
<1>3. Progress(from)'
  <2>1. Due' = Due /\ Top' = Top
    BY DEF Due, Current, Top
  <2>2. \A v, o : Looks(v, o, from)' <=> Looks(v, o, from)
    BY DEF Looks, TableAt
  <2> QED
    BY <1>1, <2>1, <2>2 DEF Progress
<1> QED
  BY <1>2, <1>3 DEF Clean

-----------------------------------------------------------------------------

\* At every moment each table that set has made looks like its object, as far as
\* that was walked, and no other table has been touched.
THEOREM PushedRight == Spec => []SInv
<1>1. ASSUME IInv, SInv, [Next]_vars PROVE SInv'
  <2>1. Sorted'
    BY <1>1, SortedNext DEF SInv
  <2>2. CASE [Overrun \/ SetGlobalFails]_vars
    <3>1. UNCHANGED <<content, root, given, stack, tables, old, global, walking, done, val, pc>>
      BY <2>2 DEF Overrun, SetGlobalFails, Fixed, vars
    <3> QED
      BY <1>1, <2>1, <3>1, StaysClean DEF SInv
  <2>3. CASE PushScalar \/ PushNothing \/ PushObject \/ NextField \/ SetField \/ EndObject \/ SetGlobal
    BY <1>1, <2>1, <2>3, PushScalarClean, PushNothingClean, PushObjectClean, NextFieldClean,
       SetFieldRight, EndObjectClean, SetGlobalClean DEF SInv
  <2> QED
    BY <1>1, <2>2, <2>3 DEF Next
<1> QED
  BY <1>1, InitiallyClean, Invariant, PTL DEF Spec

\* The variables of iLua::set keep their types; no value is pushed beyond what Lua
\* has guaranteed, and no table holds a nil.
THEOREM TypeCorrect == Spec => []TypeOK
<1>1. IInv /\ SInv => TypeOK
  BY DEF IInv, Typed, SInv, Sorted, TypeOK
<1> QED
  BY <1>1, Invariant, PushedRight, PTL

\* lua_settable (iLua.cpp:60) always finds the table that set has made two places
\* below the top: a table of a script is never changed.
THEOREM OldTables == Spec => []OldTableKept
<1>1. IInv /\ SInv => OldTableKept
  <2>1. SUFFICES ASSUME IInv, SInv, pc = "pushed", walking # <<>>
                 PROVE  Len(stack) > 2 /\ Target \in Made
    BY DEF OldTableKept, SInv, Clean
  <2>2. PICK from, at : Levels(from, at) /\ Tabled(from, at) /\ Progress(from)
    BY <2>1 DEF SInv, Clean
  <2>3. PICK L \in Nat, n \in Nat : L = Len(given) /\ n = Len(walking)
    BY <2>1, Lengths DEF IInv
  <2>4. Due # Valueless
    BY <2>1, <2>2, FieldsHaveValues
  <2>5. Len(stack) = L + 2 * n + 1 /\ n >= 1 /\ n \in 1 .. n
    BY <2>1, <2>2, <2>3, <2>4, Lengths DEF Progress, IInv
  <2>6. stack[L + 2 * n - 1] = TableAt(at[n]) /\ at[n] \in DOMAIN tables
    BY <2>2, <2>3, <2>5 DEF Levels
  <2>7. Len(stack) - 2 = L + 2 * n - 1 /\ Len(stack) > 2
    BY <2>5
  <2> QED
    BY <2>6, <2>7 DEF Target, Made
<1> QED
  BY <1>1, Invariant, PushedRight, PTL

\* set gives the global a table that looks like the object, with a table for each
\* time that an object in it is met, and leaves the stack as it was.
THEOREM ConvertedRight == Spec => []Converted
<1>1. IInv /\ SInv => Converted
  <2>1. SUFFICES ASSUME IInv, SInv, pc = "end", root # Valueless
                 PROVE  /\ stack = given
                        /\ \E from \in [DOMAIN tables -> Objects] :
                             /\ Looks(global, root, from)
                             /\ \A i \in DOMAIN tables : TableLooks(i, from)
    BY DEF Converted
  <2>2. PICK from, at : Levels(from, at) /\ Tabled(from, at) /\ Progress(from)
    BY <2>1 DEF SInv, Clean
  <2>3. /\ stack = given /\ Looks(global, root, from) /\ from \in [DOMAIN tables -> Objects]
        /\ \A i \in DOMAIN tables : Filled(i, Len(content[from[i]]), from)
    BY <2>1, <2>2, Lengths DEF Progress, Tabled, IInv
  <2>4. ASSUME NEW i \in DOMAIN tables PROVE TableLooks(i, from)
    <3>1. PICK c : c = content[from[i]] /\ c \in Seq([name : Names, value : Variables])
      BY <2>1, <2>3, PushAssumption DEF IInv, Typed
    <3>2. DOMAIN c = 1 .. Len(c)
      BY <3>1, LenProperties
    <3>3. /\ DOMAIN tables[i] = {c[k].name : k \in {l \in 1 .. Len(c) : c[l].value # Nil}}
          /\ \A k \in 1 .. Len(c) : c[k].value # Nil => Looks(tables[i][c[k].name], c[k].value, from)
      BY <2>3, <3>1 DEF Filled
    <3>4. PICK entries : entries = {e \in Entries(from[i]) : e.value # Nil}
      OBVIOUS
    <3>5. /\ \A e \in entries : \E k \in 1 .. Len(c) : e = c[k] /\ c[k].value # Nil
          /\ \A k \in 1 .. Len(c) : c[k].value # Nil => c[k] \in entries
      BY <3>1, <3>2, <3>4 DEF Entries
    <3>6. DOMAIN tables[i] = {e.name : e \in entries}
      BY <3>3, <3>5
    <3>7. \A e \in entries : Looks(tables[i][e.name], e.value, from)
      BY <3>3, <3>5
    <3> QED
      BY <3>4, <3>6, <3>7 DEF TableLooks
  <2> QED
    BY <2>3, <2>4
<1> QED
  BY <1>1, Invariant, PushedRight, PTL
=============================================================================
