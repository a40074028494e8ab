--------------------------- MODULE JsBridgeProofs ---------------------------
(***************************************************************************)
(* What js_callback hands to the host, proved for any number of arguments  *)
(* and any values.                                                         *)
(*                                                                         *)
(* While the loop runs, either all it has read was popped, and the frame   *)
(* is what is left of the arguments (Clean), or it met a value that stays  *)
(* and reads that value, or its enumerator, for ever (Stuck).  What was    *)
(* before that value is still on the frame.                                *)
(***************************************************************************)
EXTENDS JsBridge, SequenceTheorems, TLAPS

Clean ==
  /\ Len(frame) = Len(given) - Len(args)
  /\ \A j \in 1 .. Len(frame) : frame[j] = given[j]
  /\ \A j \in Len(frame) + 1 .. Len(given) : given[j] \in Popping
  /\ \A j \in 1 .. Len(args) : args[j] = Reading(given[Len(given) + 1 - j])

\* What stays on top of the frame for a value that is not popped.
Left(x) == IF x = Undefined THEN Undefined ELSE Enumerator(x)

Stuck(p) ==
  /\ LastStaying(p)
  /\ Len(args) <= Len(given)
  /\ frame # <<>>
  /\ frame[Len(frame)] = Left(given[p])
  /\ \A j \in 1 .. Len(args) :
       args[j] = IF Len(given) + 1 - j < p THEN Echo(given[p])
                                           ELSE Reading(given[Len(given) + 1 - j])
  /\ Len(given) + 1 - p <= Len(args)
  /\ Len(frame) >= p /\ Len(frame) <= 2 * p + Len(args) - Len(given)
  /\ \A j \in 1 .. p : frame[j] = given[j]
  /\ \A j \in p + 1 .. Len(frame) : frame[j] \in Enumerators

Loop == pc = "reading" => Clean \/ \E p \in 1 .. Len(given) : Stuck(p)

IInv == TypeOK /\ Loop /\ ArgumentsReceived /\ TextsDangle

-----------------------------------------------------------------------------

\* Appending an element.
LEMMA Appended ==
  ASSUME NEW S, NEW s \in Seq(S), NEW x \in S
  PROVE  /\ Append(s, x) \in Seq(S)
         /\ Append(s, x) # <<>>
         /\ Len(Append(s, x)) = Len(s) + 1
         /\ Append(s, x)[Len(s) + 1] = x
         /\ \A j \in 1 .. Len(s) : Append(s, x)[j] = s[j]
<1>1. /\ Len(s) \in Nat /\ Append(s, x) \in Seq(S)
      /\ Len(Append(s, x)) = Len(s) + 1
      /\ \A j \in 1 .. Len(s) : Append(s, x)[j] = s[j]
      /\ Append(s, x)[Len(s) + 1] = x
  BY AppendProperties, LenProperties
<1> QED
  BY <1>1, EmptySeq

\* Taking the last element off.
LEMMA Fronted ==
  ASSUME NEW S, NEW s \in Seq(S), s # <<>>
  PROVE  /\ Len(s) \in Nat \ {0}
         /\ Last(s) = s[Len(s)] /\ Last(s) \in S
         /\ Front(s) \in Seq(S)
         /\ Len(Front(s)) = Len(s) - 1
         /\ \A j \in 1 .. Len(s) - 1 : Front(s)[j] = s[j]
<1>1. Len(s) \in Nat /\ Len(s) >= 1
  BY LenProperties, EmptySeq
<1>2. PICK n \in Nat : n = Len(s) - 1
  BY <1>1
<1>3. \A k \in 1 .. n : s[k] \in S
  BY <1>1, <1>2, ElementOfSeq
<1>4. /\ SubSeq(s, 1, n) \in Seq(S)
      /\ Len(SubSeq(s, 1, n)) = IF 1 <= n THEN n - 1 + 1 ELSE 0
      /\ \A k \in 1 .. n - 1 + 1 : SubSeq(s, 1, n)[k] = s[1 + k - 1]
  BY <1>3, SubSeqProperties
<1>5. Len(SubSeq(s, 1, n)) = n /\ \A k \in 1 .. n : SubSeq(s, 1, n)[k] = s[k]
  BY <1>4
<1>6. Last(s) = s[Len(s)] /\ Last(s) \in S
  BY <1>1, ElementOfSeq DEF Last
<1>7. Front(s) = SubSeq(s, 1, n)
  BY <1>2 DEF Front
<1> QED
  BY <1>1, <1>2, <1>4, <1>5, <1>6, <1>7

\* Reversing a sequence.
LEMMA Reversed ==
  ASSUME NEW S, NEW s \in Seq(S)
  PROVE  /\ Reverse(s) \in Seq(S)
         /\ Len(Reverse(s)) = Len(s)
         /\ \A j \in 1 .. Len(s) : Reverse(s)[j] = s[(Len(s) - j) + 1]
<1>1. Len(s) \in Nat
  BY LenProperties
<1>2. \A j \in 1 .. Len(s) : s[(Len(s) - j) + 1] \in S
  BY <1>1, ElementOfSeq
<1>3. Reverse(s) = [j \in 1 .. Len(s) |-> s[(Len(s) - j) + 1]]
  BY DEF Reverse
<1>4. Reverse(s) \in [1 .. Len(s) -> S]
  BY <1>2, <1>3
<1>5. Reverse(s) \in Seq(S)
  BY <1>1, <1>4, SeqDef
<1>6. Len(Reverse(s)) = Len(s)
  BY <1>1, <1>4, <1>5, LenProperties
<1> QED
  BY <1>3, <1>5, <1>6

-----------------------------------------------------------------------------

\* What the host reads is a value of the host.
LEMMA ReadingsTyped ==
  /\ \A x \in Values : Reading(x) \in Readings
  /\ \A x \in Staying : Echo(x) \in Readings
  /\ Nil \in Readings
BY JsAssumption DEF Reading, Echo, Readings, Scalars, Values, Staying, Enumerable

\* Every value is popped, stays or is nested, and no enumerator is a value.
LEMMA Kinds ==
  /\ Values = Popping \cup Staying \cup Nested
  /\ Popping \cap Staying = {} /\ Popping \cap Nested = {} /\ Staying \cap Nested = {}
  /\ \A o \in Enumerable : Enumerator(o) \in Enumerators /\ Enumerator(o) \notin Values
  /\ \A o, x \in Enumerable : Enumerator(o) = Enumerator(x) => o = x
  /\ Undefined \in Staying /\ Undefined \notin Enumerable
  /\ Staying = Enumerable \cup {Undefined}
<1>1. \A o \in Enumerable : Enumerator(o) \in Enumerators
  BY DEF Enumerators, Enumerable
<1>2. \A o, x : Enumerator(o) = Enumerator(x) => o = x
  BY DEF Enumerator
<1> QED
  BY <1>1, <1>2, JsAssumption DEF Values, Popping, Staying, Enumerable

\* The two states of the loop, between steps: a frame that is what is left of
\* the arguments has their next one on top, and a stuck one the value it is
\* stuck at, or its enumerator.
LEMMA TopOfFrame ==
  ASSUME TypeOK, Loop, MoreToRead
  PROVE  /\ Len(given) \in Nat /\ Len(args) \in Nat /\ Len(args) < Len(given)
         /\ frame # <<>> /\ Len(frame) \in Nat \ {0} /\ Last(frame) = frame[Len(frame)]
         /\ Clean => /\ Len(frame) = Len(given) - Len(args)
                     /\ Last(frame) = given[Len(given) - Len(args)]
                     /\ Last(frame) \in Values
         /\ \A p \in 1 .. Len(given) :
              Stuck(p) => Last(frame) = Left(given[p]) /\ given[p] \in Staying
<1>1. /\ Len(given) \in Nat /\ Len(args) \in Nat /\ Len(frame) \in Nat
      /\ Len(args) < Len(given)
  BY LenProperties DEF TypeOK, MoreToRead
<1>2. Clean \/ \E p \in 1 .. Len(given) : Stuck(p)
  BY DEF Loop, MoreToRead
<1>3. frame # <<>>
  <2>1. CASE Clean
    <3>1. Len(frame) # 0
      BY <1>1, <2>1 DEF Clean
    <3> QED
      BY <3>1, EmptySeq
  <2>2. CASE \E p \in 1 .. Len(given) : Stuck(p)
    BY <2>2 DEF Stuck
  <2> QED
    BY <1>2, <2>1, <2>2
<1>4. Len(frame) \in Nat \ {0} /\ Last(frame) = frame[Len(frame)]
  BY <1>3, Fronted DEF TypeOK
<1>5. ASSUME Clean
      PROVE  /\ Len(frame) = Len(given) - Len(args)
             /\ Last(frame) = given[Len(given) - Len(args)]
             /\ Last(frame) \in Values
  <2>1. Len(frame) = Len(given) - Len(args) /\ Last(frame) = given[Len(frame)]
    BY <1>4, <1>5 DEF Clean
  <2>2. Len(frame) \in 1 .. Len(given)
    BY <1>1, <1>4, <2>1
  <2>3. given[Len(frame)] \in Values
    BY <2>2, ElementOfSeq DEF TypeOK
  <2> QED
    BY <2>1, <2>3
<1>6. ASSUME NEW p \in 1 .. Len(given), Stuck(p)
      PROVE  Last(frame) = Left(given[p]) /\ given[p] \in Staying
  <2>1. p # 0
    BY <1>1
  <2> QED
    BY <1>4, <1>6, <2>1 DEF Stuck, LastStaying
<1> QED
  BY <1>1, <1>3, <1>4, <1>5, <1>6

\* Reading one more value appends to args.
LEMMA OneMore ==
  ASSUME TypeOK, Loop, MoreToRead, NEW x \in Readings, args' = Append(args, x)
  PROVE  /\ args' \in Seq(Readings)
         /\ Len(args') = Len(args) + 1
         /\ args'[Len(args) + 1] = x
         /\ \A j \in 1 .. Len(args) : args'[j] = args[j]
BY Appended DEF TypeOK

\* The number of arguments left is the place of the next one.
LEMMA NextToRead ==
  ASSUME NEW n \in Nat, NEW k \in Nat, k < n
  PROVE  n - k \in 1 .. n
OBVIOUS

\* A round that pops nothing leaves an enumerator on the frame, or nothing.
Grown ==
  /\ \A j \in 1 .. Len(frame) : frame'[j] = frame[j]
  /\ \/ Len(frame') = Len(frame)
     \/ Len(frame') = Len(frame) + 1 /\ frame'[Len(frame')] \in Enumerators

\* From a frame that is what is left of the arguments, a value that stays makes
\* the loop stuck at it.
LEMMA BecomesStuck ==
  ASSUME TypeOK, Loop, MoreToRead, Clean,
         NEW p \in 1 .. Len(given), p = Len(given) - Len(args), given[p] \in Staying,
         args' = Append(args, Reading(given[p])), given' = given,
         frame' # <<>>, frame'[Len(frame')] = Left(given[p]), Grown
  PROVE  Stuck(p)'
<1>1. /\ Len(given) \in Nat /\ Len(args) \in Nat /\ Len(args) < Len(given)
      /\ Len(frame) = p
  BY TopOfFrame
<1>2. given[p] \in Values /\ Reading(given[p]) \in Readings
  BY ReadingsTyped, Kinds
<1>3. /\ Len(args') = Len(args) + 1
      /\ args'[Len(args) + 1] = Reading(given[p])
      /\ \A j \in 1 .. Len(args) : args'[j] = args[j]
  BY <1>2, OneMore
<1>4. LastStaying(p)
  BY <1>1 DEF Clean, LastStaying
<1>5. ASSUME NEW j \in 1 .. Len(args) + 1
      PROVE  ~(Len(given) + 1 - j < p) /\ args'[j] = Reading(given[Len(given) + 1 - j])
  <2>1. CASE j \in 1 .. Len(args)
    <3>1. ~(Len(given) + 1 - j < p)
      BY <1>1, <2>1
    <3> QED
      BY <1>3, <2>1, <3>1 DEF Clean
  <2>2. CASE j = Len(args) + 1
    <3>1. Len(given) + 1 - j = p
      BY SMTT(30), <1>1, <2>2
    <3> QED
      BY <1>1, <1>3, <2>2, <3>1
  <2> QED
    BY <1>1, <2>1, <2>2
<1>6. LastStaying(p)'
  BY <1>4 DEF LastStaying
<1>7. Len(args') <= Len(given) /\ Len(given) + 1 - p <= Len(args')
  BY <1>1, <1>3
<1>8. /\ Len(frame') >= p /\ Len(frame') <= 2 * p + Len(args') - Len(given)
      /\ \A j \in 1 .. p : frame'[j] = given[j]
      /\ \A j \in p + 1 .. Len(frame') : frame'[j] \in Enumerators
  <2>1. Len(frame') = p \/ (Len(frame') = p + 1 /\ frame'[Len(frame')] \in Enumerators)
    BY <1>1 DEF Grown
  <2>2. \A j \in 1 .. p : frame'[j] = given[j]
    BY <1>1 DEF Grown, Clean
  <2>3. \A j \in p + 1 .. Len(frame') : j = Len(frame') /\ Len(frame') = p + 1
    BY <1>1, <2>1
  <2>4. Len(frame') >= p /\ Len(frame') <= 2 * p + Len(args') - Len(given)
    BY <1>1, <1>3, <2>1
  <2> QED
    BY <2>1, <2>2, <2>3, <2>4
<1> QED
  BY <1>3, <1>5, <1>6, <1>7, <1>8 DEF Stuck

\* Where the loop is stuck it stays stuck.
LEMMA StaysStuck ==
  ASSUME TypeOK, Loop, MoreToRead, NEW p \in 1 .. Len(given), Stuck(p),
         args' = Append(args, Echo(given[p])), given' = given,
         frame' # <<>>, frame'[Len(frame')] = Left(given[p]), Grown
  PROVE  Stuck(p)'
<1>1. /\ Len(given) \in Nat /\ Len(args) \in Nat /\ Len(args) < Len(given)
      /\ given[p] \in Staying
  BY TopOfFrame
<1>2. /\ Len(args') = Len(args) + 1
      /\ args'[Len(args) + 1] = Echo(given[p])
      /\ \A j \in 1 .. Len(args) : args'[j] = args[j]
  BY <1>1, ReadingsTyped, OneMore
<1>3. Len(given) + 1 - p <= Len(args)
  BY DEF Stuck
<1>4. ASSUME NEW j \in 1 .. Len(args) + 1
      PROVE  args'[j] = IF Len(given) + 1 - j < p THEN Echo(given[p])
                                                  ELSE Reading(given[Len(given) + 1 - j])
  <2>1. CASE j \in 1 .. Len(args)
    BY <1>2, <2>1 DEF Stuck
  <2>2. CASE j = Len(args) + 1
    <3>1. Len(given) + 1 - j < p
      BY <1>1, <1>3, <2>2
    <3> QED
      BY <1>2, <2>2, <3>1
  <2> QED
    BY <1>1, <2>1, <2>2
<1>5. LastStaying(p)'
  BY DEF Stuck, LastStaying
<1>6. Len(args') <= Len(given) /\ Len(given) + 1 - p <= Len(args')
  BY <1>1, <1>2, <1>3
<1>7. /\ Len(frame') >= p /\ Len(frame') <= 2 * p + Len(args') - Len(given)
      /\ \A j \in 1 .. p : frame'[j] = given[j]
      /\ \A j \in p + 1 .. Len(frame') : frame'[j] \in Enumerators
  <2>1. /\ Len(frame) >= p /\ Len(frame) <= 2 * p + Len(args) - Len(given)
        /\ \A j \in 1 .. p : frame[j] = given[j]
        /\ \A j \in p + 1 .. Len(frame) : frame[j] \in Enumerators
        /\ Len(frame) \in Nat
    BY TopOfFrame DEF Stuck
  <2>2. \A j \in 1 .. p : frame'[j] = given[j]
    BY <2>1 DEF Grown
  <2>3. Len(frame') >= p /\ Len(frame') <= 2 * p + Len(args') - Len(given)
    BY <1>1, <1>2, <2>1 DEF Grown
  <2>4. ASSUME NEW j \in p + 1 .. Len(frame') PROVE frame'[j] \in Enumerators
    <3>1. CASE j \in 1 .. Len(frame)
      <4>1. j \in p + 1 .. Len(frame) /\ frame'[j] = frame[j]
        BY <2>1, <3>1 DEF Grown
      <4> QED
        BY <2>1, <4>1
    <3>2. CASE j \notin 1 .. Len(frame)
      <4>1. j = Len(frame) + 1 /\ Len(frame') = Len(frame) + 1
        BY <1>1, <2>1, <3>2 DEF Grown
      <4> QED
        BY <2>1, <4>1 DEF Grown
    <3> QED
      BY <3>1, <3>2
  <2> QED
    BY <2>2, <2>3, <2>4
<1> QED
  BY <1>2, <1>4, <1>5, <1>6, <1>7 DEF Stuck

-----------------------------------------------------------------------------

\* A value that is popped keeps the frame what is left of the arguments.
LEMMA PoppedStep ==
  ASSUME TypeOK, Loop, ReadPopped
  PROVE  TypeOK' /\ Loop'
<1> USE DEF ReadPopped
<1> DEFINE n == Len(given)
           k == Len(args)
<1>1. /\ n \in Nat /\ k \in Nat /\ k < n
      /\ frame # <<>> /\ Len(frame) \in Nat \ {0} /\ Last(frame) = frame[Len(frame)]
  BY TopOfFrame
<1>2. Clean
  <2>1. ASSUME NEW p \in 1 .. n, Stuck(p)
        PROVE  FALSE
    <3>1. Last(frame) = Left(given[p]) /\ given[p] \in Staying
      BY <2>1, TopOfFrame
    <3>2. Left(given[p]) \notin Popping
      BY <3>1, Kinds DEF Left
    <3> QED
      BY <3>1, <3>2
  <2> QED
    BY <2>1 DEF Loop, MoreToRead
<1>3. Len(frame) = n - k /\ Last(frame) = given[n - k] /\ Last(frame) \in Values
  BY <1>2, TopOfFrame
<1>4. /\ args' \in Seq(Readings) /\ Len(args') = k + 1
      /\ args'[k + 1] = Reading(given[n - k])
      /\ \A j \in 1 .. k : args'[j] = args[j]
  BY <1>3, OneMore, ReadingsTyped
<1>5. /\ frame' \in Seq(Values \cup Enumerators) /\ Len(frame') = n - k - 1
      /\ \A j \in 1 .. n - k - 1 : frame'[j] = frame[j]
  BY <1>1, <1>3, Fronted DEF TypeOK
<1>6. TypeOK'
  BY <1>4, <1>5 DEF TypeOK
<1>7. \A j \in 1 .. Len(frame') : frame'[j] = given[j]
  BY <1>1, <1>2, <1>3, <1>5 DEF Clean
<1>8. ASSUME NEW j \in Len(frame') + 1 .. n
      PROVE  given[j] \in Popping
  <2>1. j \in n - k .. n
    BY <1>1, <1>5
  <2>2. j = n - k \/ j \in n - k + 1 .. n
    BY <1>1, <2>1
  <2> QED
    BY <1>2, <1>3, <2>2 DEF Clean
<1>9. ASSUME NEW j \in 1 .. Len(args')
      PROVE  args'[j] = Reading(given[n + 1 - j])
  <2>1. CASE j \in 1 .. k
    BY <1>2, <1>4, <2>1 DEF Clean
  <2>2. CASE j = k + 1
    <3>1. n + 1 - j = n - k
      BY <1>1, <2>2
    <3> QED
      BY <1>4, <2>2, <3>1
  <2> QED
    BY <1>1, <1>4, <2>1, <2>2
<1>10. Len(frame') = n - Len(args')
  BY <1>1, <1>4, <1>5
<1>11. Clean'
  BY <1>7, <1>8, <1>9, <1>10 DEF Clean
<1> QED
  BY <1>6, <1>11 DEF Loop

\* A value that stays makes the loop stuck.
LEMMA UndefinedStep ==
  ASSUME TypeOK, Loop, ReadUndefined
  PROVE  TypeOK' /\ Loop'
<1> USE DEF ReadUndefined
<1>1. /\ Len(given) \in Nat /\ Len(args) \in Nat /\ Len(args) < Len(given)
      /\ frame # <<>> /\ Last(frame) = frame[Len(frame)]
  BY TopOfFrame
<1>2. TypeOK'
  BY OneMore, ReadingsTyped DEF TypeOK
<1>3. Reading(Undefined) = Nil /\ Echo(Undefined) = Nil /\ Left(Undefined) = Undefined
  BY JsAssumption DEF Reading, Echo, Left, Enumerable, Staying, Popping, Scalars
<1>g. Grown
  BY DEF Grown
<1>4. CASE Clean
  <2>1. PICK p \in 1 .. Len(given) : p = Len(given) - Len(args)
    BY <1>1, NextToRead
  <2>2. given[p] = Undefined
    BY <1>4, <2>1, TopOfFrame
  <2>3. Stuck(p)'
    BY <1>1, <1>3, <1>4, <1>g, <2>1, <2>2, BecomesStuck, Kinds
  <2> QED
    BY <1>2, <2>3 DEF Loop
<1>5. ASSUME NEW p \in 1 .. Len(given), Stuck(p)
      PROVE  Loop'
  <2>1. Left(given[p]) = Undefined /\ given[p] \in Staying
    BY <1>5, TopOfFrame
  <2>2. given[p] = Undefined
    BY <2>1, Kinds DEF Left, Values
  <2>3. Stuck(p)'
    BY <1>1, <1>3, <1>5, <1>g, <2>2, StaysStuck
  <2> QED
    BY <2>3 DEF Loop
<1> QED
  BY <1>2, <1>4, <1>5 DEF Loop, MoreToRead

\* An object makes the loop stuck at its enumerator.
LEMMA ObjectStep ==
  ASSUME TypeOK, Loop, ReadObject
  PROVE  TypeOK' /\ Loop'
<1> USE DEF ReadObject
<1>1. /\ Len(given) \in Nat /\ Len(args) \in Nat /\ Len(args) < Len(given)
      /\ frame # <<>> /\ Last(frame) = frame[Len(frame)]
  BY TopOfFrame
<1>2. Last(frame) \in Values /\ Last(frame) \in Staying
  BY Kinds
<1>3. /\ frame' \in Seq(Values \cup Enumerators) /\ frame' # <<>>
      /\ frame'[Len(frame')] = Enumerator(Last(frame))
      /\ Grown
  <2>1. Enumerator(Last(frame)) \in Values \cup Enumerators
    BY Kinds
  <2>2. frame \in Seq(Values \cup Enumerators) /\ frame' = Append(frame, Enumerator(Last(frame)))
    BY DEF TypeOK
  <2>3. Enumerator(Last(frame)) \in Enumerators
    BY <1>1, Kinds
  <2> HIDE DEF ReadObject
  <2>4. /\ frame' \in Seq(Values \cup Enumerators) /\ frame' # <<>>
        /\ Len(frame') = Len(frame) + 1
        /\ frame'[Len(frame) + 1] = Enumerator(Last(frame))
        /\ \A j \in 1 .. Len(frame) : frame'[j] = frame[j]
    BY <2>1, <2>2, Appended
  <2> QED
    BY <2>3, <2>4 DEF Grown
<1>4. TypeOK'
  BY <1>2, <1>3, OneMore, ReadingsTyped DEF TypeOK
<1>5. Clean
  <2>1. ASSUME NEW p \in 1 .. Len(given), Stuck(p)
        PROVE  FALSE
    <3>1. Last(frame) = Left(given[p]) /\ given[p] \in Staying
      BY <2>1, TopOfFrame
    <3>2. Left(given[p]) \notin Enumerable
      BY <3>1, Kinds DEF Left
    <3> QED
      BY <3>1, <3>2
  <2> QED
    BY <2>1 DEF Loop, MoreToRead
<1>6. PICK p \in 1 .. Len(given) : p = Len(given) - Len(args)
  BY <1>1, NextToRead
<1>7. given[p] = Last(frame) /\ Left(given[p]) = Enumerator(Last(frame))
  BY <1>5, <1>6, TopOfFrame, Kinds DEF Left
<1>8. Stuck(p)'
  BY <1>2, <1>3, <1>5, <1>6, <1>7, BecomesStuck
<1> QED
  BY <1>4, <1>6, <1>8 DEF Loop

\* An enumerator is only ever that of the object the loop is stuck at.
LEMMA EnumeratorStep ==
  ASSUME TypeOK, Loop, ReadEnumerator
  PROVE  TypeOK' /\ Loop'
<1> USE DEF ReadEnumerator
<1>1. MoreToRead
  OBVIOUS
<1>2. PICK o \in Enumerable :
        /\ Last(frame) = Enumerator(o)
        /\ args' = Append(args, Echo(o))
        /\ frame' = Append(frame, Enumerator(o))
  OBVIOUS
<1>3. /\ frame' \in Seq(Values \cup Enumerators) /\ frame' # <<>>
      /\ frame'[Len(frame')] = Enumerator(o)
      /\ Grown
  <2>1. Enumerator(o) \in Enumerators /\ frame \in Seq(Values \cup Enumerators)
    BY Kinds DEF TypeOK
  <2> HIDE DEF ReadEnumerator
  <2> QED
    BY SMTT(30), <1>2, <2>1, Appended DEF Grown
<1>4. TypeOK'
  BY <1>1, <1>2, <1>3, OneMore, ReadingsTyped, Kinds DEF TypeOK
<1>5. ~Clean
  BY <1>1, <1>2, TopOfFrame, Kinds
<1>6. PICK p \in 1 .. Len(given) : Stuck(p)
  BY <1>1, <1>5 DEF Loop, MoreToRead
<1>7. Enumerator(o) = Left(given[p]) /\ given[p] \in Staying
  BY <1>1, <1>2, <1>6, TopOfFrame
<1>8. given[p] = o
  <2>1. Enumerator(o) # Undefined
    BY Kinds DEF Values
  <2>2. given[p] \in Enumerable /\ Enumerator(o) = Enumerator(given[p])
    BY <1>7, <2>1, Kinds DEF Left
  <2> QED
    BY <2>2, Kinds
<1>9. Stuck(p)'
  BY <1>1, <1>2, <1>3, <1>6, <1>7, <1>8, StaysStuck
<1> QED
  BY <1>4, <1>6, <1>9 DEF Loop

\* Only a nested argument behind which all was popped throws.
LEMMA NestedCause ==
  ASSUME TypeOK, Loop, ReadNested
  PROVE  \E n \in 1 .. Len(given) :
           /\ given[n] \in Nested
           /\ \A k \in n + 1 .. Len(given) : given[k] \in Popping
<1>1. /\ Len(given) \in Nat /\ Len(args) \in Nat /\ Len(args) < Len(given)
      /\ MoreToRead /\ Last(frame) \in Nested
  BY TopOfFrame DEF ReadNested
<1>2. Clean
  <2>1. ASSUME NEW p \in 1 .. Len(given), Stuck(p)
        PROVE  FALSE
    <3>1. Last(frame) = Left(given[p]) /\ given[p] \in Staying
      BY <1>1, <2>1, TopOfFrame
    <3>2. Left(given[p]) \notin Nested
      BY <3>1, Kinds DEF Left
    <3> QED
      BY <1>1, <3>1, <3>2
  <2> QED
    BY <1>1, <2>1 DEF Loop, MoreToRead
<1>3. PICK n \in 1 .. Len(given) : n = Len(given) - Len(args)
  BY <1>1
<1>4. given[n] \in Nested /\ Len(frame) = n
  BY <1>1, <1>2, <1>3, TopOfFrame
<1> QED
  BY <1>2, <1>4 DEF Clean

\* Only enumerators that the frame has no room for throw besides.
LEMMA FullCause ==
  ASSUME TypeOK, Loop, ReadOverflowing
  PROVE  \E p \in 1 .. Len(given) :
           /\ LastStaying(p) /\ given[p] \in Enumerable
           /\ 2 * p + 2 > Len(given) + Room
<1>1. PICK o \in Enumerable : Enumerated(o) /\ Len(frame) + Places(o) > Len(given) + Room
  BY DEF ReadOverflowing
<1>2. /\ MoreToRead /\ Len(given) \in Nat /\ Len(args) \in Nat /\ Len(args) < Len(given)
      /\ Len(frame) \in Nat \ {0} /\ Room \in Nat
  BY TopOfFrame, JsAssumption DEF ReadOverflowing
<1>3. Places(o) \in {1, 3} /\ Len(frame) + 3 > Len(given) + Room
  BY <1>1, <1>2 DEF Places
<1>4. CASE Clean
  <2>1. PICK p \in 1 .. Len(given) : p = Len(given) - Len(args)
    BY <1>2, NextToRead
  <2>2. Len(frame) = p /\ Last(frame) = given[p] /\ given[p] \in Values
    BY <1>2, <1>4, <2>1, TopOfFrame
  <2>3. given[p] = o
    BY <1>1, <2>2, Kinds DEF Enumerated
  <2>4. LastStaying(p)
    BY <1>4, <2>2, <2>3, Kinds DEF Clean, LastStaying
  <2>5. 2 * p + 2 > Len(given) + Room
    BY <1>2, <1>3, <2>1, <2>2
  <2> QED
    BY <2>3, <2>4, <2>5
<1>5. ASSUME NEW p \in 1 .. Len(given), Stuck(p)
      PROVE  /\ LastStaying(p) /\ given[p] \in Enumerable
             /\ 2 * p + 2 > Len(given) + Room
  <2>1. Last(frame) = Left(given[p]) /\ given[p] \in Staying
    BY <1>2, <1>5, TopOfFrame
  <2>2. given[p] # Undefined
    <3>1. Undefined \notin Enumerators
      BY Kinds, JsAssumption DEF Values
    <3> QED
      BY <1>1, <2>1, <3>1, Kinds DEF Left, Enumerated
  <2>3. Len(frame) <= 2 * p + Len(args) - Len(given)
    BY <1>5 DEF Stuck
  <2>4. 2 * p + 2 > Len(given) + Room
    BY <1>2, <1>3, <2>3
  <2> QED
    BY <1>5, <2>1, <2>2, <2>4, Kinds DEF Stuck
<1> QED
  BY <1>2, <1>4, <1>5 DEF Loop, MoreToRead

\* What the loop has read when it is over, in the order it was given.
LEMMA FinishStep ==
  ASSUME TypeOK, Loop, Finish
  PROVE  TypeOK' /\ ArgumentsReceived'
<1> USE DEF Finish
<1> DEFINE n == Len(given)
<1>1. n \in Nat /\ Len(args) = n
  BY LenProperties DEF TypeOK
<1>2. /\ args' \in Seq(Readings) /\ Len(args') = n
      /\ \A j \in 1 .. n : args'[j] = args[(n - j) + 1]
  BY <1>1, Reversed DEF TypeOK
<1>3. TypeOK'
  BY <1>2 DEF TypeOK
<1>4. \A k \in 1 .. n : /\ (n - k) + 1 \in 1 .. n
                        /\ n + 1 - ((n - k) + 1) = k
  BY <1>1
<1>5. CASE Clean
  <2>1. \A k \in 1 .. n : args'[k] = Reading(given[k])
    BY <1>1, <1>2, <1>4, <1>5 DEF Clean
  <2>2. \A k \in 1 .. n : ~(k < 0)
    BY <1>1
  <2>3. LastStaying(0)
    BY <1>1, <1>5 DEF Clean, LastStaying
  <2>4. 0 \in 0 .. n /\ LastStaying(0)'
    BY <1>1, <2>3 DEF LastStaying
  <2>5. \A k \in 1 .. n : args'[k] = IF k < 0 THEN Echo(given[0]) ELSE Reading(given[k])
    BY <2>1, <2>2
  <2>6. ArgumentsReceived'
    BY <1>2, <2>4, <2>5 DEF ArgumentsReceived
  <2> QED
    BY <1>3, <2>6
<1>6. ASSUME NEW p \in 1 .. n, Stuck(p)
      PROVE  ArgumentsReceived'
  <2>0. \A j \in 1 .. n : args[j] = IF n + 1 - j < p THEN Echo(given[p]) ELSE Reading(given[n + 1 - j])
    BY <1>1, <1>6 DEF Stuck
  <2>1. \A k \in 1 .. n : args'[k] = IF k < p THEN Echo(given[p]) ELSE Reading(given[k])
    BY ZenonT(40), <1>2, <1>4, <2>0
  <2>2. p \in 0 .. n /\ LastStaying(p)'
    BY <1>1, <1>6 DEF Stuck, LastStaying
  <2> QED
    BY <1>2, <2>1, <2>2 DEF ArgumentsReceived
<1> QED
  BY <1>3, <1>5, <1>6 DEF Loop

\* Which strings are still on the frame then.
LEMMA FinishTexts ==
  ASSUME TypeOK, Loop, Finish
  PROVE  TextsDangle'
<1> DEFINE n == Len(given)
<1>1. n \in Nat /\ Len(args) = n /\ Len(frame) \in Nat /\ given' = given /\ frame' = frame
  BY LenProperties DEF TypeOK, Finish
<1>2. Texts \cap (Enumerators \cup Staying) = {}
  BY JsAssumption DEF Values, Scalars, Popping
<1>3. ASSUME NEW p \in 1 .. n, NEW q \in 1 .. n, LastStaying(p), LastStaying(q) PROVE p = q
  <2>1. Popping \cap Staying = {} /\ p # 0 /\ q # 0
    BY <1>1, JsAssumption
  <2> QED
    BY <1>1, <1>3, <2>1 DEF LastStaying
<1>4. CASE Clean
  <2>1. Len(frame) = 0 /\ \A j \in 1 .. n : given[j] \in Popping
    BY <1>1, <1>4 DEF Clean
  <2>2. \A p \in 1 .. n : ~LastStaying(p)
    BY <1>1, <2>1, JsAssumption DEF LastStaying
  <2>3. \A x : ~OnFrame(x)
    BY <2>1 DEF OnFrame
  <2> QED
    BY <1>1, <2>2, <2>3 DEF TextsDangle, OnFrame, LastStaying
<1>5. ASSUME NEW p \in 1 .. n, Stuck(p), NEW x \in Texts
      PROVE  OnFrame(x) <=> \E q \in 1 .. n : LastStaying(q) /\ \E j \in 1 .. q : given[j] = x
  <2>1. /\ LastStaying(p) /\ Len(frame) >= p
        /\ \A j \in 1 .. p : frame[j] = given[j]
        /\ \A j \in p + 1 .. Len(frame) : frame[j] \in Enumerators
    BY <1>5 DEF Stuck
  <2>2. OnFrame(x) <=> \E j \in 1 .. p : given[j] = x
    BY <1>1, <1>2, <2>1 DEF OnFrame
  <2> QED
    BY <1>3, <2>1, <2>2
<1>6. ASSUME NEW p \in 1 .. n, Stuck(p) PROVE TextsDangle'
  <2>1. \A x \in Texts :
          OnFrame(x) <=> \E q \in 1 .. n : LastStaying(q) /\ \E j \in 1 .. q : given[j] = x
    BY <1>5, <1>6
  <2>2. \A x : OnFrame(x)' <=> OnFrame(x)
    BY <1>1 DEF OnFrame
  <2>3. \A q : LastStaying(q)' <=> LastStaying(q)
    BY <1>1 DEF LastStaying
  <2> QED
    BY <1>1, <2>1, <2>2, <2>3 DEF TextsDangle
<1> QED
  BY <1>4, <1>6 DEF Loop, Finish

-----------------------------------------------------------------------------

\* A step of the host, of its scripts, or the end of a callback.
LEMMA OutsideLoop ==
  ASSUME TypeOK, Set \/ GetNested \/ Eval \/ EvalDone \/ Return \/ ReadNested \/ ReadOverflowing
                 \/ \E x \in Values : Get(x)
  PROVE  TypeOK' /\ pc' \notin {"reading", "calling"}
<1> USE DEF TypeOK, Leave, AtHost
<1>1. <<>> \in Seq(Values) /\ <<>> \in Seq(Values \cup Enumerators) /\ <<>> \in Seq(Readings)
  BY EmptySeq
<1>2. CASE Set
  BY <1>2 DEF Set
<1>3. CASE GetNested \/ Eval
  BY <1>3 DEF GetNested, Eval
<1>4. CASE EvalDone
  BY <1>4 DEF EvalDone
<1>5. CASE Return \/ ReadNested \/ ReadOverflowing
  BY <1>1, <1>5 DEF Return, ReadNested, ReadOverflowing, EndFrame
<1>6. ASSUME NEW x \in Values, Get(x) PROVE TypeOK' /\ pc' \notin {"reading", "calling"}
  BY <1>6 DEF Get
<1> QED
  BY <1>2, <1>3, <1>4, <1>5, <1>6

\* A callback begins with a frame that holds its arguments.
LEMMA CallbackStep ==
  ASSUME TypeOK, NEW s \in Arguments, Callback(s)
  PROVE  TypeOK' /\ Loop'
<1> USE DEF Callback
<1>1. s \in Seq(Values)
  BY JsAssumption, SeqDef DEF Arguments
<1>2. s \in Seq(Values \cup Enumerators)
  BY <1>1, SeqMonotonic
<1>3. <<>> \in Seq(Readings) /\ Len(<<>>) = 0
  BY EmptySeq
<1>4. TypeOK'
  BY <1>1, <1>2, <1>3 DEF TypeOK
<1>5. Len(s) \in Nat
  BY <1>1, LenProperties
<1>6. /\ Len(s) = Len(s) - 0
      /\ \A j \in Len(s) + 1 .. Len(s) : s[j] \in Popping
      /\ \A j \in 1 .. 0 : <<>>[j] = Reading(s[Len(s) + 1 - j])
  BY <1>5
<1>7. Clean'
  BY <1>3, <1>6 DEF Clean
<1> QED
  BY <1>4, <1>7 DEF Loop

LEMMA IInvInit == Init => IInv
<1> SUFFICES ASSUME Init PROVE IInv
  OBVIOUS
<1>1. <<>> \in Seq(Values) /\ <<>> \in Seq(Values \cup Enumerators) /\ <<>> \in Seq(Readings)
  BY EmptySeq
<1> QED
  BY <1>1 DEF Init, IInv, TypeOK, Loop, ArgumentsReceived, TextsDangle

LEMMA IInvNext == IInv /\ [Next]_vars => IInv'
<1> SUFFICES ASSUME IInv, [Next]_vars PROVE IInv'
  OBVIOUS
<1> USE DEF IInv
<1>1. CASE Set \/ GetNested \/ Eval \/ EvalDone \/ Return \/ ReadNested \/ ReadOverflowing
           \/ \E x \in Values : Get(x)
  BY <1>1, OutsideLoop DEF Loop, ArgumentsReceived, TextsDangle
<1>2. ASSUME NEW s \in Arguments, Callback(s) PROVE IInv'
  <2>1. pc' = "reading"
    BY <1>2 DEF Callback
  <2> QED
    BY <1>2, <2>1, CallbackStep DEF ArgumentsReceived, TextsDangle
<1>3. CASE ReadPopped \/ ReadUndefined \/ ReadObject \/ ReadEnumerator
  <2>1. pc' = "reading"
    BY <1>3 DEF ReadPopped, ReadUndefined, ReadObject, ReadEnumerator, MoreToRead
  <2>2. TypeOK' /\ Loop'
    BY <1>3, PoppedStep, UndefinedStep, ObjectStep, EnumeratorStep
  <2> QED
    BY <2>1, <2>2 DEF ArgumentsReceived, TextsDangle
<1>4. CASE Finish
  <2>1. pc' = "calling"
    BY <1>4 DEF Finish
  <2> QED
    BY <1>4, <2>1, FinishStep, FinishTexts DEF Loop
<1>5. CASE UNCHANGED vars
  BY <1>5 DEF vars, TypeOK, Loop, Clean, Stuck, LastStaying, ArgumentsReceived, TextsDangle, OnFrame
<1> QED
  BY <1>1, <1>2, <1>3, <1>4, <1>5 DEF Next, Step

LEMMA Invariance == Spec => []IInv
BY IInvInit, IInvNext, PTL DEF Spec

\* The state is well typed: no enumerator is handed to the host.
THEOREM TypeCorrect == Spec => []TypeOK
<1>1. IInv => TypeOK
  BY DEF IInv
<1> QED
  BY <1>1, Invariance, PTL

\* Whatever it leaves on the stack, the argument loop of js_callback has a value
\* to read in every round.
THEOREM FrameNeverShort == Spec => []FrameSuffices
<1>1. IInv => FrameSuffices
  BY TopOfFrame DEF IInv, FrameSuffices
<1> QED
  BY <1>1, Invariance, PTL

\* What the host's function receives for any list of arguments: the last value
\* that stays stands for all before it.
THEOREM ArgumentsKnown == Spec => []ArgumentsReceived
<1>1. IInv => ArgumentsReceived
  BY DEF IInv
<1> QED
  BY <1>1, Invariance, PTL

\* Which strings the host's function cannot read any more, for any arguments.
THEOREM TextsKnown == Spec => []TextsDangle
<1>1. IInv => TextsDangle
  BY DEF IInv
<1> QED
  BY <1>1, Invariance, PTL

\* A callback throws into the script only for a nested argument that nothing
\* behind it hides, or for more enumerators than its frame has room for.
THEOREM ErrorsExplained == Spec => ErrorsFromNestedOrFull
<1> DEFINE Cause == pc = "reading" /\ pc' = "script" =>
                      \/ \E n \in 1 .. Len(given) :
                           /\ given[n] \in Nested
                           /\ \A k \in n + 1 .. Len(given) : given[k] \in Popping
                      \/ \E p \in 1 .. Len(given) :
                           /\ LastStaying(p) /\ given[p] \in Enumerable
                           /\ 2 * p + 2 > Len(given) + Room
<1>1. ASSUME IInv, [Next]_vars PROVE [Cause]_vars
  <2>1. ASSUME ReadNested PROVE Cause
    BY <1>1, <2>1, NestedCause DEF IInv
  <2>2. ASSUME ReadOverflowing PROVE Cause
    BY <1>1, <2>2, FullCause DEF IInv
  <2>3. ASSUME pc = "reading", pc' = "script" PROVE ReadNested \/ ReadOverflowing
    BY <1>1, <2>3 DEF Next, Step, Set, Get, GetNested, Eval, EvalDone, AtHost, Callback,
       ReadPopped, ReadUndefined, ReadObject, ReadEnumerator, Finish, Return, MoreToRead, vars
  <2> QED
    BY <2>1, <2>2, <2>3
<1> QED
  BY <1>1, Invariance, PTL DEF Spec, ErrorsFromNestedOrFull

-----------------------------------------------------------------------------

\* The part of CallbackReturns that needs no fairness.  While js_callback reads,
\* there is a value for the next round that one of the cases of get_from_stack
\* takes, or all the arguments have been read (iJs.cpp:18-19) ...
NeverStuck ==
  pc = "reading" =>
    \/ Len(args) = Len(given)
    \/ /\ Len(args) < Len(given) /\ frame # <<>>
       /\ Last(frame) \in Popping \cup Staying \cup Nested \cup Enumerators

\* ... and every round reads one value of the same arguments, so that no callback
\* makes more rounds than it has arguments.
OneRound ==
  pc = "reading" /\ pc' = "reading" => given' = given /\ Len(args') = Len(args) + 1

\* js_callback always has a next round, or is done.
THEOREM LoopGoesOn == Spec => []NeverStuck
<1>1. IInv => NeverStuck
  <2> SUFFICES ASSUME IInv, pc = "reading", Len(args) # Len(given)
               PROVE  /\ Len(args) < Len(given) /\ frame # <<>>
                      /\ Last(frame) \in Popping \cup Staying \cup Nested \cup Enumerators
    BY DEF NeverStuck
  <2>1. Len(given) \in Nat /\ Len(args) \in Nat /\ Len(frame) \in Nat
    BY LenProperties DEF IInv, TypeOK
  <2>2. Len(args) < Len(given)
    BY <2>1 DEF IInv, Loop, Clean, Stuck
  <2>3. MoreToRead
    BY <2>2 DEF MoreToRead
  <2>4. CASE Clean
    <3>1. Last(frame) \in Values
      BY <2>3, <2>4, TopOfFrame DEF IInv
    <3>2. QED
      BY <2>2, <2>3, <3>1, TopOfFrame, Kinds DEF IInv
  <2>5. ASSUME NEW p \in 1 .. Len(given), Stuck(p)
        PROVE  Last(frame) \in Staying \cup Enumerators
    <3>1. Last(frame) = Left(given[p]) /\ given[p] \in Staying
      BY <2>3, <2>5, TopOfFrame DEF IInv
    <3>2. QED
      BY <3>1, Kinds DEF Left
  <2>6. frame # <<>>
    BY <2>3, TopOfFrame DEF IInv
  <2>7. QED
    BY <2>2, <2>4, <2>5, <2>6 DEF IInv, Loop
<1>2. QED
  BY <1>1, Invariance, PTL

\* js_callback reads one more value in every round.
THEOREM RoundsCounted == Spec => [][OneRound]_vars
<1>1. ASSUME IInv, [Next]_vars PROVE [OneRound]_vars
  <2> SUFFICES ASSUME pc = "reading", pc' = "reading", ~UNCHANGED vars
               PROVE  given' = given /\ Len(args') = Len(args) + 1
    BY DEF OneRound
  <2>1. ReadPopped \/ ReadUndefined \/ ReadObject \/ ReadEnumerator
    BY <1>1 DEF Next, Step, Set, Get, GetNested, Eval, EvalDone, AtHost, Callback,
       ReadNested, ReadOverflowing, EndFrame, Finish, Return
  <2>2. MoreToRead /\ TypeOK /\ Loop
    BY <1>1, <2>1 DEF IInv, ReadPopped, ReadUndefined, ReadObject, ReadEnumerator
  <2>3. given' = given
    BY <2>1 DEF ReadPopped, ReadUndefined, ReadObject, ReadEnumerator
  <2>4. \E x \in Readings : args' = Append(args, x)
    <3>1. CASE ReadPopped
      BY <3>1, ReadingsTyped, Kinds DEF ReadPopped
    <3>2. CASE ReadUndefined
      BY <3>2, ReadingsTyped DEF ReadUndefined
    <3>3. CASE ReadObject
      BY <3>3, ReadingsTyped, Kinds DEF ReadObject
    <3>4. CASE ReadEnumerator
      BY <3>4, ReadingsTyped, Kinds DEF ReadEnumerator
    <3>5. QED
      BY <2>1, <3>1, <3>2, <3>3, <3>4
  <2>5. QED
    BY <2>2, <2>3, <2>4, OneMore
<1>2. QED
  BY <1>1, Invariance, PTL DEF Spec
=============================================================================
