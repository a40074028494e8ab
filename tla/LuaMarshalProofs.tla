-------------------------- MODULE LuaMarshalProofs --------------------------
(***************************************************************************)
(* The stack of a conversion, proved for any tables, any number of         *)
(* arguments and any number of places: below the walk lies what was given, *)
(* and every table that is walked holds four places above it.              *)
(***************************************************************************)
EXTENDS LuaMarshal, SequenceTheorems, WellFoundedInduction, TLAPS

KeysOf(t) == {content[t][i].key : i \in DOMAIN content[t]}
NamesOf(t) == {NameOf[k] : k \in KeysOf(t)}

\* A ranking of the tables that proves them nested at most D deep.
Ranks(r, D) ==
  /\ D \in Nat /\ r \in [Tables -> 1 .. D]
  /\ \A t \in Tables : \A c \in Children(t) : r[c] < r[t]

Typed ==
  /\ content \in [Tables -> Contents] /\ given \in Givens
  /\ stack \in Seq(Places)
  /\ walking \in Seq(Tables)
  /\ \E S : args \in Seq(S)
  /\ pc \in {"argument", "read", "next", "returned", "done"}
  /\ health \in {"ok", "undefined", "overrun", "thrown"}

\* How long the stack is, and what is read.
Height ==
  /\ pc \in {"argument", "done"} => walking = <<>>
  /\ health # "thrown" =>
       /\ pc = "next" =>
            Len(walking) >= 1 /\ Len(stack) = Len(given) + 4 * Len(walking) - 2
       /\ pc # "next" => Len(stack) = Len(given) + 4 * Len(walking)
  /\ pc = "read" =>
       IF walking = <<>> THEN idx \in 1 .. Len(given)
       ELSE /\ idx = Len(stack) - 1
            /\ stack[idx] \in Tables => stack[idx] \in Children(walking[Len(walking)])

\* What the places hold.
Layout ==
  /\ \A j \in 1 .. Len(given) : stack[j] = given[j]
  /\ \A i \in 1 .. Len(walking) : stack[Len(given) + 4 * i - 2] \in KeysOf(walking[i]) \cup {Nil}
  /\ \A i \in 1 .. Len(walking) :
       i < Len(walking) \/ pc \in {"read", "returned"}
         => stack[Len(given) + 4 * i] \in NamesOf(walking[i])

\* The tables that are walked lie in each other.
Descent ==
  \A D, r : Ranks(r, D) => \A i \in 1 .. Len(walking) : r[walking[i]] + i <= D + 1

IInv == Typed /\ Height /\ Layout /\ Descent /\ OverrunOnlyDeep /\ ThrownLeaves

-----------------------------------------------------------------------------

\* Popping n values.
LEMMA Popping ==
  ASSUME NEW S, NEW s \in Seq(S), NEW n \in Nat, n <= Len(s)
  PROVE  /\ SubSeq(s, 1, Len(s) - n) \in Seq(S)
         /\ Len(SubSeq(s, 1, Len(s) - n)) = Len(s) - n
         /\ \A j \in 1 .. Len(s) - n : SubSeq(s, 1, Len(s) - n)[j] = s[j]
<1>1. PICK m \in Nat : m = Len(s) - n
  BY LenProperties
<1>2. \A k \in 1 .. m : s[k] \in S
  BY <1>1, LenProperties, ElementOfSeq
<1>3. /\ SubSeq(s, 1, m) \in Seq(S)
      /\ Len(SubSeq(s, 1, m)) = IF 1 <= m THEN m - 1 + 1 ELSE 0
      /\ \A k \in 1 .. m - 1 + 1 : SubSeq(s, 1, m)[k] = s[1 + k - 1]
  BY <1>2, SubSeqProperties
<1> QED
  BY <1>1, <1>3

LEMMA FrontOf ==
  ASSUME NEW S, NEW s \in Seq(S), 1 <= Len(s)
  PROVE  /\ Front(s) \in Seq(S)
         /\ Len(Front(s)) = Len(s) - 1
         /\ \A j \in 1 .. Len(s) - 1 : Front(s)[j] = s[j]
<1>1. PICK n \in Nat : n = 1
  OBVIOUS
<1>2. /\ SubSeq(s, 1, Len(s) - n) \in Seq(S)
      /\ Len(SubSeq(s, 1, Len(s) - n)) = Len(s) - n
      /\ \A j \in 1 .. Len(s) - n : SubSeq(s, 1, Len(s) - n)[j] = s[j]
  BY <1>1, Popping
<1> QED
  BY <1>1, <1>2 DEF Front

\* Pushing two or three values.
LEMMA Pushing ==
  ASSUME NEW S, NEW s \in Seq(S), NEW a \in S, NEW b \in S
  PROVE  /\ s \o <<a, b>> \in Seq(S)
         /\ Len(s \o <<a, b>>) = Len(s) + 2
         /\ \A j \in 1 .. Len(s) : (s \o <<a, b>>)[j] = s[j]
         /\ (s \o <<a, b>>)[Len(s) + 1] = a
         /\ (s \o <<a, b>>)[Len(s) + 2] = b
<1>1. <<a, b>> \in Seq(S) /\ Len(<<a, b>>) = 2
  OBVIOUS
<1> QED
  BY <1>1, ConcatProperties, LenProperties

LEMMA PushingThree ==
  ASSUME NEW S, NEW s \in Seq(S), NEW a \in S, NEW b \in S, NEW c \in S
  PROVE  /\ s \o <<a, b, c>> \in Seq(S)
         /\ Len(s \o <<a, b, c>>) = Len(s) + 3
         /\ \A j \in 1 .. Len(s) : (s \o <<a, b, c>>)[j] = s[j]
         /\ (s \o <<a, b, c>>)[Len(s) + 1] = a
         /\ (s \o <<a, b, c>>)[Len(s) + 2] = b
         /\ (s \o <<a, b, c>>)[Len(s) + 3] = c
<1>1. <<a, b, c>> \in Seq(S) /\ Len(<<a, b, c>>) = 3
  OBVIOUS
<1> QED
  BY <1>1, ConcatProperties, LenProperties

\* lua_next finds the entry after a key of the table, or the first.
LEMMA Walk ==
  ASSUME Typed, NEW t \in Tables, NEW k \in KeysOf(t) \cup {Nil}
  PROVE  /\ Position(t, k) \in Nat
         /\ Len(content[t]) \in Nat /\ DOMAIN content[t] = 1 .. Len(content[t])
         /\ \A i \in DOMAIN content[t] : content[t][i] \in [key : Keys, value : Values]
<1>1. content[t] \in Seq([key : Keys, value : Values])
  BY MarshalAssumption DEF Typed
<1>2. Len(content[t]) \in Nat /\ DOMAIN content[t] = 1 .. Len(content[t])
  BY <1>1, LenProperties
<1>3. \A i \in DOMAIN content[t] : content[t][i] \in [key : Keys, value : Values]
  BY <1>1, <1>2, ElementOfSeq
<1>4. Position(t, k) \in Nat
  <2>1. CASE k = Nil
    BY <2>1 DEF Position
  <2>2. CASE k # Nil
    <3>1. \E i \in DOMAIN content[t] : content[t][i].key = k
      BY <2>2 DEF KeysOf
    <3>2. Position(t, k) \in DOMAIN content[t]
      BY <2>2, <3>1 DEF Position
    <3> QED
      BY <1>2, <3>2
  <2> QED
    BY <2>1, <2>2
<1> QED
  BY <1>2, <1>3, <1>4

LEMMA Lengths ==
  ASSUME Typed
  PROVE  /\ Len(given) \in Nat /\ Len(stack) \in Nat /\ Len(walking) \in Nat /\ Len(args) \in Nat
         /\ \A j \in 1 .. Len(stack) : stack[j] \in Places
         /\ \A j \in 1 .. Len(walking) : walking[j] \in Tables
         /\ walking = <<>> <=> Len(walking) = 0
<1>1. given \in Seq(Values)
  BY MarshalAssumption DEF Typed
<1>2. stack \in Seq(Places) /\ walking \in Seq(Tables)
  BY DEF Typed
<1>3. Len(given) \in Nat /\ Len(stack) \in Nat /\ Len(walking) \in Nat
  BY <1>1, <1>2, LenProperties
<1>4. PICK S : args \in Seq(S)
  BY DEF Typed
<1>5. Len(args) \in Nat
  BY <1>4, LenProperties
<1>6. walking = <<>> <=> Len(walking) = 0
  BY <1>2, EmptySeq
<1> QED
  BY <1>2, <1>3, <1>5, <1>6, ElementOfSeq

LEMMA Initially == Init => IInv
<1> SUFFICES ASSUME Init PROVE IInv
  OBVIOUS
<1>1. given \in Seq(Values) /\ Len(given) \in Nat
  BY MarshalAssumption, LenProperties DEF Init
<1>2. Typed
  <2>1. stack \in Seq(Places)
    BY <1>1, SeqMonotonic DEF Init, Places
  <2> QED
    BY <2>1, EmptySeq DEF Init, Typed
<1>3. walking = <<>> /\ Len(walking) = 0
  BY EmptySeq DEF Init
<1>4. Height
  BY <1>1, <1>3 DEF Init, Height
<1>5. Layout /\ Descent
  BY <1>3 DEF Init, Layout, Descent
<1>6. OverrunOnlyDeep /\ ThrownLeaves
  BY DEF Init, OverrunOnlyDeep, ThrownLeaves
<1> QED
  BY <1>2, <1>4, <1>5, <1>6 DEF IInv

-----------------------------------------------------------------------------

\* Steps that leave the stack and the walk alone.
LEMMA Still ==
  ASSUME IInv, UNCHANGED <<content, given, stack, walking>>, Typed', Height',
         pc' \in {"read", "returned"} => pc \in {"read", "returned"} \/ walking = <<>>,
         health' \notin {"overrun", "thrown"}
  PROVE  IInv'
<1> USE DEF IInv
<1>1. Layout'
  BY Lengths DEF Layout, KeysOf, NamesOf
<1>2. Descent'
  BY DEF Descent, Ranks, Children
<1>3. OverrunOnlyDeep' /\ ThrownLeaves'
  BY DEF OverrunOnlyDeep, ThrownLeaves
<1> QED
  BY <1>1, <1>2, <1>3

LEMMA ArgumentStep ==
  ASSUME IInv, Argument PROVE IInv'
<1> USE DEF IInv
<1>1. /\ Len(args) < Len(stack) /\ idx' = Len(args) + 1 /\ pc = "argument" /\ pc' = "read"
      /\ health = "ok" /\ UNCHANGED <<content, given, stack, walking, args, health>>
  BY DEF Argument, At
<1>2. Typed'
  BY <1>1 DEF Typed
<1>3. Height'
  BY <1>1, Lengths DEF Height
<1> QED
  BY <1>1, <1>2, <1>3, Still DEF Height

LEMMA FinishStep ==
  ASSUME IInv, Finish PROVE IInv'
<1> USE DEF IInv
<1>1. /\ pc = "argument" /\ pc' = "done"
      /\ health = "ok" /\ UNCHANGED <<content, given, stack, walking, args, health>>
  BY DEF Finish, At
<1>2. Typed'
  BY <1>1 DEF Typed
<1>3. Height'
  BY <1>1 DEF Height
<1> QED
  BY <1>1, <1>2, <1>3, Still

LEMMA ReadScalarStep ==
  ASSUME IInv, ReadScalar PROVE IInv'
<1> USE DEF IInv
<1>1. /\ pc = "read" /\ pc' = "returned"
      /\ health = "ok" /\ UNCHANGED <<content, given, stack, walking, args, health>>
  BY DEF ReadScalar, At
<1>2. Typed'
  BY <1>1 DEF Typed
<1>3. Height'
  BY <1>1 DEF Height
<1> QED
  BY <1>1, <1>2, <1>3, Still

LEMMA ReadObjectStep ==
  ASSUME IInv, ReadObject PROVE IInv'
<1> USE DEF IInv
<1>1. /\ pc = "read" /\ health = "ok" /\ health' = "undefined"
      /\ UNCHANGED <<content, given, stack, walking, args, pc, idx>>
  BY DEF ReadObject, At
<1>2. Typed'
  BY <1>1 DEF Typed
<1>3. Height'
  BY <1>1 DEF Height, Children
<1> QED
  BY <1>1, <1>2, <1>3, Still

LEMMA ArgumentReadStep ==
  ASSUME IInv, ArgumentRead PROVE IInv'
<1> USE DEF IInv
<1>1. /\ pc = "returned" /\ walking = <<>> /\ pc' = "argument" /\ args' = Append(args, ret)
      /\ health = "ok" /\ UNCHANGED <<content, given, stack, walking, health>>
  BY DEF ArgumentRead, At
<1>2. Typed'
  <2>1. PICK S : args \in Seq(S)
    BY DEF Typed
  <2>2. args \in Seq(S \cup {ret})
    BY <2>1, SeqMonotonic
  <2>3. args' \in Seq(S \cup {ret})
    BY <1>1, <2>2, AppendProperties
  <2> QED
    BY <1>1, <2>3 DEF Typed
<1>3. Height'
  BY <1>1 DEF Height
<1> QED
  BY <1>1, <1>2, <1>3, Still

\* A table is entered: it lies in the table that is walked, if any is.
LEMMA ReadTableStep ==
  ASSUME IInv, ReadTable PROVE IInv'
<1> USE DEF IInv
<1>1. PICK x \in Tables : x = stack[idx]
  BY DEF ReadTable
<1>2. /\ pc = "read" /\ pc' = "next" /\ health = "ok"
      /\ stack' = stack \o <<x, Nil>> /\ walking' = Append(walking, x)
      /\ UNCHANGED <<content, given, args, idx, health>>
  BY <1>1 DEF ReadTable, At
<1> DEFINE L == Len(given)
           n == Len(walking)
<1>3. /\ L \in Nat /\ n \in Nat /\ Len(stack) = L + 4 * n
      /\ \A j \in 1 .. n : walking[j] \in Tables
      /\ walking = <<>> <=> n = 0
  BY <1>2, Lengths DEF Height
<1>4. stack \in Seq(Places) /\ x \in Places /\ Nil \in Places
  BY DEF Typed, Places, Values, Scalars
<1>5. /\ stack' \in Seq(Places)
      /\ Len(stack') = Len(stack) + 2
      /\ \A j \in 1 .. Len(stack) : stack'[j] = stack[j]
      /\ stack'[Len(stack) + 2] = Nil
  BY <1>2, <1>4, Pushing
<1>6. /\ walking' \in Seq(Tables)
      /\ Len(walking') = n + 1
      /\ \A j \in 1 .. n : walking'[j] = walking[j]
      /\ walking'[n + 1] = x
  BY <1>2, AppendProperties DEF Typed
<1>7. Typed'
  BY <1>2, <1>5, <1>6 DEF Typed
<1>8. Height'
  <2>1. Len(walking') = n + 1 /\ Len(stack') = Len(given') + 4 * (n + 1) - 2
    BY <1>2, <1>3, <1>5, <1>6
  <2>2. Len(walking') >= 1 /\ Len(stack') = Len(given') + 4 * Len(walking') - 2
    <3> HIDE DEF n
    <3> QED
      BY <1>3, <2>1
  <2> QED
    BY <1>2, <2>2 DEF Height
<1>9. Layout'
  <2>1. \A j \in 1 .. L : stack'[j] = given[j]
    <3>1. \A j \in 1 .. L : j \in 1 .. Len(stack)
      BY <1>3
    <3>2. \A j \in 1 .. L : stack[j] = given[j]
      BY DEF Layout
    <3> QED
      BY <1>5, <3>1, <3>2
  <2>2. \A t : KeysOf(t)' = KeysOf(t) /\ NamesOf(t)' = NamesOf(t)
    BY <1>2 DEF KeysOf, NamesOf
  <2>3. ASSUME NEW i \in 1 .. n + 1
        PROVE  stack'[L + 4 * i - 2] \in KeysOf(walking'[i]) \cup {Nil}
    <3>1. CASE i = n + 1
      BY <1>3, <1>5, <3>1
    <3>2. CASE i # n + 1
      <4>1. i \in 1 .. n /\ L + 4 * i - 2 \in 1 .. Len(stack)
        BY <1>3, <3>2
      <4> QED
        BY <4>1, <1>5, <1>6 DEF Layout
    <3> QED
      BY <3>1, <3>2
  <2>4. ASSUME NEW i \in 1 .. n
        PROVE  stack'[L + 4 * i] \in NamesOf(walking'[i])
    <3>1. L + 4 * i \in 1 .. Len(stack)
      BY <1>3
    <3> QED
      BY <3>1, <1>2, <1>5, <1>6 DEF Layout
  <2>5. \A i \in 1 .. n + 1 : i < n + 1 => i \in 1 .. n
    BY <1>3
  <2> QED
    BY <1>2, <1>6, <2>1, <2>2, <2>3, <2>4, <2>5 DEF Layout
<1>10. Descent'
  <2>1. SUFFICES ASSUME NEW D, NEW r, Ranks(r, D), NEW i \in 1 .. n + 1
                 PROVE  r[walking'[i]] + i <= D + 1
    BY ZenonT(40), <1>2, <1>6 DEF Descent, Ranks, Children
  <2>2. CASE i # n + 1
    BY <1>3, <1>6, <2>1, <2>2 DEF Descent
  <2>3. CASE i = n + 1 /\ n = 0
    BY <1>6, <2>1, <2>3 DEF Ranks
  <2>4. CASE i = n + 1 /\ n # 0
    <3>1. x \in Children(walking[n]) /\ walking[n] \in Tables
      BY <1>1, <1>2, <1>3, <2>4 DEF Height
    <3>2. r[x] < r[walking[n]] /\ r[x] \in Nat /\ r[walking[n]] \in Nat /\ D \in Nat
      BY <2>1, <3>1 DEF Ranks
    <3>3. r[walking[n]] + n <= D + 1
      BY <1>3, <2>1, <2>4 DEF Descent
    <3> QED
      BY <1>3, <1>6, <2>4, <3>2, <3>3
  <2> QED
    BY <2>2, <2>3, <2>4
<1>11. OverrunOnlyDeep' /\ ThrownLeaves'
  BY <1>2 DEF OverrunOnlyDeep, ThrownLeaves
<1> QED
  BY <1>7, <1>8, <1>9, <1>10, <1>11

\* What entering an entry does to the stack.
LEMMA EntryPushed ==
  ASSUME IInv, At("next"), NextOf(Table) <= Len(content[Table]),
         stack' = Entered(content[Table][NextOf(Table)]),
         UNCHANGED <<content, given, walking, args>>
  PROVE  /\ Len(walking) >= 1 /\ Table \in Tables
         /\ NextOf(Table) \in DOMAIN content[Table]
         /\ stack' \in Seq(Places)
         /\ Len(stack') = Len(given) + 4 * Len(walking)
         /\ stack'[Len(stack') - 1] = content[Table][NextOf(Table)].value
         /\ stack'[Len(stack')] = NameOf[content[Table][NextOf(Table)].key]
         /\ stack'[Len(stack') - 2] = content[Table][NextOf(Table)].key
         /\ \A j \in 1 .. Len(stack') - 3 : stack'[j] = stack[j]
         /\ \A j \in 1 .. Len(given) : stack'[j] = given[j]
         /\ \A i \in 1 .. Len(walking) : stack'[Len(given) + 4 * i - 2] \in KeysOf(walking[i])' \cup {Nil}
         /\ \A i \in 1 .. Len(walking) : stack'[Len(given) + 4 * i] \in NamesOf(walking[i])'
<1> USE DEF IInv
<1> DEFINE L == Len(given)
           n == Len(walking)
           e == content[Table][NextOf(Table)]
<1>1. /\ L \in Nat /\ n \in Nat /\ n >= 1 /\ Len(stack) = L + 4 * n - 2
      /\ walking[n] \in Tables /\ Table = walking[n]
  BY Lengths DEF At, Height, Table
<1>2. Top \in KeysOf(Table) \cup {Nil}
  BY SMTT(30), <1>1 DEF Layout, Top
<1>3. /\ NextOf(Table) \in DOMAIN content[Table]
      /\ e \in [key : Keys, value : Values] /\ e.key \in KeysOf(Table)
  BY SMTT(30), <1>1, <1>2, Walk DEF NextOf, KeysOf
<1>4. e.key \in Places /\ e.value \in Places /\ NameOf[e.key] \in Places /\ NameOf[e.key] \in NamesOf(Table)
  BY <1>3, MarshalAssumption DEF Places, NamesOf
<1>5. /\ Dropped(1) \in Seq(Places)
      /\ Len(Dropped(1)) = Len(stack) - 1
      /\ \A j \in 1 .. Len(stack) - 1 : Dropped(1)[j] = stack[j]
  BY <1>1, Popping DEF Dropped, Typed
<1>6. stack' = Dropped(1) \o <<e.key, e.value, NameOf[e.key]>>
  BY DEF Entered
<1>7. /\ stack' \in Seq(Places)
      /\ Len(stack') = Len(Dropped(1)) + 3
      /\ \A j \in 1 .. Len(Dropped(1)) : stack'[j] = Dropped(1)[j]
      /\ stack'[Len(Dropped(1)) + 1] = e.key
      /\ stack'[Len(Dropped(1)) + 2] = e.value
      /\ stack'[Len(Dropped(1)) + 3] = NameOf[e.key]
  <2> HIDE DEF e
  <2> QED
    BY <1>4, <1>5, <1>6, PushingThree
<1>8. /\ Len(stack') = L + 4 * n
      /\ \A j \in 1 .. L + 4 * n - 3 : stack'[j] = stack[j]
      /\ stack'[L + 4 * n - 2] = e.key
      /\ stack'[L + 4 * n - 1] = e.value
      /\ stack'[L + 4 * n] = NameOf[e.key]
  <2>1. PICK m \in Nat : m = L + 4 * n - 3
    BY <1>1
  <2>2. Len(Dropped(1)) = m /\ Len(stack) - 1 = m
    BY <1>1, <1>5, <2>1
  <2>3. m + 1 = L + 4 * n - 2 /\ m + 2 = L + 4 * n - 1 /\ m + 3 = L + 4 * n
    BY <1>1, <2>1
  <2> HIDE DEF e, L, n
  <2> QED
    BY <1>5, <1>7, <2>1, <2>2, <2>3
<1>9. \A t : KeysOf(t)' = KeysOf(t) /\ NamesOf(t)' = NamesOf(t)
  BY DEF KeysOf, NamesOf
<1>10. \A j \in 1 .. L : stack'[j] = given[j]
  <2>1. \A j \in 1 .. L : j \in 1 .. L + 4 * n - 3
    BY <1>1
  <2> QED
    BY <1>8, <2>1 DEF Layout
<1>11. ASSUME NEW i \in 1 .. n
       PROVE  /\ stack'[L + 4 * i - 2] \in KeysOf(walking[i]) \cup {Nil}
              /\ stack'[L + 4 * i] \in NamesOf(walking[i])
  <2>1. CASE i = n
    BY <1>1, <1>3, <1>4, <1>8, <2>1
  <2>2. CASE i # n
    <3>1. i < n /\ L + 4 * i - 2 \in 1 .. L + 4 * n - 3 /\ L + 4 * i \in 1 .. L + 4 * n - 3
      BY SMTT(30), <1>1, <2>2
    <3> QED
      BY <3>1, <1>8 DEF Layout
  <2> QED
    BY <2>1, <2>2
<1>12. \A i \in 1 .. n : KeysOf(walking[i])' = KeysOf(walking[i]) /\ NamesOf(walking[i])' = NamesOf(walking[i])
  BY DEF KeysOf, NamesOf
<1>13. /\ stack'[Len(stack') - 1] = e.value
       /\ stack'[Len(stack')] = NameOf[e.key]
       /\ stack'[Len(stack') - 2] = e.key
       /\ \A j \in 1 .. Len(stack') - 3 : stack'[j] = stack[j]
  <2>1. /\ Len(stack') - 1 = L + 4 * n - 1 /\ Len(stack') - 2 = L + 4 * n - 2
        /\ Len(stack') - 3 = L + 4 * n - 3
    BY <1>1, <1>8
  <2> HIDE DEF e
  <2> QED
    BY <1>8, <2>1
<1>14. \A i \in 1 .. n : /\ stack'[L + 4 * i - 2] \in KeysOf(walking[i])' \cup {Nil}
                        /\ stack'[L + 4 * i] \in NamesOf(walking[i])'
  BY <1>11, <1>12
<1> QED
  BY <1>1, <1>3, <1>7, <1>8, <1>10, <1>13, <1>14

LEMMA NextEntryStep ==
  ASSUME IInv, NextEntry PROVE IInv'
<1> DEFINE n == Len(walking)
<1>1. /\ At("next") /\ health = "ok" /\ pc' = "read" /\ idx' = Len(stack) + 1
      /\ UNCHANGED <<content, given, walking, args, health>>
  BY DEF NextEntry, At
<1>2. /\ n >= 1 /\ Table \in Tables
      /\ NextOf(Table) \in DOMAIN content[Table]
      /\ stack' \in Seq(Places)
      /\ Len(stack') = Len(given) + 4 * n
      /\ stack'[Len(stack') - 1] = content[Table][NextOf(Table)].value
      /\ \A j \in 1 .. Len(given) : stack'[j] = given[j]
      /\ \A i \in 1 .. n : stack'[Len(given) + 4 * i - 2] \in KeysOf(walking[i])' \cup {Nil}
      /\ \A i \in 1 .. n : stack'[Len(given) + 4 * i] \in NamesOf(walking[i])'
  BY EntryPushed, <1>1 DEF NextEntry
<1>3. Len(given) \in Nat /\ n \in Nat /\ (walking = <<>> <=> n = 0) /\ Len(stack) = Len(given) + 4 * n - 2
  BY <1>1, Lengths DEF IInv, Height, At
<1>4. Typed'
  BY <1>1, <1>2 DEF IInv, Typed
<1>5. Height'
  <2>1. idx' = Len(stack') - 1
    BY <1>1, <1>2, <1>3
  <2>2. stack'[idx'] \in Tables => stack'[idx'] \in Children(walking[n])
    BY <1>2, <2>1 DEF Children, Table
  <2>3. Children(walking[n])' = Children(walking[n])
    BY <1>1 DEF Children
  <2> QED
    BY <1>1, <1>2, <1>3, <2>1, <2>2, <2>3 DEF Height
<1>6. Layout'
  BY <1>1, <1>2 DEF Layout
<1>7. Descent'
  BY <1>1 DEF IInv, Descent, Ranks, Children
<1>8. OverrunOnlyDeep' /\ ThrownLeaves'
  BY <1>1 DEF OverrunOnlyDeep, ThrownLeaves
<1> QED
  BY <1>4, <1>5, <1>6, <1>7, <1>8 DEF IInv

LEMMA ThrowBeforeStep ==
  ASSUME IInv, ThrowBefore PROVE IInv'
<1> DEFINE n == Len(walking)
<1>1. /\ At("next") /\ pc = "next" /\ pc' = "next" /\ health' = "thrown"
      /\ UNCHANGED <<content, given, walking, args>>
  BY DEF ThrowBefore, At
<1>2. /\ n >= 1 /\ Table \in Tables
      /\ NextOf(Table) \in DOMAIN content[Table]
      /\ stack' \in Seq(Places)
      /\ Len(stack') = Len(given) + 4 * n
      /\ \A j \in 1 .. Len(given) : stack'[j] = given[j]
      /\ \A i \in 1 .. n : stack'[Len(given) + 4 * i - 2] \in KeysOf(walking[i])' \cup {Nil}
      /\ \A i \in 1 .. n : stack'[Len(given) + 4 * i] \in NamesOf(walking[i])'
  BY EntryPushed, <1>1 DEF ThrowBefore
<1>3. Typed'
  BY <1>1, <1>2 DEF IInv, Typed
<1>4. Height'
  BY <1>1 DEF Height
<1>5. Layout'
  BY <1>1, <1>2 DEF Layout
<1>6. Descent'
  BY <1>1 DEF IInv, Descent, Ranks, Children
<1>7. OverrunOnlyDeep'
  BY <1>1 DEF OverrunOnlyDeep
<1>8. ThrownLeaves'
  <2>1. NameOf[content[Table][NextOf(Table)].key] = NoName
    BY DEF ThrowBefore
  <2>2. \E i \in DOMAIN content[Table] : NameOf[content[Table][i].key] = NoName
    BY <1>2, <2>1
  <2>3. Table' = Table
    BY <1>1 DEF Table
  <2> QED
    BY <1>1, <1>2, <2>2, <2>3 DEF ThrownLeaves
<1> QED
  BY <1>3, <1>4, <1>5, <1>6, <1>7, <1>8 DEF IInv

LEMMA ThrowAfterStep ==
  ASSUME IInv, ThrowAfter PROVE IInv'
<1> DEFINE n == Len(walking)
<1>1. /\ health = "ok" /\ pc = "returned" /\ health' = "thrown" /\ walking # <<>> /\ Top = NoName
      /\ UNCHANGED <<content, given, stack, walking, args, pc, idx>>
  BY DEF ThrowAfter, At
<1>2. Len(given) \in Nat /\ n \in Nat /\ n >= 1 /\ Len(stack) = Len(given) + 4 * n
  BY <1>1, Lengths DEF IInv, Height
<1>3. Typed'
  BY <1>1 DEF IInv, Typed
<1>4. Height'
  BY <1>1 DEF IInv, Height
<1>5. Layout'
  BY <1>1 DEF IInv, Layout, KeysOf, NamesOf
<1>6. Descent'
  BY <1>1 DEF IInv, Descent, Ranks, Children
<1>7. OverrunOnlyDeep'
  BY <1>1 DEF OverrunOnlyDeep
<1>8. ThrownLeaves'
  <2>1. Top \in NamesOf(Table)
    <3>1. stack[Len(given) + 4 * n] \in NamesOf(walking[n])
      <4>1. \A i \in 1 .. n : stack[Len(given) + 4 * i] \in NamesOf(walking[i])
        BY <1>1 DEF IInv, Layout
      <4>2. n \in 1 .. n
        BY <1>2
      <4> QED
        BY <4>1, <4>2
    <3> QED
      BY <1>2, <3>1 DEF Top, Table
  <2>2. \E i \in DOMAIN content[Table] : NameOf[content[Table][i].key] = NoName
    BY <1>1, <2>1 DEF NamesOf, KeysOf
  <2>3. Table' = Table
    BY <1>1 DEF Table
  <2> QED
    BY <1>1, <1>2, <2>2, <2>3 DEF ThrownLeaves
<1> QED
  BY <1>3, <1>4, <1>5, <1>6, <1>7, <1>8 DEF IInv

\* Every table that is walked, and the one that would be, has a rank of its own.
LEMMA OverrunStep ==
  ASSUME IInv, Overrun PROVE IInv'
<1> DEFINE n == Len(walking)
<1>1. /\ health = "ok" /\ health' = "overrun"
      /\ UNCHANGED <<content, given, stack, walking, args, pc, idx>>
  BY DEF Overrun, At
<1>2. /\ Len(given) \in Nat /\ n \in Nat /\ Slots \in Nat /\ (walking = <<>> <=> n = 0)
      /\ Len(stack) \in Nat
  BY Lengths, MarshalAssumption DEF IInv
<1>3. Typed'
  BY <1>1 DEF IInv, Typed
<1>4. Height'
  BY <1>1 DEF IInv, Height, Children
<1>5. Layout'
  BY <1>1 DEF IInv, Layout, KeysOf, NamesOf
<1>6. Descent'
  BY <1>1 DEF IInv, Descent, Ranks, Children
<1>7. ThrownLeaves'
  BY <1>1 DEF ThrownLeaves
<1>8. OverrunOnlyDeep'
  <2>1. SUFFICES ASSUME NEW D \in 0 .. Slots \div 4, Nesting(D) PROVE FALSE
    BY <1>1 DEF OverrunOnlyDeep, Nesting, Children
  <2>2. D \in Nat /\ 4 * D <= Slots
    BY <1>2
  <2>3. PICK r : Ranks(r, D)
    BY <2>1, <2>2 DEF Nesting, Ranks
  <2>4. \A t \in Tables : r[t] \in 1 .. D
    BY <2>3 DEF Ranks
  <2>5. n >= 1 => walking[n] \in Tables /\ r[walking[n]] + n <= D + 1
    BY <1>2, <2>3, Lengths DEF IInv, Descent
  <2>6. Len(stack) + 2 > Len(given) + Slots
    BY <1>2 DEF Overrun, Room
  <2>7. CASE At("next")
    <3>1. n >= 1 /\ Len(stack) = Len(given) + 4 * n - 2
      BY <2>7 DEF IInv, Height, At
    <3>2. r[walking[n]] >= 1 /\ r[walking[n]] \in Nat
      BY <2>2, <2>4, <2>5, <3>1
    <3> QED
      BY <1>2, <2>2, <2>5, <2>6, <3>1, <3>2
  <2>8. CASE At("read") /\ stack[idx] \in Tables
    <3>1. Len(stack) = Len(given) + 4 * n
      BY <2>8 DEF IInv, Height, At
    <3>2. PICK x \in Tables : x = stack[idx]
      BY <2>8
    <3>3. r[x] \in Nat /\ r[x] >= 1 /\ D >= 1
      BY <2>2, <2>4, <3>2
    <3>4. CASE n = 0
      BY <1>2, <2>2, <2>6, <3>1, <3>3, <3>4
    <3>5. CASE n >= 1
      <4>1. x \in Children(walking[n])
        BY <1>2, <2>8, <3>2, <3>5 DEF IInv, Height, At
      <4>2. r[x] < r[walking[n]] /\ r[walking[n]] \in Nat
        BY <2>2, <2>3, <2>4, <2>5, <3>5, <4>1 DEF Ranks
      <4> QED
        BY <1>2, <2>2, <2>5, <2>6, <3>1, <3>3, <3>5, <4>2
    <3> QED
      BY <1>2, <3>4, <3>5
  <2> QED
    BY <2>7, <2>8 DEF Overrun
<1> QED
  BY <1>3, <1>4, <1>5, <1>6, <1>7, <1>8 DEF IInv

LEMMA AssignStep ==
  ASSUME IInv, Assign PROVE IInv'
<1> DEFINE L == Len(given)
           n == Len(walking)
<1>1. /\ health = "ok" /\ health' = "ok" /\ pc = "returned" /\ pc' = "next" /\ walking # <<>>
      /\ stack' = Dropped(2)
      /\ UNCHANGED <<content, given, walking, args, idx>>
  BY DEF Assign, At
<1>2. L \in Nat /\ n \in Nat /\ n >= 1 /\ Len(stack) = L + 4 * n /\ stack \in Seq(Places)
  BY <1>1, Lengths DEF IInv, Height, Typed
<1>3. /\ stack' \in Seq(Places)
      /\ Len(stack') = Len(stack) - 2
      /\ \A j \in 1 .. Len(stack) - 2 : stack'[j] = stack[j]
  BY <1>1, <1>2, Popping DEF Dropped
<1>4. Len(stack') = L + 4 * n - 2 /\ \A j \in 1 .. L + 4 * n - 2 : stack'[j] = stack[j]
  BY <1>2, <1>3
<1>5. Typed'
  BY <1>1, <1>3 DEF IInv, Typed
<1>6. Height'
  BY <1>1, <1>2, <1>4 DEF Height
<1>7. Layout'
  <2>1. \A j \in 1 .. L : stack'[j] = given[j]
    <3>1. \A j \in 1 .. L : j \in 1 .. L + 4 * n - 2
      BY <1>2
    <3> QED
      BY <1>4, <3>1 DEF IInv, Layout
  <2>2. ASSUME NEW i \in 1 .. n PROVE stack'[L + 4 * i - 2] \in KeysOf(walking[i]) \cup {Nil}
    <3>1. L + 4 * i - 2 \in 1 .. L + 4 * n - 2
      BY <1>2
    <3> QED
      BY <1>4, <3>1 DEF IInv, Layout
  <2>3. ASSUME NEW i \in 1 .. n, i < n PROVE stack'[L + 4 * i] \in NamesOf(walking[i])
    <3>1. L + 4 * i \in 1 .. L + 4 * n - 2
      BY <1>2, <2>3
    <3> QED
      BY <1>4, <2>3, <3>1 DEF IInv, Layout
  <2>4. \A t : KeysOf(t)' = KeysOf(t) /\ NamesOf(t)' = NamesOf(t)
    BY <1>1 DEF KeysOf, NamesOf
  <2> QED
    BY <1>1, <2>1, <2>2, <2>3, <2>4 DEF Layout
<1>8. Descent'
  BY <1>1 DEF IInv, Descent, Ranks, Children
<1>9. OverrunOnlyDeep' /\ ThrownLeaves'
  BY <1>1 DEF OverrunOnlyDeep, ThrownLeaves
<1> QED
  BY <1>5, <1>6, <1>7, <1>8, <1>9 DEF IInv

LEMMA EndTableStep ==
  ASSUME IInv, EndTable PROVE IInv'
<1> DEFINE L == Len(given)
           n == Len(walking)
<1>1. /\ health = "ok" /\ health' = "ok" /\ pc = "next" /\ pc' = "returned"
      /\ stack' = Dropped(2) /\ walking' = Front(walking)
      /\ UNCHANGED <<content, given, args, idx>>
  BY DEF EndTable, At
<1>2. /\ L \in Nat /\ n \in Nat /\ n >= 1 /\ Len(stack) = L + 4 * n - 2
      /\ stack \in Seq(Places) /\ walking \in Seq(Tables)
  BY <1>1, Lengths DEF IInv, Height, Typed
<1>3. /\ stack' \in Seq(Places)
      /\ Len(stack') = Len(stack) - 2
      /\ \A j \in 1 .. Len(stack) - 2 : stack'[j] = stack[j]
  BY <1>1, <1>2, Popping DEF Dropped
<1>4. Len(stack') = L + 4 * (n - 1) /\ \A j \in 1 .. L + 4 * n - 4 : stack'[j] = stack[j]
  BY <1>2, <1>3
<1>5. /\ walking' \in Seq(Tables)
      /\ Len(walking') = n - 1
      /\ \A i \in 1 .. n - 1 : walking'[i] = walking[i]
  <2>1. walking' = SubSeq(walking, 1, Len(walking) - 1)
    BY <1>1 DEF Front
  <2>2. walking \in Seq(Tables) /\ 1 \in Nat /\ 1 <= Len(walking)
    BY <1>2
  <2>3. /\ SubSeq(walking, 1, Len(walking) - 1) \in Seq(Tables)
        /\ Len(SubSeq(walking, 1, Len(walking) - 1)) = Len(walking) - 1
        /\ \A j \in 1 .. Len(walking) - 1 : SubSeq(walking, 1, Len(walking) - 1)[j] = walking[j]
    <3> HIDE DEF n
    <3> QED
      BY <2>2, Popping
  <2> QED
    BY <2>1, <2>3
<1>6. Typed'
  BY <1>1, <1>3, <1>5 DEF IInv, Typed
<1>7. Height'
  <2>1. Len(stack') = Len(given') + 4 * Len(walking')
    BY <1>1, <1>4, <1>5
  <2> QED
    BY <1>1, <2>1 DEF Height
<1>8. Layout'
  <2>1. \A j \in 1 .. L : stack'[j] = given[j]
    <3>1. \A j \in 1 .. L : j \in 1 .. L + 4 * n - 4
      BY <1>2
    <3> QED
      BY <1>4, <3>1 DEF IInv, Layout
  <2>2. ASSUME NEW i \in 1 .. n - 1
        PROVE  /\ stack'[L + 4 * i - 2] \in KeysOf(walking'[i]) \cup {Nil}
               /\ stack'[L + 4 * i] \in NamesOf(walking'[i])
    <3>1. /\ L + 4 * i - 2 \in 1 .. L + 4 * n - 4 /\ L + 4 * i \in 1 .. L + 4 * n - 4
          /\ i \in 1 .. n /\ i < n
      BY <1>2
    <3> QED
      BY <1>4, <1>5, <3>1 DEF IInv, Layout
  <2>3. \A t : KeysOf(t)' = KeysOf(t) /\ NamesOf(t)' = NamesOf(t)
    BY <1>1 DEF KeysOf, NamesOf
  <2> QED
    BY <1>1, <1>5, <2>1, <2>2, <2>3 DEF Layout
<1>9. Descent'
  <2>1. SUFFICES ASSUME NEW D, NEW r, Ranks(r, D), NEW i \in 1 .. n - 1
                 PROVE  r[walking'[i]] + i <= D + 1
    BY <1>1, <1>5 DEF Descent, Ranks, Children
  <2>2. i \in 1 .. n
    BY <1>2
  <2> QED
    BY <1>5, <2>1, <2>2 DEF IInv, Descent
<1>10. OverrunOnlyDeep' /\ ThrownLeaves'
  BY <1>1 DEF OverrunOnlyDeep, ThrownLeaves
<1> QED
  BY <1>6, <1>7, <1>8, <1>9, <1>10 DEF IInv

-----------------------------------------------------------------------------

\* The inductive invariant: the stack of every conversion is what was given and
\* four places for every table that is walked, and these tables are nested.
THEOREM Invariant == Spec => []IInv
<1>1. ASSUME IInv, [Next]_vars PROVE IInv'
  <2>1. CASE UNCHANGED vars
    <3>1. UNCHANGED <<content, given, stack, walking, args, pc, idx, health>>
      BY <2>1 DEF vars
    <3>2. Typed' /\ Height'
      BY <1>1, <3>1 DEF IInv, Typed, Height, Children
    <3>3. Layout'
      BY <1>1, <3>1 DEF IInv, Layout, KeysOf, NamesOf
    <3>4. Descent'
      BY <1>1, <3>1 DEF IInv, Descent, Ranks, Children
    <3>5. OverrunOnlyDeep'
      BY <1>1, <3>1 DEF IInv, OverrunOnlyDeep, Nesting, Children
    <3>6. ThrownLeaves'
      BY <1>1, <3>1 DEF IInv, ThrownLeaves, Table
    <3> QED
      BY <3>2, <3>3, <3>4, <3>5, <3>6 DEF IInv
  <2>2. CASE Next
    BY <1>1, <2>2, ArgumentStep, FinishStep, ReadScalarStep, ReadObjectStep, ReadTableStep,
       NextEntryStep, ThrowBeforeStep, ThrowAfterStep, OverrunStep, AssignStep, EndTableStep,
       ArgumentReadStep DEF Next
  <2> QED
    BY <1>1, <2>1, <2>2
<1> QED
  BY <1>1, Initially, PTL DEF Spec

\* A conversion of any tables that returns has left the stack of iLua.cpp:143-181
\* as it was.
THEOREM StackRestored == Spec => []Balanced
<1>1. IInv => Balanced
  <2>1. SUFFICES ASSUME IInv, pc \in {"argument", "done"} PROVE stack = given
    BY DEF Balanced
  <2>2. Len(given) \in Nat /\ Len(walking) = 0
    BY <2>1, Lengths DEF IInv, Height
  <2>3. Len(stack) = Len(given)
    BY <2>1, <2>2 DEF IInv, Height, ThrownLeaves
  <2>4. \A j \in 1 .. Len(given) : stack[j] = given[j]
    BY <2>1 DEF IInv, Layout
  <2>5. given \in Seq(Values) /\ stack \in Seq(Places)
    BY <2>1, MarshalAssumption DEF IInv, Typed
  <2> QED
    BY <2>3, <2>4, <2>5, SeqEqual
<1> QED
  BY <1>1, Invariant, PTL

\* Tables nested D deep never overrun a stack with 4 * D places.
THEOREM NestedTablesFit == Spec => []OverrunOnlyDeep
<1>1. IInv => OverrunOnlyDeep
  BY DEF IInv
<1> QED
  BY <1>1, Invariant, PTL

\* A key without a name is the only cause of an exception, which leaves four
\* places for every table.
THEOREM ThrownTables == Spec => []ThrownLeaves
<1>1. IInv => ThrownLeaves
  BY DEF IInv
<1> QED
  BY <1>1, Invariant, PTL

-----------------------------------------------------------------------------

\* The value v of the host is what x reads as, m levels of nesting and more seen.
ReadsAs(v, x, m) == \A n \in Nat : n >= m => v = Reading[n][x]

NameAt(t, j) == NameOf[content[t][j].key]

\* F holds the first q fields of t, of several with one name the last.
Collected(F, t, q, m) ==
  /\ F = [n \in DOMAIN F |-> F[n]]
  /\ DOMAIN F = {NameAt(t, j) : j \in 1 .. q}
  /\ \A n \in DOMAIN F : \E j \in 1 .. q :
       /\ NameAt(t, j) = n /\ \A k \in 1 .. q : NameAt(t, k) = n => k <= j
       /\ ReadsAs(F[n], content[t][j].value, m)

\* The walk of the i-th table: its key, the entry it is at, the fields it is
\* through with, and the value that is read, in the arguments (0) or in a table.
Key(i) == stack[Len(given) + 4 * i - 2]
Current(i) == Position(walking[i], Key(i))
Inside(i) == i < Len(walking) \/ pc # "next"
Through(i) == IF Inside(i) THEN Current(i) - 1 ELSE Current(i)
Subject(i) == IF i = 0 THEN given[Len(args) + 1] ELSE content[walking[i]][Current(i)].value

\* How many arguments have been read, and that the places suffice.
Counted ==
  /\ Len(fields) = Len(walking) /\ \E S : fields \in Seq(S)
  /\ \A i \in DOMAIN fields : DOMAIN fields[i] \subseteq Names
  /\ Len(stack) <= Len(given) + Slots
  /\ idx \in 0 .. Len(given) + Slots
  /\ Len(args) <= Len(given)
  /\ pc \in {"read", "next", "returned"} => Len(args) < Len(given)
  /\ pc = "done" => health = "ok" /\ Len(args) = Len(given)

\* What has been read of a table that is walked is right, and it is walked where
\* it was found.
Walked(i) ==
  /\ Inside(i) => Key(i) # Nil /\ stack[Len(given) + 4 * i] = NameOf[Key(i)]
  /\ Collected(fields[i], walking[i], Through(i), Slots - i)
  /\ walking[i] = Subject(i - 1)

\* So is all that has been read.
Collecting ==
  /\ \A j \in 1 .. Len(args) : ReadsAs(args[j], given[j], Slots)
  /\ \A i \in 1 .. Len(walking) : Walked(i)
  /\ pc = "read" => stack[idx] = Subject(Len(walking))
  /\ pc = "returned" => ReadsAs(ret, Subject(Len(walking)), Slots - Len(walking))

RInv == Counted /\ (health = "ok" => Collecting)

-----------------------------------------------------------------------------

\* Induction over the naturals for a set of them.
LEMMA SetInduction ==
  ASSUME NEW S, 0 \in S, \A n \in Nat : n \in S => n + 1 \in S
  PROVE  Nat \subseteq S
<1> DEFINE T == Nat \ S
           R == OpToRel(<, Nat)
<1>1. ASSUME T # {} PROVE FALSE
  <2>1. PICK x \in T : \A y \in T : <<y, x>> \notin R
    <3>1. T \subseteq Nat
      OBVIOUS
    <3> HIDE DEF T
    <3> QED
      BY <1>1, <3>1, NatLessThanWellFounded, WFMin
  <2>2. x \in Nat /\ x - 1 \in T /\ x - 1 \in Nat /\ x - 1 < x
    OBVIOUS
  <2>3. <<x - 1, x>> \in R
    BY <2>2 DEF OpToRel
  <2> QED
    BY <2>1, <2>2, <2>3
<1> QED
  BY <1>1

\* One level of the reference, given the level below it.
Level(below, n) ==
  [x \in Values |->
    IF x \notin Tables THEN Back(x)
    ELSE IF n = 0 \/ content[x] = <<>> THEN Nil
    ELSE [f \in FieldsOf(x) |-> below[content[x][LastOf(x, f)].value]]]

\* The first levels of the reference, up to k.
Levels(h, k) == \A n \in 0 .. k : h[n] = Level(h[n - 1], n)

LEMMA LevelZero == \A a, b : Level(a, 0) = Level(b, 0)
  BY DEF Level

LEMMA LevelsExist == \A k \in Nat : \E h : Levels(h, k)
<1> DEFINE S == {k \in Nat : \E h : Levels(h, k)}
<1>1. 0 \in S
  <2>1. Levels([n \in {0} |-> Level({}, 0)], 0)
    BY LevelZero DEF Levels
  <2> QED
    BY <2>1
<1>2. ASSUME NEW k \in Nat, k \in S PROVE k + 1 \in S
  <2>1. PICK h : Levels(h, k)
    BY <1>2
  <2> DEFINE g == [n \in 0 .. k + 1 |-> IF n <= k THEN h[n] ELSE Level(h[k], k + 1)]
  <2>2. \A n \in 0 .. k : g[n] = h[n]
    OBVIOUS
  <2>3. ASSUME NEW n \in 0 .. k + 1 PROVE g[n] = Level(g[n - 1], n)
    <3>1. CASE n = 0
      BY <2>1, <2>2, <3>1, LevelZero DEF Levels
    <3>2. CASE n \in 1 .. k
      BY <2>1, <2>2, <3>2 DEF Levels
    <3>3. CASE n = k + 1
      BY <2>2, <3>3
    <3> QED
      BY <3>1, <3>2, <3>3
  <2> HIDE DEF g
  <2>4. Levels(g, k + 1)
    BY <2>3 DEF Levels
  <2> QED
    BY <2>4
<1> HIDE DEF S
<1>3. Nat \subseteq S
  BY <1>1, <1>2, SetInduction
<1> QED
  BY <1>3 DEF S

LEMMA LevelsAgree ==
  ASSUME NEW i \in Nat, NEW j \in Nat, NEW g, NEW h, Levels(g, i), Levels(h, j)
  PROVE  \A n \in Nat : n <= i /\ n <= j => g[n] = h[n]
<1> DEFINE S == {n \in Nat : n <= i /\ n <= j => g[n] = h[n]}
<1>1. 0 \in S
  BY LevelZero DEF Levels
<1>2. ASSUME NEW n \in Nat, n \in S PROVE n + 1 \in S
  <2>1. SUFFICES ASSUME n + 1 <= i, n + 1 <= j PROVE g[n + 1] = h[n + 1]
    OBVIOUS
  <2>2. g[n] = h[n]
    BY <1>2, <2>1
  <2>3. n + 1 \in 0 .. i /\ n + 1 \in 0 .. j /\ (n + 1) - 1 = n
    BY <2>1
  <2> QED
    BY <2>2, <2>3 DEF Levels
<1> HIDE DEF S
<1>3. Nat \subseteq S
  BY <1>1, <1>2, SetInduction
<1> QED
  BY <1>3 DEF S

\* The recursive reference exists: every level is made from the level below.
LEMMA ReadingUnfolds == \A n \in Nat : Reading[n] = Level(Reading[n - 1], n)
<1> DEFINE Chosen(k) == CHOOSE h : Levels(h, k)
           G == [n \in Nat |-> Chosen(n)[n]]
<1>1. \A k \in Nat : Levels(Chosen(k), k)
  BY LevelsExist
<1>2. ASSUME NEW n \in Nat PROVE G[n] = Level(G[n - 1], n)
  <2>1. Chosen(n)[n] = Level(Chosen(n)[n - 1], n)
    BY <1>1 DEF Levels
  <2>2. CASE n = 0
    BY <2>1, <2>2, LevelZero
  <2>3. CASE n # 0
    <3>1. n - 1 \in Nat /\ n - 1 <= n
      BY <2>3
    <3> HIDE DEF Chosen
    <3>2. Chosen(n)[n - 1] = Chosen(n - 1)[n - 1]
      BY <1>1, <3>1, LevelsAgree
    <3> QED
      BY <2>1, <3>1, <3>2
  <2> QED
    BY <2>2, <2>3
<1> HIDE DEF Chosen
<1>3. G = [n \in Nat |-> Level(G[n - 1], n)]
  <2>1. [n \in Nat |-> Chosen(n)[n]] = [n \in Nat |-> Level(G[n - 1], n)]
    BY <1>2
  <2> QED
    BY <2>1
<1> HIDE DEF G
<1>4. Reading = CHOOSE g : g = [n \in Nat |-> Level(g[n - 1], n)]
  BY Zenon DEF Reading, Level
<1>5. Reading = [n \in Nat |-> Level(Reading[n - 1], n)]
  BY <1>3, <1>4
<1> QED
  BY <1>5

\* What the reference makes of a scalar and of a table.
LEMMA ReadingOf ==
  ASSUME NEW n \in Nat, NEW x \in Values
  PROVE  /\ x \notin Tables => Reading[n][x] = Back(x)
         /\ x \in Tables /\ content[x] = <<>> => Reading[n][x] = Nil
         /\ x \in Tables /\ content[x] # <<>> /\ n # 0 =>
              Reading[n][x] = [f \in FieldsOf(x) |-> Reading[n - 1][content[x][LastOf(x, f)].value]]
<1>1. Reading[n] = Level(Reading[n - 1], n)
  BY ReadingUnfolds
<1>2. Level(Reading[n - 1], n)[x] =
        IF x \notin Tables THEN Back(x)
        ELSE IF n = 0 \/ content[x] = <<>> THEN Nil
        ELSE [f \in FieldsOf(x) |-> Reading[n - 1][content[x][LastOf(x, f)].value]]
  BY Zenon DEF Level
<1> QED
  BY <1>1, <1>2

LEMMA CollectedNone == \A t, m : Collected(NoFields, t, 0, m) /\ Collected(NoFields, t, 0, m)'
<1>1. DOMAIN NoFields = {} /\ NoFields = [n \in {} |-> NoFields[n]]
  BY DEF NoFields
<1> QED
  BY <1>1 DEF Collected

\* retVal[name] = value.
LEMMA CollectedMore ==
  ASSUME NEW F, NEW t, NEW q \in Nat, NEW m, NEW v, NEW N, N = NameAt(t, q + 1),
         NEW G, G = [n \in DOMAIN F \cup {N} |-> IF n = N THEN v ELSE F[n]],
         Collected(F, t, q, m), ReadsAs(v, content[t][q + 1].value, m)
  PROVE  Collected(G, t, q + 1, m)
<1>1. DOMAIN G = {NameAt(t, j) : j \in 1 .. q + 1}
  <2>1. 1 .. q + 1 = (1 .. q) \cup {q + 1}
    OBVIOUS
  <2> QED
    BY <2>1 DEF Collected
<1>2. G = [n \in DOMAIN G |-> G[n]]
  OBVIOUS
<1>3. ASSUME NEW n \in DOMAIN G
      PROVE  \E j \in 1 .. q + 1 :
               /\ NameAt(t, j) = n /\ \A k \in 1 .. q + 1 : NameAt(t, k) = n => k <= j
               /\ ReadsAs(G[n], content[t][j].value, m)
  <2>1. CASE n = N
    <3>1. G[n] = v /\ q + 1 \in 1 .. q + 1
      BY <2>1
    <3> QED
      BY <2>1, <3>1
  <2>2. CASE n # N
    <3>1. n \in DOMAIN F /\ G[n] = F[n]
      BY <2>2
    <3>2. PICK j \in 1 .. q : /\ NameAt(t, j) = n /\ \A k \in 1 .. q : NameAt(t, k) = n => k <= j
                              /\ ReadsAs(F[n], content[t][j].value, m)
      BY <3>1 DEF Collected
    <3>3. \A k \in 1 .. q + 1 : NameAt(t, k) = n => k \in 1 .. q
      BY <2>2
    <3> QED
      BY <3>1, <3>2, <3>3
  <2> QED
    BY <2>1, <2>2
<1> QED
  BY <1>1, <1>2, <1>3 DEF Collected

\* The variable that is returned for a table that has been walked to its end.
LEMMA CollectedAll ==
  ASSUME Typed, NEW t \in Tables, NEW F, NEW m \in Nat, Collected(F, t, Len(content[t]), m)
  PROVE  ReadsAs(IF F = NoFields THEN Nil ELSE F, t, m + 1)
<1>1. content[t] \in Seq([key : Keys, value : Values])
  BY MarshalAssumption DEF Typed
<1>2. /\ Len(content[t]) \in Nat /\ DOMAIN content[t] = 1 .. Len(content[t])
      /\ content[t] = <<>> <=> Len(content[t]) = 0
  BY <1>1, LenProperties, EmptySeq
<1>3. DOMAIN F = FieldsOf(t)
  BY <1>2 DEF Collected, FieldsOf, NameAt
<1>4. content[t] = <<>> <=> F = NoFields
  <2>1. content[t] = <<>> <=> DOMAIN F = {}
    <3>1. Len(content[t]) = 0 <=> 1 .. Len(content[t]) = {}
      BY <1>2
    <3>2. DOMAIN F = {} <=> DOMAIN content[t] = {}
      BY <1>3 DEF FieldsOf
    <3> QED
      BY <1>2, <3>1, <3>2
  <2>2. DOMAIN NoFields = {} /\ NoFields = [n \in {} |-> NoFields[n]]
    BY DEF NoFields
  <2>3. DOMAIN F = {} => F = NoFields
    BY <2>2 DEF Collected, NoFields
  <2> QED
    BY <2>1, <2>2, <2>3
<1>5. t \in Values
  BY DEF Values
<1>6. ASSUME NEW k \in Nat, k >= m + 1 PROVE (IF F = NoFields THEN Nil ELSE F) = Reading[k][t]
  <2>1. CASE content[t] = <<>>
    BY <1>4, <1>5, <2>1, ReadingOf
  <2>2. CASE content[t] # <<>>
    <3>1. k # 0 /\ k - 1 \in Nat /\ k - 1 >= m
      BY <1>6
    <3>2. Reading[k][t] = [f \in FieldsOf(t) |-> Reading[k - 1][content[t][LastOf(t, f)].value]]
      BY <1>5, <2>2, <3>1, ReadingOf
    <3>3. ASSUME NEW f \in FieldsOf(t)
          PROVE  F[f] = Reading[k - 1][content[t][LastOf(t, f)].value]
      <4>1. PICK j \in 1 .. Len(content[t]) :
              /\ NameAt(t, j) = f /\ \A i \in 1 .. Len(content[t]) : NameAt(t, i) = f => i <= j
              /\ ReadsAs(F[f], content[t][j].value, m)
        BY <1>3 DEF Collected
      <4>2. LastOf(t, f) = j
        BY <1>2, <4>1 DEF LastOf, NameAt
      <4> QED
        BY <3>1, <4>1, <4>2 DEF ReadsAs
    <3>4. F = [f \in FieldsOf(t) |-> F[f]]
      BY <1>3 DEF Collected
    <3>5. F = [f \in FieldsOf(t) |-> Reading[k - 1][content[t][LastOf(t, f)].value]]
      BY <3>3, <3>4
    <3> QED
      BY <1>4, <2>2, <3>2, <3>5
  <2> QED
    BY <2>1, <2>2
<1> QED
  BY <1>6 DEF ReadsAs

\* The entry that lua_next finds after a key, and the entry of a key.
LEMMA EntryAt ==
  ASSUME Typed, NEW t \in Tables
  PROVE  /\ Position(t, Nil) = 0
         /\ \A k \in KeysOf(t) : Position(t, k) \in DOMAIN content[t] /\ content[t][Position(t, k)].key = k
         /\ \A j \in DOMAIN content[t] : Position(t, content[t][j].key) = j
<1>1. content[t] \in Contents /\ content[t] \in Seq([key : Keys, value : Values])
  BY MarshalAssumption DEF Typed
<1>2. \A i, j \in DOMAIN content[t] : content[t][i].key = content[t][j].key => i = j
  BY <1>1, MarshalAssumption
<1>3. \A j \in DOMAIN content[t] : content[t][j].key # Nil
  <2>1. \A j \in DOMAIN content[t] : content[t][j].key \in Keys
    BY Walk
  <2> QED
    BY <2>1, MarshalAssumption
<1>4. Position(t, Nil) = 0
  BY DEF Position
<1>5. ASSUME NEW j \in DOMAIN content[t] PROVE Position(t, content[t][j].key) = j
  BY <1>2, <1>3 DEF Position
<1>6. ASSUME NEW k \in KeysOf(t)
      PROVE  Position(t, k) \in DOMAIN content[t] /\ content[t][Position(t, k)].key = k
  BY <1>5 DEF KeysOf
<1> QED
  BY <1>4, <1>5, <1>6

-----------------------------------------------------------------------------

\* The reference does not change in a conversion.
LEMMA SameReading == content' = content => Reading' = Reading
  BY DEF Reading, FieldsOf, LastOf, Back

LEMMA SameCollected ==
  ASSUME content' = content, NEW F, NEW t, NEW q, NEW m
  PROVE  Collected(F, t, q, m)' <=> Collected(F, t, q, m)
<1>1. Reading' = Reading
  BY SameReading
<1> QED
  BY <1>1 DEF Collected, ReadsAs, NameAt

\* A table in which another one is walked, or whose value is read, stays as it is.
LEMMA WalkedKept ==
  ASSUME UNCHANGED <<content, given, args>>, NEW i, Walked(i), Inside(i), Inside(i)',
         walking'[i] = walking[i], fields'[i] = fields[i], Key(i)' = Key(i),
         stack'[Len(given) + 4 * i] = stack[Len(given) + 4 * i],
         Subject(i - 1)' = Subject(i - 1)
  PROVE  Walked(i)'
<1>1. Reading' = Reading
  BY SameReading
<1>2. Through(i)' = Through(i)
  BY DEF Through, Current, Position
<1>3. Collected(fields[i], walking[i], Through(i), Slots - i)'
  BY <1>1, <1>2 DEF Walked, Collected, ReadsAs, NameAt
<1> QED
  BY <1>3 DEF Walked

\* What a place below the top leads to.
LEMMA SubjectKept ==
  ASSUME UNCHANGED <<content, given, args>>, NEW i,
         i # 0 => walking'[i] = walking[i] /\ Key(i)' = Key(i)
  PROVE  Subject(i)' = Subject(i)
<1>1. CASE i = 0
  BY <1>1 DEF Subject
<1>2. CASE i # 0
  <2>1. PICK t, k : t = walking[i] /\ k = Key(i)
    OBVIOUS
  <2>2. Position(t, k)' = Position(t, k)
    BY DEF Position
  <2>3. Current(i) = Position(t, k)
    BY <2>1 DEF Current
  <2>4. Current(i)' = Position(t, k)'
    BY <1>2, <2>1 DEF Current
  <2> QED
    BY <1>2, <2>2, <2>3, <2>4 DEF Subject
<1> QED
  BY <1>1, <1>2

LEMMA InitiallyRead == Init => RInv
<1> SUFFICES ASSUME Init PROVE RInv
  OBVIOUS
<1>1. Len(given) \in Nat /\ Slots \in Nat
  BY MarshalAssumption, LenProperties DEF Init
<1>2. fields = <<>> /\ walking = <<>> /\ args = <<>> /\ Len(walking) = 0 /\ Len(fields) = 0 /\ Len(args) = 0
  BY EmptySeq DEF Init
<1>3. Counted
  <2>1. fields \in Seq({})
    BY <1>2, EmptySeq
  <2> QED
    BY <1>1, <1>2, <2>1 DEF Init, Counted
<1>4. Collecting
  BY <1>2 DEF Init, Collecting
<1> QED
  BY <1>3, <1>4 DEF RInv

\* The numbers that the invariants are about.
LEMMA Numbers ==
  ASSUME IInv, Counted
  PROVE  /\ Len(given) \in Nat /\ Len(stack) \in Nat /\ Len(walking) \in Nat /\ Len(args) \in Nat
         /\ Slots \in Nat
         /\ walking = <<>> <=> Len(walking) = 0
         /\ \A j \in 1 .. Len(walking) : walking[j] \in Tables
         /\ DOMAIN fields = 1 .. Len(walking)
<1>1. DOMAIN fields = 1 .. Len(fields)
  BY LenProperties DEF Counted
<1> QED
  BY <1>1, Lengths, MarshalAssumption DEF IInv, Counted

LEMMA ArgumentRight ==
  ASSUME IInv, RInv, Argument PROVE RInv'
<1>1. /\ Len(args) < Len(stack) /\ idx' = Len(args) + 1 /\ pc = "argument" /\ pc' = "read"
      /\ health = "ok" /\ UNCHANGED <<content, given, stack, walking, fields, args, ret, health>>
  BY DEF Argument, At
<1>2. walking = <<>> /\ Len(walking) = 0 /\ Len(stack) = Len(given) /\ Len(args) < Len(given)
  BY <1>1, Numbers DEF IInv, Height, RInv
<1>3. Counted'
  BY <1>1, <1>2, Numbers DEF RInv, Counted
<1>4. Collecting'
  <2>1. stack[Len(args) + 1] = given[Len(args) + 1]
    BY <1>2, Numbers DEF IInv, Layout, RInv
  <2>2. Reading' = Reading
    BY <1>1, SameReading
  <2> QED
    BY <1>1, <1>2, <2>1, <2>2 DEF RInv, Collecting, ReadsAs, Subject
<1> QED
  BY <1>3, <1>4 DEF RInv

LEMMA FinishRight ==
  ASSUME IInv, RInv, Finish PROVE RInv'
<1>1. /\ Len(args) >= Len(stack) /\ pc = "argument" /\ pc' = "done"
      /\ health = "ok" /\ UNCHANGED <<content, given, stack, walking, fields, args, idx, ret, health>>
  BY DEF Finish, At
<1>2. walking = <<>> /\ Len(walking) = 0 /\ Len(stack) = Len(given)
  BY <1>1, Numbers DEF IInv, Height, RInv
<1>3. Counted'
  BY <1>1, <1>2, Numbers DEF RInv, Counted
<1>4. Reading' = Reading
  BY <1>1, SameReading
<1>5. Collecting'
  BY <1>1, <1>2, <1>4 DEF RInv, Collecting, ReadsAs
<1> QED
  BY <1>3, <1>5 DEF RInv

LEMMA ReadScalarRight ==
  ASSUME IInv, RInv, ReadScalar PROVE RInv'
<1> DEFINE n == Len(walking)
<1>1. /\ pc = "read" /\ pc' = "returned" /\ ret' = Back(stack[idx]) /\ stack[idx] \in Scalars
      /\ health = "ok" /\ UNCHANGED <<content, given, stack, walking, fields, args, idx, health>>
  BY DEF ReadScalar, At
<1>2. Counted'
  BY <1>1 DEF RInv, Counted
<1>3. Reading' = Reading
  BY <1>1, SameReading
<1>4. \A i \in 1 .. n : Walked(i)'
  <2>1. SUFFICES ASSUME NEW i \in 1 .. n PROVE Walked(i)'
    OBVIOUS
  <2>2. Walked(i) /\ Inside(i) /\ Inside(i)'
    BY <1>1 DEF RInv, Collecting, Inside
  <2>3. Key(i)' = Key(i) /\ Subject(i - 1)' = Subject(i - 1)
    BY <1>1 DEF Key, Subject, Current, Position
  <2> QED
    BY <1>1, <2>2, <2>3, WalkedKept
<1>5. ReadsAs(ret', Subject(n), Slots - n)
  <2>1. stack[idx] = Subject(n)
    BY <1>1 DEF RInv, Collecting
  <2>2. stack[idx] \in Values /\ stack[idx] \notin Tables
    BY <1>1, MarshalAssumption DEF Values
  <2>3. \A k \in Nat : Reading[k][stack[idx]] = Back(stack[idx])
    BY <2>2, ReadingOf
  <2> QED
    BY <1>1, <2>1, <2>3 DEF ReadsAs
<1>6. Subject(n)' = Subject(n) /\ n' = n
  BY <1>1 DEF Subject, Current, Key, Position
<1>7. ReadsAs(ret, Subject(n), Slots - n)'
  BY <1>3, <1>5, <1>6 DEF ReadsAs
<1>8. Collecting'
  BY <1>1, <1>3, <1>4, <1>7 DEF RInv, Collecting, ReadsAs
<1> QED
  BY <1>2, <1>8 DEF RInv

LEMMA ArgumentReadRight ==
  ASSUME IInv, RInv, ArgumentRead PROVE RInv'
<1>1. /\ pc = "returned" /\ walking = <<>> /\ pc' = "argument" /\ args' = Append(args, ret)
      /\ health = "ok" /\ UNCHANGED <<content, given, stack, walking, fields, idx, ret, health>>
  BY DEF ArgumentRead, At
<1>2. Len(walking) = 0 /\ Len(args) < Len(given)
  BY <1>1, Numbers DEF RInv, Counted
<1>3. /\ Len(args') = Len(args) + 1
      /\ \A j \in 1 .. Len(args) : args'[j] = args[j]
      /\ args'[Len(args) + 1] = ret
  <2>1. PICK S : args \in Seq(S)
    BY DEF IInv, Typed
  <2>2. args \in Seq(S \cup {ret})
    BY <2>1, SeqMonotonic
  <2> QED
    BY <1>1, <2>2, AppendProperties
<1>4. Counted'
  BY <1>1, <1>2, <1>3, Numbers DEF RInv, Counted
<1>5. Reading' = Reading
  BY <1>1, SameReading
<1>6. ReadsAs(ret, given[Len(args) + 1], Slots)
  <2>1. Slots - 0 = Slots
    BY Numbers DEF RInv
  <2> QED
    BY <1>1, <1>2, <2>1 DEF RInv, Collecting, Subject
<1>7. \A j \in 1 .. Len(args') : ReadsAs(args'[j], given[j], Slots)
  <2>1. \A j \in 1 .. Len(args') : j \in 1 .. Len(args) \/ j = Len(args) + 1
    BY <1>3, Numbers DEF RInv
  <2> QED
    BY <1>1, <1>3, <1>6, <2>1 DEF RInv, Collecting
<1>8. Collecting'
  BY <1>1, <1>2, <1>5, <1>7 DEF Collecting, ReadsAs
<1> QED
  BY <1>4, <1>8 DEF RInv

\* The places of a table that is walked, below the places of the tables in it.
LEMMA PlacesBelow ==
  ASSUME IInv, Counted, NEW i \in 1 .. Len(walking), NEW n \in Nat, i < n
  PROVE  /\ Len(given) + 4 * i - 2 \in 1 .. Len(given) + 4 * n - 4
         /\ Len(given) + 4 * i \in 1 .. Len(given) + 4 * n - 4
  BY Numbers

LEMMA ReadTableRight ==
  ASSUME IInv, RInv, ReadTable PROVE RInv'
<1> PICK L \in Nat, n \in Nat : L = Len(given) /\ n = Len(walking)
  BY Numbers DEF RInv
<1>0. PICK x \in Tables : x = stack[idx]
  BY DEF ReadTable
<1>1. /\ pc = "read" /\ pc' = "next" /\ health = "ok" /\ Room(2)
      /\ stack' = stack \o <<x, Nil>> /\ walking' = Append(walking, x) /\ fields' = Append(fields, NoFields)
      /\ UNCHANGED <<content, given, args, idx, health>>
  BY <1>0 DEF ReadTable, At
<1>2. /\ Slots \in Nat /\ Len(stack) = L + 4 * n /\ Len(stack) \in Nat
      /\ DOMAIN fields = 1 .. n
  BY <1>1, Numbers DEF RInv, IInv, Height
<1>3. /\ Len(stack') = Len(stack) + 2
      /\ \A j \in 1 .. Len(stack) : stack'[j] = stack[j]
      /\ stack'[Len(stack) + 2] = Nil
  <2>1. stack \in Seq(Places) /\ x \in Places /\ Nil \in Places
    BY DEF IInv, Typed, Places, Values, Scalars
  <2> QED
    BY <1>1, <2>1, Pushing
<1>4. /\ Len(walking') = n + 1
      /\ \A j \in 1 .. n : walking'[j] = walking[j]
      /\ walking'[n + 1] = x
  BY <1>1, AppendProperties DEF IInv, Typed
<1>5. /\ \E S : fields' \in Seq(S)
      /\ Len(fields') = n + 1
      /\ \A j \in 1 .. n : fields'[j] = fields[j]
      /\ fields'[n + 1] = NoFields
  <2>1. PICK S : fields \in Seq(S)
    BY DEF RInv, Counted
  <2>2. fields \in Seq(S \cup {NoFields}) /\ Len(fields) = n
    BY <2>1, SeqMonotonic DEF RInv, Counted
  <2> QED
    BY <1>1, <2>2, AppendProperties
<1>6. Counted'
  <2>1. DOMAIN fields' = 1 .. n + 1
    BY <1>5, LenProperties
  <2>2. \A i \in DOMAIN fields' : DOMAIN fields'[i] \subseteq Names
    <3>1. DOMAIN NoFields \subseteq Names
      BY DEF NoFields
    <3>2. \A i \in 1 .. n + 1 : i \in 1 .. n \/ i = n + 1
      BY <1>2
    <3> QED
      BY <1>2, <1>5, <2>1, <3>1, <3>2 DEF RInv, Counted
  <2> QED
    BY <1>1, <1>2, <1>3, <1>4, <1>5, <2>2 DEF RInv, Counted, Room
<1>7. \A i \in 1 .. n : Walked(i)' /\ Subject(i)' = Subject(i)
  <2>1. SUFFICES ASSUME NEW i \in 1 .. n PROVE Walked(i)' /\ Subject(i)' = Subject(i)
    OBVIOUS
  <2>2. L + 4 * i - 2 \in 1 .. Len(stack) /\ L + 4 * i \in 1 .. Len(stack) /\ i < Len(walking')
    BY <1>2, <1>4
  <2>3. Key(i)' = Key(i) /\ stack'[L + 4 * i] = stack[L + 4 * i]
    BY <1>1, <1>3, <2>2 DEF Key
  <2>4. i - 1 # 0 => i - 1 \in 1 .. n /\ L + 4 * (i - 1) - 2 \in 1 .. Len(stack)
    BY <1>2
  <2>5. i - 1 # 0 => walking'[i - 1] = walking[i - 1] /\ Key(i - 1)' = Key(i - 1)
    BY <1>1, <1>3, <1>4, <2>4 DEF Key
  <2>6. Subject(i - 1)' = Subject(i - 1) /\ Subject(i)' = Subject(i)
    BY <1>1, <1>4, <2>3, <2>5, SubjectKept
  <2>7. Walked(i) /\ Inside(i) /\ Inside(i)'
    BY <1>1, <2>2 DEF RInv, Collecting, Inside
  <2> QED
    BY <1>1, <1>4, <1>5, <2>3, <2>6, <2>7, WalkedKept
<1>8. Walked(n + 1)'
  <2>1. ~Inside(n + 1)'
    BY <1>1, <1>2, <1>4 DEF Inside
  <2>2. Key(n + 1)' = Nil
    <3>1. L + 4 * (n + 1) - 2 = Len(stack) + 2
      BY <1>2
    <3> QED
      BY <1>1, <1>3, <3>1 DEF Key
  <2>3. Through(n + 1)' = 0
    BY <2>1, <2>2 DEF Through, Current, Position
  <2>5. Collected(fields[n + 1], walking[n + 1], Through(n + 1), Slots - (n + 1))'
    BY <1>4, <1>5, <2>3, CollectedNone
  <2>6. x = Subject(n)
    BY <1>0, <1>1 DEF RInv, Collecting
  <2>7. Subject(n)' = Subject(n)
    <3>1. n = 0 => Subject(n)' = Subject(n)
      BY <1>1 DEF Subject
    <3> QED
      BY <1>2, <1>7, <3>1
  <2>8. walking'[n + 1] = Subject((n + 1) - 1)'
    <3>1. (n + 1) - 1 = n
      BY <1>2
    <3> QED
      BY <1>4, <2>6, <2>7, <3>1
  <2> QED
    BY <2>1, <2>5, <2>8 DEF Walked
<1>9. Collecting'
  <2>1. \A i \in 1 .. n + 1 : i \in 1 .. n \/ i = n + 1
    BY <1>2
  <2>2. Reading' = Reading
    BY <1>1, SameReading
  <2> QED
    BY <1>1, <1>4, <1>7, <1>8, <2>1, <2>2 DEF RInv, Collecting, ReadsAs
<1> QED
  BY <1>6, <1>9 DEF RInv

\* Below the last table, what is walked stays as it is.
LEMMA OthersKept ==
  ASSUME IInv, RInv, health = "ok", UNCHANGED <<content, given, args>>,
         NEW n \in Nat, n <= Len(walking),
         n <= Len(walking'),
         \A i \in 1 .. n : walking'[i] = walking[i],
         \A i \in 1 .. n : i < n => fields'[i] = fields[i],
         \A j \in 1 .. Len(given) + 4 * n - 4 : stack'[j] = stack[j]
  PROVE  \A i \in 1 .. n : /\ i < n => Walked(i)'
                           /\ Subject(i - 1)' = Subject(i - 1)
<1>1. ASSUME NEW i \in 1 .. n, i < n
      PROVE  /\ walking'[i] = walking[i] /\ Key(i)' = Key(i)
             /\ stack'[Len(given) + 4 * i] = stack[Len(given) + 4 * i]
  <2>1. Len(given) \in Nat
    BY Numbers DEF RInv
  <2>2. /\ Len(given) + 4 * i - 2 \in 1 .. Len(given) + 4 * n - 4
        /\ Len(given) + 4 * i \in 1 .. Len(given) + 4 * n - 4
    BY <1>1, <2>1
  <2> QED
    BY <2>2 DEF Key
<1>2. ASSUME NEW i \in 1 .. n PROVE Subject(i - 1)' = Subject(i - 1)
  <2>1. PICK k \in Nat : k = i - 1 /\ (k # 0 => k \in 1 .. n /\ k < n)
    OBVIOUS
  <2>2. k # 0 => walking'[k] = walking[k] /\ Key(k)' = Key(k)
    BY <1>1, <2>1
  <2>3. Subject(k)' = Subject(k)
    BY <2>2, SubjectKept
  <2> QED
    BY <2>1, <2>3
<1>3. ASSUME NEW i \in 1 .. n, i < n PROVE Walked(i)'
  <2>1. i \in 1 .. Len(walking) /\ i < Len(walking) /\ i < Len(walking')
    <3>1. Len(walking) \in Nat
      BY Numbers DEF RInv
    <3>2. \A k : n <= k /\ k \in Nat => i < k
      BY <1>3
    <3>3. i < Len(walking) /\ i \in 1 .. Len(walking)
      BY <3>1, <1>3
    <3> QED
      BY <1>3, <3>3
  <2>2. Walked(i) /\ Inside(i) /\ Inside(i)'
    BY <2>1 DEF RInv, Collecting, Inside
  <2> QED
    BY <1>1, <1>2, <1>3, <2>2, WalkedKept
<1> QED
  BY <1>2, <1>3

LEMMA NextEntryRight ==
  ASSUME IInv, RInv, NextEntry PROVE RInv'
<1> PICK L \in Nat, n \in Nat : L = Len(given) /\ n = Len(walking)
  BY Numbers DEF RInv
<1>1. /\ pc = "next" /\ pc' = "read" /\ health = "ok" /\ At("next") /\ Room(2)
      /\ NextOf(Table) <= Len(content[Table])
      /\ stack' = Entered(content[Table][NextOf(Table)]) /\ idx' = Len(stack) + 1
      /\ UNCHANGED <<content, given, walking, fields, args, ret, health>>
  BY DEF NextEntry, At
<1>2. /\ Slots \in Nat /\ Len(stack) = L + 4 * n - 2 /\ n >= 1 /\ Len(stack) \in Nat
  BY <1>1, Numbers DEF RInv, IInv, Height
<1>3. PICK t, p : t = Table /\ p = NextOf(Table)
  OBVIOUS
<1>4. /\ t \in Tables /\ t = walking[n] /\ p \in DOMAIN content[t]
      /\ Len(stack') = L + 4 * n
      /\ stack'[L + 4 * n - 1] = content[t][p].value
      /\ stack'[L + 4 * n] = NameOf[content[t][p].key]
      /\ stack'[L + 4 * n - 2] = content[t][p].key
      /\ \A j \in 1 .. L + 4 * n - 3 : stack'[j] = stack[j]
  <2>1. /\ Table \in Tables
        /\ NextOf(Table) \in DOMAIN content[Table]
        /\ Len(stack') = Len(given) + 4 * Len(walking)
        /\ stack'[Len(stack') - 1] = content[Table][NextOf(Table)].value
        /\ stack'[Len(stack')] = NameOf[content[Table][NextOf(Table)].key]
        /\ stack'[Len(stack') - 2] = content[Table][NextOf(Table)].key
        /\ \A j \in 1 .. Len(stack') - 3 : stack'[j] = stack[j]
    BY <1>1, EntryPushed
  <2> QED
    BY <1>2, <1>3, <2>1 DEF Table
<1>5. Counted'
  <2>1. Len(stack') <= Len(given) + Slots /\ idx' \in 0 .. Len(given) + Slots
    BY SMTT(30), <1>1, <1>2, <1>4 DEF Room
  <2>2. Counted /\ pc' = "read" /\ Len(args) < Len(given)
    BY <1>1 DEF RInv, Counted
  <2> QED
    BY <1>1, <2>1, <2>2 DEF Counted
<1>6. \A i \in 1 .. n : (i < n => Walked(i)') /\ Subject(i - 1)' = Subject(i - 1)
  <2>1. \A j \in 1 .. Len(given) + 4 * n - 4 : stack'[j] = stack[j]
    BY SMTT(30), <1>4
  <2>2. n <= Len(walking) /\ n <= Len(walking')
    BY <1>1
  <2> QED
    BY <1>1, <2>1, <2>2, OthersKept
<1>7. Current(n)' = p /\ Key(n)' = content[t][p].key /\ Key(n)' # Nil
  <2>1. Key(n)' = content[t][p].key
    BY <1>1, <1>4 DEF Key
  <2>2. Position(t, content[t][p].key) = p
    BY <1>4, EntryAt DEF IInv
  <2>3. Position(t, content[t][p].key)' = Position(t, content[t][p].key)
    BY <1>1 DEF Position
  <2>4. content[t][p].key # Nil
    <3>1. content[t][p].key \in Keys
      BY <1>4, Walk DEF IInv
    <3> QED
      BY <3>1, MarshalAssumption
  <2>5. Current(n)' = Position(t, content[t][p].key)'
    BY <1>1, <1>4, <2>1 DEF Current
  <2> QED
    BY <1>1, <2>1, <2>2, <2>3, <2>4, <2>5
<1>8. Through(n)' = p - 1 /\ Through(n) = p - 1
  <2>1. Through(n)' = p - 1
    BY <1>1, <1>7 DEF Through, Inside
  <2>2. p = Position(t, stack[L + 4 * n - 2]) + 1
    BY <1>2, <1>3 DEF NextOf, Top
  <2>3. Current(n) = Position(t, stack[L + 4 * n - 2])
    BY <1>4 DEF Current, Key
  <2>4. Current(n) \in Nat
    <3>1. stack[L + 4 * n - 2] \in KeysOf(t) \cup {Nil}
      BY <1>2, <1>4 DEF IInv, Layout
    <3> QED
      BY <1>4, <2>3, <3>1, Walk DEF IInv
  <2>5. Through(n) = Current(n)
    BY <1>1 DEF Through, Inside
  <2> QED
    BY <2>1, <2>2, <2>3, <2>4, <2>5
<1>9. Walked(n)'
  <2>1. n \in 1 .. n /\ Walked(n)
    BY <1>1, <1>2 DEF RInv, Collecting
  <2>2. Reading' = Reading
    BY <1>1, SameReading
  <2>3. Collected(fields[n], walking[n], Through(n), Slots - n)'
    BY <1>1, <1>8, <2>1, SameCollected DEF Walked
  <2>4. walking'[n] = Subject(n - 1)'
    BY <1>1, <1>6, <2>1 DEF Walked
  <2> QED
    BY <1>1, <1>4, <1>7, <2>3, <2>4 DEF Walked
<1>10. stack'[idx'] = Subject(n)'
  <2>1. idx' = L + 4 * n - 1
    BY <1>1, <1>2
  <2>2. Subject(n)' = content[t][p].value
    BY <1>1, <1>2, <1>4, <1>7 DEF Subject
  <2> QED
    BY <1>4, <2>1, <2>2
<1>11. Collecting'
  <2>1. \A i \in 1 .. n : i < n \/ i = n
    OBVIOUS
  <2>2. Reading' = Reading
    BY <1>1, SameReading
  <2> QED
    BY <1>1, <1>6, <1>9, <1>10, <2>1, <2>2 DEF RInv, Collecting, ReadsAs
<1> QED
  BY <1>5, <1>11 DEF RInv

LEMMA AssignRight ==
  ASSUME IInv, RInv, Assign PROVE RInv'
<1> PICK L \in Nat, n \in Nat : L = Len(given) /\ n = Len(walking)
  BY Numbers DEF RInv
<1>1. /\ pc = "returned" /\ pc' = "next" /\ health = "ok" /\ walking # <<>> /\ Top # NoName
      /\ stack' = Dropped(2)
      /\ UNCHANGED <<content, given, walking, args, idx, health>>
  BY DEF Assign, At
<1>2. /\ Slots \in Nat /\ Len(stack) = L + 4 * n /\ n >= 1 /\ DOMAIN fields = 1 .. n /\ Len(fields) = n
      /\ n \in 1 .. n
  BY <1>1, Numbers DEF RInv, IInv, Height, Counted
<1>3. Len(stack') = L + 4 * n - 2 /\ \A j \in 1 .. L + 4 * n - 2 : stack'[j] = stack[j]
  <2>1. stack \in Seq(Places) /\ 2 <= Len(stack) /\ Len(stack) - 2 = L + 4 * n - 2
    BY <1>2 DEF IInv, Typed
  <2>2. Len(Dropped(2)) = Len(stack) - 2 /\ \A j \in 1 .. Len(stack) - 2 : Dropped(2)[j] = stack[j]
    BY <2>1, Popping DEF Dropped
  <2> QED
    BY <1>1, <2>1, <2>2
<1>4. PICK t, p, F : t = walking[n] /\ p = Current(n) /\ F = fields[n]
  OBVIOUS
<1>5. /\ Walked(n) /\ Inside(n) /\ Key(n) # Nil /\ Top = NameOf[Key(n)]
      /\ Through(n) = p - 1 /\ Collected(F, t, p - 1, Slots - n)
      /\ ReadsAs(ret, content[t][p].value, Slots - n)
  <2>1. Walked(n) /\ ReadsAs(ret, Subject(n), Slots - n)
    BY <1>1, <1>2 DEF RInv, Collecting
  <2>2. Inside(n) /\ Through(n) = p - 1
    BY <1>1, <1>4 DEF Inside, Through
  <2>3. Subject(n) = content[t][p].value
    BY <1>2, <1>4 DEF Subject
  <2>4. Top = stack[Len(given) + 4 * n]
    BY <1>2 DEF Top
  <2> QED
    BY <1>4, <2>1, <2>2, <2>3, <2>4 DEF Walked
<1>6. /\ t \in Tables /\ p \in DOMAIN content[t] /\ content[t][p].key = Key(n) /\ p \in Nat /\ p - 1 \in Nat
      /\ Top = NameAt(t, p) /\ Top \in Names
  <2>1. t \in Tables
    BY <1>2, <1>4, Numbers DEF RInv
  <2>2. Key(n) \in KeysOf(t)
    BY <1>2, <1>4, <1>5 DEF IInv, Layout, Key
  <2>3. p \in DOMAIN content[t] /\ content[t][p].key = Key(n)
    BY <1>4, <2>1, <2>2, EntryAt DEF IInv, Current
  <2>4. /\ DOMAIN content[t] = 1 .. Len(content[t]) /\ Len(content[t]) \in Nat
        /\ content[t][p] \in [key : Keys, value : Values]
    BY <2>1, <2>3, Walk DEF IInv
  <2>5. Top \in Names
    BY <1>1, <1>5, <2>3, <2>4, MarshalAssumption
  <2> QED
    BY <1>5, <2>1, <2>3, <2>4, <2>5 DEF NameAt
<1> DEFINE G == [m \in DOMAIN F \cup {Top} |-> IF m = Top THEN ret ELSE F[m]]
<1>7. fields' = [fields EXCEPT ![n] = G]
  BY <1>2, <1>4 DEF Assign
<1>8. /\ fields'[n] = G /\ \A i \in 1 .. n : i < n => fields'[i] = fields[i]
      /\ DOMAIN fields' = 1 .. n /\ Len(fields') = n /\ \E S : fields' \in Seq(S)
  <2>1. PICK S : fields \in Seq(S)
    BY DEF RInv, Counted
  <2>2. fields \in Seq(S \cup {G})
    BY <2>1, SeqMonotonic
  <2> HIDE DEF G
  <2>3. fields' \in Seq(S \cup {G}) /\ Len(fields') = Len(fields)
    BY <1>2, <1>7, <2>2, ExceptSeq
  <2> QED
    BY <1>2, <1>7, <2>3
<1>9. Collected(G, t, p, Slots - n)
  <2>1. PICK q \in Nat : q = p - 1 /\ q + 1 = p
    BY <1>6
  <2>2. /\ Top = NameAt(t, q + 1) /\ Collected(F, t, q, Slots - n)
        /\ ReadsAs(ret, content[t][q + 1].value, Slots - n)
    BY <1>5, <1>6, <2>1
  <2>3. PICK g, N, v, m : g = G /\ N = Top /\ v = ret /\ m = Slots - n
    OBVIOUS
  <2>4. /\ g = [k \in DOMAIN F \cup {N} |-> IF k = N THEN v ELSE F[k]]
        /\ N = NameAt(t, q + 1) /\ Collected(F, t, q, m) /\ ReadsAs(v, content[t][q + 1].value, m)
    BY <2>2, <2>3
  <2> HIDE DEF G
  <2>5. Collected(g, t, q + 1, m)
    BY <2>4, CollectedMore
  <2> QED
    BY <2>1, <2>3, <2>5
<1>10. Counted'
  <2>1. DOMAIN G \subseteq Names
    BY <1>2, <1>4, <1>6 DEF RInv, Counted
  <2> HIDE DEF G
  <2>2. \A i \in DOMAIN fields' : DOMAIN fields'[i] \subseteq Names
    <3>1. \A i \in 1 .. n : i = n \/ i < n
      OBVIOUS
    <3> QED
      BY <1>2, <1>8, <2>1, <3>1 DEF RInv, Counted
  <2>3. Counted /\ Len(stack') <= Len(given) + Slots
    BY <1>2, <1>3 DEF RInv, Counted
  <2> QED
    BY <1>1, <1>8, <2>2, <2>3 DEF Counted
<1> HIDE DEF G
<1>11. \A i \in 1 .. n : (i < n => Walked(i)') /\ Subject(i - 1)' = Subject(i - 1)
  <2>1. \A j \in 1 .. Len(given) + 4 * n - 4 : stack'[j] = stack[j]
    BY <1>3
  <2>2. n <= Len(walking) /\ n <= Len(walking')
    BY <1>1
  <2> QED
    BY <1>1, <1>8, <2>1, <2>2, OthersKept
<1>12. Walked(n)'
  <2>1. Key(n)' = Key(n)
    <3>1. L + 4 * n - 2 \in 1 .. L + 4 * n - 2
      BY <1>2
    <3> QED
      BY <1>1, <1>3, <3>1 DEF Key
  <2>2. Current(n)' = p
    <3>1. PICK k : k = Key(n)
      OBVIOUS
    <3>2. Position(t, k)' = Position(t, k)
      BY <1>1 DEF Position
    <3> QED
      BY <1>1, <1>4, <2>1, <3>1, <3>2 DEF Current
  <2>3. ~Inside(n)' /\ Through(n)' = p
    BY <1>1, <2>2 DEF Inside, Through
  <2>4. Collected(fields[n], walking[n], Through(n), Slots - n)'
    BY <1>1, <1>4, <1>8, <1>9, <2>3, SameCollected
  <2> QED
    BY <1>1, <1>2, <1>5, <1>11, <2>3, <2>4 DEF Walked
<1>13. Collecting'
  <2>1. \A i \in 1 .. n : i < n \/ i = n
    OBVIOUS
  <2>2. Reading' = Reading
    BY <1>1, SameReading
  <2> QED
    BY <1>1, <1>11, <1>12, <2>1, <2>2 DEF RInv, Collecting, ReadsAs
<1> QED
  BY <1>10, <1>13 DEF RInv

LEMMA EndTableRight ==
  ASSUME IInv, RInv, EndTable PROVE RInv'
<1> PICK L \in Nat, n \in Nat : L = Len(given) /\ n = Len(walking)
  BY Numbers DEF RInv
<1>1. /\ pc = "next" /\ pc' = "returned" /\ health = "ok"
      /\ NextOf(Table) > Len(content[Table])
      /\ stack' = Dropped(2) /\ walking' = Front(walking) /\ fields' = Front(fields)
      /\ ret' = IF Last(fields) = NoFields THEN Nil ELSE Last(fields)
      /\ UNCHANGED <<content, given, args, idx, health>>
  BY DEF EndTable, At
<1>2. /\ Slots \in Nat /\ Len(stack) = L + 4 * n - 2 /\ n >= 1 /\ DOMAIN fields = 1 .. n /\ Len(fields) = n
      /\ n \in 1 .. n /\ Len(stack) <= L + Slots
  BY <1>1, Numbers DEF RInv, IInv, Height, Counted
<1>3. Len(stack') = L + 4 * n - 4 /\ \A j \in 1 .. L + 4 * n - 4 : stack'[j] = stack[j]
  <2>1. stack \in Seq(Places) /\ 2 <= Len(stack) /\ Len(stack) - 2 = L + 4 * n - 4
    BY <1>2 DEF IInv, Typed
  <2> QED
    BY <1>1, <2>1, Popping DEF Dropped
<1>4. /\ Len(walking') = n - 1 /\ \A i \in 1 .. n - 1 : walking'[i] = walking[i]
      /\ Len(fields') = n - 1 /\ DOMAIN fields' = 1 .. n - 1 /\ \A i \in 1 .. n - 1 : fields'[i] = fields[i]
      /\ \E S : fields' \in Seq(S)
  <2>1. PICK S : fields \in Seq(S)
    BY DEF RInv, Counted
  <2>2. walking \in Seq(Tables) /\ 1 <= Len(walking) /\ 1 <= Len(fields)
    BY <1>2 DEF IInv, Typed
  <2>3. /\ Front(walking) \in Seq(Tables) /\ Len(Front(walking)) = Len(walking) - 1
        /\ \A j \in 1 .. Len(walking) - 1 : Front(walking)[j] = walking[j]
    BY <2>2, Popping DEF Front
  <2>4. /\ Front(fields) \in Seq(S) /\ Len(Front(fields)) = Len(fields) - 1
        /\ \A j \in 1 .. Len(fields) - 1 : Front(fields)[j] = fields[j]
    BY <2>1, <2>2, FrontOf
  <2>5. DOMAIN Front(fields) = 1 .. Len(Front(fields))
    BY <2>4, LenProperties
  <2> QED
    BY <1>1, <1>2, <2>3, <2>4, <2>5
<1>5. PICK t, F : t = walking[n] /\ F = fields[n] /\ t = Table /\ F = Last(fields)
  BY <1>2 DEF Table, Last
<1>6. Counted'
  <2>1. Counted /\ Len(stack') <= Len(given) + Slots
    BY <1>2, <1>3 DEF RInv, Counted
  <2>2. Len(fields') = Len(walking') /\ \A i \in DOMAIN fields' : DOMAIN fields'[i] \subseteq Names
    <3>1. \A i \in 1 .. n - 1 : i \in 1 .. n
      OBVIOUS
    <3> QED
      BY <1>2, <1>4, <2>1, <3>1 DEF Counted
  <2> QED
    BY <1>1, <1>4, <2>1, <2>2 DEF Counted
<1>7. \A i \in 1 .. n : (i < n => Walked(i)) /\ (i < n => i \in 1 .. n - 1)
  BY <1>1 DEF RInv, Collecting
<1>8. \A i \in 1 .. n - 1 : Walked(i)' /\ Subject(i - 1)' = Subject(i - 1)
  <2>1. PICK m \in Nat : m = n - 1
    BY <1>2
  <2>2. ASSUME NEW i \in 1 .. m
        PROVE  /\ walking'[i] = walking[i] /\ fields'[i] = fields[i] /\ Key(i)' = Key(i)
               /\ stack'[Len(given) + 4 * i] = stack[Len(given) + 4 * i]
    <3>1. L + 4 * i - 2 \in 1 .. L + 4 * n - 4 /\ L + 4 * i \in 1 .. L + 4 * n - 4
      BY <2>1
    <3> QED
      BY <1>1, <1>3, <1>4, <2>1, <3>1 DEF Key
  <2>3. ASSUME NEW i \in 0 .. m PROVE Subject(i)' = Subject(i)
    <3>1. i # 0 => walking'[i] = walking[i] /\ Key(i)' = Key(i)
      BY <2>2
    <3> QED
      BY <1>1, <3>1, SubjectKept
  <2>4. ASSUME NEW i \in 1 .. m PROVE Walked(i)'
    <3>1. Walked(i) /\ Inside(i) /\ Inside(i)'
      BY <1>1, <1>7, <2>1 DEF Inside
    <3>2. Subject(i - 1)' = Subject(i - 1)
      <4>1. PICK k \in 0 .. m : k = i - 1
        OBVIOUS
      <4> QED
        BY <2>3, <4>1
    <3> QED
      BY <1>1, <2>2, <3>1, <3>2, WalkedKept
  <2>5. ASSUME NEW i \in 1 .. m PROVE Subject(i - 1)' = Subject(i - 1)
    <3>1. PICK k \in 0 .. m : k = i - 1
      OBVIOUS
    <3> QED
      BY <2>3, <3>1
  <2> QED
    BY <2>1, <2>4, <2>5
<1>9. ReadsAs(ret', t, Slots - n + 1)
  <2>1. Walked(n) /\ ~Inside(n)
    BY <1>1, <1>2 DEF RInv, Collecting, Inside
  <2>2. t \in Tables
    BY <1>2, <1>5, Numbers DEF RInv
  <2>3. Top = stack[L + 4 * n - 2] /\ Top = Key(n) /\ Top \in KeysOf(t) \cup {Nil}
    BY <1>2, <1>5 DEF IInv, Layout, Top, Key
  <2>4. Position(t, Top) \in Nat /\ Position(t, Top) >= Len(content[t]) /\ Len(content[t]) \in Nat
    <3>1. Position(t, Top) \in Nat /\ Len(content[t]) \in Nat
      BY <2>2, <2>3, Walk DEF IInv
    <3>2. Position(t, Top) + 1 > Len(content[t])
      BY <1>1, <1>5 DEF NextOf
    <3> QED
      BY <3>1, <3>2
  <2>5. Position(t, Top) = Len(content[t])
    <3>1. CASE Top = Nil
      BY <2>2, <2>4, <3>1, EntryAt DEF IInv
    <3>2. CASE Top \in KeysOf(t)
      <4>1. Position(t, Top) \in DOMAIN content[t] /\ DOMAIN content[t] = 1 .. Len(content[t])
        BY <2>2, <2>3, <3>2, EntryAt, Walk DEF IInv
      <4> QED
        BY <2>4, <4>1
    <3> QED
      BY <2>3, <3>1, <3>2
  <2>6. Collected(F, t, Len(content[t]), Slots - n)
    <3>1. Through(n) = Len(content[t])
      BY <1>5, <2>1, <2>3, <2>5 DEF Through, Current
    <3> QED
      BY <1>5, <2>1, <3>1 DEF Walked
  <2>7. Slots - n \in Nat
    BY <1>2
  <2> QED
    BY <1>1, <1>5, <2>2, <2>6, <2>7, CollectedAll DEF IInv
<1>10. ReadsAs(ret, Subject(Len(walking)), Slots - Len(walking))'
  <2>1. PICK k \in Nat : k = n - 1
    BY <1>2
  <2>2. t = Subject(k)
    BY <1>1, <1>2, <1>5, <2>1 DEF RInv, Collecting, Walked
  <2>3. Subject(k)' = Subject(k)
    <3>1. CASE k = 0
      BY <1>1, <3>1 DEF Subject
    <3>2. CASE k # 0
      <4>1. k \in 1 .. n - 1 /\ L + 4 * k - 2 \in 1 .. L + 4 * n - 4
        BY <2>1, <3>2
      <4>2. walking'[k] = walking[k] /\ Key(k)' = Key(k)
        BY <1>1, <1>3, <1>4, <4>1 DEF Key
      <4> QED
        BY <1>1, <4>2, SubjectKept
    <3> QED
      BY <3>1, <3>2
  <2>4. Slots - n + 1 = Slots - k
    BY <1>2, <2>1
  <2>5. Reading' = Reading
    BY <1>1, SameReading
  <2>6. Len(walking') = k
    BY <1>4, <2>1
  <2> QED
    BY <1>9, <2>2, <2>3, <2>4, <2>5, <2>6 DEF ReadsAs
<1>11. Collecting'
  <2>1. Reading' = Reading
    BY <1>1, SameReading
  <2> QED
    BY <1>1, <1>4, <1>8, <1>10, <2>1 DEF RInv, Collecting, ReadsAs
<1> QED
  BY <1>6, <1>11 DEF RInv

\* A conversion that ends before it returns claims nothing of what it has read.
LEMMA EndedRight ==
  ASSUME IInv, RInv, ReadObject \/ ThrowBefore \/ ThrowAfter \/ Overrun PROVE RInv'
<1>1. /\ pc # "done" /\ health' # "ok"
      /\ UNCHANGED <<given, walking, fields, args, pc, idx>>
  BY DEF ReadObject, ThrowBefore, ThrowAfter, Overrun, At
<1>2. Len(stack') <= Len(given) + Slots
  <2>1. CASE ThrowBefore
    <3>1. /\ At("next") /\ pc = "next" /\ health = "ok" /\ Room(2) /\ NextOf(Table) <= Len(content[Table])
          /\ stack' = Entered(content[Table][NextOf(Table)])
          /\ UNCHANGED <<content, given, walking, args>>
      BY <2>1 DEF ThrowBefore, At
    <3>2. Len(stack) = Len(given) + 4 * Len(walking) - 2
      BY <3>1 DEF IInv, Height
    <3>3. Len(stack') = Len(given) + 4 * Len(walking)
      BY <3>1, EntryPushed
    <3> QED
      BY <3>1, <3>2, <3>3, Numbers DEF RInv, Room
  <2>2. CASE ~ThrowBefore
    BY <2>2 DEF ReadObject, ThrowAfter, Overrun, RInv, Counted
  <2> QED
    BY <2>1, <2>2
<1> QED
  BY <1>1, <1>2 DEF RInv, Counted

LEMMA StutterRight ==
  ASSUME RInv, UNCHANGED vars PROVE RInv'
<1>1. UNCHANGED <<content, given, stack, walking, fields, args, pc, idx, ret, health>>
  BY DEF vars
<1>2. Counted'
  BY <1>1 DEF RInv, Counted
<1>3. Reading' = Reading
  BY <1>1, SameReading
<1>4. ASSUME NEW i PROVE Subject(i)' = Subject(i) /\ Walked(i)' = Walked(i)
  <2>1. \A t, k : Position(t, k)' = Position(t, k)
    BY <1>1 DEF Position
  <2>2. \A j : Current(j)' = Current(j)
    BY <1>1, <2>1 DEF Current, Key
  <2>3. \A j : Subject(j)' = Subject(j) /\ Through(j)' = Through(j) /\ (Inside(j)' <=> Inside(j))
    BY <1>1, <2>2 DEF Subject, Through, Inside
  <2>4. Collected(fields[i], walking[i], Through(i), Slots - i)' <=>
          Collected(fields[i], walking[i], Through(i), Slots - i)
    BY <1>1, <2>3, SameCollected
  <2> QED
    BY <1>1, <2>3, <2>4 DEF Walked, Key
<1>5. Collecting' = Collecting
  BY <1>1, <1>3, <1>4 DEF Collecting, ReadsAs
<1> QED
  BY <1>1, <1>2, <1>5 DEF RInv

-----------------------------------------------------------------------------

\* What has been read is right at every moment: of every table that is walked,
\* the fields up to the entry at which the walk is.
THEOREM ReadSoFar == Spec => []RInv
<1>1. ASSUME IInv, RInv, [Next]_vars PROVE RInv'
  <2>1. CASE UNCHANGED vars
    BY <1>1, <2>1, StutterRight
  <2>2. CASE Next
    BY <1>1, <2>2, ArgumentRight, FinishRight, ReadScalarRight, ReadTableRight, NextEntryRight,
       AssignRight, EndTableRight, ArgumentReadRight, EndedRight DEF Next
  <2> QED
    BY <1>1, <2>1, <2>2
<1> QED
  BY <1>1, InitiallyRead, Invariant, PTL DEF Spec

\* The variables of iLua::get_from_stack keep their types: no conversion pushes
\* beyond what Lua has guaranteed, and fields are named by strings.
THEOREM TypeCorrect == Spec => []TypeOK
<1>1. IInv /\ RInv => TypeOK
  BY DEF IInv, Typed, RInv, Counted, TypeOK
<1> QED
  BY <1>1, Invariant, ReadSoFar, PTL

\* lua_callback reads every argument, and each one, nested tables included, in its
\* shape: of several keys with one name the last counts, functions and empty tables
\* are nil, and of scalars there is what Back says (iLua.cpp:155: an int; 14 and
\* 165: a copy, of a short string one whose characters are gone).
THEOREM ArgumentsRead == Spec => []ResultsRead
<1>1. IInv /\ RInv => ResultsRead
  <2>1. SUFFICES ASSUME IInv, RInv, pc = "done"
                 PROVE  Len(args) = Len(given) /\ \A i \in DOMAIN given : args[i] = Reading[Slots][given[i]]
    BY DEF ResultsRead
  <2>2. Len(args) = Len(given) /\ Collecting
    BY <2>1 DEF RInv, Counted
  <2>3. Slots \in Nat /\ DOMAIN given = 1 .. Len(given)
    BY <2>1, MarshalAssumption, LenProperties DEF IInv, Typed
  <2> QED
    BY <2>2, <2>3 DEF Collecting, ReadsAs
<1> QED
  BY <1>1, Invariant, ReadSoFar, PTL
=============================================================================
