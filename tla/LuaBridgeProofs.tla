-------------------------- MODULE LuaBridgeProofs --------------------------
(***************************************************************************)
(* Proofs about LuaBridge.  Every step either keeps the oldest leftover,   *)
(* places it or takes the last one; an answer is what the oldest leftover  *)
(* reads as, or has read as if it is a table, and answers is emptied with  *)
(* the stack (Inductive).                                                  *)
(***************************************************************************)
EXTENDS LuaBridge, SequenceTheorems, TLAPS

\* What call may have answered for this value, whatever the tables held.
MayAnswer(x) ==
  CASE x \in Plain -> {x}
    [] x \in Fractions -> {Truncated(x)}
    [] x \in Texts -> {Dangling(x)}
    [] x \in Tables -> Contents
    [] OTHER -> {Nil}

\* Every answer so far is what the bottom of the stack reads as, or did as a table.
Inductive == \A a \in answers : stack # <<>> /\ a \in MayAnswer(stack[1])

IInv == TypeOK /\ Inductive

Readings ==
  Plain \cup {Truncated(x) : x \in Fractions} \cup {Dangling(x) : x \in Texts} \cup Contents \cup {Nil}

LEMMA MayAnswerType ==
  ASSUME NEW x
  PROVE  /\ MayAnswer(x) \subseteq Readings
         /\ \A a, b \in MayAnswer(x) : a = b \/ (x \in Tables /\ {a, b} \subseteq Contents)
BY DEF MayAnswer, Readings

\* A script's assignment keeps the globals well typed.
LEMMA ScriptTyped ==
  ASSUME TypeOK, ScriptAssigns
  PROVE  globals' \in [Names -> Values] /\ contents' \in [Tables -> Contents]
BY DEF TypeOK, ScriptAssigns

\* Pushing keeps the bottom, or makes one.
LEMMA Pushing ==
  ASSUME NEW S, NEW s \in Seq(S), NEW x \in S
  PROVE  /\ Append(s, x) \in Seq(S)
         /\ Append(s, x) # <<>>
         /\ s # <<>> => Append(s, x)[1] = s[1]
BY AppendProperties, LenProperties, EmptySeq

\* Popping keeps the bottom, unless it was the bottom that was popped.
LEMMA Popping ==
  ASSUME NEW S, NEW s \in Seq(S), s # <<>>
  PROVE  /\ SubSeq(s, 1, Len(s) - 1) \in Seq(S)
         /\ Len(s) = 1 => SubSeq(s, 1, Len(s) - 1) = <<>>
         /\ Len(s) # 1 => /\ SubSeq(s, 1, Len(s) - 1) # <<>>
                          /\ SubSeq(s, 1, Len(s) - 1)[1] = s[1]
<1>1. Len(s) \in Nat /\ Len(s) >= 1
  BY LenProperties, EmptySeq
<1>2. PICK n \in Nat : n = Len(s) - 1
  BY <1>1
<1>3. \A k \in 1 .. n : s[k] \in S
  BY <1>1, <1>2, ElementOfSeq
<1>4. /\ SubSeq(s, 1, n) \in Seq(S)
      /\ Len(SubSeq(s, 1, n)) = IF 1 <= n THEN n - 1 + 1 ELSE 0
      /\ \A k \in 1 .. n - 1 + 1 : SubSeq(s, 1, n)[k] = s[1 + k - 1]
  BY <1>3, SubSeqProperties
<1>5. CASE n = 0
  <2>1. Len(SubSeq(s, 1, n)) = 0 /\ Len(s) = 1
    BY <1>1, <1>2, <1>4, <1>5
  <2> QED
    BY <1>2, <1>4, <2>1, EmptySeq
<1>6. CASE n # 0
  <2>1. 1 <= n /\ Len(s) # 1 /\ 1 \in 1 .. n - 1 + 1 /\ 1 + 1 - 1 = 1
    BY <1>1, <1>2, <1>6
  <2>2. Len(SubSeq(s, 1, n)) # 0 /\ SubSeq(s, 1, n)[1] = s[1]
    BY <1>4, <2>1
  <2> QED
    BY <1>2, <1>4, <2>1, <2>2, EmptySeq
<1> QED
  BY <1>5, <1>6

\* Appending the results of a chunk keeps the bottom.
LEMMA Joining ==
  ASSUME NEW S, NEW s \in Seq(S), NEW t \in Seq(S)
  PROVE  /\ s \o t \in Seq(S)
         /\ s # <<>> => s \o t # <<>> /\ (s \o t)[1] = s[1]
<1>1. Len(s) \in Nat /\ (s # <<>> => Len(s) >= 1) /\ Len(t) \in Nat
  BY LenProperties, EmptySeq
<1>2. /\ s \o t \in Seq(S)
      /\ Len(s \o t) = Len(s) + Len(t)
      /\ \A k \in 1 .. Len(s) + Len(t) : (s \o t)[k] = IF k <= Len(s) THEN s[k] ELSE t[k - Len(s)]
  BY ConcatProperties
<1> QED
  BY <1>1, <1>2, EmptySeq

-----------------------------------------------------------------------------

\* What a step does to the stack: it stays, its bottom stays, it had none, or
\* it is emptied, its answers forgotten with it; the answers that are added are
\* what the bottom reads as.
LEMMA StepEffect ==
  ASSUME TypeOK, [Next]_vars
  PROVE  /\ stack' \in Seq(Values)
         /\ stack # <<>> => stack' = <<>> \/ stack'[1] = stack[1]
         /\ stack # <<>> /\ stack' = <<>> => answers' = {}
         /\ \/ answers' \subseteq answers
            \/ \E a \in MayAnswer(stack'[1]) : stack' # <<>> /\ answers' = answers \cup {a}
<1> DEFINE Goal == /\ stack' \in Seq(Values)
                   /\ stack # <<>> => stack' = <<>> \/ stack'[1] = stack[1]
                   /\ stack # <<>> /\ stack' = <<>> => answers' = {}
                   /\ \/ answers' \subseteq answers
                      \/ \E a \in MayAnswer(stack'[1]) : stack' # <<>> /\ answers' = answers \cup {a}
<1>t. stack \in Seq(Values) /\ globals \in [Names -> Values]
  BY DEF TypeOK
<1>p. ASSUME NEW x \in Values, stack' = Append(stack, x)
      PROVE  /\ stack' \in Seq(Values)
             /\ stack' # <<>>
             /\ stack # <<>> => stack'[1] = stack[1]
  BY <1>t, <1>p, Pushing
<1>1. ASSUME UNCHANGED <<stack, answers>> PROVE Goal
  BY <1>t, <1>1
<1>2. ASSUME NEW n \in Names, SetValueless(n) PROVE Goal
  <2>1. stack # <<>> /\ stack' = SubSeq(stack, 1, Len(stack) - 1)
    BY <1>2 DEF SetValueless, Popped
  <2>2. answers' = IF Len(stack) = 1 THEN {} ELSE answers
    BY <1>2 DEF SetValueless
  <2> QED
    BY <1>t, <2>1, <2>2, Popping
<1>3. ASSUME NEW n \in Names, Get(n) \/ CallNonFunction(n) PROVE Goal
  <2>1. stack' = Append(stack, globals[n]) /\ answers' = answers
    BY <1>3 DEF Get, CallNonFunction
  <2> QED
    BY <1>t, <1>p, <2>1
<1>4. ASSUME EvalOk PROVE Goal
  <2>1. PICK results \in Results : stack' = stack \o results
    BY <1>4 DEF EvalOk
  <2>2. results \in Seq(Values)
    BY <2>1, BridgeAssumption, SeqDef DEF Results
  <2>3. answers' = answers
    BY <1>4 DEF EvalOk
  <2> QED
    BY <1>t, <2>1, <2>2, <2>3, Joining
<1>5. ASSUME EvalError PROVE Goal
  <2>1. PICK raised \in Values \ Fractions : stack' = Append(stack, raised)
    BY <1>5 DEF EvalError
  <2>2. raised \in Values /\ answers' = answers
    BY <1>5, <2>1 DEF EvalError
  <2> QED
    BY <1>p, <2>1, <2>2
<1>6. ASSUME NEW n \in Names, Call(n) PROVE Goal
  <2>1. PICK result \in Values : stack' = Append(stack, result)
    BY <1>6 DEF Call
  <2>2. answers' = answers \/ answers' = answers \cup {Back(stack[1])'}
    BY <1>6 DEF Call
  <2>3. contents' \in [Tables -> Contents]
    BY <1>6 DEF Call, ScriptAssigns
  <2>4. Back(stack[1])' \in MayAnswer(stack'[1])
    BY <2>3, BridgeAssumption DEF Back, MayAnswer
  <2> QED
    BY <1>p, <2>1, <2>2, <2>4
<1>7. ASSUME \/ \E n \in Names, x \in HostValues : Set(n, x)
             \/ \E n \in Names : SetTable(n) \/ CallRaising(n) \/ CallCallback(n)
             \/ SetNothing \/ EvalUnnamedCallback \/ UNCHANGED vars
      PROVE  Goal
  BY <1>1, <1>7 DEF Set, SetTable, CallRaising, CallCallback, SetNothing, EvalUnnamedCallback, vars
<1> QED
  BY <1>2, <1>3, <1>4, <1>5, <1>6, <1>7 DEF Next

\* The remaining parts of the type invariant.
LEMMA StepTyped ==
  ASSUME TypeOK, [Next]_vars
  PROVE  TypeOK'
<1>1. stack' \in Seq(Values)
  BY StepEffect
<1>2. answers' \subseteq Readings
  BY StepEffect, MayAnswerType DEF TypeOK, Readings
<1>3. globals' \in [Names -> Values] /\ contents' \in [Tables -> Contents]
  <2> DEFINE Goal == globals' \in [Names -> Values] /\ contents' \in [Tables -> Contents]
  <2>1. ASSUME NEW n \in Names, NEW x \in HostValues, Set(n, x) PROVE Goal
    BY <2>1 DEF Set, TypeOK, Values, HostValues
  <2>2. ASSUME NEW n \in Names, SetTable(n) PROVE Goal
    BY <2>2 DEF SetTable, TypeOK, Values
  <2>3. ASSUME NEW n \in Names, SetValueless(n) PROVE Goal
    <3>1. stack \in Seq(Values) /\ Len(stack) \in 1 .. Len(stack)
      BY <2>3, LenProperties, EmptySeq DEF SetValueless, TypeOK
    <3>2. Top \in Values
      BY <3>1, ElementOfSeq DEF Top
    <3> QED
      BY <2>3, <3>2 DEF SetValueless, TypeOK
  <2>4. ASSUME ScriptAssigns PROVE Goal
    BY <2>4, ScriptTyped
  <2>5. ASSUME UNCHANGED <<globals, contents>> PROVE Goal
    BY <2>5 DEF TypeOK
  <2> QED
    BY <2>1, <2>2, <2>3, <2>4, <2>5
       DEF Next, Get, SetNothing, EvalOk, EvalError, EvalUnnamedCallback,
           CallNonFunction, Call, CallRaising, CallCallback, vars
<1>4. health' \in {"ok", "aborted", "undefined"}
  BY DEF TypeOK, Next, Set, SetTable, SetValueless, Get, SetNothing, EvalOk, EvalError, EvalUnnamedCallback,
         CallNonFunction, Call, CallRaising, CallCallback, vars
<1> QED
  BY <1>1, <1>2, <1>3, <1>4 DEF TypeOK, Readings

LEMMA IInvInit == Init => IInv
<1> SUFFICES ASSUME Init PROVE IInv
  OBVIOUS
<1>1. <<>> \in Seq(Values)
  BY EmptySeq
<1> QED
  BY <1>1, BridgeAssumption DEF Init, IInv, TypeOK, Inductive, Values

LEMMA IInvNext == IInv /\ [Next]_vars => IInv'
<1> SUFFICES ASSUME IInv, [Next]_vars PROVE IInv'
  OBVIOUS
<1>1. TypeOK /\ Inductive
  BY DEF IInv
<1>2. TypeOK'
  BY <1>1, StepTyped
<1>3. ASSUME NEW a \in answers' PROVE stack' # <<>> /\ a \in MayAnswer(stack'[1])
  <2>1. CASE a \in answers
    <3>1. stack # <<>> /\ a \in MayAnswer(stack[1])
      BY <1>1, <2>1 DEF Inductive
    <3> QED
      BY <1>1, <1>3, <3>1, StepEffect
  <2>2. CASE a \notin answers
    BY <1>1, <1>3, <2>2, StepEffect
  <2> QED
    BY <2>1, <2>2
<1>4. Inductive'
  BY <1>3 DEF Inductive, MayAnswer
<1> QED
  BY <1>2, <1>4 DEF IInv

LEMMA Invariance == Spec => []IInv
BY IInvInit, IInvNext, PTL DEF Spec

\* The state is well typed, whatever the sizes.
THEOREM TypeCorrect == Spec => []TypeOK
<1>1. IInv => TypeOK
  BY DEF IInv
<1> QED
  BY <1>1, Invariance, PTL

\* call gives one answer until the stack has been emptied, unless the oldest
\* leftover is a table, for any number of globals, values, tables and leftovers:
\* the bound on the depth is not used.
THEOREM AnswersFrozen == Spec => []OneAnswer
<1>1. IInv => OneAnswer
  BY MayAnswerType DEF IInv, Inductive, OneAnswer
<1> QED
  BY <1>1, Invariance, PTL

\* The oldest leftover stays until a valueless set takes it as the last one.
THEOREM BottomIsStable == Spec => BottomStays
<1>1. IInv /\ [Next]_vars => [stack # <<>> => stack' = <<>> \/ stack'[1] = stack[1]]_vars
  BY StepEffect DEF IInv
<1> QED
  BY <1>1, Invariance, PTL DEF Spec, BottomStays
=============================================================================
