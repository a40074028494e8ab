------------------------------ MODULE JsBridge ------------------------------
(***************************************************************************)
(* iJs: how much the host's calls leave on the value stack of the Duktape  *)
(* heap, and how js_callback reads its arguments off its own frame with    *)
(* get_from_stack(-1), value by value, until it has read as many as there  *)
(* were.                                                                   *)
(*                                                                         *)
(* The loop is right if reading a value removes exactly that value.        *)
(* get_from_stack removes scalars and null; it leaves undefined where it   *)
(* is, and leaves an object with its enumerator on top of it.  The         *)
(* enumerator is itself an object: it has the enumerated keys as its own   *)
(* properties, each of them true.                                          *)
(***************************************************************************)
EXTENDS Integers, Sequences, SequencesExt

CONSTANTS
  Plain,      \* booleans, whole numbers, strings that more than a frame holds
  Fractions,  \* other numbers
  Texts,      \* strings that nothing but the arguments of a callback holds
  Objects,    \* objects whose properties are scalars, at least one
  Bare,       \* objects, functions among them, without enumerable properties
  Nested,     \* objects with a property that is an object or undefined, or a
              \* getter that throws
  Undefined,
  Null,       \* null, and the pointers and light functions read like it
  Nil,        \* the empty mlVariable
  Room,       \* the places Duktape guarantees a callback beside its arguments:
              \* DUK_API_ENTRY_STACK, which is 64
  MaxArgs,    \* bound: arguments of a callback
  MaxDepth    \* bound: values on the host's stack

Scalars == Plain \cup Fractions \cup Texts
Values == Scalars \cup Objects \cup Bare \cup Nested \cup {Undefined, Null}

\* The enumerator of an object, and what reading it gives.
Enumerator(o) == [keys_of |-> o]
Flags(o) == [all_true |-> o]

\* What reading makes of a number, a string and an object: it is cast to int, only
\* the char* is kept, and its properties are read in the same way.
Truncated(x) == <<"int of", x>>
Pointer(x) == [char_of |-> x]
Copied(o) == [fields_of |-> o]

Enumerators == {Enumerator(o) : o \in Objects \cup Bare}
Readings ==
  Plain \cup {Truncated(x) : x \in Fractions} \cup {Pointer(x) : x \in Texts} \cup {Nil}
    \cup {Copied(o) : o \in Objects} \cup {Flags(o) : o \in Objects}

\* Values by what get_from_stack leaves of them.
Popping == Scalars \cup {Null}
Enumerable == Objects \cup Bare
Staying == Enumerable \cup {Undefined}

ASSUME JsAssumption ==
  /\ Popping \cap Staying = {} /\ Popping \cap Nested = {} /\ Staying \cap Nested = {}
  /\ Plain \cap (Fractions \cup Texts) = {} /\ Fractions \cap Texts = {}
  /\ Null \notin Scalars /\ Undefined \notin Enumerable /\ Objects \cap Bare = {}
  /\ Values \cap Enumerators = {}
  /\ Plain \cap {Pointer(x) : x \in Texts} = {} /\ Nil \notin {Pointer(x) : x \in Texts}
  /\ Room \in Nat /\ MaxArgs \in Nat /\ MaxDepth \in Nat

VARIABLES
  pc,      \* who runs: the "host", a "script", js_callback "reading" its
           \* arguments, or what js_callback is "calling"
  depth,   \* values on the host's part of the stack
  given,   \* the arguments of the callback
  frame,   \* the stack frame of the callback
  args,    \* the vector args of js_callback
  health   \* "ok", or "aborted" by the fatal error handler

vars == <<pc, depth, given, frame, args, health>>

Arguments == UNION {[1 .. k -> Values] : k \in 0 .. MaxArgs}

\* What the host gets for a value of a script, and for the enumerator that is
\* left when it reads an object.
Reading(x) ==
  CASE x \in Plain -> x
    [] x \in Fractions -> Truncated(x)
    [] x \in Texts -> Pointer(x)
    [] x \in Objects -> Copied(x)
    [] OTHER -> Nil
Echo(x) == IF x \in Objects THEN Flags(x) ELSE Nil

\* The places an enumerator takes, with a key and its value while there are any.
Places(o) == IF o \in Objects THEN 3 ELSE 1

\* The object whose enumerator the next round makes.
Enumerated(o) == Last(frame) = o \/ Last(frame) = Enumerator(o)

-----------------------------------------------------------------------------

Init ==
  /\ pc = "host"
  /\ depth = 0
  /\ given = <<>>
  /\ frame = <<>>
  /\ args = <<>>
  /\ health = "ok"

AtHost == health = "ok" /\ pc = "host"

Leave(n) == depth + n <= MaxDepth /\ depth' = depth + n

\* set: the global object stays.
Set ==
  /\ AtHost
  /\ Leave(1)
  /\ UNCHANGED <<pc, given, frame, args, health>>

\* get of a global whose value is x: the global object stays, with what
\* get_from_stack leaves of x.
Get(x) ==
  /\ AtHost
  /\ \/ x \in Popping /\ Leave(1)
     \/ x = Undefined /\ Leave(2)
     \/ x \in Enumerable /\ Leave(3)
  /\ UNCHANGED <<pc, given, frame, args, health>>

\* get of a nested object: duk_next finds something else than its enumerator on
\* the top, and nothing catches the error it throws.
GetNested ==
  /\ AtHost
  /\ health' = "aborted"
  /\ UNCHANGED <<pc, depth, given, frame, args>>

\* eval and exec begin: the script runs.
Eval ==
  /\ AtHost
  /\ depth < MaxDepth
  /\ pc' = "script"
  /\ UNCHANGED <<depth, given, frame, args, health>>

\* eval and exec end, well or with an error: one value stays.
EvalDone ==
  /\ pc = "script"
  /\ Leave(1)
  /\ pc' = "host"
  /\ UNCHANGED <<given, frame, args, health>>

\* The script calls a function of the host: Duktape makes a frame that holds
\* the arguments, and cnt of js_callback is their number.  (A coroutine of the
\* script is not found by mlFactory::search; its calls return at once.)
Callback(s) ==
  /\ pc = "script"
  /\ pc' = "reading"
  /\ given' = s
  /\ frame' = s
  /\ args' = <<>>
  /\ UNCHANGED <<depth, health>>

MoreToRead == pc = "reading" /\ Len(args) < Len(given)

\* Mutants: a null that is popped with the value under it, a string that is not
\* popped, an undefined that is passed over, and an object that is popped with its
\* enumerator.
ReadPoppingTwo ==
  /\ MoreToRead
  /\ Last(frame) \in Popping
  /\ args' = Append(args, Reading(Last(frame)))
  /\ frame' = IF Last(frame) = Null /\ Len(frame) > 1 THEN Front(Front(frame)) ELSE Front(frame)
  /\ UNCHANGED <<pc, depth, given, health>>

ReadKeepingText ==
  /\ MoreToRead
  /\ Last(frame) \in Popping
  /\ args' = Append(args, Reading(Last(frame)))
  /\ frame' = IF Last(frame) \in Texts THEN frame ELSE Front(frame)
  /\ UNCHANGED <<pc, depth, given, health>>

ReadSkipping ==
  /\ MoreToRead
  /\ Last(frame) = Undefined
  /\ UNCHANGED vars

ReadObjectPopping ==
  /\ MoreToRead
  /\ Last(frame) \in Enumerable
  /\ args' = Append(args, Reading(Last(frame)))
  /\ frame' = Front(frame)
  /\ UNCHANGED <<pc, depth, given, health>>

\* get_from_stack of a scalar or null: it is popped.
ReadPopped ==
  /\ MoreToRead
  /\ Last(frame) \in Popping
  /\ args' = Append(args, Reading(Last(frame)))
  /\ frame' = Front(frame)
  /\ UNCHANGED <<pc, depth, given, health>>

\* ... of undefined: it stays.
ReadUndefined ==
  /\ MoreToRead
  /\ Last(frame) = Undefined
  /\ args' = Append(args, Nil)
  /\ UNCHANGED <<pc, depth, given, frame, health>>

\* ... of an object: it stays, and its enumerator on top of it.
ReadObject ==
  /\ MoreToRead
  /\ Last(frame) \in Enumerable
  /\ args' = Append(args, Reading(Last(frame)))
  /\ frame' = Append(frame, Enumerator(Last(frame)))
  /\ UNCHANGED <<pc, depth, given, health>>

\* ... of an enumerator, which is enumerated in turn.
ReadEnumerator ==
  /\ MoreToRead
  /\ \E o \in Enumerable :
       /\ Last(frame) = Enumerator(o)
       /\ args' = Append(args, Echo(o))
       /\ frame' = Append(frame, Enumerator(o))
  /\ UNCHANGED <<pc, depth, given, health>>

EndFrame ==
  /\ pc' = "script"
  /\ given' = <<>>
  /\ frame' = <<>>
  /\ args' = <<>>

\* ... of an object or enumerator that finds fewer places left than it takes:
\* Duktape may have made more than it guarantees, or it throws.
ReadOverflowing ==
  /\ MoreToRead
  /\ \E o \in Enumerable : Enumerated(o) /\ Len(frame) + Places(o) > Len(given) + Room
  /\ EndFrame
  /\ UNCHANGED <<depth, health>>

\* ... of a nested object: duk_next throws out of js_callback into the script.
ReadNested ==
  /\ MoreToRead
  /\ Last(frame) \in Nested
  /\ EndFrame
  /\ UNCHANGED <<depth, health>>

\* Mutant: the arguments stay in the order they were read in.
FinishUnreversed ==
  /\ pc = "reading" /\ Len(args) = Len(given)
  /\ pc' = "calling"
  /\ UNCHANGED <<depth, given, frame, args, health>>

\* std::reverse.  Reading the name of the function leaves more on the frame,
\* which nothing reads.
Finish ==
  /\ pc = "reading" /\ Len(args) = Len(given)
  /\ pc' = "calling"
  /\ args' = Reverse(args)
  /\ UNCHANGED <<depth, given, frame, health>>

\* runtime->callback answers nil (CallbackTable), which is pushed and returned.
\* If the script has given the function itself a nested property, reading its
\* name throws instead; the frame ends just the same.
Return ==
  /\ pc = "calling"
  /\ EndFrame
  /\ UNCHANGED <<depth, health>>

\* One round of the loop of js_callback, and what follows it.
Step ==
  \/ ReadPopped \/ ReadUndefined \/ ReadObject \/ ReadEnumerator
  \/ ReadOverflowing \/ ReadNested
  \/ Finish \/ Return

Next ==
  \/ Set \/ GetNested \/ Eval \/ EvalDone
  \/ \E x \in Values : Get(x)
  \/ \E s \in Arguments : Callback(s)
  \/ Step

\* A callback, once called, runs to its end in its thread.
Fairness == WF_vars(Step)

Spec == Init /\ [][Next]_vars /\ Fairness

-----------------------------------------------------------------------------

\* Type invariant.
TypeOK ==
  /\ pc \in {"host", "script", "reading", "calling"}
  /\ depth \in Nat
  /\ given \in Seq(Values)
  /\ frame \in Seq(Values \cup Enumerators)
  /\ args \in Seq(Readings)
  /\ health \in {"ok", "aborted"}

\* The loop never reads below its frame: there is a value for every round.
FrameSuffices == MoreToRead => frame # <<>>

\* Position p of the arguments is the last one that reading does not pop, or 0.
LastStaying(p) ==
  /\ p = 0 \/ given[p] \in Staying
  /\ \A k \in p + 1 .. Len(given) : given[k] \in Popping

\* What the called function of the host is given: from the last undefined or object
\* on the arguments are what their values read as, and all those before it are
\* replaced by nil, or by an object that has its keys and is true in all of them.
ArgumentsReceived ==
  pc = "calling" =>
    /\ Len(args) = Len(given)
    /\ \E p \in 0 .. Len(given) :
         /\ LastStaying(p)
         /\ \A k \in 1 .. Len(given) :
              args[k] = IF k < p THEN Echo(given[p]) ELSE Reading(given[k])

OnFrame(x) == \E j \in 1 .. Len(frame) : frame[j] = x

\* When the host's function is called, a string that nothing but the arguments held
\* has been popped for good, and the char* that was kept (iJs.cpp:159-160) dangles,
\* unless the same string is also an argument before one that stayed.
TextsDangle ==
  pc = "calling" =>
    \A k \in 1 .. Len(given), x \in Texts :
      args[k] = Pointer(x) =>
        (OnFrame(x) <=> \E p \in 1 .. Len(given) : LastStaying(p) /\ \E j \in 1 .. p : given[j] = x)

\* Reading the arguments throws an error into the script only for a nested object
\* that has nothing but scalars and null behind it (any undefined or object hides
\* it), or because the last argument that stays is an object with so many before it
\* that their enumerators do not fit into the frame.
ErrorsFromNestedOrFull ==
  [][pc = "reading" /\ pc' = "script" =>
       \/ \E n \in 1 .. Len(given) :
            /\ given[n] \in Nested
            /\ \A k \in n + 1 .. Len(given) : given[k] \in Popping
       \/ \E p \in 1 .. Len(given) :
            /\ LastStaying(p) /\ given[p] \in Enumerable
            /\ 2 * p + 2 > Len(given) + Room]_vars

\* The loop ends, with as many rounds as there were arguments.
CallbackReturns == pc = "reading" ~> pc = "script"
=============================================================================
