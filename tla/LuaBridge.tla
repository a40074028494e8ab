----------------------------- MODULE LuaBridge -----------------------------
(***************************************************************************)
(* iLua: what the host's calls leave on the stack of the one lua_State     *)
(* that an interpreter keeps for its whole life, and what later calls read *)
(* from it.                                                                *)
(*                                                                         *)
(* The host's calls run one at a time.  What a script or a Lua function    *)
(* does is external: it may assign globals, change tables, return values,  *)
(* raise an error or have a callback run.  A callback gets a stack frame of*)
(* its own, which Lua removes, and its answer is nil (module CallbackTable)*)
(* so it leaves no trace in this state except when it throws.  How a table *)
(* is read and an object pushed is in LuaMarshal and LuaPush; here a table *)
(* is a reference to contents that it reads as.                            *)
(***************************************************************************)
EXTENDS Integers, Sequences

CONSTANTS
  Names,      \* global names
  Plain,      \* booleans, whole numbers and long strings: they arrive as they are
  Fractions,  \* other numbers: they are cast to int
  Texts,      \* short strings: an answer keeps a pointer to characters freed since
  Tables,     \* the tables a script may reach
  Contents,   \* what a table may read as: an empty one as Nil
  Spoiled,    \* contents that cannot be read: userdata, or keys that are no text
  Functions,  \* functions of Lua: they are read back as nil
  Callback,   \* lua_callback, pushed for every function of the host
  Objects,    \* userdata and threads: get_from_stack returns nothing for them
  Nil,
  MaxResults, \* bound: values a chunk may return
  MaxDepth    \* bound: depth of the stack the model explores

Values == Plain \cup Fractions \cup Texts \cup Tables \cup Functions \cup Objects \cup {Nil, Callback}

\* What push_to_stack may push besides tables: a number is an int, a binary value
\* becomes a userdata.
HostValues == Plain \cup Texts \cup Objects \cup {Nil, Callback}

ASSUME BridgeAssumption ==
  /\ \A kinds \in SUBSET {Plain, Fractions, Texts, Tables, Functions, Objects, {Nil}, {Callback}} :
       \A k, l \in kinds : k = l \/ k \cap l = {}
  /\ Spoiled \in Contents \ {Nil}
  /\ MaxResults \in Nat /\ MaxDepth \in Nat

VARIABLES
  stack,      \* the part of the Lua stack that belongs to the host
  globals,    \* the global table of the lua_State
  contents,   \* what each table holds now
  answers,    \* what call has answered since the bottom of the stack was placed
  health      \* "ok", "aborted" by Lua's panic function, or "undefined"

vars == <<stack, globals, contents, answers, health>>

\* What a chunk may return.
Results == UNION {[1 .. k -> Values] : k \in 0 .. MaxResults}

\* get_from_stack ends without a return, or throws.
Unreadable(x) == x \in Objects \/ (x \in Tables /\ contents[x] = Spoiled)

\* What becomes of a number and of a string on the way.
Truncated(x) == <<"int of", x>>
Dangling(x) == <<"freed", x>>

\* What call answers for the value at index 1, as it is now: push_back copies
\* what get_from_stack returns, and then that is destroyed.
Back(x) ==
  CASE x \in Plain -> x
    [] x \in Fractions -> Truncated(x)
    [] x \in Texts -> Dangling(x)
    [] x \in Tables -> contents[x]
    [] OTHER -> Nil

Top == stack[Len(stack)]
Popped == SubSeq(stack, 1, Len(stack) - 1)

\* A script or function assigns at most one global that matters here, and leaves
\* the tables as it likes.
ScriptAssigns ==
  /\ \/ UNCHANGED globals
     \/ \E n \in Names, x \in Values : globals' = [globals EXCEPT ![n] = x]
  /\ contents' \in [Tables -> Contents]

-----------------------------------------------------------------------------

\* The constructor: add_lib empties the stack after each library.
Init ==
  /\ stack = <<>>
  /\ globals = [n \in Names |-> Nil]
  /\ contents = [t \in Tables |-> Spoiled]
  /\ answers = {}
  /\ health = "ok"

\* set: push_to_stack, then lua_setglobal pops what was pushed.
Set(n, x) ==
  /\ health = "ok"
  /\ globals' = [globals EXCEPT ![n] = x]
  /\ UNCHANGED <<stack, contents, answers, health>>

\* set of an object: a new table, that no global and no leftover refers to.
SetTable(n) ==
  /\ health = "ok"
  /\ \E t \in Tables : \E c \in Contents :
       /\ \A k \in 1 .. Len(stack) : stack[k] # t
       /\ \A m \in Names : globals[m] # t
       /\ globals' = [globals EXCEPT ![n] = t]
       /\ contents' = [contents EXCEPT ![t] = c]
  /\ UNCHANGED <<stack, answers, health>>

\* Mutant: the oldest leftover is taken, as get_from_stack(1) reads it.
SetValuelessFromBottom(n) ==
  /\ health = "ok"
  /\ stack # <<>>
  /\ globals' = [globals EXCEPT ![n] = stack[1]]
  /\ stack' = Tail(stack)
  /\ UNCHANGED <<contents, answers, health>>

\* set of a variable whose type was given as CLASS or NONE: nothing is pushed,
\* and lua_setglobal pops the last leftover into the global.
SetValueless(n) ==
  /\ health = "ok"
  /\ stack # <<>>
  /\ globals' = [globals EXCEPT ![n] = Top]
  /\ stack' = Popped
  /\ answers' = IF Len(stack) = 1 THEN {} ELSE answers
  /\ UNCHANGED <<contents, health>>

\* The same with nothing left over: lua_setglobal pops an empty stack.
SetNothing ==
  /\ health = "ok"
  /\ stack = <<>>
  /\ health' = "undefined"
  /\ UNCHANGED <<stack, globals, contents, answers>>

\* get: the value stays on the stack.
Get(n) ==
  /\ health = "ok"
  /\ Len(stack) < MaxDepth
  /\ stack' = Append(stack, globals[n])
  /\ health' = IF Unreadable(globals[n]) THEN "undefined" ELSE "ok"
  /\ UNCHANGED <<globals, contents, answers>>

\* eval and exec of a chunk that ends well: all its results stay.
EvalOk ==
  /\ health = "ok"
  /\ \E results \in Results :
       /\ Len(stack) + Len(results) <= MaxDepth
       /\ stack' = stack \o results
  /\ ScriptAssigns
  /\ UNCHANGED <<answers, health>>

\* eval and exec of a chunk that does not compile, cannot be read or raises an
\* error: what it did before stays done, and the message, or the value that was
\* raised, stays on the stack (a number as its text, by lua_tostring).
EvalError ==
  /\ health = "ok"
  /\ Len(stack) < MaxDepth
  /\ \E raised \in Values \ Fractions : stack' = Append(stack, raised)
  /\ ScriptAssigns
  /\ UNCHANGED <<answers, health>>

\* lua_callback builds a std::string of the name by which it was called; there
\* is none when, say, pcall calls it, and the exception unwinds through Lua.
EvalUnnamedCallback ==
  /\ health = "ok"
  /\ ScriptAssigns
  /\ health' = "undefined"
  /\ UNCHANGED <<stack, answers>>

\* call by a name that is not that of a function: an empty vector, and the
\* value stays on the stack.
CallNonFunction(n) ==
  /\ health = "ok"
  /\ globals[n] \notin Functions \cup {Callback}
  /\ Len(stack) < MaxDepth
  /\ stack' = Append(stack, globals[n])
  /\ UNCHANGED <<globals, contents, answers, health>>

\* Mutant: call answers with what the function has just returned.
CallAnsweringTop(n) ==
  /\ health = "ok"
  /\ globals[n] \in Functions
  /\ Len(stack) < MaxDepth
  /\ ScriptAssigns
  /\ \E result \in Values :
       /\ stack' = Append(stack, result)
       /\ \/ /\ ~Unreadable(result)'
             /\ answers' = answers \cup {Back(result)'}
             /\ UNCHANGED health
          \/ /\ Unreadable(result)'
             /\ health' = "undefined"
             /\ UNCHANGED answers

\* call: the function and its arguments are replaced by one result, which stays,
\* and the answer is read from index 1, the bottom of the stack.
Call(n) ==
  /\ health = "ok"
  /\ globals[n] \in Functions
  /\ Len(stack) < MaxDepth
  /\ ScriptAssigns
  /\ \E result \in Values : stack' = Append(stack, result)
  /\ \/ /\ ~Unreadable(stack[1])'
        /\ answers' = answers \cup {Back(stack[1])'}
        /\ UNCHANGED health
     \/ /\ Unreadable(stack[1])'
        /\ health' = "undefined"
        /\ UNCHANGED answers

\* lua_call is not protected: an error in the function ends the process.
CallRaising(n) ==
  /\ health = "ok"
  /\ globals[n] \in Functions
  /\ ScriptAssigns
  /\ health' = "aborted"
  /\ UNCHANGED <<stack, answers>>

\* call of a function of the host: called from C it has no name, so lua_callback
\* throws, and the exception unwinds through lua_call to the caller of call.
CallCallback(n) ==
  /\ health = "ok"
  /\ globals[n] = Callback
  /\ health' = "undefined"
  /\ UNCHANGED <<stack, globals, contents, answers>>

Next ==
  \/ \E n \in Names, x \in HostValues : Set(n, x)
  \/ \E n \in Names : \/ SetTable(n) \/ SetValueless(n) \/ Get(n)
                      \/ CallNonFunction(n) \/ Call(n) \/ CallRaising(n) \/ CallCallback(n)
  \/ SetNothing \/ EvalOk \/ EvalError \/ EvalUnnamedCallback

Spec == Init /\ [][Next]_vars

-----------------------------------------------------------------------------

\* Type invariant.
TypeOK ==
  /\ stack \in Seq(Values)
  /\ globals \in [Names -> Values]
  /\ contents \in [Tables -> Contents]
  /\ answers \subseteq
       Plain \cup {Truncated(x) : x \in Fractions} \cup {Dangling(x) : x \in Texts} \cup Contents \cup {Nil}
  /\ health \in {"ok", "aborted", "undefined"}

\* However many functions are called, whatever they return and whatever the host
\* does in between, call gives one and the same answer until the stack has been
\* emptied, because index 1 (iLua.cpp:201) is the oldest leftover and not the
\* result; unless that is a table, which answers as what scripts have made of it.
OneAnswer ==
  \A a, b \in answers : a = b \/ (stack[1] \in Tables /\ {a, b} \subseteq Contents)

\* The oldest leftover stays where it is until it is the only one and a valueless
\* set takes it, whatever is pushed and popped above it.
BottomStays == [][stack # <<>> => stack' = <<>> \/ stack'[1] = stack[1]]_vars
=============================================================================
