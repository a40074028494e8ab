----------------------------- MODULE LuaMarshal -----------------------------
(***************************************************************************)
(* iLua::get_from_stack, and the loop of lua_callback over it: how values, *)
(* nested tables among them, become variables of the host, on a stack on   *)
(* which Lua guarantees Slots places.                                      *)
(*                                                                         *)
(* A table is a sequence of entries, in the order in which lua_next walks  *)
(* them.  Per nested table the walk keeps four places of the stack: the    *)
(* table, the key, the value, and a copy of the key that lua_tostring      *)
(* turns into a string (a number as a key of lua_next must stay one).      *)
(*                                                                         *)
(* A value that is read is a temporary, copied to its field or to the      *)
(* vector of arguments and destroyed: a short string leaves a copy that    *)
(* points into freed memory (TextLostWithOriginal in VariableHeap).  Only  *)
(* what get itself returns is not copied.                                  *)
(***************************************************************************)
EXTENDS Integers, Sequences, SequencesExt

CONSTANTS
  Tables,
  Plain,      \* booleans, whole numbers and long strings: they arrive as they are
  Fractions,  \* other numbers: they are cast to int
  Texts,      \* short strings: the copy that is kept points to characters freed since
  Functions,  \* read back as nil
  Objects,    \* userdata and threads: get_from_stack ends without a return
  Nil,
  Keys,       \* keys of tables; Names are the strings among them
  Names,
  NameOf,     \* what lua_tostring makes of a key, NoName for NULL
  NoName,
  Contents,   \* what a table may contain: sequences of [key, value]
  Givens,     \* the arguments of a callback, or the one value of get
  Slots       \* places beyond what is given: LUA_MINSTACK in a callback; in get
              \* what the host's earlier calls have left of them

Scalars == Plain \cup Fractions \cup Texts \cup Functions \cup {Nil}
Values == Tables \cup Objects \cup Scalars

ASSUME MarshalAssumption ==
  /\ Tables \cap (Objects \cup Scalars) = {} /\ Objects \cap Scalars = {}
  /\ \A kinds \in SUBSET {Plain, Fractions, Texts, Functions, {Nil}} :
       \A k, l \in kinds : k = l \/ k \cap l = {}
  /\ Nil \notin Keys
  /\ NameOf \in [Keys -> Names \cup {NoName}] /\ NoName \notin Names
  /\ Contents \subseteq Seq([key : Keys, value : Values])
  /\ \A c \in Contents : \A i, j \in DOMAIN c : c[i].key = c[j].key => i = j
  /\ Givens \subseteq Seq(Values)
  /\ Slots \in Nat

VARIABLES
  content,  \* of every table; nothing changes it during a conversion
  given,    \* what was on the stack at the beginning
  stack,
  walking,  \* the tables that calls of get_from_stack are walking, and ...
  fields,   \* ... the retVal of each of these calls
  args,     \* of lua_callback, or what get returns
  pc, idx,  \* what comes next; the place of the value that is read
  ret,      \* what get_from_stack has returned
  health    \* "ok", "undefined", "overrun" or "thrown"

vars == <<content, given, stack, walking, fields, args, pc, idx, ret, health>>

\* What becomes of a number and of a string on the way.
Truncated(x) == <<"int of", x>>
Dangling(x) == <<"freed", x>>

\* get_from_stack of a scalar, and what the copy that is kept of it reads as.
Back(x) ==
  CASE x \in Plain -> x
    [] x \in Fractions -> Truncated(x)
    [] x \in Texts -> Dangling(x)
    [] OTHER -> Nil

Top == stack[Len(stack)]
Dropped(n) == SubSeq(stack, 1, Len(stack) - n)
Table == walking[Len(walking)]

\* The place of a key among the entries of a table, 0 for nil.
Position(t, k) ==
  IF k = Nil THEN 0 ELSE CHOOSE i \in DOMAIN content[t] : content[t][i].key = k

NoFields == <<>>

At(label) == health = "ok" /\ pc = label

\* Lua has guaranteed n more places.
Room(n) == Len(stack) + n <= Len(given) + Slots

-----------------------------------------------------------------------------

Init ==
  /\ content \in [Tables -> Contents]
  /\ given \in Givens
  /\ stack = given /\ walking = <<>> /\ fields = <<>> /\ args = <<>>
  /\ pc = "argument" /\ idx = 0 /\ ret = Nil
  /\ health = "ok"

\* The loop of lua_callback asks for the top of the stack each time.
Argument ==
  /\ At("argument")
  /\ Len(args) < Len(stack)
  /\ idx' = Len(args) + 1
  /\ pc' = "read"
  /\ UNCHANGED <<content, given, stack, walking, fields, args, ret, health>>

Finish ==
  /\ At("argument")
  /\ Len(args) >= Len(stack)
  /\ pc' = "done"
  /\ UNCHANGED <<content, given, stack, walking, fields, args, idx, ret, health>>

ReadScalar ==
  /\ At("read")
  /\ stack[idx] \in Scalars
  /\ ret' = Back(stack[idx])
  /\ pc' = "returned"
  /\ UNCHANGED <<content, given, stack, walking, fields, args, idx, health>>

ReadObject ==
  /\ At("read")
  /\ stack[idx] \in Objects
  /\ health' = "undefined"
  /\ UNCHANGED <<content, given, stack, walking, fields, args, pc, idx, ret>>

\* Mutant: the table is pushed twice.
ReadTableTwice ==
  /\ At("read")
  /\ stack[idx] \in Tables
  /\ Room(2)
  /\ stack' = stack \o <<stack[idx], stack[idx], Nil>>
  /\ walking' = Append(walking, stack[idx])
  /\ fields' = Append(fields, NoFields)
  /\ pc' = "next"
  /\ UNCHANGED <<content, given, args, idx, ret, health>>

\* A table: itself and nil are pushed, for lua_next.
ReadTable ==
  /\ At("read")
  /\ stack[idx] \in Tables
  /\ Room(2)
  /\ stack' = stack \o <<stack[idx], Nil>>
  /\ walking' = Append(walking, stack[idx])
  /\ fields' = Append(fields, NoFields)
  /\ pc' = "next"
  /\ UNCHANGED <<content, given, args, idx, ret, health>>

\* lua_next replaces the key by the next one and its value; the key is copied
\* and the copy made a string.
Entered(e) == Dropped(1) \o <<e.key, e.value, NameOf[e.key]>>

NextOf(t) == Position(t, Top) + 1

NextEntry ==
  /\ At("next")
  /\ NextOf(Table) <= Len(content[Table])
  /\ Room(2)
  /\ stack' = Entered(content[Table][NextOf(Table)])
  /\ idx' = Len(stack) + 1
  /\ pc' = "read"
  /\ UNCHANGED <<content, given, walking, fields, args, ret, health>>

\* Mutant: numbers count as keys without a name.
ThrowBeforeNumbers ==
  /\ At("next")
  /\ NextOf(Table) <= Len(content[Table])
  /\ Room(2)
  /\ content[Table][NextOf(Table)].key \notin Names
  /\ stack' = Entered(content[Table][NextOf(Table)])
  /\ health' = "thrown"
  /\ UNCHANGED <<content, given, walking, fields, args, pc, idx, ret>>

\* retVal[NULL] throws std::logic_error: before the value is read, or after
\* it, since C++11 leaves the order of the operands of = open.
ThrowBefore ==
  /\ At("next")
  /\ NextOf(Table) <= Len(content[Table])
  /\ Room(2)
  /\ NameOf[content[Table][NextOf(Table)].key] = NoName
  /\ stack' = Entered(content[Table][NextOf(Table)])
  /\ health' = "thrown"
  /\ UNCHANGED <<content, given, walking, fields, args, pc, idx, ret>>

ThrowAfter ==
  /\ At("returned") /\ walking # <<>>
  /\ Top = NoName
  /\ health' = "thrown"
  /\ UNCHANGED <<content, given, stack, walking, fields, args, pc, idx, ret>>

\* The stack is longer than Lua has guaranteed.
Overrun ==
  /\ \/ At("read") /\ stack[idx] \in Tables
     \/ At("next") /\ NextOf(Table) <= Len(content[Table])
  /\ ~Room(2)
  /\ health' = "overrun"
  /\ UNCHANGED <<content, given, stack, walking, fields, args, pc, idx, ret>>

\* Mutant: of several keys with one name the first counts.
AssignFirst ==
  /\ At("returned") /\ walking # <<>>
  /\ Top # NoName
  /\ fields' = [fields EXCEPT ![Len(fields)] =
                  [n \in DOMAIN @ \cup {Top} |-> IF n \in DOMAIN @ THEN @[n] ELSE ret]]
  /\ stack' = Dropped(2)
  /\ pc' = "next"
  /\ UNCHANGED <<content, given, walking, args, idx, ret, health>>

\* Mutant: a key without a name is a field as well.
AssignUnnamed ==
  /\ At("returned") /\ walking # <<>>
  /\ fields' = [fields EXCEPT ![Len(fields)] =
                  [n \in DOMAIN @ \cup {Top} |-> IF n = Top THEN ret ELSE @[n]]]
  /\ stack' = Dropped(2)
  /\ pc' = "next"
  /\ UNCHANGED <<content, given, walking, args, idx, ret, health>>

\* retVal[name] = what was read; the value and the copy of the key are popped.
Assign ==
  /\ At("returned") /\ walking # <<>>
  /\ Top # NoName
  /\ fields' = [fields EXCEPT ![Len(fields)] =
                  [n \in DOMAIN @ \cup {Top} |-> IF n = Top THEN ret ELSE @[n]]]
  /\ stack' = Dropped(2)
  /\ pc' = "next"
  /\ UNCHANGED <<content, given, walking, args, idx, ret, health>>

\* Mutant: lua_pop(ctx, 1) is forgotten.
EndTableLeaving ==
  /\ At("next")
  /\ NextOf(Table) > Len(content[Table])
  /\ stack' = Dropped(1)
  /\ ret' = IF Last(fields) = NoFields THEN Nil ELSE Last(fields)
  /\ walking' = Front(walking) /\ fields' = Front(fields)
  /\ pc' = "returned"
  /\ UNCHANGED <<content, given, args, idx, health>>

\* No entry is left: lua_next pops the key, and lua_pop the table.  A variable
\* becomes an object with its first field.
EndTable ==
  /\ At("next")
  /\ NextOf(Table) > Len(content[Table])
  /\ stack' = Dropped(2)
  /\ ret' = IF Last(fields) = NoFields THEN Nil ELSE Last(fields)
  /\ walking' = Front(walking) /\ fields' = Front(fields)
  /\ pc' = "returned"
  /\ UNCHANGED <<content, given, args, idx, health>>

\* Mutant: what was read is lost.
ArgumentReadLost ==
  /\ At("returned") /\ walking = <<>>
  /\ pc' = "argument"
  /\ UNCHANGED <<content, given, stack, walking, fields, args, idx, ret, health>>

ArgumentRead ==
  /\ At("returned") /\ walking = <<>>
  /\ args' = Append(args, ret)
  /\ pc' = "argument"
  /\ UNCHANGED <<content, given, stack, walking, fields, idx, ret, health>>

Next ==
  \/ Argument \/ Finish \/ ReadScalar \/ ReadObject \/ ReadTable \/ NextEntry
  \/ ThrowBefore \/ ThrowAfter \/ Overrun \/ Assign \/ EndTable \/ ArgumentRead

\* The conversion runs to its end in the thread that began it.
Spec == Init /\ [][Next]_vars /\ WF_vars(Next)

-----------------------------------------------------------------------------

Places == Keys \cup Names \cup {NoName} \cup Values

\* The type invariant.
TypeOK ==
  /\ content \in [Tables -> Contents] /\ given \in Givens
  /\ stack \in Seq(Places)
  /\ walking \in Seq(Tables)
  /\ Len(fields) = Len(walking) /\ \A i \in DOMAIN fields : DOMAIN fields[i] \subseteq Names
  /\ Len(args) <= Len(given)
  /\ pc \in {"argument", "read", "next", "returned", "done"}
  /\ idx \in 0 .. Len(given) + Slots
  /\ health \in {"ok", "undefined", "overrun", "thrown"}

Children(t) == {content[t][i].value : i \in DOMAIN content[t]} \cap Tables

\* The tables are nested at most D deep.
Nesting(D) ==
  \E rank \in [Tables -> 1 .. D] :
    \A t \in Tables : \A c \in Children(t) : rank[c] < rank[t]

\* What the host gets of a value: fields by name, the last of several keys with
\* one name counts, functions and empty tables are nil, and scalars wherever they
\* are become what Back makes of them.  n bounds the nesting: what
\* is nested deeper than there are places is never read to its end.
LastOf(t, n) ==
  CHOOSE i \in DOMAIN content[t] :
    /\ NameOf[content[t][i].key] = n
    /\ \A j \in DOMAIN content[t] : NameOf[content[t][j].key] = n => j <= i

FieldsOf(t) == {NameOf[content[t][i].key] : i \in DOMAIN content[t]}

Reading[n \in Nat] ==
  [x \in Values |->
    IF x \notin Tables THEN Back(x)
    ELSE IF n = 0 \/ content[x] = <<>> THEN Nil
    ELSE [f \in FieldsOf(x) |-> Reading[n - 1][content[x][LastOf(x, f)].value]]]

\* Every argument is read, and however it is nested has the shape its table had:
\* the last of several keys with one name counts, whole numbers and long strings
\* are right, fractions are cut off and short strings point to freed characters.
\* The callback's loop sees no more arguments than there were.
ResultsRead ==
  pc = "done" =>
    /\ Len(args) = Len(given)
    /\ \A i \in DOMAIN given : args[i] = Reading[Slots][given[i]]

\* A conversion that returns has left the stack as it was, whatever tables it
\* has walked.
Balanced == pc \in {"argument", "done"} => stack = given

\* Tables nested D deep fit if there are 4 * D places: only deeper ones, and
\* tables that contain themselves, overrun the stack.
OverrunOnlyDeep ==
  health = "overrun" => \A D \in 0 .. Slots \div 4 : ~Nesting(D)

\* An exception comes from a key that is no string and no number, and leaves
\* four places of the stack taken for every table that was being walked.
ThrownLeaves ==
  health = "thrown" =>
    /\ \E i \in DOMAIN content[Table] : NameOf[content[Table][i].key] = NoName
    /\ Len(stack) = Len(given) + 4 * Len(walking)

\* Every conversion ends, also that of a table that contains itself: when the
\* stack does.
ConversionEnds == <>(pc = "done" \/ health # "ok")
=============================================================================
