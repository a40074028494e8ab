------------------------------- MODULE LuaPush -------------------------------
(***************************************************************************)
(* iLua::set: push_to_stack makes a Lua value of a variable of the host,   *)
(* of an object a new table, field by field, and lua_setglobal pops it     *)
(* into a global.  Functions are registered under the name of the field.   *)
(*                                                                         *)
(* Objects are the field maps that variables share; they may contain each  *)
(* other and themselves (v["x"] = v).  Only the argument of set itself may *)
(* be of type CLASS or NONE, which mlInterpreter.h:32 alone gives: then it *)
(* is valueless, and push_to_stack pushes nothing for it.                  *)
(***************************************************************************)
EXTENDS Integers, Sequences, SequencesExt

CONSTANTS
  Objects,
  Plain,      \* values that are pushed as what they read as, binary data among them
  Functions,  \* functions of the host
  Callback,   \* lua_callback, which is pushed for every one of them
  Nil,
  Valueless,
  Names,      \* of fields; Global is the name of the global
  Global,
  Contents,   \* what an object may contain: sequences of [name, value]
  Old,        \* a table that a script made
  Leftovers,  \* what earlier calls may have left on the stack
  Slots       \* places that Lua still guarantees

Scalars == Plain \cup Functions \cup {Nil}
Variables == Objects \cup Scalars
Arguments == Variables \cup {Valueless}

ASSUME PushAssumption ==
  /\ Objects \cap Scalars = {} /\ Valueless \notin Variables
  /\ Plain \cap (Functions \cup {Nil, Callback}) = {}
  /\ Functions \cap {Nil, Callback} = {}
  /\ Global \notin Names
  /\ Callback \notin {Nil, Old} \cup Names
  /\ Old \notin Plain \cup Names
  /\ \A v \in Plain \cup {Nil, Callback, Old} \cup Names : v \notin [table : Nat]
  /\ Contents \subseteq Seq([name : Names, value : Variables])
  /\ \A c \in Contents : \A i, j \in DOMAIN c : c[i].name = c[j].name => i = j
  /\ Leftovers \subseteq Seq(Plain \cup {Old})
  /\ Slots \in Nat

VARIABLES
  content,     \* of every object; nothing changes it during set
  root,        \* the argument of set
  given,       \* what was on the stack before
  stack,
  tables,      \* the tables that were made, in order, by their fields
  old,         \* the fields of Old
  global,      \* the value of the global
  registered,  \* history: the calls of callback_register
  walking,     \* the objects that calls of push_to_stack are pushing, and ...
  done,        \* ... how many fields each of them is through with
  val,         \* what push_to_stack is called with
  pc, health   \* health: "ok", "undefined" or "overrun"

vars == <<content, root, given, stack, tables, old, global, registered, walking, done, val, pc, health>>

Fixed == <<content, root, given>>

NoFields == <<>>

\* The tables that were made are known by their number.
TableAt(i) == [table |-> i]
Made == {TableAt(i) : i \in DOMAIN tables}

Back(n) == SubSeq(stack, 1, Len(stack) - n)
Top == stack[Len(stack)]

At(label) == health = "ok" /\ pc = label
Room == Len(stack) < Len(given) + Slots

Registering(name, v) ==
  registered' = IF v \in Functions THEN registered \cup {<<name, v>>} ELSE registered

-----------------------------------------------------------------------------

\* set registers a function under the name of the global.
Init ==
  /\ content \in [Objects -> Contents]
  /\ root \in Arguments
  /\ given \in Leftovers
  /\ stack = given /\ tables = <<>> /\ old = NoFields /\ global = Nil
  /\ registered = IF root \in Functions THEN {<<Global, root>>} ELSE {}
  /\ walking = <<>> /\ done = <<>>
  /\ val = root /\ pc = "push" /\ health = "ok"

\* Mutant: nothing is pushed for nil either.
PushScalarButNil ==
  /\ At("push")
  /\ val \in Plain \cup Functions \cup {Nil}
  /\ Room
  /\ stack' = IF val = Nil THEN stack
              ELSE Append(stack, IF val \in Functions THEN Callback ELSE val)
  /\ pc' = "pushed"
  /\ UNCHANGED <<Fixed, tables, old, global, registered, walking, done, val, health>>

PushScalar ==
  /\ At("push")
  /\ val \in Plain \cup Functions \cup {Nil}
  /\ Room
  /\ stack' = Append(stack, IF val \in Functions THEN Callback ELSE val)
  /\ pc' = "pushed"
  /\ UNCHANGED <<Fixed, tables, old, global, registered, walking, done, val, health>>

\* The default case of the switch.
PushNothing ==
  /\ At("push")
  /\ val = Valueless
  /\ pc' = "pushed"
  /\ UNCHANGED <<Fixed, stack, tables, old, global, registered, walking, done, val, health>>

PushObject ==
  /\ At("push")
  /\ val \in Objects
  /\ Room
  /\ tables' = Append(tables, NoFields)
  /\ stack' = Append(stack, TableAt(Len(tables) + 1))
  /\ walking' = Append(walking, val) /\ done' = Append(done, 0)
  /\ pc' = "field"
  /\ UNCHANGED <<Fixed, old, global, registered, val, health>>

Field == content[Last(walking)][Last(done) + 1]
FieldsLeft == Last(done) < Len(content[Last(walking)])

\* Mutant: only the functions of the outermost object are registered.
NextFieldOutermost ==
  /\ At("field")
  /\ FieldsLeft
  /\ Room
  /\ stack' = Append(stack, Field.name)
  /\ registered' = IF Field.value \in Functions /\ Len(walking) = 1
                     THEN registered \cup {<<Field.name, Field.value>>} ELSE registered
  /\ val' = Field.value
  /\ pc' = "push"
  /\ UNCHANGED <<Fixed, tables, old, global, walking, done, health>>

\* Mutant: the name is pushed twice.
NextFieldTwice ==
  /\ At("field")
  /\ FieldsLeft
  /\ Room
  /\ stack' = stack \o <<Field.name, Field.name>>
  /\ Registering(Field.name, Field.value)
  /\ val' = Field.value
  /\ pc' = "push"
  /\ UNCHANGED <<Fixed, tables, old, global, walking, done, health>>

\* The name of the next field is pushed, and then its value.
NextField ==
  /\ At("field")
  /\ FieldsLeft
  /\ Room
  /\ stack' = Append(stack, Field.name)
  /\ Registering(Field.name, Field.value)
  /\ val' = Field.value
  /\ pc' = "push"
  /\ UNCHANGED <<Fixed, tables, old, global, walking, done, health>>

\* The stack is longer than Lua has guaranteed.
Overrun ==
  /\ \/ At("push") /\ val # Valueless
     \/ At("field") /\ FieldsLeft
  /\ ~Room
  /\ health' = "overrun"
  /\ UNCHANGED <<Fixed, stack, tables, old, global, registered, walking, done, val, pc>>

\* Mutant: nil is a value like any other.
WithNil(fields, key, x) ==
  [k \in DOMAIN fields \cup {key} |-> IF k = key THEN x ELSE fields[k]]

\* fields[key] = x, which takes the key away when x is nil.
With(fields, key, x) ==
  LET keys == IF x = Nil THEN DOMAIN fields \ {key} ELSE DOMAIN fields \cup {key}
  IN  [k \in keys |-> IF k = key THEN x ELSE fields[k]]

Target == stack[Len(stack) - 2]
Key == stack[Len(stack) - 1]

\* Mutant: the field goes to the table that was made last.
SetFieldOfMade ==
  /\ At("pushed") /\ walking # <<>>
  /\ Len(stack) > 2 /\ Target \in Made \cup {Old}
  /\ tables' = [tables EXCEPT ![Len(tables)] = With(@, Key, Top)]
  /\ stack' = Back(2)
  /\ done' = [done EXCEPT ![Len(done)] = @ + 1]
  /\ pc' = "field"
  /\ UNCHANGED <<Fixed, old, global, registered, walking, val, health>>

\* lua_settable(ctx, -3) assigns to whatever table is below the last two places;
\* that there is one, and a new one, is what OldTableKept says.
SetField ==
  /\ At("pushed") /\ walking # <<>>
  /\ Len(stack) > 2 /\ Target \in Made \cup {Old}
  /\ IF Target = Old
       THEN old' = With(old, Key, Top) /\ UNCHANGED tables
       ELSE tables' = [tables EXCEPT ![Target.table] = With(@, Key, Top)] /\ UNCHANGED old
  /\ stack' = Back(2)
  /\ done' = [done EXCEPT ![Len(done)] = @ + 1]
  /\ pc' = "field"
  /\ UNCHANGED <<Fixed, global, registered, walking, val, health>>

\* No field is left: push_to_stack returns.
EndObject ==
  /\ At("field")
  /\ ~FieldsLeft
  /\ walking' = Front(walking) /\ done' = Front(done)
  /\ pc' = "pushed"
  /\ UNCHANGED <<Fixed, stack, tables, old, global, registered, val, health>>

\* lua_setglobal pops the value, or the last leftover where none was pushed.
SetGlobal ==
  /\ At("pushed") /\ walking = <<>>
  /\ stack # <<>>
  /\ global' = Top /\ stack' = Back(1)
  /\ pc' = "end"
  /\ UNCHANGED <<Fixed, tables, old, registered, walking, done, val, health>>

SetGlobalFails ==
  /\ At("pushed") /\ walking = <<>>
  /\ stack = <<>>
  /\ health' = "undefined"
  /\ UNCHANGED <<Fixed, stack, tables, old, global, registered, walking, done, val, pc>>

Next ==
  \/ PushScalar \/ PushNothing \/ PushObject \/ NextField \/ Overrun
  \/ SetField \/ EndObject \/ SetGlobal \/ SetGlobalFails

Spec == Init /\ [][Next]_vars

-----------------------------------------------------------------------------

LuaValues == Plain \cup {Nil, Callback, Old} \cup Names \cup Made

\* The type invariant.
TypeOK ==
  /\ content \in [Objects -> Contents] /\ root \in Arguments /\ given \in Leftovers
  /\ stack \in Seq(LuaValues) /\ Len(stack) <= Len(given) + Slots
  /\ \A i \in DOMAIN tables : \A k \in DOMAIN tables[i] : tables[i][k] \in LuaValues \ {Nil}
  /\ registered \subseteq (Names \cup {Global}) \X Functions
  /\ walking \in Seq(Objects) /\ Len(done) = Len(walking)
  /\ pc \in {"push", "field", "pushed", "end"}
  /\ health \in {"ok", "undefined", "overrun"}

Values(x) == IF x \in Objects THEN {content[x][i].value : i \in DOMAIN content[x]} ELSE {}

\* The objects are nested at most D deep.
Nesting(D) ==
  \E rank \in [Objects -> 1 .. D] :
    \A x \in Objects : \A y \in Values(x) \cap Objects : rank[y] < rank[x]

\* The Lua value v is what x should become, when from[i] is the object of which
\* the i-th table was made; and that table is what its object should become.
Looks(v, x, from) ==
  IF x \in Objects THEN \E i \in DOMAIN tables : v = TableAt(i) /\ from[i] = x
  ELSE v = IF x \in Functions THEN Callback ELSE x

Entries(x) == {content[x][i] : i \in DOMAIN content[x]}

TableLooks(i, from) ==
  LET entries == {e \in Entries(from[i]) : e.value # Nil}
  IN  /\ DOMAIN tables[i] = {e.name : e \in entries}
      /\ \A e \in entries : Looks(tables[i][e.name], e.value, from)

\* An object, however nested, shared or empty, becomes a table that looks like it,
\* with a table for each time that an object in it is met, and the stack is as
\* before.
Converted ==
  pc = "end" /\ root # Valueless =>
    /\ stack = given
    /\ \E from \in [DOMAIN tables -> Objects] :
         /\ Looks(global, root, from)
         /\ \A i \in DOMAIN tables : TableLooks(i, from)

\* However deep set is in an object, lua_settable at -3 finds a table that set has
\* made: none that a script made and an earlier call left below is ever changed.
OldTableKept ==
  /\ old = NoFields
  /\ pc = "pushed" /\ walking # <<>> => Len(stack) > 2 /\ Target \in Made

\* Before a script can call something by the name of a field, some function has
\* been registered under that name, in whatever object the field is.
CallableIsNamed ==
  \A i \in DOMAIN tables : \A k \in DOMAIN tables[i] :
    tables[i][k] = Callback => \E f \in Functions : <<k, f>> \in registered

\* Objects nested D deep fit if there are 2 * D + 1 places: only deeper ones, and
\* objects that contain themselves, overrun the stack.
OverrunOnlyDeep ==
  health = "overrun" => \A D \in 0 .. (Slots - 1) \div 2 : ~Nesting(D)

=============================================================================
