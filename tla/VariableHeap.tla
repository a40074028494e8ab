---------------------------- MODULE VariableHeap ----------------------------
(***************************************************************************)
(* mlVariable as an owner of memory: the value buffer every variable       *)
(* allocates, copies, frees and forgets, the string objects that memcpy    *)
(* carries from one buffer to another, and the fields, which are variables *)
(* on the heap that copies share and no destructor deletes.                *)
(*                                                                         *)
(* A value is a number (standing for every value that lives inside the     *)
(* buffer), a short std::string, whose characters live inside the string   *)
(* object itself and are reached through a pointer into it, a long one,    *)
(* whose characters have a block of their own (standing for every value    *)
(* that owns memory, as an mlCallback does), or a binary buffer, which may *)
(* be as long as an int or a string object is.  The allocator may return   *)
(* any free block.  What malloc(0) returns is a block of kind "empty".     *)
(***************************************************************************)
EXTENDS FiniteSets

CONSTANTS
  Vars,      \* the program's variables: named ones, arguments, elements
  Nodes,     \* the variables operator[] creates with new
  Blocks,    \* the addresses malloc and new return: bounds the heap
  Names,     \* field names
  Numbers,   \* values stored in the buffer itself
  Texts,     \* values of short strings
  LongTexts, \* values of strings too long for the string object
  None,      \* the NULL pointer, an absent field, no value
  Wild       \* the pointer a copied empty variable is left with

Objs == Vars \cup Nodes
Values == Numbers \cup Texts \cup LongTexts

ASSUME HeapAssumption ==
  /\ Vars \cap Nodes = {}
  /\ Numbers \cap (Texts \cup LongTexts) = {}
  /\ Texts \cap LongTexts = {}
  /\ None \notin Objs \cup Blocks \cup Values
  /\ Wild \notin Blocks \cup {None}

VARIABLES
  alive,      \* constructed and not yet destroyed
  data, data_size, type, type_info, is_auto, fields,   \* members of mlVariable
  block,      \* the heap: what each address holds
  health      \* "undefined" once free() has been given a pointer it may not get

vars == <<alive, data, data_size, type, type_info, is_auto, fields, block, health>>

\* Buffer sizes and types are named by what they are the size and type of.
Sizes == {"zero", "int", "string"}
Types == {"NILL", "NUMBER", "STRING", "OBJECT"}
TypeInfos == {"NULL", "int", "string", "void*"}

\* A live block of kind "string" holds a string object: its characters are read
\* at address home, and value is what was stored in it.  A block of kind "chars"
\* holds the characters of a long string, one of kind "raw" the bytes of a
\* binary buffer.
Contents ==
  [kind : {"free", "empty", "int", "string", "raw", "chars"},
   value : Values \cup {None}, home : Blocks \cup {None}]

FreeBlock == [kind |-> "free", value |-> None, home |-> None]
EmptyBlock == [kind |-> "empty", value |-> None, home |-> None]
RawBlock == [kind |-> "raw", value |-> None, home |-> None]
CharsBlock(x) == [kind |-> "chars", value |-> x, home |-> None]

Available == {b \in Blocks : block[b].kind = "free"}

KindOf(x) == IF x \in Numbers THEN "int" ELSE "string"
TypeOf(x) == IF x \in Numbers THEN "NUMBER" ELSE "STRING"

\* The object of a value whose characters, if it has any, are at h.
NewValue(h, x) ==
  [kind |-> KindOf(x), value |-> x, home |-> IF x \in Numbers THEN None ELSE h]

\* Where an object stored at b has its characters: in itself, unless they are long.
HomesOf(b, x) == IF x \in LongTexts THEN Available \ {b} ELSE {b}

\* new T; *(T*)data = val, at b: the characters of a long string are copied.
Stored(b, h, x) == [block EXCEPT ![h] = CharsBlock(x), ![b] = NewValue(h, x)]

\* The bytes of a variable's buffer: nothing when its size is 0.
Bytes(o) == IF data_size[o] = "zero" THEN EmptyBlock ELSE block[data[o]]

NoFields == [n \in Names |-> None]

-----------------------------------------------------------------------------

Init ==
  /\ alive = {}
  /\ data = [o \in Objs |-> None]
  /\ data_size = [o \in Objs |-> "zero"]
  /\ type = [o \in Objs |-> "NILL"]
  /\ type_info = [o \in Objs |-> "NULL"]
  /\ is_auto = [o \in Objs |-> "no"]
  /\ fields = [o \in Objs |-> NoFields]
  /\ block = [b \in Blocks |-> FreeBlock]
  /\ health = "ok"

\* mlVariable()
ConstructNil(v) ==
  /\ health = "ok" /\ v \in Vars \ alive
  /\ alive' = alive \cup {v}
  /\ UNCHANGED <<data, data_size, type, type_info, is_auto, fields, block, health>>

\* mlVariable(val), through set_data(T)
ConstructValue(v, x) ==
  /\ health = "ok" /\ v \in Vars \ alive
  /\ \E b \in Available : \E h \in HomesOf(b, x) :
       /\ block' = Stored(b, h, x)
       /\ data' = [data EXCEPT ![v] = b]
  /\ alive' = alive \cup {v}
  /\ data_size' = [data_size EXCEPT ![v] = KindOf(x)]
  /\ type' = [type EXCEPT ![v] = TypeOf(x)]
  /\ type_info' = [type_info EXCEPT ![v] = KindOf(x)]
  /\ UNCHANGED <<is_auto, fields, health>>

\* mlVariable(ptr, size): length 0 and the lengths that get<T> takes for a T's.
ConstructBuffer(v, size) ==
  /\ health = "ok" /\ v \in Vars \ alive
  /\ \E b \in Available :
       /\ block' = [block EXCEPT ![b] = IF size = "zero" THEN EmptyBlock ELSE RawBlock]
       /\ data' = [data EXCEPT ![v] = b]
  /\ alive' = alive \cup {v}
  /\ data_size' = [data_size EXCEPT ![v] = size]
  /\ type' = [type EXCEPT ![v] = "OBJECT"]
  /\ type_info' = [type_info EXCEPT ![v] = "void*"]
  /\ UNCHANGED <<is_auto, fields, health>>

\* Mutant: the copy points to the buffer of the original.
CopyConstructShallow(v, src) ==
  /\ health = "ok" /\ v \in Vars \ alive /\ src \in alive
  /\ data' = [data EXCEPT ![v] = data[src]]
  /\ alive' = alive \cup {v}
  /\ data_size' = [data_size EXCEPT ![v] = data_size[src]]
  /\ type' = [type EXCEPT ![v] = type[src]]
  /\ type_info' = [type_info EXCEPT ![v] = type_info[src]]
  /\ is_auto' = [is_auto EXCEPT ![v] = is_auto[src]]
  /\ fields' = [fields EXCEPT ![v] = fields[src]]
  /\ UNCHANGED <<block, health>>

\* mlVariable(const mlVariable&).  The buffer of an empty variable is not
\* copied, and the copy's data is left as the memory happened to be.
CopyConstruct(v, src) ==
  /\ health = "ok" /\ v \in Vars \ alive /\ src \in alive
  /\ \/ /\ data_size[src] # "zero"
        /\ \E b \in Available :
             /\ block' = [block EXCEPT ![b] = Bytes(src)]
             /\ data' = [data EXCEPT ![v] = b]
     \/ /\ data_size[src] = "zero"
        /\ \E p \in {None, Wild} : data' = [data EXCEPT ![v] = p]
        /\ UNCHANGED block
  /\ alive' = alive \cup {v}
  /\ data_size' = [data_size EXCEPT ![v] = data_size[src]]
  /\ type' = [type EXCEPT ![v] = type[src]]
  /\ type_info' = [type_info EXCEPT ![v] = type_info[src]]
  /\ is_auto' = [is_auto EXCEPT ![v] = is_auto[src]]
  /\ fields' = [fields EXCEPT ![v] = fields[src]]
  /\ UNCHANGED health

\* free(p) is defined on NULL and on what malloc returned and is not yet freed.
CanFree(p) == p = None \/ p \in Blocks \ Available

\* The heap after free(p).
Freed(p) == [b \in Blocks |-> IF b = p THEN FreeBlock ELSE block[b]]

\* An assignment, or the destructor of a variable with a size, passes free() a
\* pointer it may not get: from here on the program may do anything.
FreeInvalid(o) ==
  /\ health = "ok" /\ o \in alive
  /\ ~CanFree(data[o])
  /\ health' = "undefined"
  /\ UNCHANGED <<alive, data, data_size, type, type_info, is_auto, fields, block>>

\* Mutant: without to_nil.
AssignOtherLeaking(dst, src) ==
  /\ health = "ok" /\ dst \in alive /\ src \in alive \ {dst}
  /\ CanFree(data[dst])
  /\ \E b \in Available :
       /\ block' = [block EXCEPT ![b] = Bytes(src)]
       /\ data' = [data EXCEPT ![dst] = b]
  /\ data_size' = [data_size EXCEPT ![dst] = data_size[src]]
  /\ type' = [type EXCEPT ![dst] = type[src]]
  /\ type_info' = [type_info EXCEPT ![dst] = type_info[src]]
  /\ fields' = [fields EXCEPT ![dst] = fields[src]]
  /\ UNCHANGED <<alive, is_auto, health>>

\* Mutant: the type of the value is not taken over.
AssignOtherUntyped(dst, src) ==
  /\ health = "ok" /\ dst \in alive /\ src \in alive \ {dst}
  /\ CanFree(data[dst])
  /\ \E b \in Blocks :
       /\ Freed(data[dst])[b] = FreeBlock
       /\ block' = [Freed(data[dst]) EXCEPT ![b] = Bytes(src)]
       /\ data' = [data EXCEPT ![dst] = b]
  /\ data_size' = [data_size EXCEPT ![dst] = data_size[src]]
  /\ type' = [type EXCEPT ![dst] = type[src]]
  /\ type_info' = [type_info EXCEPT ![dst] = "NULL"]
  /\ fields' = [fields EXCEPT ![dst] = fields[src]]
  /\ UNCHANGED <<alive, is_auto, health>>

\* operator=(const mlVariable&) between two variables: to_nil, then a new
\* buffer.  metatype, owner and is_auto stay as they were.
AssignOther(dst, src) ==
  /\ health = "ok" /\ dst \in alive /\ src \in alive \ {dst}
  /\ CanFree(data[dst])
  /\ \E b \in Blocks :
       /\ Freed(data[dst])[b] = FreeBlock
       /\ block' = [Freed(data[dst]) EXCEPT ![b] = Bytes(src)]
       /\ data' = [data EXCEPT ![dst] = b]
  /\ data_size' = [data_size EXCEPT ![dst] = data_size[src]]
  /\ type' = [type EXCEPT ![dst] = type[src]]
  /\ type_info' = [type_info EXCEPT ![dst] = type_info[src]]
  /\ fields' = [fields EXCEPT ![dst] = fields[src]]
  /\ UNCHANGED <<alive, is_auto, health>>

\* Mutant: no buffer of length 0 is allocated, data keeps the freed address.
AssignSelfDangling(dst) ==
  /\ health = "ok" /\ dst \in alive
  /\ CanFree(data[dst])
  /\ block' = Freed(data[dst])
  /\ data_size' = [data_size EXCEPT ![dst] = "zero"]
  /\ type' = [type EXCEPT ![dst] = "NILL"]
  /\ type_info' = [type_info EXCEPT ![dst] = "NULL"]
  /\ UNCHANGED <<alive, data, is_auto, fields, health>>

\* operator=(const mlVariable&) of a variable to itself: to_nil has already
\* forgotten the size when it is read, so malloc(0) and an empty variable.
AssignSelf(dst) ==
  /\ health = "ok" /\ dst \in alive
  /\ CanFree(data[dst])
  /\ \E b \in Blocks :
       /\ Freed(data[dst])[b] = FreeBlock
       /\ block' = [Freed(data[dst]) EXCEPT ![b] = EmptyBlock]
       /\ data' = [data EXCEPT ![dst] = b]
  /\ data_size' = [data_size EXCEPT ![dst] = "zero"]
  /\ type' = [type EXCEPT ![dst] = "NILL"]
  /\ type_info' = [type_info EXCEPT ![dst] = "NULL"]
  /\ UNCHANGED <<alive, is_auto, fields, health>>

\* operator=(T): a temporary is constructed at t, assigned, and destroyed at the
\* end of the statement, the characters of a short string with it.
AssignValue(dst, x) ==
  /\ health = "ok" /\ dst \in alive
  /\ CanFree(data[dst])
  /\ \E t \in Available, b \in Blocks : \E h \in HomesOf(t, x) :
       /\ b \notin {t, h} /\ Freed(data[dst])[b] = FreeBlock
       /\ block' = [Freed(data[dst]) EXCEPT ![h] = IF h = t THEN @ ELSE CharsBlock(x),
                                            ![b] = NewValue(h, x)]
       /\ data' = [data EXCEPT ![dst] = b]
  /\ data_size' = [data_size EXCEPT ![dst] = KindOf(x)]
  /\ type' = [type EXCEPT ![dst] = TypeOf(x)]
  /\ type_info' = [type_info EXCEPT ![dst] = KindOf(x)]
  /\ fields' = [fields EXCEPT ![dst] = NoFields]
  /\ UNCHANGED <<alive, is_auto, health>>

\* Mutant: the new field may be a variable that is in use elsewhere.
IndexReusing(o, name) ==
  /\ health = "ok" /\ o \in alive
  /\ type' = [type EXCEPT ![o] = "OBJECT"]
  /\ \/ /\ fields[o][name] # None
        /\ UNCHANGED <<alive, fields>>
     \/ /\ fields[o][name] = None
        /\ \E n \in Nodes :
             /\ alive' = alive \cup {n}
             /\ fields' = [fields EXCEPT ![o][name] = n]
  /\ UNCHANGED <<data, data_size, type_info, is_auto, block, health>>

\* operator[]: whatever the variable was, it is an OBJECT now; its buffer stays.
Index(o, name) ==
  /\ health = "ok" /\ o \in alive
  /\ type' = [type EXCEPT ![o] = "OBJECT"]
  /\ \/ /\ fields[o][name] # None
        /\ UNCHANGED <<alive, fields>>
     \/ /\ fields[o][name] = None
        /\ \E n \in Nodes \ alive :
             /\ alive' = alive \cup {n}
             /\ fields' = [fields EXCEPT ![o][name] = n]
  /\ UNCHANGED <<data, data_size, type_info, is_auto, block, health>>

\* uinion: the fields of another variable replace this one's.
Uinion(o, src) ==
  /\ health = "ok" /\ o \in alive /\ src \in alive
  /\ fields' = [fields EXCEPT ![o] = fields[src]]
  /\ UNCHANGED <<alive, data, data_size, type, type_info, is_auto, block, health>>

\* An argument padded by callback_helper: mlVariable(), then set_auto().
ConstructAuto(v) ==
  /\ health = "ok" /\ v \in Vars \ alive
  /\ alive' = alive \cup {v}
  /\ is_auto' = [is_auto EXCEPT ![v] = "yes"]
  /\ UNCHANGED <<data, data_size, type, type_info, fields, block, health>>

\* get<T>, T an int or a string: once the size is right *(T*)data is copied, and
\* only then is the type compared, if there is one.  The call returns the copy or
\* throws.
GetCopies(o, T) ==
  /\ data[o] # None \/ is_auto[o] = "yes"
  /\ data_size[o] = T

GetReturns(o, T) ==
  /\ GetCopies(o, T)
  /\ type_info[o] \in {"NULL", T}

\* get<T> on an automatic variable that is still NILL: a default value, which is
\* never long, is stored first, over the pointer to the one stored by the
\* previous get.
GetAuto(o, x) ==
  /\ health = "ok" /\ o \in alive
  /\ type[o] = "NILL" /\ is_auto[o] = "yes"
  /\ \E b \in Available :
       /\ block' = Stored(b, b, x)
       /\ data' = [data EXCEPT ![o] = b]
  /\ data_size' = [data_size EXCEPT ![o] = KindOf(x)]
  /\ type_info' = [type_info EXCEPT ![o] = KindOf(x)]
  /\ UNCHANGED <<alive, type, is_auto, fields, health>>

\* Mutant: the destructor frees what the string points to.
DestroyFreeingHome(v) ==
  /\ health = "ok" /\ v \in Vars \cap alive
  /\ block' = IF data_size[v] = "zero" THEN block
              ELSE Freed(IF data_size[v] = "string" THEN block[data[v]].home ELSE data[v])
  /\ alive' = alive \ {v}
  /\ data' = [data EXCEPT ![v] = None]
  /\ data_size' = [data_size EXCEPT ![v] = "zero"]
  /\ type' = [type EXCEPT ![v] = "NILL"]
  /\ type_info' = [type_info EXCEPT ![v] = "NULL"]
  /\ is_auto' = [is_auto EXCEPT ![v] = "no"]
  /\ fields' = [fields EXCEPT ![v] = NoFields]
  /\ UNCHANGED health

\* ~mlVariable: the buffer is freed unless its size is 0, the fields are not
\* deleted.  The members of a destroyed variable are reset, being unobservable.
Destroy(v) ==
  /\ health = "ok" /\ v \in Vars \cap alive
  /\ data_size[v] = "zero" \/ CanFree(data[v])
  /\ block' = IF data_size[v] = "zero" THEN block ELSE Freed(data[v])
  /\ alive' = alive \ {v}
  /\ data' = [data EXCEPT ![v] = None]
  /\ data_size' = [data_size EXCEPT ![v] = "zero"]
  /\ type' = [type EXCEPT ![v] = "NILL"]
  /\ type_info' = [type_info EXCEPT ![v] = "NULL"]
  /\ is_auto' = [is_auto EXCEPT ![v] = "no"]
  /\ fields' = [fields EXCEPT ![v] = NoFields]
  /\ UNCHANGED health

Next ==
  \/ \E v \in Vars : ConstructNil(v) \/ ConstructAuto(v) \/ Destroy(v)
  \/ \E v \in Vars, size \in Sizes : ConstructBuffer(v, size)
  \/ \E v \in Vars, x \in Values : ConstructValue(v, x)
  \/ \E v \in Vars, o \in Objs : CopyConstruct(v, o)
  \/ \E o, p \in Objs : AssignOther(o, p) \/ Uinion(o, p)
  \/ \E o \in Objs : AssignSelf(o) \/ FreeInvalid(o)
  \/ \E o \in Objs, x \in Values : AssignValue(o, x)
  \/ \E o \in Objs, x \in Numbers \cup Texts : GetAuto(o, x)
  \/ \E o \in Objs, n \in Names : Index(o, n)

Spec == Init /\ [][Next]_vars

-----------------------------------------------------------------------------

\* Type invariant; a variable with a value also knows the type of the value
\* (without it get<T> would skip its type check).
TypeOK ==
  /\ alive \subseteq Objs
  /\ data \in [Objs -> Blocks \cup {None, Wild}]
  /\ data_size \in [Objs -> Sizes]
  /\ type \in [Objs -> Types]
  /\ type_info \in [Objs -> TypeInfos]
  /\ is_auto \in [Objs -> {"yes", "no"}]
  /\ fields \in [Objs -> [Names -> Nodes \cup {None}]]
  /\ block \in [Blocks -> Contents]
  /\ health \in {"ok", "undefined"}
  /\ \A o \in Objs : data_size[o] # "zero" => type_info[o] \in {"void*", data_size[o]}

\* What a buffer of this size holds according to this type.
KindFor(size, info) ==
  CASE size = "zero" -> "empty"
    [] size # "zero" /\ info = "void*" -> "raw"
    [] OTHER -> info

\* Every variable with a size owns a live block that holds what its type says,
\* and no two variables own the same block, through copies and assignments in
\* any order.
Owned ==
  /\ \A o \in alive : data_size[o] # "zero" => data[o] \in Blocks
  /\ \A o \in alive : data[o] \in Blocks =>
       block[data[o]].kind = KindFor(data_size[o], type_info[o])
  /\ \A o, p \in alive : data[o] = data[p] /\ data[o] \in Blocks => o = p

\* No field of a variable has been deleted, however many copies share it
\* (the delete of mlVariable.cpp:299 is commented out).
FieldsAlive ==
  \A o \in alive, n \in Names : fields[o][n] # None => fields[o][n] \in alive

\* get<T> returns exactly when the buffer is live and holds a T, whatever copies
\* and assignments it came through.  The copy that it makes before it compares
\* the types (mlVariable.inc:70) is of something else only if that is a binary
\* buffer of a T's length; then the call throws, if the copy lets it.
GetSound ==
  \A o \in alive, T \in {"int", "string"} :
    GetCopies(o, T) =>
      /\ data[o] \in Blocks
      /\ GetReturns(o, T) <=> block[data[o]].kind = T
      /\ ~GetReturns(o, T) => block[data[o]].kind = "raw"

\* free() is never given a block twice: the only pointer it may not get is the
\* indeterminate one of a copied empty variable that is then assigned to.
UndefinedOnlyFromEmptyCopies ==
  [][health' # health => \E o \in alive : FreeInvalid(o) /\ data[o] = Wild]_vars

\* What a variable's value is read from: the characters of a string are wherever
\* its object points, in its own buffer, in the buffer it was copied from or in a
\* block of their own.
ReadFrom(o) == IF Bytes(o).kind = "string" THEN block[Bytes(o).home] ELSE Bytes(o)

\* A step changes what one variable reads as, and of those that outlive it no
\* other but copies of short strings whose characters were in that variable's
\* buffer, or in a block that was freed before and is taken again.
AliasedOnlyByTexts ==
  [][\E s \in Objs : \A o \in (alive \cap alive') \ {s} :
       ReadFrom(o)' # ReadFrom(o) =>
         /\ Bytes(o).value \in Texts /\ Bytes(o).home # data[o]
         /\ Bytes(o).home = data[s] \/ Bytes(o).home \in Available]_vars

\* A string reads as what was stored: its characters are where its pointer leads.
Readable(o) ==
  /\ Bytes(o).kind = "string"
  /\ block[Bytes(o).home].kind = IF Bytes(o).value \in Texts THEN "string" ELSE "chars"
  /\ block[Bytes(o).home].value = Bytes(o).value

\* A copied string becomes unreadable only when the variable whose buffer holds
\* the characters is assigned or destroyed, and it does not notice.  (Long ones
\* never do: no variable's buffer holds their characters.)
TextLostWithOriginal ==
  [][\A o \in alive \cap alive' :
       Readable(o) /\ Bytes(o)' = Bytes(o) /\ data'[o] = data[o] /\ ~Readable(o)'
         => \E p \in alive \ {o} :
              data[p] = Bytes(o).home /\ (p \in alive' => data'[p] # data[p] \/ Bytes(p)' # Bytes(p))]_vars

Children(o) == {fields[o][n] : n \in Names} \ {None}

\* Is d a field of o, or of one of its fields, and so on?
Below(o, d) ==
  \A S \in SUBSET Nodes :
    Children(o) \subseteq S /\ (\A n \in S : Children(n) \subseteq S) => d \in S

\* The variables that the program has, with all fields it gets at from them.
Reached == (Vars \cap alive) \cup {n \in Nodes : \E v \in Vars \cap alive : Below(v, n)}

\* The memory of a variable: its buffer, and the characters of a long string.
Holds(o, b) ==
  \/ data[o] = b
  \/ Bytes(o).kind = "string" /\ Bytes(o).value \in LongTexts /\ Bytes(o).home = b

\* Memory that is allocated and that nothing the program can reach holds.
Lost == {b \in Blocks \ Available : \A o \in Reached : ~Holds(o, b)}

\* Memory is lost in these ways only: a block of length 0, which the destructor
\* does not free; the default value of an automatic variable that is read again;
\* the characters of a long string, because free() runs no destructor; and what a
\* field holds that no variable leads to any more, because none is ever deleted.
LeaksAccounted ==
  [][\A b \in Lost' \ Lost :
       \/ block[b].kind = "empty"
       \/ \E o \in alive : data[o] = b /\ type[o] = "NILL" /\ is_auto[o] = "yes"
       \/ block'[b].kind = "chars"
       \/ \E n \in (Nodes \cap alive') \ Reached' : data'[n] = b]_vars

\* Some variable contains itself: printing it (mlVariable.cpp:245-257) or
\* pushing it to an interpreter would recurse for ever.
Cyclic ==
  \E S \in (SUBSET Nodes) \ {{}} : \A n \in S : Children(n) \cap S # {}

\* A variable comes to contain itself exactly when a variable is assigned to
\* one of its own fields, as in a["x"] = a.
CyclesFromOwnFields ==
  [][~Cyclic => (Cyclic' <=>
       \E dst \in Nodes, src \in alive :
         Below(src, dst) /\ fields' = [fields EXCEPT ![dst] = fields[src]])]_vars
=============================================================================
