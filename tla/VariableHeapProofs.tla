------------------------- MODULE VariableHeapProofs -------------------------
(***************************************************************************)
(* Proofs about VariableHeap for any number of variables, fields, blocks   *)
(* and values: ownership of the buffers is exclusive, so that no buffer is *)
(* freed twice; fields stay alive; get<T> returns a T.                     *)
(***************************************************************************)
EXTENDS VariableHeap, TLAPS

\* What is not constructed is as operator new or the stack first delivers it.
DeadReset ==
  \A o \in Objs \ alive :
    /\ data[o] = None
    /\ data_size[o] = "zero"
    /\ fields[o] = NoFields

\* The characters of a string are at an address of the heap; those of a long one
\* are still there.
Homes ==
  \A b \in Blocks : block[b].kind = "string" =>
    /\ block[b].value \in Texts \cup LongTexts
    /\ block[b].home \in Blocks
    /\ block[b].value \in LongTexts => block[block[b].home].kind = "chars"

IInv == TypeOK /\ DeadReset /\ Owned /\ FieldsAlive /\ Homes

-----------------------------------------------------------------------------

\* The blocks the constructors fill in.
LEMMA ContentsOK ==
  /\ FreeBlock \in Contents /\ FreeBlock.kind = "free"
  /\ EmptyBlock \in Contents /\ EmptyBlock.kind = "empty"
  /\ RawBlock \in Contents /\ RawBlock.kind = "raw"
  /\ \A b \in Blocks, x \in Values :
       /\ NewValue(b, x) \in Contents
       /\ NewValue(b, x).kind = KindOf(x)
       /\ CharsBlock(x) \in Contents
       /\ CharsBlock(x).kind = "chars"
       /\ KindOf(x) \in {"int", "string"}
       /\ TypeOf(x) \in Types
  BY DEF FreeBlock, EmptyBlock, RawBlock, CharsBlock, NewValue, KindOf, TypeOf, Contents, Types, Values

\* What storing a value writes, and where.
LEMMA StoredOK ==
  ASSUME TypeOK, NEW x \in Values, NEW b \in Available, NEW h \in HomesOf(b, x)
  PROVE  /\ b \in Blocks /\ h \in Blocks /\ h \in Available
         /\ x \in LongTexts <=> h # b
         /\ Stored(b, h, x) \in [Blocks -> Contents]
         /\ Stored(b, h, x)[b] = NewValue(h, x)
         /\ h # b => Stored(b, h, x)[h] = CharsBlock(x)
         /\ \A c \in Blocks \ {b, h} : Stored(b, h, x)[c] = block[c]
  BY ContentsOK DEF TypeOK, HomesOf, Available, Stored

LEMMA InitIInv == Init => IInv
<1> SUFFICES ASSUME Init PROVE IInv
  OBVIOUS
<1>1. NoFields \in [Names -> Nodes \cup {None}]
  BY DEF NoFields
<1>2. TypeOK
  BY <1>1, ContentsOK DEF Init, TypeOK, Sizes, Types, TypeInfos
<1>3. DeadReset /\ Owned /\ FieldsAlive /\ Homes
  BY DEF Init, DeadReset, Owned, FieldsAlive, Homes, FreeBlock
<1>4. QED
  BY <1>2, <1>3 DEF IInv

\* What a copy of a variable finds in the original's buffer.
LEMMA BytesOK ==
  ASSUME TypeOK, Owned, NEW o \in alive
  PROVE  /\ Bytes(o) \in Contents
         /\ Bytes(o).kind = KindFor(data_size[o], type_info[o])
  BY ContentsOK DEF TypeOK, Owned, Bytes, KindFor

\* A buffer that belongs to a variable is neither free nor full of characters.
LEMMA KindForOK ==
  ASSUME TypeOK, NEW o \in Objs
  PROVE  KindFor(data_size[o], type_info[o]) \in {"empty", "int", "string", "raw"}
  BY DEF TypeOK, Sizes, KindFor

\* The assignments and the allocations keep the types; the copies rely on Owned
\* for the block they copy.
LEMMA TypeNext == TypeOK /\ Owned /\ [Next]_vars => TypeOK'
<1> SUFFICES ASSUME TypeOK, Owned, [Next]_vars PROVE TypeOK'
  OBVIOUS
<1> USE DEF TypeOK
<1>0. /\ NoFields \in [Names -> Nodes \cup {None}]
      /\ \A p : Freed(p) \in [Blocks -> Contents]
      /\ \A o \in Objs : data_size[o] # "zero" => type_info[o] \in {"void*", data_size[o]}
  BY ContentsOK DEF NoFields, Freed
<1>1. ASSUME NEW v \in Vars, ConstructNil(v) \/ ConstructAuto(v) PROVE TypeOK'
  BY <1>1 DEF ConstructNil, ConstructAuto, Objs
<1>2. ASSUME NEW v \in Vars, NEW size \in Sizes, ConstructBuffer(v, size) PROVE TypeOK'
  BY <1>2, ContentsOK DEF ConstructBuffer, Available, Objs, Sizes, Types, TypeInfos
<1>3. ASSUME NEW v \in Vars, Destroy(v) PROVE TypeOK'
  BY <1>0, <1>3 DEF Destroy, Objs, Sizes, Types, TypeInfos
<1>4. ASSUME NEW v \in Vars, NEW x \in Values, ConstructValue(v, x) PROVE TypeOK'
  <2>1. PICK b \in Available : \E h \in HomesOf(b, x) :
          block' = Stored(b, h, x) /\ data' = [data EXCEPT ![v] = b]
    BY <1>4 DEF ConstructValue
  <2>2. b \in Blocks /\ block' \in [Blocks -> Contents]
    BY <2>1, StoredOK
  <2>3. QED
    BY <1>4, <2>1, <2>2, ContentsOK DEF ConstructValue, Objs, Sizes, TypeInfos
<1>5. ASSUME NEW v \in Vars, NEW o \in Objs, CopyConstruct(v, o) PROVE TypeOK'
  <2>1. data' \in [Objs -> Blocks \cup {None, Wild}] /\ block' \in [Blocks -> Contents]
    <3>1. CASE data_size[o] # "zero"
      <4>1. PICK b \in Available : /\ block' = [block EXCEPT ![b] = Bytes(o)]
                                  /\ data' = [data EXCEPT ![v] = b]
        BY <1>5, <3>1 DEF CopyConstruct
      <4>2. o \in alive
        BY <1>5 DEF CopyConstruct
      <4>3. b \in Blocks /\ v \in Objs /\ Bytes(o) \in Contents
        BY <4>1, <4>2, BytesOK DEF Available, Objs
      <4> QED
        BY <4>1, <4>3
    <3>2. CASE data_size[o] = "zero"
      <4>1. block' = block /\ \E q \in {None, Wild} : data' = [data EXCEPT ![v] = q]
        BY <1>5, <3>2 DEF CopyConstruct
      <4> QED
        BY <4>1
    <3> QED
      BY <3>1, <3>2
  <2>2. /\ v \in Objs /\ alive' = alive \cup {v} /\ health' = health
        /\ data_size' = [data_size EXCEPT ![v] = data_size[o]]
        /\ type' = [type EXCEPT ![v] = type[o]]
        /\ type_info' = [type_info EXCEPT ![v] = type_info[o]]
        /\ is_auto' = [is_auto EXCEPT ![v] = is_auto[o]]
        /\ fields' = [fields EXCEPT ![v] = fields[o]]
    BY <1>5 DEF CopyConstruct, Objs
  <2> QED
    BY <2>1, <2>2
<1>6. ASSUME NEW o \in Objs, NEW p \in Objs, AssignOther(o, p) PROVE TypeOK'
  BY <1>0, <1>6, BytesOK DEF AssignOther, Objs, Sizes, Types, TypeInfos
<1>7. ASSUME NEW o \in Objs, NEW p \in Objs, Uinion(o, p) PROVE TypeOK'
  BY <1>7 DEF Uinion
<1>8. ASSUME NEW o \in Objs, AssignSelf(o) PROVE TypeOK'
  BY <1>0, <1>8, ContentsOK DEF AssignSelf, Sizes, Types, TypeInfos
<1>9. ASSUME NEW o \in Objs, FreeInvalid(o) PROVE TypeOK'
  BY <1>9 DEF FreeInvalid
<1>10. ASSUME NEW o \in Objs, NEW x \in Values, AssignValue(o, x) PROVE TypeOK'
  <2>1. PICK t \in Available, b \in Blocks : \E h \in HomesOf(t, x) :
          /\ block' = [Freed(data[o]) EXCEPT ![h] = IF h = t THEN @ ELSE CharsBlock(x),
                                             ![b] = NewValue(h, x)]
          /\ data' = [data EXCEPT ![o] = b]
    BY <1>10 DEF AssignValue
  <2>2. block' \in [Blocks -> Contents]
    BY <1>0, <2>1, StoredOK, ContentsOK
  <2>3. /\ o \in alive /\ alive' = alive /\ data' = [data EXCEPT ![o] = b]
        /\ data_size' = [data_size EXCEPT ![o] = KindOf(x)]
        /\ type' = [type EXCEPT ![o] = TypeOf(x)]
        /\ type_info' = [type_info EXCEPT ![o] = KindOf(x)]
        /\ fields' = [fields EXCEPT ![o] = NoFields]
        /\ is_auto' = is_auto /\ health' = health
    BY <1>10, <2>1 DEF AssignValue
  <2>4. KindOf(x) \in {"int", "string"} /\ TypeOf(x) \in Types
    BY <2>1, ContentsOK
  <2>5. QED
    BY <1>0, <2>2, <2>3, <2>4 DEF Sizes, TypeInfos
<1>11. ASSUME NEW o \in Objs, NEW x \in Numbers \cup Texts, GetAuto(o, x) PROVE TypeOK'
  <2>1. PICK b \in Available : block' = Stored(b, b, x) /\ data' = [data EXCEPT ![o] = b]
    BY <1>11 DEF GetAuto
  <2>2. b \in Blocks /\ block' \in [Blocks -> Contents] /\ x \in Values
    BY <2>1, StoredOK, HeapAssumption DEF HomesOf, Values
  <2>3. QED
    BY <1>11, <2>1, <2>2, ContentsOK DEF GetAuto, Sizes, TypeInfos
<1>12. ASSUME NEW o \in Objs, NEW n \in Names, Index(o, n) PROVE TypeOK'
  <2>1. /\ type' = [type EXCEPT ![o] = "OBJECT"] /\ health' = health
        /\ data' = data /\ data_size' = data_size /\ type_info' = type_info
        /\ is_auto' = is_auto /\ block' = block
    BY <1>12 DEF Index
  <2>2. alive' \subseteq Objs /\ fields' \in [Objs -> [Names -> Nodes \cup {None}]]
    <3>1. CASE alive' = alive /\ fields' = fields
      BY <3>1
    <3>2. ASSUME NEW m \in Nodes, alive' = alive \cup {m}, fields' = [fields EXCEPT ![o][n] = m]
          PROVE  alive' \subseteq Objs /\ fields' \in [Objs -> [Names -> Nodes \cup {None}]]
      BY <3>2 DEF Objs
    <3> QED
      BY <1>12, <3>1, <3>2 DEF Index
  <2> QED
    BY <2>1, <2>2 DEF Types
<1>13. CASE UNCHANGED vars
  BY <1>13 DEF vars, Available
<1>14. QED
  BY <1>1, <1>2, <1>3, <1>4, <1>5, <1>6, <1>7, <1>8, <1>9, <1>10, <1>11, <1>12, <1>13
  DEF Next

LEMMA DeadNext == TypeOK /\ DeadReset /\ [Next]_vars => DeadReset'
<1> SUFFICES ASSUME TypeOK, DeadReset, [Next]_vars PROVE DeadReset'
  OBVIOUS
<1>1. ASSUME NEW v \in Vars, ConstructNil(v) \/ ConstructAuto(v) PROVE DeadReset'
  BY <1>1, HeapAssumption DEF ConstructNil, ConstructAuto, TypeOK, DeadReset, Objs
<1>2. ASSUME NEW v \in Vars, NEW size \in Sizes, ConstructBuffer(v, size) PROVE DeadReset'
  BY <1>2, HeapAssumption DEF ConstructBuffer, TypeOK, DeadReset, Objs
<1>3. ASSUME NEW v \in Vars, Destroy(v) PROVE DeadReset'
  BY <1>3, HeapAssumption DEF Destroy, TypeOK, DeadReset, Objs
<1>4. ASSUME NEW v \in Vars, NEW x \in Values, ConstructValue(v, x) PROVE DeadReset'
  BY <1>4, HeapAssumption DEF ConstructValue, TypeOK, DeadReset, Objs
<1>5. ASSUME NEW v \in Vars, NEW o \in Objs, CopyConstruct(v, o) PROVE DeadReset'
  BY <1>5, HeapAssumption DEF CopyConstruct, TypeOK, DeadReset, Objs
<1>6. ASSUME NEW o \in Objs, NEW p \in Objs, AssignOther(o, p) PROVE DeadReset'
  BY <1>6, HeapAssumption DEF AssignOther, TypeOK, DeadReset, Objs
<1>7. ASSUME NEW o \in Objs, NEW p \in Objs, Uinion(o, p) PROVE DeadReset'
  BY <1>7, HeapAssumption DEF Uinion, TypeOK, DeadReset, Objs
<1>8. ASSUME NEW o \in Objs, AssignSelf(o) PROVE DeadReset'
  BY <1>8, HeapAssumption DEF AssignSelf, TypeOK, DeadReset, Objs
<1>9. ASSUME NEW o \in Objs, FreeInvalid(o) PROVE DeadReset'
  BY <1>9, HeapAssumption DEF FreeInvalid, TypeOK, DeadReset, Objs
<1>10. ASSUME NEW o \in Objs, NEW x \in Values, AssignValue(o, x) PROVE DeadReset'
  BY <1>10, HeapAssumption DEF AssignValue, TypeOK, DeadReset, Objs
<1>11. ASSUME NEW o \in Objs, NEW x \in Numbers \cup Texts, GetAuto(o, x) PROVE DeadReset'
  BY <1>11, HeapAssumption DEF GetAuto, TypeOK, DeadReset, Objs
<1>12. ASSUME NEW o \in Objs, NEW n \in Names, Index(o, n) PROVE DeadReset'
  BY <1>12, HeapAssumption DEF Index, TypeOK, DeadReset, Objs
<1>13. CASE UNCHANGED vars
  BY <1>13 DEF vars, TypeOK, DeadReset, Objs
<1>14. QED
  BY <1>1, <1>2, <1>3, <1>4, <1>5, <1>6, <1>7, <1>8, <1>9, <1>10, <1>11, <1>12, <1>13
  DEF Next

LEMMA FieldsNext == TypeOK /\ DeadReset /\ FieldsAlive /\ [Next]_vars => FieldsAlive'
<1> SUFFICES ASSUME TypeOK, DeadReset, FieldsAlive, [Next]_vars PROVE FieldsAlive'
  OBVIOUS
<1>1. ASSUME NEW v \in Vars, ConstructNil(v) \/ ConstructAuto(v) PROVE FieldsAlive'
  BY <1>1, HeapAssumption DEF ConstructNil, ConstructAuto, TypeOK, DeadReset, FieldsAlive, NoFields, Objs
<1>2. ASSUME NEW v \in Vars, NEW size \in Sizes, ConstructBuffer(v, size) PROVE FieldsAlive'
  BY <1>2, HeapAssumption DEF ConstructBuffer, TypeOK, DeadReset, FieldsAlive, NoFields, Objs
<1>3. ASSUME NEW v \in Vars, Destroy(v) PROVE FieldsAlive'
  BY <1>3, HeapAssumption DEF Destroy, TypeOK, DeadReset, FieldsAlive, NoFields, Objs
<1>4. ASSUME NEW v \in Vars, NEW x \in Values, ConstructValue(v, x) PROVE FieldsAlive'
  BY <1>4, HeapAssumption DEF ConstructValue, TypeOK, DeadReset, FieldsAlive, NoFields, Objs
<1>5. ASSUME NEW v \in Vars, NEW o \in Objs, CopyConstruct(v, o) PROVE FieldsAlive'
  BY <1>5, HeapAssumption DEF CopyConstruct, TypeOK, DeadReset, FieldsAlive, NoFields, Objs
<1>6. ASSUME NEW o \in Objs, NEW p \in Objs, AssignOther(o, p) PROVE FieldsAlive'
  BY <1>6, HeapAssumption DEF AssignOther, TypeOK, DeadReset, FieldsAlive, NoFields, Objs
<1>7. ASSUME NEW o \in Objs, NEW p \in Objs, Uinion(o, p) PROVE FieldsAlive'
  BY <1>7, HeapAssumption DEF Uinion, TypeOK, DeadReset, FieldsAlive, NoFields, Objs
<1>8. ASSUME NEW o \in Objs, AssignSelf(o) PROVE FieldsAlive'
  BY <1>8, HeapAssumption DEF AssignSelf, TypeOK, DeadReset, FieldsAlive, NoFields, Objs
<1>9. ASSUME NEW o \in Objs, FreeInvalid(o) PROVE FieldsAlive'
  BY <1>9, HeapAssumption DEF FreeInvalid, TypeOK, DeadReset, FieldsAlive, NoFields, Objs
<1>10. ASSUME NEW o \in Objs, NEW x \in Values, AssignValue(o, x) PROVE FieldsAlive'
  BY <1>10, HeapAssumption DEF AssignValue, TypeOK, DeadReset, FieldsAlive, NoFields, Objs
<1>11. ASSUME NEW o \in Objs, NEW x \in Numbers \cup Texts, GetAuto(o, x) PROVE FieldsAlive'
  BY <1>11, HeapAssumption DEF GetAuto, TypeOK, DeadReset, FieldsAlive, NoFields, Objs
<1>12. ASSUME NEW o \in Objs, NEW n \in Names, Index(o, n) PROVE FieldsAlive'
  BY <1>12, HeapAssumption DEF Index, TypeOK, DeadReset, FieldsAlive, NoFields, Objs
<1>13. CASE UNCHANGED vars
  BY <1>13 DEF vars, TypeOK, DeadReset, FieldsAlive, NoFields, Objs
<1>14. QED
  BY <1>1, <1>2, <1>3, <1>4, <1>5, <1>6, <1>7, <1>8, <1>9, <1>10, <1>11, <1>12, <1>13
  DEF Next

\* A variable that is given a block nobody else points to, of the kind its new
\* size asks for, keeps the ownership exclusive.
LEMMA NewOwner ==
  ASSUME TypeOK, Owned, NEW o \in Objs, NEW b \in Blocks, NEW size, NEW info,
         alive' = alive \cup {o},
         data' = [data EXCEPT ![o] = b],
         data_size' = [data_size EXCEPT ![o] = size],
         type_info' = [type_info EXCEPT ![o] = info],
         block'[b].kind = KindFor(size, info),
         \A p \in alive \ {o} : data[p] # b,
         \A p \in alive \ {o} : data[p] \in Blocks => block'[data[p]] = block[data[p]]
  PROVE  Owned'
<1>1. data'[o] = b /\ data_size'[o] = size /\ type_info'[o] = info
  BY DEF TypeOK
<1>2. \A p \in alive \ {o} : /\ p \in Objs /\ data'[p] = data[p]
                            /\ data_size'[p] = data_size[p] /\ type_info'[p] = type_info[p]
  BY DEF TypeOK
<1>3. \A p \in alive' : p = o \/ p \in alive \ {o}
  OBVIOUS
<1>4. \A p \in alive' : data_size'[p] # "zero" => data'[p] \in Blocks
  BY <1>1, <1>2, <1>3 DEF Owned
<1>5. \A p \in alive' : data'[p] \in Blocks =>
        block'[data'[p]].kind = KindFor(data_size'[p], type_info'[p])
  BY <1>1, <1>2, <1>3 DEF Owned
<1>6. \A p, q \in alive' : data'[p] = data'[q] /\ data'[p] \in Blocks => p = q
  BY <1>1, <1>2, <1>3 DEF Owned
<1>7. QED
  BY <1>4, <1>5, <1>6 DEF Owned

\* A variable whose pointer leads to no block owns nothing.
LEMMA NoOwner ==
  ASSUME TypeOK, Owned, NEW o \in Objs, NEW q \in {None, Wild},
         alive' = alive \cup {o}, o \notin alive,
         data' = [data EXCEPT ![o] = q],
         data_size' = data_size, data_size[o] = "zero",
         \A p \in alive : type_info'[p] = type_info[p],
         block' = block
  PROVE  Owned'
<1>1. data'[o] \notin Blocks
  BY HeapAssumption DEF TypeOK
<1>2. \A p \in alive : p \in Objs /\ data'[p] = data[p]
  BY DEF TypeOK
<1>3. QED
  BY <1>1, <1>2 DEF Owned

\* What free(data) of a variable leaves to the others.
LEMMA FreedOthers ==
  ASSUME TypeOK, Owned, NEW o \in alive, NEW p \in alive \ {o}, data[p] \in Blocks
  PROVE  /\ Freed(data[o])[data[p]] = block[data[p]]
         /\ Freed(data[o])[data[p]] # FreeBlock
         /\ block[data[p]] # FreeBlock
         /\ data[p] \notin Available
<1>1. data[p] # data[o]
  BY DEF Owned
<1>2. block[data[p]].kind # "free"
  BY KindForOK DEF Owned, TypeOK
<1>3. QED
  BY <1>1, <1>2, ContentsOK DEF Freed, Available

\* No variable points to a block the allocator has available.
LEMMA FreshBlock ==
  ASSUME TypeOK, Owned, \A c \in Blocks \ Available : block'[c] = block[c]
  PROVE  /\ \A p \in alive : data[p] \notin Available
         /\ \A p \in alive : data[p] \in Blocks => block'[data[p]] = block[data[p]]
<1>1. \A p \in alive : data[p] \in Blocks => block[data[p]].kind # "free"
  BY KindForOK DEF Owned, TypeOK
<1>2. QED
  BY <1>1 DEF Available, TypeOK

\* What an assignment to o, which frees its buffer, takes b for the new one and
\* may write the characters of a string to a free block, leaves to the others.
LEMMA OthersKept ==
  ASSUME TypeOK, Owned, NEW o \in alive, NEW b \in Blocks, Freed(data[o])[b] = FreeBlock,
         \A c \in Blocks \ {b} : block'[c] = Freed(data[o])[c] \/ c \in Available
  PROVE  /\ \A q \in alive \ {o} : data[q] # b
         /\ \A q \in alive \ {o} : data[q] \in Blocks => block'[data[q]] = block[data[q]]
<1>1. ASSUME NEW q \in alive \ {o}, data[q] \in Blocks
      PROVE  data[q] # b /\ block'[data[q]] = block[data[q]]
  <2>1. /\ Freed(data[o])[data[q]] = block[data[q]]
        /\ Freed(data[o])[data[q]] # FreeBlock
        /\ data[q] \notin Available
    BY <1>1, FreedOthers
  <2>2. QED
    BY <1>1, <2>1
<1>2. QED
  BY <1>1

\* What the assignment of a value writes.
LEMMA AssignedOK ==
  ASSUME TypeOK, NEW o \in alive, NEW x \in Values, AssignValue(o, x)
  PROVE  \E b \in Blocks, h \in Blocks :
           /\ Freed(data[o])[b] = FreeBlock /\ data' = [data EXCEPT ![o] = b]
           /\ h \in Available /\ h # b /\ block'[b] = NewValue(h, x)
           /\ x \in LongTexts => block'[h] = CharsBlock(x)
           /\ x \notin LongTexts => block'[h] = Freed(data[o])[h]
           /\ \A c \in Blocks \ {b, h} : block'[c] = Freed(data[o])[c]
<1>1. PICK t \in Available, b \in Blocks : \E h \in HomesOf(t, x) :
        /\ b \notin {t, h} /\ Freed(data[o])[b] = FreeBlock
        /\ block' = [Freed(data[o]) EXCEPT ![h] = IF h = t THEN @ ELSE CharsBlock(x),
                                           ![b] = NewValue(h, x)]
        /\ data' = [data EXCEPT ![o] = b]
  BY DEF AssignValue
<1>2. PICK h \in HomesOf(t, x) :
        /\ b \notin {t, h}
        /\ block' = [Freed(data[o]) EXCEPT ![h] = IF h = t THEN @ ELSE CharsBlock(x),
                                           ![b] = NewValue(h, x)]
  BY <1>1
<1>3. h \in Blocks /\ h \in Available /\ (x \in LongTexts <=> h # t)
  BY <1>2, StoredOK
<1>4. \A c \in Blocks : block'[c] = IF c = b THEN NewValue(h, x)
                                  ELSE IF c = h /\ h # t THEN CharsBlock(x)
                                  ELSE Freed(data[o])[c]
  BY <1>2, <1>3 DEF Freed
<1>5. /\ block'[b] = NewValue(h, x)
      /\ x \in LongTexts => block'[h] = CharsBlock(x)
      /\ x \notin LongTexts => block'[h] = Freed(data[o])[h]
      /\ \A c \in Blocks \ {b, h} : block'[c] = Freed(data[o])[c]
  BY <1>2, <1>3, <1>4
<1>6. Freed(data[o])[b] = FreeBlock /\ data' = [data EXCEPT ![o] = b] /\ h # b
  BY <1>1, <1>2
<1>7. QED
  BY <1>3, <1>5, <1>6

\* A variable that is given a value at a free block.
LEMMA StoredOwner ==
  ASSUME TypeOK, Owned, NEW o \in Objs, NEW x \in Values, NEW b \in Available,
         NEW h \in HomesOf(b, x),
         alive' = alive \cup {o},
         data' = [data EXCEPT ![o] = b],
         data_size' = [data_size EXCEPT ![o] = KindOf(x)],
         type_info' = [type_info EXCEPT ![o] = KindOf(x)],
         block' = Stored(b, h, x)
  PROVE  Owned'
<1>1. block'[b].kind = KindFor(KindOf(x), KindOf(x)) /\ b \in Blocks
  BY StoredOK, ContentsOK DEF KindFor
<1>2. \A c \in Blocks \ Available : block'[c] = block[c]
  BY StoredOK
<1>3. /\ \A p \in alive \ {o} : data[p] # b
      /\ \A p \in alive \ {o} : data[p] \in Blocks => block'[data[p]] = block[data[p]]
  BY <1>2, FreshBlock
<1>4. QED
  BY <1>1, <1>3, NewOwner

LEMMA OwnedNext == TypeOK /\ DeadReset /\ Owned /\ [Next]_vars => Owned'
<1> SUFFICES ASSUME TypeOK, DeadReset, Owned, [Next]_vars PROVE Owned'
  OBVIOUS
<1>1. ASSUME NEW v \in Vars, ConstructNil(v) \/ ConstructAuto(v) PROVE Owned'
  <2>1. /\ v \in Objs /\ v \notin alive /\ alive' = alive \cup {v}
        /\ data' = data /\ data_size' = data_size /\ type_info' = type_info /\ block' = block
    BY <1>1 DEF ConstructNil, ConstructAuto, Objs
  <2>2. data[v] = None /\ data_size[v] = "zero" /\ data' = [data EXCEPT ![v] = None]
    BY <2>1 DEF DeadReset, TypeOK
  <2>3. QED
    BY <2>1, <2>2, NoOwner
<1>2. ASSUME NEW v \in Vars, NEW size \in Sizes, ConstructBuffer(v, size) PROVE Owned'
  <2> DEFINE new == IF size = "zero" THEN EmptyBlock ELSE RawBlock
  <2>1. PICK b \in Available : block' = [block EXCEPT ![b] = new] /\ data' = [data EXCEPT ![v] = b]
    BY <1>2 DEF ConstructBuffer
  <2>2. /\ v \in Objs /\ v \notin alive /\ alive' = alive \cup {v} /\ b \in Blocks
        /\ data_size' = [data_size EXCEPT ![v] = size]
        /\ type_info' = [type_info EXCEPT ![v] = "void*"]
    BY <1>2 DEF ConstructBuffer, Objs, Available
  <2>3. block'[b].kind = KindFor(size, "void*")
    BY <2>1, <2>2, ContentsOK DEF TypeOK, KindFor
  <2>4. \A c \in Blocks \ Available : block'[c] = block[c]
    BY <2>1 DEF TypeOK
  <2> HIDE DEF new
  <2>5. /\ \A p \in alive \ {v} : data[p] # b
        /\ \A p \in alive \ {v} : data[p] \in Blocks => block'[data[p]] = block[data[p]]
    BY <2>4, FreshBlock
  <2>6. QED
    BY ZenonT(40), <2>1, <2>2, <2>3, <2>5, NewOwner
<1>3. ASSUME NEW v \in Vars, Destroy(v) PROVE Owned'
  <2>1. \A p \in alive' : /\ p \in alive \ {v} /\ p \in Objs /\ data'[p] = data[p]
                          /\ data_size'[p] = data_size[p] /\ type_info'[p] = type_info[p]
    BY <1>3 DEF Destroy, TypeOK
  <2>2. \A p \in alive' : data[p] \in Blocks => block'[data[p]] = block[data[p]]
    BY <1>3, <2>1, FreedOthers DEF Destroy
  <2>3. QED
    BY <2>1, <2>2 DEF Owned
<1>4. ASSUME NEW v \in Vars, NEW x \in Values, ConstructValue(v, x) PROVE Owned'
  <2>1. PICK b \in Available : \E h \in HomesOf(b, x) :
          block' = Stored(b, h, x) /\ data' = [data EXCEPT ![v] = b]
    BY <1>4 DEF ConstructValue
  <2>2. /\ v \in Objs /\ alive' = alive \cup {v}
        /\ data_size' = [data_size EXCEPT ![v] = KindOf(x)]
        /\ type_info' = [type_info EXCEPT ![v] = KindOf(x)]
    BY <1>4 DEF ConstructValue, Objs
  <2>3. QED
    BY <2>1, <2>2, StoredOwner
<1>5. ASSUME NEW v \in Vars, NEW o \in Objs, CopyConstruct(v, o) PROVE Owned'
  <2>1. /\ v \in Objs /\ v \notin alive /\ alive' = alive \cup {v} /\ o \in alive
        /\ data_size' = [data_size EXCEPT ![v] = data_size[o]] /\ data_size[o] \in Sizes
        /\ type_info' = [type_info EXCEPT ![v] = type_info[o]]
    BY <1>5 DEF CopyConstruct, Objs, TypeOK
  <2>2. CASE data_size[o] # "zero"
    <3>1. PICK b \in Available :
            /\ block' = [block EXCEPT ![b] = Bytes(o)]
            /\ data' = [data EXCEPT ![v] = b]
      BY <1>5, <2>2 DEF CopyConstruct
    <3>2. b \in Blocks /\ block'[b].kind = KindFor(data_size[o], type_info[o])
      BY <2>1, <3>1, BytesOK DEF TypeOK, Available
    <3>3. \A c \in Blocks \ Available : block'[c] = block[c]
      BY <3>1 DEF TypeOK
    <3>4. /\ \A p \in alive \ {v} : data[p] # b
          /\ \A p \in alive \ {v} : data[p] \in Blocks => block'[data[p]] = block[data[p]]
      BY <3>3, FreshBlock
    <3>5. QED
      BY <2>1, <3>1, <3>2, <3>4, NewOwner
  <2>3. CASE data_size[o] = "zero"
    <3>1. /\ block' = block
          /\ \E q \in {None, Wild} : data' = [data EXCEPT ![v] = q]
      BY <1>5, <2>3 DEF CopyConstruct
    <3>2. /\ data_size[v] = "zero" /\ data_size' = data_size
          /\ \A p \in alive : type_info'[p] = type_info[p]
      BY <2>1, <2>3 DEF DeadReset, TypeOK
    <3>3. QED
      BY <2>1, <3>1, <3>2, NoOwner
  <2>4. QED
    BY <2>2, <2>3
<1>6. ASSUME NEW o \in Objs, NEW p \in Objs, AssignOther(o, p) PROVE Owned'
  <2>1. PICK b \in Blocks :
          /\ Freed(data[o])[b] = FreeBlock
          /\ block' = [Freed(data[o]) EXCEPT ![b] = Bytes(p)]
          /\ data' = [data EXCEPT ![o] = b]
    BY <1>6 DEF AssignOther
  <2>2. /\ o \in alive /\ p \in alive /\ alive' = alive \cup {o}
        /\ data_size' = [data_size EXCEPT ![o] = data_size[p]]
        /\ type_info' = [type_info EXCEPT ![o] = type_info[p]]
    BY <1>6 DEF AssignOther
  <2>3. block'[b].kind = KindFor(data_size[p], type_info[p])
    BY <2>1, <2>2, BytesOK DEF Freed
  <2>4. \A c \in Blocks \ {b} : block'[c] = Freed(data[o])[c]
    BY <2>1 DEF Freed
  <2>5. /\ \A q \in alive \ {o} : data[q] # b
        /\ \A q \in alive \ {o} : data[q] \in Blocks => block'[data[q]] = block[data[q]]
    BY <2>1, <2>2, <2>4, OthersKept
  <2>6. QED
    BY <2>1, <2>2, <2>3, <2>5, NewOwner
<1>7. ASSUME NEW o \in Objs, NEW p \in Objs, Uinion(o, p) PROVE Owned'
  BY <1>7 DEF Uinion, Owned
<1>8. ASSUME NEW o \in Objs, AssignSelf(o) PROVE Owned'
  <2>1. PICK b \in Blocks :
          /\ Freed(data[o])[b] = FreeBlock
          /\ block' = [Freed(data[o]) EXCEPT ![b] = EmptyBlock]
          /\ data' = [data EXCEPT ![o] = b]
    BY <1>8 DEF AssignSelf
  <2>2. /\ o \in alive /\ alive' = alive \cup {o}
        /\ data_size' = [data_size EXCEPT ![o] = "zero"]
        /\ type_info' = [type_info EXCEPT ![o] = "NULL"]
    BY <1>8 DEF AssignSelf
  <2>3. block'[b].kind = KindFor("zero", "NULL")
    BY <2>1, ContentsOK DEF Freed, KindFor
  <2>4. \A c \in Blocks \ {b} : block'[c] = Freed(data[o])[c]
    BY <2>1 DEF Freed
  <2>5. /\ \A q \in alive \ {o} : data[q] # b
        /\ \A q \in alive \ {o} : data[q] \in Blocks => block'[data[q]] = block[data[q]]
    BY <2>1, <2>2, <2>4, OthersKept
  <2>6. QED
    BY <2>1, <2>2, <2>3, <2>5, NewOwner
<1>9. ASSUME NEW o \in Objs, FreeInvalid(o) PROVE Owned'
  BY <1>9 DEF FreeInvalid, Owned
<1>10. ASSUME NEW o \in Objs, NEW x \in Values, AssignValue(o, x) PROVE Owned'
  <2>1. /\ o \in alive /\ alive' = alive \cup {o}
        /\ data_size' = [data_size EXCEPT ![o] = KindOf(x)]
        /\ type_info' = [type_info EXCEPT ![o] = KindOf(x)]
    BY <1>10 DEF AssignValue
  <2>2. PICK b \in Blocks, h \in Blocks :
           /\ Freed(data[o])[b] = FreeBlock /\ data' = [data EXCEPT ![o] = b]
           /\ h \in Available /\ block'[b] = NewValue(h, x)
           /\ \A c \in Blocks \ {b, h} : block'[c] = Freed(data[o])[c]
    BY <1>10, <2>1, AssignedOK
  <2>3. block'[b].kind = KindFor(KindOf(x), KindOf(x))
    BY <2>2, ContentsOK DEF KindFor
  <2>4. /\ \A q \in alive \ {o} : data[q] # b
        /\ \A q \in alive \ {o} : data[q] \in Blocks => block'[data[q]] = block[data[q]]
    BY <2>1, <2>2, OthersKept
  <2>5. QED
    BY <2>1, <2>2, <2>3, <2>4, NewOwner
<1>11. ASSUME NEW o \in Objs, NEW x \in Numbers \cup Texts, GetAuto(o, x) PROVE Owned'
  <2>1. PICK b \in Available : block' = Stored(b, b, x) /\ data' = [data EXCEPT ![o] = b]
    BY <1>11 DEF GetAuto
  <2>2. /\ alive' = alive \cup {o} /\ x \in Values /\ b \in HomesOf(b, x)
        /\ data_size' = [data_size EXCEPT ![o] = KindOf(x)]
        /\ type_info' = [type_info EXCEPT ![o] = KindOf(x)]
    BY <1>11, HeapAssumption DEF GetAuto, HomesOf, Values
  <2>3. QED
    BY <2>1, <2>2, StoredOwner
<1>12. ASSUME NEW o \in Objs, NEW n \in Names, Index(o, n) PROVE Owned'
  <2>1. data' = data /\ data_size' = data_size /\ type_info' = type_info /\ block' = block
    BY <1>12 DEF Index
  <2>2. \A p \in alive' \ alive : data[p] = None /\ data_size[p] = "zero"
    BY <1>12 DEF Index, DeadReset, Objs
  <2>3. QED
    BY <2>1, <2>2, HeapAssumption DEF Owned
<1>13. CASE UNCHANGED vars
  BY <1>13 DEF vars, Owned
<1>14. QED
  BY <1>1, <1>2, <1>3, <1>4, <1>5, <1>6, <1>7, <1>8, <1>9, <1>10, <1>11, <1>12, <1>13
  DEF Next

\* A block changes only if it was free or belonged to a variable.
LEMMA ChangedWasOwned ==
  TypeOK /\ Owned /\ [Next]_vars =>
    \A b \in Blocks \ Available : block'[b] # block[b] => \E s \in alive : data[s] = b
<1> SUFFICES ASSUME TypeOK, Owned, [Next]_vars, NEW b \in Blocks \ Available, block'[b] # block[b]
             PROVE  \E s \in alive : data[s] = b
  OBVIOUS
<1>1. ASSUME NEW v \in Vars, ConstructNil(v) \/ ConstructAuto(v) PROVE \E s \in alive : data[s] = b
  BY <1>1, ContentsOK DEF ConstructNil, ConstructAuto, Available, TypeOK
<1>2. ASSUME NEW v \in Vars, NEW size \in Sizes, ConstructBuffer(v, size) PROVE \E s \in alive : data[s] = b
  BY <1>2, ContentsOK DEF ConstructBuffer, Available, TypeOK
<1>3. ASSUME NEW v \in Vars, Destroy(v) PROVE \E s \in alive : data[s] = b
  BY <1>3, ContentsOK DEF Destroy, Freed, Available, TypeOK
<1>4. ASSUME NEW v \in Vars, NEW x \in Values, ConstructValue(v, x) PROVE \E s \in alive : data[s] = b
  <2>1. PICK c \in Available : \E h \in HomesOf(c, x) : block' = Stored(c, h, x)
    BY <1>4 DEF ConstructValue
  <2>2. QED
    BY <2>1, StoredOK
<1>5. ASSUME NEW v \in Vars, NEW o \in Objs, CopyConstruct(v, o) PROVE \E s \in alive : data[s] = b
  BY <1>5, ContentsOK DEF CopyConstruct, Available, TypeOK
<1>6. ASSUME NEW o \in Objs, NEW p \in Objs, AssignOther(o, p) PROVE \E s \in alive : data[s] = b
  BY <1>6, ContentsOK DEF AssignOther, Freed, Available, TypeOK
<1>7. ASSUME NEW o \in Objs, NEW p \in Objs, Uinion(o, p) PROVE \E s \in alive : data[s] = b
  BY <1>7, ContentsOK DEF Uinion, Available, TypeOK
<1>8. ASSUME NEW o \in Objs, AssignSelf(o) PROVE \E s \in alive : data[s] = b
  BY <1>8, ContentsOK DEF AssignSelf, Freed, Available, TypeOK
<1>9. ASSUME NEW o \in Objs, FreeInvalid(o) PROVE \E s \in alive : data[s] = b
  BY <1>9, ContentsOK DEF FreeInvalid, Available, TypeOK
<1>10. ASSUME NEW o \in Objs, NEW x \in Values, AssignValue(o, x) PROVE \E s \in alive : data[s] = b
  <2>1. o \in alive
    BY <1>10 DEF AssignValue
  <2>2. PICK c \in Blocks, h \in Blocks :
          /\ Freed(data[o])[c] = FreeBlock /\ h \in Available
          /\ \A d \in Blocks \ {c, h} : block'[d] = Freed(data[o])[d]
    BY <1>10, <2>1, AssignedOK
  <2>3. QED
    BY <2>1, <2>2, ContentsOK DEF Freed, Available
<1>11. ASSUME NEW o \in Objs, NEW x \in Numbers \cup Texts, GetAuto(o, x) PROVE \E s \in alive : data[s] = b
  <2>1. PICK c \in Available : block' = Stored(c, c, x)
    BY <1>11 DEF GetAuto
  <2>2. x \in Values /\ c \in HomesOf(c, x)
    BY HeapAssumption DEF Values, HomesOf
  <2>3. QED
    BY <2>1, <2>2, StoredOK
<1>12. ASSUME NEW o \in Objs, NEW n \in Names, Index(o, n) PROVE \E s \in alive : data[s] = b
  BY <1>12, ContentsOK DEF Index, Available, TypeOK
<1>13. CASE UNCHANGED vars
  BY <1>13 DEF vars
<1>14. QED
  BY <1>1, <1>2, <1>3, <1>4, <1>5, <1>6, <1>7, <1>8, <1>9, <1>10, <1>11, <1>12, <1>13
  DEF Next

\* No variable's buffer is characters, so these are never freed.
LEMMA CharsStay ==
  ASSUME TypeOK, Owned, [Next]_vars, NEW b \in Blocks, block[b].kind = "chars"
  PROVE  block'[b] = block[b]
<1>1. \A s \in alive : data[s] # b
  BY KindForOK DEF Owned, TypeOK
<1>2. b \in Blocks \ Available
  BY DEF Available
<1>3. QED
  BY <1>1, <1>2, ChangedWasOwned

\* A string object is where it was, was copied from a block or is new.
Copied(b) == \E c \in Blocks : block'[b] = block[c]
New(b) ==
  \E h \in Blocks, x \in Values :
    block'[b] = NewValue(h, x) /\ (x \in LongTexts => block'[h].kind = "chars")

LEMMA Written ==
  ASSUME TypeOK, Owned, [Next]_vars, NEW b \in Blocks, block'[b].kind = "string"
  PROVE  Copied(b) \/ New(b)
<1> DEFINE Goal == Copied(b) \/ New(b)
<1>1. ASSUME NEW v \in Vars, ConstructNil(v) \/ ConstructAuto(v) PROVE Goal
  BY <1>1, ContentsOK DEF ConstructNil, ConstructAuto, Copied, TypeOK
<1>2. ASSUME NEW v \in Vars, NEW size \in Sizes, ConstructBuffer(v, size) PROVE Goal
  BY <1>2, ContentsOK DEF ConstructBuffer, Copied, TypeOK
<1>3. ASSUME NEW v \in Vars, Destroy(v) PROVE Goal
  BY <1>3, ContentsOK DEF Destroy, Freed, Copied, TypeOK
<1>4. ASSUME NEW v \in Vars, NEW x \in Values, ConstructValue(v, x) PROVE Goal
  <2>1. PICK c \in Available : \E h \in HomesOf(c, x) : block' = Stored(c, h, x)
    BY <1>4 DEF ConstructValue
  <2>2. QED
    BY <2>1, StoredOK, ContentsOK DEF Copied, New
<1>5. ASSUME NEW v \in Vars, NEW o \in Objs, CopyConstruct(v, o) PROVE Goal
  <2>1. o \in alive /\ (Bytes(o) = EmptyBlock \/ \E c \in Blocks : Bytes(o) = block[c])
    BY <1>5 DEF CopyConstruct, Bytes, Owned
  <2>2. block'[b] = block[b] \/ block'[b] = Bytes(o) \/ block'[b] = FreeBlock
    BY <1>5 DEF CopyConstruct, TypeOK
  <2>3. QED
    BY <2>1, <2>2, ContentsOK DEF Copied
<1>6. ASSUME NEW o \in Objs, NEW p \in Objs, AssignOther(o, p) PROVE Goal
  <2>1. p \in alive /\ (Bytes(p) = EmptyBlock \/ \E c \in Blocks : Bytes(p) = block[c])
    BY <1>6 DEF AssignOther, Freed, Bytes, Owned
  <2>2. block'[b] = block[b] \/ block'[b] = Bytes(p) \/ block'[b] = FreeBlock
    BY <1>6 DEF AssignOther, Freed, TypeOK
  <2>3. QED
    BY <2>1, <2>2, ContentsOK DEF Copied
<1>7. ASSUME NEW o \in Objs, NEW p \in Objs, Uinion(o, p) PROVE Goal
  BY <1>7, ContentsOK DEF Uinion, Copied, TypeOK
<1>8. ASSUME NEW o \in Objs, AssignSelf(o) PROVE Goal
  BY <1>8, ContentsOK DEF AssignSelf, Freed, Copied, TypeOK
<1>9. ASSUME NEW o \in Objs, FreeInvalid(o) PROVE Goal
  BY <1>9, ContentsOK DEF FreeInvalid, Copied, TypeOK
<1>10. ASSUME NEW o \in Objs, NEW x \in Values, AssignValue(o, x) PROVE Goal
  <2>1. o \in alive
    BY <1>10 DEF AssignValue
  <2>2. PICK c \in Blocks, h \in Blocks :
           /\ h \in Available /\ block'[c] = NewValue(h, x)
           /\ x \in LongTexts => block'[h] = CharsBlock(x)
           /\ x \notin LongTexts => block'[h] = Freed(data[o])[h]
           /\ \A d \in Blocks \ {c, h} : block'[d] = Freed(data[o])[d]
    BY <1>10, <2>1, AssignedOK
  <2>3. \A d \in Blocks : Freed(data[o])[d] = FreeBlock \/ Freed(data[o])[d] = block[d]
    BY DEF Freed
  <2>4. CASE b = c
    BY <2>2, <2>4, ContentsOK DEF New
  <2>5. CASE b # c
    BY <2>2, <2>3, <2>5, ContentsOK DEF Copied
  <2>6. QED
    BY <2>4, <2>5
<1>11. ASSUME NEW o \in Objs, NEW x \in Numbers \cup Texts, GetAuto(o, x) PROVE Goal
  <2>1. PICK c \in Available : block' = Stored(c, c, x)
    BY <1>11 DEF GetAuto
  <2>2. x \in Values /\ c \in HomesOf(c, x) /\ x \notin LongTexts
    BY HeapAssumption DEF Values, HomesOf
  <2>3. QED
    BY <2>1, <2>2, StoredOK DEF Copied, New
<1>12. ASSUME NEW o \in Objs, NEW n \in Names, Index(o, n) PROVE Goal
  BY <1>12, ContentsOK DEF Index, Copied, TypeOK
<1>13. CASE UNCHANGED vars
  BY <1>13 DEF vars, Copied
<1>14. QED
  BY <1>1, <1>2, <1>3, <1>4, <1>5, <1>6, <1>7, <1>8, <1>9, <1>10, <1>11, <1>12, <1>13
  DEF Next

LEMMA HomesNext == TypeOK /\ Owned /\ Homes /\ [Next]_vars => Homes'
<1> SUFFICES ASSUME TypeOK, Owned, Homes, [Next]_vars, NEW b \in Blocks, block'[b].kind = "string"
             PROVE  /\ block'[b].value \in Texts \cup LongTexts
                    /\ block'[b].home \in Blocks
                    /\ block'[b].value \in LongTexts => block'[block'[b].home].kind = "chars"
  BY DEF Homes
<1>1. CASE Copied(b)
  <2>1. PICK c \in Blocks : block'[b] = block[c]
    BY <1>1 DEF Copied
  <2>2. /\ block[c].value \in Texts \cup LongTexts
        /\ block[c].home \in Blocks
        /\ block[c].value \in LongTexts => block[block[c].home].kind = "chars"
    BY <2>1 DEF Homes
  <2>3. QED
    BY <2>1, <2>2, CharsStay
<1>2. CASE New(b)
  <2>1. PICK h \in Blocks, x \in Values :
          block'[b] = NewValue(h, x) /\ (x \in LongTexts => block'[h].kind = "chars")
    BY <1>2 DEF New
  <2>2. x \notin Numbers
    BY <2>1 DEF NewValue, KindOf
  <2>3. NewValue(h, x).value = x /\ NewValue(h, x).home = h
    BY <2>2 DEF NewValue
  <2>4. QED
    BY <2>1, <2>2, <2>3 DEF Values
<1>3. QED
  BY <1>1, <1>2, Written

LEMMA NextIInv == IInv /\ [Next]_vars => IInv'
  BY TypeNext, DeadNext, OwnedNext, FieldsNext, HomesNext DEF IInv

LEMMA Invariance == Spec => []IInv
  BY InitIInv, NextIInv, PTL DEF Spec

-----------------------------------------------------------------------------

\* Type correctness.
THEOREM TypeCorrect == Spec => []TypeOK
  BY Invariance, PTL DEF IInv

\* Ownership of the value buffers is exclusive, through every copy
\* constructor, assignment and destructor (mlVariable.cpp:60-105, 211-222).
THEOREM ExclusiveOwnership == Spec => []Owned
  BY Invariance, PTL DEF IInv

\* No field a variable points to is ever deleted, although copies share them.
THEOREM FieldsStayAlive == Spec => []FieldsAlive
  BY Invariance, PTL DEF IInv

\* get<T> returns exactly what was stored as a T, although a binary buffer may be
\* as long as a T: its type follows every value through copies and assignments
\* (mlVariable.inc:64-78, mlVariable.cpp:86-105, 211-222).
THEOREM GetIsSound == Spec => []GetSound
<1>1. IInv => GetSound
  <2> SUFFICES ASSUME IInv, NEW o \in alive, NEW T \in {"int", "string"}, GetCopies(o, T)
               PROVE  /\ data[o] \in Blocks
                      /\ GetReturns(o, T) <=> block[data[o]].kind = T
                      /\ ~GetReturns(o, T) => block[data[o]].kind = "raw"
    BY DEF GetSound
  <2>1. data_size[o] = T /\ data_size[o] # "zero" /\ type_info[o] \in {"void*", T}
    BY DEF GetCopies, IInv, TypeOK
  <2>2. data[o] \in Blocks /\ block[data[o]].kind = KindFor(T, type_info[o])
    BY <2>1 DEF IInv, Owned
  <2>3. QED
    BY <2>1, <2>2 DEF GetReturns, KindFor
<1>2. QED
  BY <1>1, Invariance, PTL

\* No buffer is freed twice: free() can only go wrong on the indeterminate
\* pointer of a copied empty variable.
THEOREM NoDoubleFree == Spec => UndefinedOnlyFromEmptyCopies
<1>1. IInv /\ [Next]_vars =>
        [health' # health => \E o \in alive : FreeInvalid(o) /\ data[o] = Wild]_vars
  <2> SUFFICES ASSUME IInv, Next, health' # health
               PROVE  \E o \in alive : FreeInvalid(o) /\ data[o] = Wild
    BY DEF vars
  <2>1. PICK o \in Objs : FreeInvalid(o)
    BY DEF Next, ConstructNil, ConstructAuto, ConstructBuffer, Destroy, ConstructValue,
           CopyConstruct, AssignOther, Uinion, AssignSelf, AssignValue, GetAuto, Index
  <2>2. o \in alive /\ ~CanFree(data[o]) /\ data[o] \in Blocks \cup {None, Wild}
    BY <2>1 DEF FreeInvalid, IInv, TypeOK
  <2>3. data[o] \in Blocks => block[data[o]].kind # "free"
    BY <2>2, KindForOK DEF IInv, Owned, TypeOK
  <2>4. data[o] = Wild
    BY <2>2, <2>3 DEF CanFree, Available
  <2>5. QED
    BY <2>1, <2>2, <2>4
<1>2. QED
  BY <1>1, Invariance, PTL DEF Spec, UndefinedOnlyFromEmptyCopies

\* The pointers and sizes of all variables but s are as they were, and no block
\* changed but that of s and free ones.
Untouched(s) ==
  /\ \A q \in (alive \cap alive') \ {s} : data'[q] = data[q] /\ data_size'[q] = data_size[q]
  /\ \A c \in Blocks \ Available : block'[c] # block[c] => data[s] = c

\* Every operation leaves all variables but one untouched.
LEMMA OneTouched == IInv /\ Next => \E s \in Objs : Untouched(s)
<1> SUFFICES ASSUME IInv, Next PROVE \E s \in Objs : Untouched(s)
  OBVIOUS
<1>0. TypeOK /\ Vars \subseteq Objs
  BY DEF IInv, Objs
<1>1. ASSUME NEW v \in Vars, ConstructNil(v) \/ ConstructAuto(v) PROVE \E s \in Objs : Untouched(s)
  <2>1. Untouched(v)
    BY <1>0, <1>1, ContentsOK DEF ConstructNil, ConstructAuto, Available, Untouched, TypeOK
  <2>2. QED
    BY <1>0, <2>1
<1>2. ASSUME NEW v \in Vars, NEW size \in Sizes, ConstructBuffer(v, size) PROVE \E s \in Objs : Untouched(s)
  <2>1. Untouched(v)
    BY <1>0, <1>2, ContentsOK DEF ConstructBuffer, Available, Untouched, TypeOK
  <2>2. QED
    BY <1>0, <2>1
<1>3. ASSUME NEW v \in Vars, Destroy(v) PROVE \E s \in Objs : Untouched(s)
  <2>1. Untouched(v)
    BY <1>0, <1>3, ContentsOK DEF Destroy, Freed, Available, Untouched, TypeOK
  <2>2. QED
    BY <1>0, <2>1
<1>4. ASSUME NEW v \in Vars, NEW x \in Values, ConstructValue(v, x) PROVE \E s \in Objs : Untouched(s)
  <2>1. PICK c \in Available : \E h \in HomesOf(c, x) : block' = Stored(c, h, x)
    BY <1>4 DEF ConstructValue
  <2>2. \A d \in Blocks \ Available : block'[d] = block[d]
    BY <1>0, <2>1, StoredOK
  <2>3. \A q \in alive \ {v} : data'[q] = data[q] /\ data_size'[q] = data_size[q]
    BY <1>0, <1>4 DEF ConstructValue, TypeOK
  <2>4. QED
    BY <1>0, <2>2, <2>3 DEF Untouched
<1>5. ASSUME NEW v \in Vars, NEW o \in Objs, CopyConstruct(v, o) PROVE \E s \in Objs : Untouched(s)
  <2>1. Untouched(v)
    BY <1>0, <1>5, ContentsOK DEF CopyConstruct, Available, Untouched, TypeOK
  <2>2. QED
    BY <1>0, <2>1
<1>6. ASSUME NEW o \in Objs, NEW p \in Objs, AssignOther(o, p) PROVE \E s \in Objs : Untouched(s)
  <2>1. Untouched(o)
    BY <1>0, <1>6, ContentsOK DEF AssignOther, Freed, Available, Untouched, TypeOK
  <2>2. QED
    BY <1>0, <2>1
<1>7. ASSUME NEW o \in Objs, NEW p \in Objs, Uinion(o, p) PROVE \E s \in Objs : Untouched(s)
  <2>1. Untouched(o)
    BY <1>0, <1>7, ContentsOK DEF Uinion, Available, Untouched, TypeOK
  <2>2. QED
    BY <1>0, <2>1
<1>8. ASSUME NEW o \in Objs, AssignSelf(o) PROVE \E s \in Objs : Untouched(s)
  <2>1. Untouched(o)
    BY <1>0, <1>8, ContentsOK DEF AssignSelf, Freed, Available, Untouched, TypeOK
  <2>2. QED
    BY <1>0, <2>1
<1>9. ASSUME NEW o \in Objs, FreeInvalid(o) PROVE \E s \in Objs : Untouched(s)
  <2>1. Untouched(o)
    BY <1>0, <1>9, ContentsOK DEF FreeInvalid, Available, Untouched, TypeOK
  <2>2. QED
    BY <1>0, <2>1
<1>10. ASSUME NEW o \in Objs, NEW x \in Values, AssignValue(o, x) PROVE \E s \in Objs : Untouched(s)
  <2>1. o \in alive /\ \A q \in alive \ {o} : data_size'[q] = data_size[q]
    BY <1>0, <1>10 DEF AssignValue, TypeOK
  <2>2. PICK c \in Blocks, h \in Blocks :
          /\ Freed(data[o])[c] = FreeBlock /\ data' = [data EXCEPT ![o] = c]
          /\ h \in Available
          /\ \A d \in Blocks \ {c, h} : block'[d] = Freed(data[o])[d]
    BY <1>0, <1>10, <2>1, AssignedOK
  <2>3. \A d \in Blocks \ Available : block'[d] # block[d] => data[o] = d
    BY <2>2, ContentsOK DEF Freed, Available
  <2>4. \A q \in alive \ {o} : data'[q] = data[q]
    BY <1>0, <2>2 DEF TypeOK
  <2>5. QED
    BY <2>1, <2>3, <2>4 DEF Untouched
<1>11. ASSUME NEW o \in Objs, NEW x \in Numbers \cup Texts, GetAuto(o, x) PROVE \E s \in Objs : Untouched(s)
  <2>1. PICK c \in Available : block' = Stored(c, c, x)
    BY <1>11 DEF GetAuto
  <2>2. x \in Values /\ c \in HomesOf(c, x)
    BY HeapAssumption DEF Values, HomesOf
  <2>3. \A d \in Blocks \ Available : block'[d] = block[d]
    BY <1>0, <2>1, <2>2, StoredOK
  <2>4. \A q \in alive \ {o} : data'[q] = data[q] /\ data_size'[q] = data_size[q]
    BY <1>0, <1>11 DEF GetAuto, TypeOK
  <2>5. QED
    BY <2>3, <2>4 DEF Untouched
<1>12. ASSUME NEW o \in Objs, NEW n \in Names, Index(o, n) PROVE \E s \in Objs : Untouched(s)
  <2>1. Untouched(o)
    BY <1>0, <1>12, ContentsOK DEF Index, Available, Untouched, TypeOK
  <2>2. QED
    BY <1>0, <2>1
<1>13. QED
  BY <1>1, <1>2, <1>3, <1>4, <1>5, <1>6, <1>7, <1>8, <1>9, <1>10, <1>11, <1>12 DEF Next

\* Variables are values but for short strings: an operation on one, a destructor
\* included, changes what another reads as only if that is a copy of a short
\* string, whose characters memcpy did not take along (mlVariable.cpp:90-94).
THEOREM ValuesIndependent == Spec => AliasedOnlyByTexts
<1>1. ASSUME IInv, Next, NEW s \in Objs, Untouched(s),
             NEW o \in (alive \cap alive') \ {s}, ReadFrom(o)' # ReadFrom(o)
      PROVE  /\ Bytes(o).value \in Texts /\ Bytes(o).home # data[o]
             /\ Bytes(o).home = data[s] \/ Bytes(o).home \in Available
  <2>1. data'[o] = data[o] /\ data_size'[o] = data_size[o]
    BY <1>1 DEF Untouched
  <2>2. data[o] \in Blocks => data[o] \notin Available /\ data[s] # data[o]
    BY <1>1, KindForOK, HeapAssumption DEF IInv, TypeOK, Owned, DeadReset, Available
  <2>3. data[o] \in Blocks => block'[data[o]] = block[data[o]]
    BY <1>1, <2>2 DEF Untouched
  <2>4. Bytes(o)' = Bytes(o)
    BY <1>1, <2>1, <2>3 DEF Bytes, IInv, Owned
  <2>5. Bytes(o).kind = "string"
    BY <1>1, <2>4 DEF ReadFrom
  <2> DEFINE h == Bytes(o).home
  <2>6. block'[h] # block[h]
    BY <1>1, <2>4, <2>5 DEF ReadFrom
  <2>7. data_size[o] # "zero" /\ data[o] \in Blocks /\ Bytes(o) = block[data[o]]
    BY <1>1, <2>5, ContentsOK DEF Bytes, IInv, Owned
  <2>8. /\ h \in Blocks /\ Bytes(o).value \in Texts \cup LongTexts
        /\ Bytes(o).value \in LongTexts => block[h].kind = "chars"
    BY <1>1, <2>5, <2>7 DEF IInv, Homes
  <2>9. Bytes(o).value \in Texts
    BY <1>1, <2>6, <2>8, CharsStay DEF IInv
  <2>10. h = data[s] \/ h \in Available
    BY <1>1, <2>6, <2>8 DEF Untouched
  <2>11. h # data[o]
    BY <2>3, <2>6, <2>7
  <2>12. QED
    BY <2>9, <2>10, <2>11
<1>2. IInv /\ [Next]_vars =>
        [\E s \in Objs : \A o \in (alive \cap alive') \ {s} :
           ReadFrom(o)' # ReadFrom(o) =>
             /\ Bytes(o).value \in Texts /\ Bytes(o).home # data[o]
             /\ Bytes(o).home = data[s] \/ Bytes(o).home \in Available]_vars
  BY <1>1, OneTouched DEF vars
<1>3. QED
  BY <1>2, Invariance, PTL DEF Spec, AliasedOnlyByTexts

-----------------------------------------------------------------------------

\* A string that memcpy has copied keeps its text as long as the variable whose
\* buffer holds the characters is neither assigned nor destroyed.
THEOREM TextStays == Spec => TextLostWithOriginal
<1>1. ASSUME IInv, Next, NEW o \in alive \cap alive',
             Readable(o), Bytes(o)' = Bytes(o), data'[o] = data[o], ~Readable(o)'
      PROVE  \E p \in alive \ {o} :
               /\ data[p] = Bytes(o).home
               /\ p \in alive' => data'[p] # data[p] \/ Bytes(p)' # Bytes(p)
  <2> DEFINE h == Bytes(o).home
  <2>0. Bytes(o).kind = "string" /\ data[o] \in Blocks /\ Bytes(o) = block[data[o]]
    BY <1>1, ContentsOK DEF Readable, Bytes, IInv, Owned
  <2>2. block'[h] # block[h]
    BY <1>1 DEF Readable
  <2>1. h \in Blocks /\ block[h].kind = "string"
    <3>1. /\ h \in Blocks /\ Bytes(o).value \in Texts \cup LongTexts
          /\ Bytes(o).value \in LongTexts => block[h].kind = "chars"
      BY <1>1, <2>0 DEF IInv, Homes
    <3>2. Bytes(o).value \in Texts
      BY <1>1, <2>2, <3>1, CharsStay DEF IInv
    <3>3. QED
      BY <1>1, <3>1, <3>2 DEF Readable
  <2>3. PICK s \in alive : data[s] = h
    BY <1>1, <2>1, <2>2, ChangedWasOwned DEF Available, IInv
  <2>4. \A p \in alive : data[p] = h => Bytes(p) = block[h]
    BY <1>1, <2>1 DEF IInv, Owned, Bytes, KindFor
  <2>5. Bytes(s)' = EmptyBlock \/ Bytes(s)' = block'[data'[s]]
    BY DEF Bytes
  <2>6. block[h] # EmptyBlock
    BY <2>1, ContentsOK
  <2>7. s # o
    BY <1>1, <2>2, <2>3, <2>4, <2>5, <2>6
  <2>8. data'[s] = data[s] => Bytes(s)' # Bytes(s)
    BY <2>2, <2>3, <2>4, <2>5, <2>6
  <2>9. QED
    BY <2>3, <2>7, <2>8
<1>2. IInv /\ [Next]_vars =>
        [\A o \in alive \cap alive' :
           Readable(o) /\ Bytes(o)' = Bytes(o) /\ data'[o] = data[o] /\ ~Readable(o)'
             => \E p \in alive \ {o} :
                  data[p] = Bytes(o).home /\ (p \in alive' => data'[p] # data[p] \/ Bytes(p)' # Bytes(p))]_vars
  BY <1>1 DEF vars
<1>3. QED
  BY <1>2, Invariance, PTL DEF Spec, TextLostWithOriginal

\* What is below a variable is alive.
LEMMA ReachedAlive == IInv => Reached \subseteq alive
<1> SUFFICES ASSUME IInv, NEW n \in Nodes, NEW v \in Vars \cap alive, Below(v, n) PROVE n \in alive
  BY DEF Reached
<1> DEFINE S == Nodes \cap alive
<1>1. \A o \in alive : Children(o) \subseteq S
  BY HeapAssumption DEF Children, IInv, TypeOK, FieldsAlive
<1>2. S \in SUBSET Nodes /\ Children(v) \subseteq S /\ \A m \in S : Children(m) \subseteq S
  BY <1>1
<1> HIDE DEF S
<1>3. n \in S
  BY <1>2 DEF Below
<1>4. QED
  BY <1>3 DEF S

\* Memory is lost because it is of length 0 and its variable destroyed, because it
\* was a default value of an automatic variable that is read again, because it is
\* the characters of a long string, or in a field that no variable leads to any
\* more (mlVariable.cpp:60-67, 294-306, mlVariable.inc:58-62).
THEOREM LeaksKnown == Spec => LeaksAccounted
<1>1. ASSUME IInv, Next, NEW b \in Lost' \ Lost, block'[b].kind # "chars",
             \A s \in alive' : data'[s] # b
      PROVE  \/ block[b].kind = "empty"
             \/ \E s \in alive : data[s] = b /\ type[s] = "NILL" /\ is_auto[s] = "yes"
  <2> SUFFICES ASSUME ~(\/ block[b].kind = "empty"
                        \/ \E s \in alive : data[s] = b /\ type[s] = "NILL" /\ is_auto[s] = "yes")
               PROVE  FALSE
    OBVIOUS
  <2>1. TypeOK /\ Owned /\ b \in Blocks /\ block'[b].kind # "free"
    BY <1>1 DEF Lost, Available, IInv
  <2>2. block[b].kind = "free" \/ \E s \in alive : data[s] = b
    <3>1. ASSUME block[b].kind # "free" PROVE \E s \in alive : data[s] = b
      <4>1. PICK o \in Reached : Holds(o, b)
        BY <2>1, <3>1 DEF Lost, Available
      <4>2. o \in alive
        BY <1>1, <4>1, ReachedAlive
      <4>3. CASE data[o] = b
        BY <4>2, <4>3
      <4>4. CASE Bytes(o).kind = "string" /\ Bytes(o).value \in LongTexts /\ Bytes(o).home = b
        <5>1. Bytes(o) = block[data[o]] /\ data[o] \in Blocks
          BY <4>2, <4>4, <2>1, ContentsOK DEF Bytes, Owned
        <5>2. block[b].kind = "chars"
          BY <1>1, <4>4, <5>1 DEF IInv, Homes
        <5>3. QED
          BY <1>1, <2>1, <5>2, CharsStay
      <4>5. QED
        BY <4>1, <4>3, <4>4 DEF Holds
    <3>2. QED
      BY <3>1
  <2>a1. ASSUME NEW v \in Vars, ConstructNil(v) \/ ConstructAuto(v) PROVE FALSE
    BY <1>1, <2>1, <2>2, <2>a1, ContentsOK DEF ConstructNil, ConstructAuto, Available, TypeOK, Owned, KindFor, Objs, CanFree
  <2>a2. ASSUME NEW v \in Vars, NEW size \in Sizes, ConstructBuffer(v, size) PROVE FALSE
    BY <1>1, <2>1, <2>2, <2>a2, ContentsOK DEF ConstructBuffer, Available, TypeOK, Owned, KindFor, Objs, CanFree
  <2>a3. ASSUME NEW v \in Vars, Destroy(v) PROVE FALSE
    BY <1>1, <2>1, <2>2, <2>a3, ContentsOK DEF Destroy, Freed, Available, TypeOK, Owned, KindFor, Objs, CanFree
  <2>a4. ASSUME NEW v \in Vars, NEW x \in Values, ConstructValue(v, x) PROVE FALSE
    <3>1. PICK c \in Available : \E h \in HomesOf(c, x) :
            block' = Stored(c, h, x) /\ data' = [data EXCEPT ![v] = c]
      BY <2>a4 DEF ConstructValue
    <3>2. v \in Objs /\ v \notin alive /\ alive' = alive \cup {v} /\ data' \in [Objs -> Blocks \cup {None, Wild}]
      BY <1>1, <2>1, <2>a4, TypeNext DEF ConstructValue, Objs, TypeOK
    <3>3. data'[v] = c /\ \A s \in alive : data'[s] = data[s]
      BY <2>1, <3>1, <3>2 DEF TypeOK
    <3>4. block[b].kind = "free" /\ b # c
      BY <1>1, <2>2, <3>2, <3>3
    <3>5. block'[b] = block[b] \/ block'[b].kind = "chars"
      BY <2>1, <3>1, <3>4, StoredOK, ContentsOK
    <3>6. QED
      BY <1>1, <2>1, <3>4, <3>5
  <2>a5. ASSUME NEW v \in Vars, NEW o \in Objs, CopyConstruct(v, o) PROVE FALSE
    BY <1>1, <2>1, <2>2, <2>a5, ContentsOK DEF CopyConstruct, Available, TypeOK, Owned, KindFor, Objs, CanFree
  <2>a6. ASSUME NEW o \in Objs, NEW p \in Objs, AssignOther(o, p) PROVE FALSE
    BY <1>1, <2>1, <2>2, <2>a6, ContentsOK DEF AssignOther, Freed, Available, TypeOK, Owned, KindFor, Objs, CanFree
  <2>a7. ASSUME NEW o \in Objs, NEW p \in Objs, Uinion(o, p) PROVE FALSE
    BY <1>1, <2>1, <2>2, <2>a7, ContentsOK DEF Uinion, Available, TypeOK, Owned, KindFor, Objs, CanFree
  <2>a8. ASSUME NEW o \in Objs, AssignSelf(o) PROVE FALSE
    BY <1>1, <2>1, <2>2, <2>a8, ContentsOK DEF AssignSelf, Freed, Available, TypeOK, Owned, KindFor, Objs, CanFree
  <2>a9. ASSUME NEW o \in Objs, FreeInvalid(o) PROVE FALSE
    BY <1>1, <2>1, <2>2, <2>a9, ContentsOK DEF FreeInvalid, Available, TypeOK, Owned, KindFor, Objs, CanFree
  <2>a10. ASSUME NEW o \in Objs, NEW x \in Values, AssignValue(o, x) PROVE FALSE
    <3>1. o \in alive /\ alive' = alive
      BY <2>a10 DEF AssignValue
    <3>2. PICK c \in Blocks, h \in Blocks :
            /\ data' = [data EXCEPT ![o] = c] /\ h \in Available
            /\ x \in LongTexts => block'[h] = CharsBlock(x)
            /\ x \notin LongTexts => block'[h] = Freed(data[o])[h]
            /\ \A d \in Blocks \ {c, h} : block'[d] = Freed(data[o])[d]
      BY <2>1, <2>a10, <3>1, AssignedOK
    <3>3. o \in Objs /\ data'[o] = c /\ \A s \in alive \ {o} : data'[s] = data[s]
      BY <2>1, <3>1, <3>2 DEF TypeOK
    <3>4. b # c
      BY <1>1, <3>1, <3>3
    <3>5. block'[b] = Freed(data[o])[b]
      <4>1. CharsBlock(x).kind = "chars"
        BY <2>1, ContentsOK
      <4>2. QED
        BY <1>1, <2>1, <3>2, <3>4, <4>1
    <3>6. b # data[o] /\ block'[b] = block[b]
      BY <2>1, <3>5, ContentsOK DEF Freed
    <3>7. QED
      BY <1>1, <2>1, <2>2, <3>1, <3>3, <3>6
  <2>a11. ASSUME NEW o \in Objs, NEW x \in Numbers \cup Texts, GetAuto(o, x) PROVE FALSE
    <3>1. /\ o \in alive /\ alive' = alive /\ type[o] = "NILL" /\ is_auto[o] = "yes"
          /\ x \in Values /\ \A c \in Available : c \in HomesOf(c, x)
      BY <2>a11, HeapAssumption DEF GetAuto, Values, HomesOf
    <3>2. PICK c \in Available : block' = Stored(c, c, x) /\ data' = [data EXCEPT ![o] = c]
      BY <2>a11 DEF GetAuto
    <3>3. data'[o] = c /\ \A s \in alive \ {o} : data'[s] = data[s]
      BY <2>1, <3>1, <3>2 DEF TypeOK
    <3>4. b # c /\ block[b].kind = "free"
      BY <1>1, <2>2, <3>1, <3>3
    <3>5. block'[b] = block[b]
      BY <2>1, <3>1, <3>2, <3>4, StoredOK
    <3>6. QED
      BY <2>1, <3>4, <3>5
  <2>a12. ASSUME NEW o \in Objs, NEW n \in Names, Index(o, n) PROVE FALSE
    BY <1>1, <2>1, <2>2, <2>a12, ContentsOK DEF Index, Available, TypeOK, Owned, KindFor, Objs, CanFree
  <2>3. QED
    BY <1>1, <2>a1, <2>a2, <2>a3, <2>a4, <2>a5, <2>a6, <2>a7, <2>a8, <2>a9, <2>a10, <2>a11, <2>a12 DEF Next
<1>2. ASSUME NEW b \in Lost', NEW n \in alive', data'[n] = b, TypeOK'
      PROVE  n \in (Nodes \cap alive') \ Reached'
  <2>1. n \notin Reached'
    BY <1>2 DEF Lost, Holds
  <2>2. n \in Objs
    BY <1>2 DEF TypeOK
  <2>3. QED
    BY <2>1, <2>2 DEF Reached, Objs
<1>3. IInv /\ [Next]_vars =>
        [\A b \in Lost' \ Lost :
           \/ block[b].kind = "empty"
           \/ \E o \in alive : data[o] = b /\ type[o] = "NILL" /\ is_auto[o] = "yes"
           \/ block'[b].kind = "chars"
           \/ \E n \in (Nodes \cap alive') \ Reached' : data'[n] = b]_vars
  BY <1>1, <1>2, NextIInv DEF vars, IInv
<1>4. QED
  BY <1>3, Invariance, PTL DEF Spec, LeaksAccounted

-----------------------------------------------------------------------------

LEMMA ChildrenAreNodes == TypeOK => \A o \in Objs : Children(o) \subseteq Nodes
  BY DEF TypeOK, Children

\* What lies below an object is one of its fields or lies below one.
LEMMA BelowThroughChild ==
  ASSUME TypeOK, NEW o \in Objs, NEW d \in Nodes
  PROVE  Below(o, d) <=> \E c \in Children(o) : c = d \/ Below(c, d)
<1>0. \A n \in Objs : Children(n) \subseteq Nodes
  BY ChildrenAreNodes
<1>1. ASSUME NEW n \in Objs, NEW c \in Children(n), c = d \/ Below(c, d) PROVE Below(n, d)
  BY <1>0, <1>1 DEF Below, Objs
<1>2. ASSUME Below(o, d), \A c \in Children(o) : c # d /\ ~Below(c, d) PROVE FALSE
  <2> DEFINE S == {n \in Nodes : n # d /\ ~Below(n, d)}
  <2>1. Children(o) \subseteq S
    BY <1>0, <1>2
  <2>2. ASSUME NEW n \in S PROVE Children(n) \subseteq S
    <3>1. n \in Objs /\ ~Below(n, d)
      BY DEF Objs
    <3>2. \A c \in Children(n) : c \in Nodes /\ c # d /\ ~Below(c, d)
      BY <1>0, <1>1, <3>1
    <3>3. QED
      BY <3>2
  <2>3. S \in SUBSET Nodes /\ d \notin S
    OBVIOUS
  <2> HIDE DEF S
  <2>4. QED
    BY <1>2, <2>1, <2>2, <2>3 DEF Below
<1>3. QED
  BY <1>1, <1>2

\* Giving a field of src the fields of src closes a cycle.
LEMMA AssignmentCloses ==
  ASSUME TypeOK, NEW dst \in Nodes, NEW src \in Objs, Below(src, dst),
         fields' = [fields EXCEPT ![dst] = fields[src]]
  PROVE  Cyclic'
<1> DEFINE S == {n \in Nodes : n = dst \/ Below(n, dst)}
<1>0. Nodes \subseteq Objs
  BY DEF Objs
<1>1. \A n \in Nodes : n # dst => Children(n)' = Children(n)
  BY <1>0 DEF TypeOK, Children
<1>2. Children(dst)' = Children(src)
  BY <1>0 DEF TypeOK, Children
<1>3. \A o \in Objs : Below(o, dst) => Children(o) \cap S # {}
  BY ChildrenAreNodes, BelowThroughChild
<1>4. \A n \in S : Children(n)' \cap S # {}
  <2>1. Children(dst)' \cap S # {}
    BY <1>2, <1>3
  <2>2. ASSUME NEW n \in S, n # dst PROVE Children(n)' \cap S # {}
    BY <1>0, <1>1, <1>3, <2>2
  <2>3. QED
    BY <2>1, <2>2
<1>5. S \in (SUBSET Nodes) \ {{}}
  OBVIOUS
<1> HIDE DEF S
<1>6. QED
  BY <1>4, <1>5 DEF Cyclic

\* Where no cycle was, only that closes one.
LEMMA OnlyAssignmentCloses ==
  ASSUME TypeOK, NEW dst \in Objs, NEW src \in Objs, ~Cyclic, Cyclic',
         fields' = [fields EXCEPT ![dst] = fields[src]]
  PROVE  dst \in Nodes /\ Below(src, dst)
<1>1. PICK S \in (SUBSET Nodes) \ {{}} : \A n \in S : Children(n)' \cap S # {}
  BY DEF Cyclic
<1>2. \A n \in Nodes : n # dst => Children(n)' = Children(n)
  BY DEF TypeOK, Children, Objs
<1>3. Children(dst)' = Children(src)
  BY DEF TypeOK, Children, Objs
<1>4. dst \in S
  BY <1>1, <1>2 DEF Cyclic
<1>5. ASSUME NEW R \in SUBSET Nodes, Children(src) \subseteq R, \A n \in R : Children(n) \subseteq R,
             dst \notin R
      PROVE  FALSE
  <2>1. S \cap R # {} /\ S \cap R \in SUBSET Nodes
    BY <1>1, <1>3, <1>4, <1>5
  <2>2. \A n \in S \cap R : Children(n) \cap (S \cap R) # {}
    BY <1>1, <1>2, <1>5
  <2>3. QED
    BY <2>1, <2>2 DEF Cyclic
<1>6. QED
  BY <1>4, <1>5 DEF Below

\* Nothing closes a cycle that gives no node another node with fields.
LEMMA NothingCloses ==
  ASSUME ~Cyclic,
         \A n \in Nodes : \A c \in Children(n)' : c \in Children(n) \/ (c \in Nodes => Children(c)' = {})
  PROVE  ~Cyclic'
<1> SUFFICES ASSUME NEW S \in (SUBSET Nodes) \ {{}}, \A n \in S : Children(n)' \cap S # {}
             PROVE  FALSE
  BY DEF Cyclic
<1>1. \A n \in S : Children(n) \cap S # {}
  OBVIOUS
<1>2. QED
  BY <1>1 DEF Cyclic

\* A variable comes to contain itself by an assignment to one of its own
\* fields, and by nothing else: copies that share fields do not do it, however
\* deep they share them (mlVariable.cpp:205-222, 290-303).
THEOREM CyclesExplained == Spec => CyclesFromOwnFields
<1>1. ASSUME IInv, Next, ~Cyclic, NEW dst \in Nodes, NEW src \in alive,
             Below(src, dst) /\ fields' = [fields EXCEPT ![dst] = fields[src]]
      PROVE  Cyclic'
  BY <1>1, AssignmentCloses DEF IInv, TypeOK
<1>2. ASSUME IInv, Next, ~Cyclic, Cyclic'
      PROVE  \E dst \in Nodes, src \in alive :
               Below(src, dst) /\ fields' = [fields EXCEPT ![dst] = fields[src]]
  <2>1. ASSUME NEW dst \in Objs, NEW src \in alive, fields' = [fields EXCEPT ![dst] = fields[src]]
        PROVE  \E d \in Nodes, r \in alive : Below(r, d) /\ fields' = [fields EXCEPT ![d] = fields[r]]
    BY <1>2, <2>1, OnlyAssignmentCloses DEF IInv, TypeOK
  <2>2. ASSUME \A n \in Nodes : fields'[n] = fields[n] \/ fields'[n] = NoFields PROVE FALSE
    <3>1. \A n \in Nodes : Children(n)' \subseteq Children(n)
      BY <2>2 DEF Children, NoFields
    <3>2. QED
      BY <1>2, <3>1, NothingCloses
  <2>3. ASSUME NEW v \in Vars, ConstructNil(v) \/ ConstructAuto(v) PROVE FALSE
    BY <2>2, <2>3 DEF ConstructNil, ConstructAuto
  <2>4. ASSUME NEW v \in Vars, Destroy(v) PROVE FALSE
    BY <1>2, <2>2, <2>4, HeapAssumption DEF Destroy, Objs, IInv, TypeOK
  <2>5. ASSUME NEW v \in Vars, NEW x \in Values, ConstructValue(v, x) PROVE FALSE
    BY <2>2, <2>5 DEF ConstructValue
  <2>6. ASSUME NEW v \in Vars, NEW o \in Objs, CopyConstruct(v, o) PROVE FALSE
    BY <1>2, <2>2, <2>6, HeapAssumption DEF CopyConstruct, Objs, IInv, TypeOK
  <2>7. ASSUME NEW o \in Objs, NEW p \in Objs, AssignOther(o, p) \/ Uinion(o, p)
        PROVE  \E d \in Nodes, r \in alive : Below(r, d) /\ fields' = [fields EXCEPT ![d] = fields[r]]
    BY <2>1, <2>7 DEF AssignOther, Uinion
  <2>8. ASSUME NEW o \in Objs, AssignSelf(o) \/ FreeInvalid(o) PROVE FALSE
    BY <2>2, <2>8 DEF AssignSelf, FreeInvalid
  <2>9. ASSUME NEW o \in Objs, NEW x \in Values, AssignValue(o, x) PROVE FALSE
    BY <1>2, <2>2, <2>9 DEF AssignValue, Objs, IInv, TypeOK
  <2>10. ASSUME NEW o \in Objs, NEW x \in Numbers \cup Texts, GetAuto(o, x) PROVE FALSE
    BY <2>2, <2>10 DEF GetAuto
  <2>11. ASSUME NEW o \in Objs, NEW n \in Names, Index(o, n) PROVE FALSE
    <3>1. fields' # fields
      BY <1>2, <2>2
    <3>2. PICK new \in Nodes \ alive : fields' = [fields EXCEPT ![o][n] = new]
      BY <2>11, <3>1 DEF Index
    <3>3. o # new /\ fields[new] = NoFields /\ new \in Objs
      BY <1>2, <2>11, <3>2 DEF Index, IInv, DeadReset, Objs
    <3>4. Children(new)' = {}
      BY <1>2, <3>2, <3>3 DEF Children, NoFields, IInv, TypeOK
    <3>5. \A m \in Nodes : \A c \in Children(m)' : c \in Children(m) \/ c = new
      BY <1>2, <3>2 DEF Children, IInv, TypeOK, Objs
    <3>6. QED
      BY <1>2, <3>4, <3>5, NothingCloses
  <2>12. ASSUME NEW v \in Vars, NEW size \in Sizes, ConstructBuffer(v, size) PROVE FALSE
    BY <2>2, <2>12 DEF ConstructBuffer
  <2>13. QED
    BY <1>2, <2>3, <2>4, <2>5, <2>6, <2>7, <2>8, <2>9, <2>10, <2>11, <2>12 DEF Next
<1>3. IInv /\ [Next]_vars =>
        [~Cyclic => (Cyclic' <=>
           \E dst \in Nodes, src \in alive :
             Below(src, dst) /\ fields' = [fields EXCEPT ![dst] = fields[src]])]_vars
  BY <1>1, <1>2 DEF vars
<1>4. QED
  BY <1>3, Invariance, PTL DEF Spec, CyclesFromOwnFields
=============================================================================
