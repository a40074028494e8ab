---------------------------- MODULE ClassRegistry ----------------------------
(***************************************************************************)
(* The class registry of mlInterpreter: one static map for all             *)
(* interpreters, from C++ types to class variables, whose fields are the   *)
(* methods.  Variables are copied with the addresses of their fields, so   *)
(* that a class, what the host got from registering it and its instances   *)
(* share the fields that exist when they are copied, and no later ones.    *)
(***************************************************************************)
EXTENDS Integers, Sequences

CONSTANTS
  Types,     \* C++ types
  Names,     \* of fields
  DataName,  \* "_binary_data"
  Methods,   \* values of methods, and what else the host assigns to a field
  Vars,      \* the host's variables: instances, and classes it got back
  None,      \* what a variable holds before it is initialised
  MaxFields, \* bounds the fields that are allocated and ...
  MaxClasses \* ... how often a class is registered, for TLC

ASSUME ClassAssumption ==
  /\ DataName \in Names
  /\ None \notin Types
  /\ MaxFields \in Nat /\ MaxClasses \in Nat

Objects == [object : Types]  \* the pointers that constructors store

VARIABLES
  heap,       \* the value of every field that was ever allocated; none is freed
  registry,   \* class_registry: the fields of each type's class variable
  held,       \* the fields of the host's variables
  generation, \* history: how often a type's class was registered
  type,       \* history: the type of which a variable is an instance or class
  born,       \* history: in which generation of it the variable was made
  inherited   \* history: the names of the fields it had then

vars == <<heap, registry, held, generation, type, born, inherited>>

NoFields == <<>>

Addresses == 1 .. Len(heap)
New == Len(heap) + 1

\* v[name] makes a field of v unless it has one.
WithField(fields, n) ==
  IF n \in DOMAIN fields THEN fields
  ELSE [m \in DOMAIN fields \cup {n} |-> IF m = n THEN New ELSE fields[m]]

\* v[name] = x
Stored(fields, n, x) ==
  IF n \in DOMAIN fields THEN [heap EXCEPT ![fields[n]] = x] ELSE Append(heap, x)

Room == Len(heap) < MaxFields

\* v is initialised with the fields of a class.
Becomes(v, t, fields) ==
  /\ held' = [held EXCEPT ![v] = fields]
  /\ type' = [type EXCEPT ![v] = t]
  /\ inherited' = [inherited EXCEPT ![v] = DOMAIN fields]

-----------------------------------------------------------------------------

Init ==
  /\ heap = <<>>
  /\ registry = [t \in Types |-> NoFields]
  /\ held = [v \in Vars |-> NoFields]
  /\ generation = [t \in Types |-> 0]
  /\ type = [v \in Vars |-> None]
  /\ born = [v \in Vars |-> 0]
  /\ inherited = [v \in Vars |-> {}]

\* Mutant: the class keeps its methods.
ClassRegisterKeeping(t, v) ==
  /\ generation[t] < MaxClasses
  /\ generation' = [generation EXCEPT ![t] = @ + 1]
  /\ Becomes(v, t, registry[t])
  /\ born' = [born EXCEPT ![v] = generation[t] + 1]
  /\ UNCHANGED <<heap, registry>>

\* class_register: an empty class replaces the type's class, whichever
\* interpreter registered it, and a copy is returned.
ClassRegister(t, v) ==
  /\ generation[t] < MaxClasses
  /\ registry' = [registry EXCEPT ![t] = NoFields]
  /\ generation' = [generation EXCEPT ![t] = @ + 1]
  /\ Becomes(v, t, NoFields)
  /\ born' = [born EXCEPT ![v] = generation[t] + 1]
  /\ UNCHANGED heap

\* method_register: a field of the class; a copy of the class is returned.
MethodRegister(t, n, m, v) ==
  /\ n \in DOMAIN registry[t] \/ Room
  /\ heap' = Stored(registry[t], n, m)
  /\ registry' = [registry EXCEPT ![t] = WithField(@, n)]
  /\ Becomes(v, t, WithField(registry[t], n))
  /\ born' = [born EXCEPT ![v] = generation[t]]
  /\ UNCHANGED generation

\* Mutant: the fields of the class are added to those of the object.
ConstructAdding(t, v) ==
  /\ Room
  /\ heap' = Append(heap, [object |-> t])
  /\ Becomes(v, t, [k \in DOMAIN registry[t] \cup {DataName} |->
                      IF k \in DOMAIN registry[t] THEN registry[t][k] ELSE New])
  /\ born' = [born EXCEPT ![v] = generation[t]]
  /\ UNCHANGED <<registry, generation>>

\* constructor_callback: a field for the new object, and then the fields of the
\* class instead of it.
Construct(t, v) ==
  /\ Room
  /\ heap' = Append(heap, [object |-> t])
  /\ Becomes(v, t, registry[t])
  /\ born' = [born EXCEPT ![v] = generation[t]]
  /\ UNCHANGED <<registry, generation>>

\* Mutant: assigning to a field gives the variable a field of its own.
AssignFieldOwn(v, n, m) ==
  /\ type[v] # None
  /\ Room
  /\ heap' = Append(heap, m)
  /\ held' = [held EXCEPT ![v] = [k \in DOMAIN @ \cup {n} |-> IF k = n THEN New ELSE @[k]]]
  /\ UNCHANGED <<registry, generation, type, born, inherited>>

\* The host assigns to a field of a variable.
AssignField(v, n, m) ==
  /\ type[v] # None
  /\ n \in DOMAIN held[v] \/ Room
  /\ heap' = Stored(held[v], n, m)
  /\ held' = [held EXCEPT ![v] = WithField(@, n)]
  /\ UNCHANGED <<registry, generation, type, born, inherited>>

Next ==
  \/ \E t \in Types, v \in Vars : ClassRegister(t, v) \/ Construct(t, v)
  \/ \E t \in Types, n \in Names, m \in Methods, v \in Vars : MethodRegister(t, n, m, v)
  \/ \E v \in Vars, n \in Names, m \in Methods : AssignField(v, n, m)

Spec == Init /\ [][Next]_vars

-----------------------------------------------------------------------------

Fields == UNION {[N -> Addresses] : N \in SUBSET Names}

\* The type invariant.
TypeOK ==
  /\ heap \in Seq(Methods \cup Objects)
  /\ registry \in [Types -> Fields] /\ held \in [Vars -> Fields]
  /\ generation \in [Types -> Nat] /\ born \in [Vars -> Nat]
  /\ type \in [Vars -> Types \cup {None}]
  /\ inherited \in [Vars -> SUBSET Names]
  /\ \A v \in Vars : inherited[v] \subseteq DOMAIN held[v]

\* What a field of a variable reads as.
Sees(v, n) == heap[held[v][n]]

\* The object for which an instance was constructed is lost as soon as the
\* constructor returns: no field of a class or a variable leads to it.
ObjectsLost ==
  /\ \A t \in Types : \A n \in DOMAIN registry[t] : heap[registry[t][n]] \in Methods
  /\ \A v \in Vars : \A n \in DOMAIN held[v] : Sees(v, n) \in Methods

Siblings(u, v) == type[u] # None /\ type[u] = type[v] /\ born[u] = born[v]

\* Variables made from one class agree for good on the fields they both
\* inherited, whoever assigns to them, and with the class until it is
\* registered anew.
SiblingsAgree ==
  \A v \in Vars :
    /\ \A u \in Vars : Siblings(u, v) =>
         \A n \in inherited[u] \cap inherited[v] : Sees(u, n) = Sees(v, n)
    /\ type[v] # None /\ born[v] = generation[type[v]] =>
         \A n \in inherited[v] :
           n \in DOMAIN registry[type[v]] /\ heap[registry[type[v]][n]] = Sees(v, n)

\* A step changes what is seen by variables of one type and generation only,
\* the variable aside that it initialises; and it gives no other variable a
\* field: what is registered later never reaches an instance.
Only(w, t, g) ==
  \A v \in Vars \ {w} :
    /\ DOMAIN held'[v] = DOMAIN held[v]
    /\ <<type[v], born[v]>> # <<t, g>> =>
         \A n \in DOMAIN held[v] : Sees(v, n)' = Sees(v, n)

StayInClass == \E w \in Vars, t \in Types \cup {None}, g \in 0 .. MaxClasses : Only(w, t, g)

StepsStayInClass == [][StayInClass]_vars
=============================================================================
