-------------------------- MODULE InterpreterProofs --------------------------
(***************************************************************************)
(* Proofs about the parts of mlInterpreter.                                *)
(*                                                                         *)
(* ClassRegistry: which variables share which fields, for any number of    *)
(* types, names, methods and variables.                                    *)
(*                                                                         *)
(* FileSearch: which script exec can run, for any path, files and names,   *)
(* whatever is created and removed meanwhile.                              *)
(***************************************************************************)
EXTENDS ClassRegistry, FileSearch, SequenceTheorems, TLAPS

Within(f, k) == f \in [DOMAIN f -> 1 .. k] /\ DOMAIN f \subseteq Names
IsFields(f) == Within(f, Len(heap))

Typed ==
  /\ heap \in Seq(Methods \cup Objects)
  /\ DOMAIN registry = Types /\ registry = [t \in Types |-> registry[t]]
  /\ DOMAIN held = Vars /\ held = [v \in Vars |-> held[v]]
  /\ \A t \in Types : IsFields(registry[t])
  /\ \A v \in Vars : IsFields(held[v])
  /\ generation \in [Types -> 0 .. MaxClasses] /\ born \in [Vars -> 0 .. MaxClasses]
  /\ type \in [Vars -> Types \cup {None}]
  /\ inherited \in [Vars -> SUBSET Names]
  /\ \A v \in Vars : inherited[v] \subseteq DOMAIN held[v]

\* A variable was made from the class of today, or an earlier one of its type.
Current(v) == type[v] # None /\ born[v] = generation[type[v]]

Births ==
  \A v \in Vars :
    IF type[v] = None THEN DOMAIN held[v] = {} ELSE born[v] <= generation[type[v]]

\* Variables of one class have the fields that they inherited in common ...
Common ==
  /\ \A u, v \in Vars : Siblings(u, v) =>
       \A n \in inherited[u] \cap inherited[v] : held[u][n] = held[v][n]
  /\ \A v \in Vars : Current(v) =>
       \A n \in inherited[v] :
         n \in DOMAIN registry[type[v]] /\ registry[type[v]][n] = held[v][n]

\* ... and those of different classes none.
Disjoint(f, g) == \A n \in DOMAIN f, k \in DOMAIN g : f[n] # g[k]

Apart ==
  /\ \A u, v \in Vars : <<type[u], born[u]>> # <<type[v], born[v]>> => Disjoint(held[u], held[v])
  /\ \A v \in Vars, t \in Types :
       ~(type[v] = t /\ born[v] = generation[t]) => Disjoint(registry[t], held[v])
  /\ \A s, t \in Types : s # t => Disjoint(registry[s], registry[t])

IInv == Typed /\ Births /\ Common /\ Apart /\ ObjectsLost

-----------------------------------------------------------------------------

LEMMA FieldsAre ==
  ASSUME NEW f
  PROVE  f \in Fields <=> IsFields(f)
<1>1. ASSUME f \in Fields PROVE IsFields(f)
  BY <1>1 DEF Fields, IsFields, Within, Addresses
<1>2. ASSUME IsFields(f) PROVE f \in Fields
  BY <1>2 DEF Fields, IsFields, Within, Addresses
<1> QED
  BY <1>1, <1>2

\* v[n] = x for a variable with the fields f.
LEMMA Storing ==
  ASSUME Typed, NEW f, IsFields(f), NEW n \in Names, NEW x \in Methods,
         heap' = Stored(f, n, x)
  PROVE  /\ heap' \in Seq(Methods \cup Objects)
         /\ Len(heap) \in Nat /\ Len(heap') \in Nat /\ Len(heap) <= Len(heap')
         /\ DOMAIN WithField(f, n) = DOMAIN f \cup {n}
         /\ WithField(f, n) \in [DOMAIN f \cup {n} -> 1 .. Len(heap')]
         /\ \A k \in DOMAIN f : WithField(f, n)[k] = f[k]
         /\ n \notin DOMAIN f => WithField(f, n)[n] \notin Addresses
         /\ heap'[WithField(f, n)[n]] = x
<1>1. heap \in Seq(Methods \cup Objects) /\ x \in Methods \cup Objects /\ Len(heap) \in Nat
  BY LenProperties DEF Typed
<1>2. CASE n \in DOMAIN f
  <2>1. WithField(f, n) = f /\ heap' = [heap EXCEPT ![f[n]] = x] /\ f[n] \in 1 .. Len(heap)
    BY <1>2 DEF WithField, Stored, IsFields, Within, Addresses
  <2>2. heap' \in Seq(Methods \cup Objects) /\ Len(heap') = Len(heap)
    BY <1>1, <2>1, ExceptSeq
  <2>3. \A a \in 1 .. Len(heap) : heap'[a] = IF a = f[n] THEN x ELSE heap[a]
    BY <1>1, <2>1, ExceptSeq
  <2>4. DOMAIN f \cup {n} = DOMAIN f
    BY <1>2
  <2> QED
    BY <1>1, <1>2, <2>1, <2>2, <2>3, <2>4 DEF Addresses, IsFields, Within
<1>3. CASE n \notin DOMAIN f
  <2>1. /\ WithField(f, n) = [m \in DOMAIN f \cup {n} |-> IF m = n THEN Len(heap) + 1 ELSE f[m]]
        /\ heap' = Append(heap, x)
    BY <1>3 DEF WithField, Stored, New
  <2>2. /\ heap' \in Seq(Methods \cup Objects) /\ Len(heap') = Len(heap) + 1
        /\ \A a \in 1 .. Len(heap) : heap'[a] = heap[a]
        /\ heap'[Len(heap) + 1] = x
    BY <1>1, <2>1, AppendProperties
  <2>3. \A m \in DOMAIN f : f[m] \in 1 .. Len(heap) /\ m # n
    BY <1>3 DEF IsFields, Within, Addresses
  <2> QED
    BY <1>1, <2>1, <2>2, <2>3 DEF Addresses
<1> QED
  BY <1>2, <1>3

LEMMA StoringKeeps ==
  ASSUME Typed, NEW f, IsFields(f), NEW n \in Names, NEW x \in Methods,
         heap' = Stored(f, n, x), NEW a \in Addresses, a # WithField(f, n)[n]
  PROVE  heap'[a] = heap[a]
<1>1. heap \in Seq(Methods \cup Objects) /\ x \in Methods \cup Objects /\ a \in 1 .. Len(heap)
  BY DEF Typed, Addresses
<1>2. CASE n \in DOMAIN f
  <2>1. heap' = [heap EXCEPT ![f[n]] = x] /\ f[n] \in 1 .. Len(heap) /\ a # f[n]
    BY <1>2 DEF WithField, Stored, IsFields, Within
  <2> QED
    BY <1>1, <2>1, ExceptSeq
<1>3. CASE n \notin DOMAIN f
  <2>1. heap' = Append(heap, x)
    BY <1>3 DEF Stored
  <2> QED
    BY <1>1, <2>1, AppendProperties
<1> QED
  BY <1>2, <1>3

LEMMA Initially == Init => IInv
<1> SUFFICES ASSUME Init PROVE IInv
  OBVIOUS
<1>1. DOMAIN NoFields = {} /\ heap = <<>> /\ Len(heap) = 0
  BY DEF Init, NoFields
<1>2. IsFields(NoFields)
  BY <1>1 DEF IsFields, Within, NoFields
<1>3. Typed
  BY <1>1, <1>2, ClassAssumption DEF Init, Typed
<1>4. Births
  BY <1>1 DEF Init, Births
<1>5. Common
  BY <1>1 DEF Init, Common, Siblings, Current
<1>6. Apart /\ ObjectsLost
  BY <1>1 DEF Init, Apart, Disjoint, ObjectsLost
<1> QED
  BY <1>3, <1>4, <1>5, <1>6 DEF IInv

-----------------------------------------------------------------------------

\* A variable w is initialised with the fields r that the class of t then has.
LEMMA Initialising ==
  ASSUME IInv, NEW t \in Types, NEW w \in Vars, NEW r,
         registry' = [registry EXCEPT ![t] = r],
         generation' \in [Types -> 0 .. MaxClasses],
         generation[t] <= generation'[t],
         \A s \in Types \ {t} : generation'[s] = generation[s],
         held' = [held EXCEPT ![w] = r],
         type' = [type EXCEPT ![w] = t],
         inherited' = [inherited EXCEPT ![w] = DOMAIN r],
         born' = [born EXCEPT ![w] = generation'[t]],
         heap' \in Seq(Methods \cup Objects),
         Len(heap) \in Nat, Len(heap') \in Nat, Len(heap) <= Len(heap'),
         DOMAIN r \subseteq Names, r \in [DOMAIN r -> 1 .. Len(heap')],
         \A v \in Vars : type[v] = t /\ born[v] = generation'[t] =>
           \A n \in inherited[v] : n \in DOMAIN r /\ r[n] = held[v][n],
         \A v \in Vars : ~(type[v] = t /\ born[v] = generation'[t]) => Disjoint(r, held[v]),
         \A s \in Types \ {t} : Disjoint(r, registry[s]),
         \A n \in DOMAIN r : heap'[r[n]] \in Methods,
         \A s \in Types \ {t} : \A n \in DOMAIN registry[s] : heap'[registry[s][n]] \in Methods,
         \A v \in Vars : \A n \in DOMAIN held[v] : heap'[held[v][n]] \in Methods
  PROVE  IInv'
<1> USE DEF IInv
<1>1. /\ t # None
      /\ registry'[t] = r /\ \A s \in Types \ {t} : registry'[s] = registry[s]
      /\ held'[w] = r /\ \A v \in Vars \ {w} : held'[v] = held[v]
      /\ type'[w] = t /\ \A v \in Vars \ {w} : type'[v] = type[v]
      /\ inherited'[w] = DOMAIN r /\ \A v \in Vars \ {w} : inherited'[v] = inherited[v]
      /\ born'[w] = generation'[t] /\ \A v \in Vars \ {w} : born'[v] = born[v]
  BY ClassAssumption DEF Typed
<1>2. \A v \in Vars : type[v] \in Types \cup {None} /\ born[v] \in Nat
  BY ClassAssumption DEF Typed
<1>3. \A s \in Types : generation[s] \in Nat /\ generation'[s] \in Nat /\ generation[s] <= generation'[s]
  <2>1. generation \in [Types -> 0 .. MaxClasses] /\ MaxClasses \in Nat
    BY ClassAssumption DEF Typed
  <2>2. \A s \in Types : generation[s] \in Nat /\ generation'[s] \in Nat
    BY <2>1
  <2>3. \A s \in Types : generation[s] <= generation'[s]
    BY <2>2
  <2> QED
    BY <2>2, <2>3
<1>4. Typed'
  <2>1. \A f : Within(f, Len(heap)) => Within(f, Len(heap'))
    BY DEF Within
  <2>2. Within(r, Len(heap'))
    BY DEF Within
  <2>3. /\ DOMAIN registry' = Types /\ registry' = [s \in Types |-> registry'[s]]
        /\ \A s \in Types : Within(registry'[s], Len(heap'))
    BY SMTT(30), <1>1, <2>1, <2>2 DEF Typed, IsFields
  <2>4. /\ DOMAIN held' = Vars /\ held' = [v \in Vars |-> held'[v]]
        /\ \A v \in Vars : Within(held'[v], Len(heap'))
    BY SMTT(30), <1>1, <2>1, <2>2 DEF Typed, IsFields
  <2>5. type' \in [Vars -> Types \cup {None}] /\ inherited' \in [Vars -> SUBSET Names]
    BY DEF Typed
  <2>6. born' \in [Vars -> 0 .. MaxClasses]
    BY DEF Typed
  <2>7. \A v \in Vars : inherited'[v] \subseteq DOMAIN held'[v]
    BY <1>1 DEF Typed
  <2> QED
    BY <2>3, <2>4, <2>5, <2>6, <2>7 DEF Typed, IsFields
<1>5. Births'
  <2>1. SUFFICES ASSUME NEW v \in Vars
                 PROVE  IF type'[v] = None THEN DOMAIN held'[v] = {} ELSE born'[v] <= generation'[type'[v]]
    BY DEF Births
  <2>2. CASE v = w
    BY <1>1, <1>3, <2>2
  <2>3. CASE v # w
    BY <1>1, <1>2, <1>3, <2>3 DEF Births
  <2> QED
    BY <2>2, <2>3
<1>6. Common'
  <2>1. ASSUME NEW u \in Vars, NEW v \in Vars, Siblings(u, v)',
               NEW n \in inherited'[u] \cap inherited'[v]
        PROVE  held'[u][n] = held'[v][n]
    <3>1. CASE u = w /\ v = w
      BY <3>1
    <3>2. CASE u = w /\ v # w
      BY <1>1, <2>1, <3>2 DEF Siblings
    <3>3. CASE u # w /\ v = w
      BY <1>1, <2>1, <3>3 DEF Siblings
    <3>4. CASE u # w /\ v # w
      BY <1>1, <2>1, <3>4 DEF Siblings, Common
    <3> QED
      BY <3>1, <3>2, <3>3, <3>4
  <2>2. ASSUME NEW v \in Vars, Current(v)', NEW n \in inherited'[v]
        PROVE  n \in DOMAIN registry'[type'[v]] /\ registry'[type'[v]][n] = held'[v][n]
    <3>1. CASE v = w
      BY <1>1, <2>2, <3>1
    <3>2. CASE v # w /\ type[v] = t
      BY <1>1, <2>2, <3>2 DEF Current
    <3>3. CASE v # w /\ type[v] # t
      <4>1. type'[v] = type[v] /\ type[v] # None /\ born[v] = generation'[type[v]]
        BY <1>1, <2>2, <3>3 DEF Current
      <4>2. PICK q \in Types \ {t} : q = type[v]
        BY <1>2, <3>3, <4>1
      <4>3. registry'[q] = registry[q] /\ generation'[q] = generation[q]
        BY <1>1, <4>2
      <4>4. n \in inherited[v] /\ held'[v] = held[v]
        BY <1>1, <2>2, <3>3
      <4>5. n \in DOMAIN registry[q] /\ registry[q][n] = held[v][n]
        BY ZenonT(40), <4>1, <4>2, <4>3, <4>4 DEF Current, Common
      <4> QED
        BY <4>1, <4>2, <4>3, <4>4, <4>5
    <3> QED
      BY <3>1, <3>2, <3>3
  <2> QED
    BY <2>1, <2>2 DEF Common
<1>7. Apart'
  <2> USE DEF Disjoint
  <2>1. ASSUME NEW u \in Vars, NEW v \in Vars, <<type'[u], born'[u]>> # <<type'[v], born'[v]>>
        PROVE  Disjoint(held'[u], held'[v])
    <3>1. CASE u = w
      BY <1>1, <2>1, <3>1
    <3>2. CASE u # w /\ v = w
      BY <1>1, <2>1, <3>2
    <3>3. CASE u # w /\ v # w
      BY <1>1, <2>1, <3>3 DEF Apart
    <3> QED
      BY <3>1, <3>2, <3>3
  <2>2. ASSUME NEW v \in Vars, NEW s \in Types, ~(type'[v] = s /\ born'[v] = generation'[s])
        PROVE  Disjoint(registry'[s], held'[v])
    <3>1. CASE v = w
      BY <1>1, <2>2, <3>1
    <3>2. CASE v # w /\ s = t
      BY <1>1, <2>2, <3>2
    <3>3. CASE v # w /\ s # t
      BY <1>1, <2>2, <3>3 DEF Apart
    <3> QED
      BY <3>1, <3>2, <3>3
  <2>3. ASSUME NEW q \in Types, NEW s \in Types, q # s
        PROVE  Disjoint(registry'[q], registry'[s])
    BY <1>1, <2>3 DEF Apart
  <2> QED
    BY <2>1, <2>2, <2>3 DEF Apart
<1>8. ObjectsLost'
  BY <1>1 DEF ObjectsLost, Sees
<1> QED
  BY <1>4, <1>5, <1>6, <1>7, <1>8

\* Fields that are allocated leave all others alone.
LEMMA Allocating ==
  ASSUME IInv, NEW x \in Methods \cup Objects, heap' = Append(heap, x)
  PROVE  /\ heap' \in Seq(Methods \cup Objects)
         /\ Len(heap) \in Nat /\ Len(heap') = Len(heap) + 1
         /\ \A a \in Addresses : heap'[a] = heap[a]
<1>1. heap \in Seq(Methods \cup Objects)
  BY DEF IInv, Typed
<1> QED
  BY <1>1, AppendProperties, LenProperties DEF Addresses

LEMMA ClassRegisterStep ==
  ASSUME IInv, NEW t \in Types, NEW v \in Vars, ClassRegister(t, v)
  PROVE  IInv'
<1>0. PICK r : r = NoFields
  OBVIOUS
<1>1. /\ registry' = [registry EXCEPT ![t] = r]
      /\ generation' = [generation EXCEPT ![t] = @ + 1] /\ generation[t] < MaxClasses
      /\ held' = [held EXCEPT ![v] = r] /\ type' = [type EXCEPT ![v] = t]
      /\ inherited' = [inherited EXCEPT ![v] = DOMAIN r]
      /\ born' = [born EXCEPT ![v] = generation[t] + 1]
      /\ heap' = heap
  BY <1>0 DEF ClassRegister, Becomes
<1>2. generation \in [Types -> 0 .. MaxClasses] /\ heap \in Seq(Methods \cup Objects) /\ MaxClasses \in Nat
  BY ClassAssumption DEF IInv, Typed
<1>3. /\ generation' \in [Types -> 0 .. MaxClasses]
      /\ generation'[t] = generation[t] + 1 /\ generation[t] \in Nat
      /\ \A s \in Types \ {t} : generation'[s] = generation[s]
  BY <1>1, <1>2
<1>4. Len(heap) \in Nat
  BY <1>2, LenProperties
<1>5. DOMAIN r = {} /\ r \in [DOMAIN r -> 1 .. Len(heap')]
  BY <1>0 DEF NoFields
<1>6. \A u \in Vars : ~(type[u] = t /\ born[u] = generation'[t])
  <2>1. \A u \in Vars : born[u] \in Nat
    BY ClassAssumption DEF IInv, Typed
  <2> QED
    BY <1>3, <2>1, ClassAssumption DEF IInv, Births
<1>7. \A f : Disjoint(r, f)
  BY <1>5 DEF Disjoint
<1>8. /\ \A s \in Types : \A n \in DOMAIN registry[s] : heap'[registry[s][n]] \in Methods
      /\ \A u \in Vars : \A n \in DOMAIN held[u] : heap'[held[u][n]] \in Methods
  BY <1>1 DEF IInv, ObjectsLost, Sees
<1>9. /\ born' = [born EXCEPT ![v] = generation'[t]]
      /\ Len(heap') \in Nat /\ Len(heap) <= Len(heap') /\ generation[t] <= generation'[t]
      /\ heap' \in Seq(Methods \cup Objects)
  BY <1>1, <1>2, <1>3, <1>4
<1>10. /\ DOMAIN r \subseteq Names
       /\ \A n \in DOMAIN r : heap'[r[n]] \in Methods
       /\ \A u \in Vars : type[u] = t /\ born[u] = generation'[t] =>
            \A n \in inherited[u] : n \in DOMAIN r /\ r[n] = held[u][n]
  BY <1>5, <1>6
<1> QED
  BY <1>1, <1>3, <1>4, <1>5, <1>7, <1>8, <1>9, <1>10, Initialising

LEMMA ConstructStep ==
  ASSUME IInv, NEW t \in Types, NEW v \in Vars, Construct(t, v)
  PROVE  IInv'
<1>0. PICK r : r = registry[t]
  OBVIOUS
<1>1. /\ registry' = registry /\ generation' = generation
      /\ held' = [held EXCEPT ![v] = r] /\ type' = [type EXCEPT ![v] = t]
      /\ inherited' = [inherited EXCEPT ![v] = DOMAIN r]
      /\ born' = [born EXCEPT ![v] = generation[t]]
      /\ heap' = Append(heap, [object |-> t])
  BY <1>0 DEF Construct, Becomes
<1>2. /\ generation \in [Types -> 0 .. MaxClasses] /\ generation[t] \in Nat
      /\ registry' = [registry EXCEPT ![t] = r]
  BY <1>0, <1>1, ClassAssumption DEF IInv, Typed
<1>3. /\ heap' \in Seq(Methods \cup Objects) /\ Len(heap) \in Nat /\ Len(heap') = Len(heap) + 1
      /\ \A a \in Addresses : heap'[a] = heap[a]
  BY <1>1, Allocating DEF Objects
<1>4. \A s \in Types : IsFields(registry[s])
  BY DEF IInv, Typed
<1>5. DOMAIN r \subseteq Names /\ r \in [DOMAIN r -> 1 .. Len(heap')]
  <2>1. Within(r, Len(heap))
    BY <1>0, <1>4 DEF IsFields
  <2> QED
    BY <1>3, <2>1 DEF Within
<1>6. /\ \A s \in Types : \A n \in DOMAIN registry[s] : heap'[registry[s][n]] \in Methods
      /\ \A u \in Vars : \A n \in DOMAIN held[u] : heap'[held[u][n]] \in Methods
  <2>1. \A u \in Vars : IsFields(held[u])
    BY DEF IInv, Typed
  <2> QED
    BY <1>3, <1>4, <2>1 DEF IInv, ObjectsLost, Sees, IsFields, Within, Addresses
<1>7. \A u \in Vars : type[u] = t /\ born[u] = generation[t] =>
        \A n \in inherited[u] : n \in DOMAIN r /\ r[n] = held[u][n]
  BY <1>0, ClassAssumption DEF IInv, Common, Current
<1>8. /\ \A u \in Vars : ~(type[u] = t /\ born[u] = generation[t]) => Disjoint(r, held[u])
      /\ \A s \in Types \ {t} : Disjoint(r, registry[s])
  BY <1>0 DEF IInv, Apart
<1>9. /\ Len(heap') \in Nat /\ Len(heap) <= Len(heap') /\ generation[t] <= generation'[t]
      /\ generation' \in [Types -> 0 .. MaxClasses]
      /\ born' = [born EXCEPT ![v] = generation'[t]] /\ generation'[t] = generation[t]
      /\ \A s \in Types \ {t} : generation'[s] = generation[s]
  BY <1>1, <1>2, <1>3
<1>10. \A n \in DOMAIN r : heap'[r[n]] \in Methods
  BY <1>0, <1>6
<1>11. /\ \A u \in Vars : type[u] = t /\ born[u] = generation'[t] =>
             \A n \in inherited[u] : n \in DOMAIN r /\ r[n] = held[u][n]
       /\ \A u \in Vars : ~(type[u] = t /\ born[u] = generation'[t]) => Disjoint(r, held[u])
       /\ \A s \in Types \ {t} : \A n \in DOMAIN registry[s] : heap'[registry[s][n]] \in Methods
  BY <1>6, <1>7, <1>8, <1>9
<1> QED
  BY <1>1, <1>2, <1>3, <1>5, <1>6, <1>8, <1>9, <1>10, <1>11, Initialising

LEMMA MethodRegisterStep ==
  ASSUME IInv, NEW t \in Types, NEW n \in Names, NEW m \in Methods, NEW v \in Vars,
         MethodRegister(t, n, m, v)
  PROVE  IInv'
<1>0. PICK f, r : f = registry[t] /\ r = WithField(f, n)
  OBVIOUS
<1>1. /\ registry' = [registry EXCEPT ![t] = r] /\ generation' = generation
      /\ held' = [held EXCEPT ![v] = r] /\ type' = [type EXCEPT ![v] = t]
      /\ inherited' = [inherited EXCEPT ![v] = DOMAIN r]
      /\ born' = [born EXCEPT ![v] = generation[t]]
      /\ heap' = Stored(f, n, m)
  BY <1>0 DEF MethodRegister, Becomes, IInv, Typed
<1>2. generation \in [Types -> 0 .. MaxClasses] /\ generation[t] \in Nat /\ generation[t] <= generation[t]
  BY ClassAssumption DEF IInv, Typed
<1>3. /\ \A s \in Types : IsFields(registry[s])
      /\ \A u \in Vars : IsFields(held[u]) /\ inherited[u] \subseteq DOMAIN held[u]
  BY DEF IInv, Typed
<1>4. /\ heap' \in Seq(Methods \cup Objects)
      /\ Len(heap) \in Nat /\ Len(heap') \in Nat /\ Len(heap) <= Len(heap')
      /\ DOMAIN r = DOMAIN f \cup {n}
      /\ r \in [DOMAIN f \cup {n} -> 1 .. Len(heap')]
      /\ \A k \in DOMAIN f : r[k] = f[k]
      /\ n \notin DOMAIN f => r[n] \notin Addresses
      /\ heap'[r[n]] = m
      /\ \A a \in Addresses : a # r[n] => heap'[a] = heap[a]
  <2>1. Typed /\ IsFields(f)
    BY <1>0, <1>3 DEF IInv
  <2>2. heap' = Stored(f, n, m)
    BY <1>1
  <2>3. /\ heap' \in Seq(Methods \cup Objects)
        /\ Len(heap) \in Nat /\ Len(heap') \in Nat /\ Len(heap) <= Len(heap')
        /\ DOMAIN WithField(f, n) = DOMAIN f \cup {n}
        /\ WithField(f, n) \in [DOMAIN f \cup {n} -> 1 .. Len(heap')]
        /\ \A k \in DOMAIN f : WithField(f, n)[k] = f[k]
        /\ n \notin DOMAIN f => WithField(f, n)[n] \notin Addresses
        /\ heap'[WithField(f, n)[n]] = m
        /\ \A a \in Addresses : a # WithField(f, n)[n] => heap'[a] = heap[a]
    <3>1. heap' \in Seq(Methods \cup Objects)
      BY <2>1, <2>2, Storing
    <3>2. Len(heap) \in Nat /\ Len(heap') \in Nat /\ Len(heap) <= Len(heap')
      BY <2>1, <2>2, Storing
    <3>3. DOMAIN WithField(f, n) = DOMAIN f \cup {n}
      BY <2>1, <2>2, Storing
    <3>4. WithField(f, n) \in [DOMAIN f \cup {n} -> 1 .. Len(heap')]
      BY <2>1, <2>2, Storing
    <3>5. \A k \in DOMAIN f : WithField(f, n)[k] = f[k]
      BY <2>1, <2>2, Storing
    <3>6. n \notin DOMAIN f => WithField(f, n)[n] \notin Addresses
      BY <2>1, <2>2, Storing
    <3>7. heap'[WithField(f, n)[n]] = m
      BY <2>1, <2>2, Storing
    <3>8. ASSUME NEW a \in Addresses, a # WithField(f, n)[n] PROVE heap'[a] = heap[a]
      BY <2>1, <2>2, <3>8, StoringKeeps
    <3> QED
      BY <3>1, <3>2, <3>3, <3>4, <3>5, <3>6, <3>7, <3>8
  <2> QED
    BY <1>0, <2>3
<1>5. DOMAIN r \subseteq Names /\ r \in [DOMAIN r -> 1 .. Len(heap')]
  <2>1. Within(f, Len(heap))
    BY <1>0, <1>3 DEF IsFields
  <2> QED
    BY <1>4, <2>1 DEF Within
<1>6. \A a \in Addresses : heap[a] \in Methods => heap'[a] \in Methods
  BY <1>4
<1>7. /\ \A s \in Types : \A k \in DOMAIN registry[s] : heap'[registry[s][k]] \in Methods
      /\ \A u \in Vars : \A k \in DOMAIN held[u] : heap'[held[u][k]] \in Methods
  BY <1>3, <1>6 DEF IInv, ObjectsLost, Sees, IsFields, Within, Addresses
<1>8. \A k \in DOMAIN r : heap'[r[k]] \in Methods
  BY <1>0, <1>4, <1>7
<1>9. \A u \in Vars : type[u] = t /\ born[u] = generation[t] =>
        \A k \in inherited[u] : k \in DOMAIN r /\ r[k] = held[u][k]
  BY <1>0, <1>4, ClassAssumption DEF IInv, Common, Current
<1>10. ASSUME NEW g, IsFields(g), Disjoint(f, g) PROVE Disjoint(r, g)
  BY <1>4, <1>10 DEF Disjoint, IsFields, Within, Addresses
<1>11. /\ \A u \in Vars : ~(type[u] = t /\ born[u] = generation[t]) => Disjoint(r, held[u])
       /\ \A s \in Types \ {t} : Disjoint(r, registry[s])
  BY <1>0, <1>3, <1>10 DEF IInv, Apart
<1>12. /\ generation' \in [Types -> 0 .. MaxClasses] /\ generation[t] <= generation'[t]
       /\ born' = [born EXCEPT ![v] = generation'[t]] /\ generation'[t] = generation[t]
       /\ \A s \in Types \ {t} : generation'[s] = generation[s]
  BY <1>1, <1>2
<1>13. /\ \A u \in Vars : type[u] = t /\ born[u] = generation'[t] =>
             \A k \in inherited[u] : k \in DOMAIN r /\ r[k] = held[u][k]
       /\ \A u \in Vars : ~(type[u] = t /\ born[u] = generation'[t]) => Disjoint(r, held[u])
       /\ \A s \in Types \ {t} : \A k \in DOMAIN registry[s] : heap'[registry[s][k]] \in Methods
  BY <1>7, <1>9, <1>11, <1>12
<1> QED
  BY <1>1, <1>4, <1>5, <1>7, <1>8, <1>11, <1>12, <1>13, Initialising

LEMMA AssignFieldStep ==
  ASSUME IInv, NEW v \in Vars, NEW n \in Names, NEW m \in Methods, AssignField(v, n, m)
  PROVE  IInv'
<1>0. PICK f, r : f = held[v] /\ r = WithField(f, n)
  OBVIOUS
<1>1. /\ UNCHANGED <<registry, generation, type, born, inherited>>
      /\ held' = [held EXCEPT ![v] = r]
      /\ type[v] # None
      /\ heap' \in Seq(Methods \cup Objects)
      /\ Len(heap) \in Nat /\ Len(heap') \in Nat /\ Len(heap) <= Len(heap')
      /\ DOMAIN r = DOMAIN f \cup {n} /\ DOMAIN f \subseteq Names
      /\ r \in [DOMAIN f \cup {n} -> 1 .. Len(heap')]
      /\ \A k \in DOMAIN f : r[k] = f[k]
      /\ n \notin DOMAIN f => r[n] \notin Addresses
      /\ heap'[r[n]] = m
      /\ \A a \in Addresses : a # r[n] => heap'[a] = heap[a]
  <2>1. Typed /\ IsFields(f) /\ heap' = Stored(f, n, m)
    BY <1>0 DEF AssignField, IInv, Typed
  <2>2. heap' \in Seq(Methods \cup Objects)
    BY <2>1, Storing
  <2>3. Len(heap) \in Nat /\ Len(heap') \in Nat /\ Len(heap) <= Len(heap')
    BY <2>1, Storing
  <2>4. DOMAIN r = DOMAIN f \cup {n} /\ DOMAIN f \subseteq Names
    <3>1. DOMAIN WithField(f, n) = DOMAIN f \cup {n}
      BY <2>1, Storing
    <3> QED
      BY <1>0, <2>1, <3>1 DEF IsFields, Within
  <2>5. r \in [DOMAIN f \cup {n} -> 1 .. Len(heap')]
    <3>1. WithField(f, n) \in [DOMAIN f \cup {n} -> 1 .. Len(heap')]
      BY <2>1, Storing
    <3> QED
      BY <1>0, <3>1
  <2>6. \A k \in DOMAIN f : r[k] = f[k]
    <3>1. \A k \in DOMAIN f : WithField(f, n)[k] = f[k]
      BY <2>1, Storing
    <3> QED
      BY <1>0, <3>1
  <2>7. n \notin DOMAIN f => r[n] \notin Addresses
    <3>1. n \notin DOMAIN f => WithField(f, n)[n] \notin Addresses
      BY <2>1, Storing
    <3> QED
      BY <1>0, <3>1
  <2>8. heap'[r[n]] = m
    <3>1. heap'[WithField(f, n)[n]] = m
      BY <2>1, Storing
    <3> QED
      BY <1>0, <3>1
  <2>9. ASSUME NEW a \in Addresses, a # r[n] PROVE heap'[a] = heap[a]
    <3>1. a # WithField(f, n)[n]
      BY <1>0, <2>9
    <3> QED
      BY <2>1, <3>1, StoringKeeps
  <2>10. /\ UNCHANGED <<registry, generation, type, born, inherited>>
         /\ held' = [held EXCEPT ![v] = r] /\ type[v] # None
    BY <1>0 DEF AssignField, IInv, Typed
  <2> QED
    BY <2>2, <2>3, <2>4, <2>5, <2>6, <2>7, <2>8, <2>9, <2>10
<1>2. held'[v] = r /\ \A u \in Vars \ {v} : held'[u] = held[u]
  BY <1>1 DEF IInv, Typed
<1>3. /\ \A s \in Types : IsFields(registry[s])
      /\ \A u \in Vars : IsFields(held[u]) /\ inherited[u] \subseteq DOMAIN held[u]
  BY DEF IInv, Typed
<1>4. Typed'
  <2>1. \A g : Within(g, Len(heap)) => Within(g, Len(heap'))
    BY <1>1 DEF Within
  <2>2. Within(r, Len(heap'))
    BY <1>1 DEF Within
  <2>3. \A u \in Vars : Within(held'[u], Len(heap')) /\ inherited'[u] \subseteq DOMAIN held'[u]
    BY <1>0, <1>1, <1>2, <1>3, <2>1, <2>2 DEF IsFields
  <2>4. \A s \in Types : Within(registry'[s], Len(heap'))
    BY <1>1, <1>3, <2>1 DEF IsFields
  <2>5. DOMAIN held' = Vars /\ held' = [u \in Vars |-> held'[u]]
    BY <1>1 DEF IInv, Typed
  <2> QED
    BY <1>1, <2>3, <2>4, <2>5 DEF IInv, Typed, IsFields
<1>5. Births'
  BY <1>1, <1>2 DEF IInv, Births
<1>6. \A u \in Vars : \A k \in inherited[u] : held'[u][k] = held[u][k]
  BY <1>0, <1>1, <1>2, <1>3
<1>7. Common'
  BY <1>1, <1>6 DEF IInv, Common, Siblings, Current
<1>8. ASSUME NEW g, IsFields(g), Disjoint(f, g) PROVE Disjoint(r, g)
  BY <1>1, <1>8 DEF Disjoint, IsFields, Within, Addresses
<1>9. Apart'
  <2>1. ASSUME NEW u \in Vars, NEW w \in Vars, <<type[u], born[u]>> # <<type[w], born[w]>>
        PROVE  Disjoint(held'[u], held'[w])
    <3>1. CASE u = v /\ w = v
      BY <2>1, <3>1
    <3>2. CASE u = v /\ w # v
      BY <1>0, <1>2, <1>3, <1>8, <2>1, <3>2 DEF IInv, Apart
    <3>3. CASE u # v /\ w = v
      <4>1. Disjoint(f, held[u])
        BY <1>0, <2>1, <3>3 DEF IInv, Apart
      <4>2. Disjoint(r, held[u])
        BY <1>3, <1>8, <4>1
      <4> QED
        BY <1>2, <3>3, <4>2 DEF Disjoint
    <3>4. CASE u # v /\ w # v
      BY <1>2, <2>1, <3>4 DEF IInv, Apart
    <3> QED
      BY <3>1, <3>2, <3>3, <3>4
  <2>2. ASSUME NEW w \in Vars, NEW s \in Types, ~(type[w] = s /\ born[w] = generation[s])
        PROVE  Disjoint(registry[s], held'[w])
    <3>1. CASE w = v
      <4>1. Disjoint(f, registry[s])
        BY <1>0, <2>2, <3>1 DEF IInv, Apart, Disjoint
      <4>2. Disjoint(r, registry[s])
        BY <1>3, <1>8, <4>1
      <4> QED
        BY <1>2, <3>1, <4>2 DEF Disjoint
    <3>2. CASE w # v
      BY <1>2, <2>2, <3>2 DEF IInv, Apart
    <3> QED
      BY <3>1, <3>2
  <2>3. \A q, s \in Types : q # s => Disjoint(registry[q], registry[s])
    BY DEF IInv, Apart
  <2> QED
    BY <1>1, <2>1, <2>2, <2>3 DEF Apart, Disjoint
<1>10. ObjectsLost'
  <2>1. \A a \in Addresses : heap[a] \in Methods => heap'[a] \in Methods
    BY <1>1
  <2>2. \A s \in Types : \A k \in DOMAIN registry[s] : heap'[registry[s][k]] \in Methods
    BY <1>3, <2>1 DEF IInv, ObjectsLost, IsFields, Within, Addresses
  <2>3. \A u \in Vars : \A k \in DOMAIN held[u] : heap'[held[u][k]] \in Methods
    BY <1>3, <2>1 DEF IInv, ObjectsLost, Sees, IsFields, Within, Addresses
  <2>4. \A k \in DOMAIN r : heap'[r[k]] \in Methods
    BY <1>0, <1>1, <2>3
  <2>5. \A u \in Vars : \A k \in DOMAIN held'[u] : heap'[held'[u][k]] \in Methods
    BY <1>2, <2>3, <2>4
  <2> QED
    BY <1>1, <2>2, <2>5 DEF ObjectsLost, Sees
<1> QED
  BY <1>4, <1>5, <1>7, <1>9, <1>10 DEF IInv

-----------------------------------------------------------------------------

\* The inductive invariant: classes of different types or generations have no
\* field in common, and those of one class all they inherited.
THEOREM Invariant == Spec => []IInv
<1>1. ASSUME IInv, [Next]_vars PROVE IInv'
  <2>1. CASE UNCHANGED vars
    <3>1. UNCHANGED <<heap, registry, held, generation, type, born, inherited>>
      BY <2>1 DEF vars
    <3>2. Typed' /\ Births'
      BY <1>1, <3>1 DEF IInv, Typed, IsFields, Within, Births
    <3>3. Common' /\ ObjectsLost'
      BY <1>1, <3>1 DEF IInv, Common, Siblings, Current, ObjectsLost, Sees
    <3>4. Apart'
      BY <1>1, <3>1 DEF IInv, Apart, Disjoint
    <3> QED
      BY <3>2, <3>3, <3>4 DEF IInv
  <2>2. CASE Next
    BY <1>1, <2>2, ClassRegisterStep, ConstructStep, MethodRegisterStep, AssignFieldStep DEF Next
  <2> QED
    BY <1>1, <2>1, <2>2
<1> QED
  BY <1>1, Initially, PTL DEF Spec

\* The fields of classes and variables are the host's methods and fields that
\* were allocated.
THEOREM TypeCorrect == Spec => []TypeOK
<1>1. IInv => TypeOK
  <2>1. SUFFICES ASSUME IInv PROVE TypeOK
    OBVIOUS
  <2>2. /\ \A t \in Types : registry[t] \in Fields
        /\ \A v \in Vars : held[v] \in Fields
    BY <2>1, FieldsAre DEF IInv, Typed
  <2>3. registry \in [Types -> Fields] /\ held \in [Vars -> Fields]
    BY <2>1, <2>2 DEF IInv, Typed
  <2>4. generation \in [Types -> Nat] /\ born \in [Vars -> Nat]
    BY <2>1, ClassAssumption DEF IInv, Typed
  <2> QED
    BY <2>1, <2>3, <2>4 DEF IInv, Typed, TypeOK
<1> QED
  BY <1>1, Invariant, PTL

\* uinion in constructor_callback (mlInterpreter.h:62) loses every object, for
\* any classes and methods.
THEOREM ObjectsAreLost == Spec => []ObjectsLost
<1>1. IInv => ObjectsLost
  BY DEF IInv
<1> QED
  BY <1>1, Invariant, PTL

\* Instances of one class agree on what they inherited.
THEOREM InstancesAgree == Spec => []SiblingsAgree
<1>1. IInv => SiblingsAgree
  <2>1. SUFFICES ASSUME IInv PROVE SiblingsAgree
    OBVIOUS
  <2>2. ASSUME NEW u \in Vars, NEW v \in Vars, Siblings(u, v), NEW n \in inherited[u] \cap inherited[v]
        PROVE  Sees(u, n) = Sees(v, n)
    BY <2>1, <2>2 DEF IInv, Common, Sees
  <2>3. ASSUME NEW v \in Vars, type[v] # None, born[v] = generation[type[v]], NEW n \in inherited[v]
        PROVE  n \in DOMAIN registry[type[v]] /\ heap[registry[type[v]][n]] = Sees(v, n)
    BY <2>1, <2>3 DEF IInv, Common, Current, Sees
  <2> QED
    BY <2>2, <2>3 DEF SiblingsAgree
<1> QED
  BY <1>1, Invariant, PTL

-----------------------------------------------------------------------------

LEMMA Staying ==
  ASSUME IInv, NEW w \in Vars, NEW t \in Types, NEW g \in 0 .. MaxClasses,
         \A v \in Vars \ {w} : held'[v] = held[v],
         \A v \in Vars \ {w} : <<type[v], born[v]>> # <<t, g>> =>
           \A n \in DOMAIN held[v] : heap'[held[v][n]] = heap[held[v][n]]
  PROVE  StayInClass
  BY DEF StayInClass, Only, Sees

LEMMA Kept ==
  ASSUME IInv, \A a \in Addresses : heap'[a] = heap[a]
  PROVE  \A v \in Vars : \A n \in DOMAIN held[v] : heap'[held[v][n]] = heap[held[v][n]]
  BY DEF IInv, Typed, IsFields, Within, Addresses

LEMMA ClassRegisterStays ==
  ASSUME IInv, NEW t \in Types, NEW w \in Vars, ClassRegister(t, w)
  PROVE  StayInClass
<1>1. heap' = heap /\ \A v \in Vars \ {w} : held'[v] = held[v]
  BY DEF ClassRegister, Becomes, IInv, Typed
<1>2. generation[t] \in 0 .. MaxClasses
  BY DEF IInv, Typed
<1> QED
  BY <1>1, <1>2, Staying

LEMMA ConstructStays ==
  ASSUME IInv, NEW t \in Types, NEW w \in Vars, Construct(t, w)
  PROVE  StayInClass
<1>1. heap' = Append(heap, [object |-> t]) /\ \A v \in Vars \ {w} : held'[v] = held[v]
  BY DEF Construct, Becomes, IInv, Typed
<1>2. generation[t] \in 0 .. MaxClasses /\ [object |-> t] \in Methods \cup Objects
  BY DEF IInv, Typed, Objects
<1>3. \A a \in Addresses : heap'[a] = heap[a]
  BY <1>1, <1>2, Allocating
<1>4. \A v \in Vars : \A n \in DOMAIN held[v] : heap'[held[v][n]] = heap[held[v][n]]
  BY <1>3, Kept
<1>5. \A v \in Vars \ {w} : <<type[v], born[v]>> # <<t, generation[t]>> =>
        \A n \in DOMAIN held[v] : heap'[held[v][n]] = heap[held[v][n]]
  BY <1>4
<1>6. \A v \in Vars \ {w} : held'[v] = held[v]
  BY <1>1
<1> QED
  BY <1>2, <1>5, <1>6, Staying

LEMMA MethodRegisterStays ==
  ASSUME IInv, NEW t \in Types, NEW n \in Names, NEW m \in Methods, NEW w \in Vars,
         MethodRegister(t, n, m, w)
  PROVE  StayInClass
<1>0. PICK f : f = registry[t]
  OBVIOUS
<1>1. heap' = Stored(f, n, m) /\ \A v \in Vars \ {w} : held'[v] = held[v]
  BY <1>0 DEF MethodRegister, Becomes, IInv, Typed
<1>2. generation[t] \in 0 .. MaxClasses /\ Typed /\ IsFields(f)
  BY <1>0 DEF IInv, Typed
<1>3. ASSUME NEW v \in Vars, <<type[v], born[v]>> # <<t, generation[t]>>, NEW k \in DOMAIN held[v]
      PROVE  heap'[held[v][k]] = heap[held[v][k]]
  <2>1. Disjoint(f, held[v])
    BY <1>0, <1>3 DEF IInv, Apart
  <2>2. held[v][k] \in Addresses
    BY DEF IInv, Typed, IsFields, Within, Addresses
  <2>3. held[v][k] # WithField(f, n)[n]
    BY <1>2, <2>1, <2>2 DEF Disjoint, WithField, New, Addresses, Typed
  <2> QED
    BY <1>1, <1>2, <2>2, <2>3, StoringKeeps
<1> QED
  BY <1>1, <1>2, <1>3, Staying

LEMMA AssignFieldStays ==
  ASSUME IInv, NEW w \in Vars, NEW n \in Names, NEW m \in Methods, AssignField(w, n, m)
  PROVE  StayInClass
<1>0. PICK f : f = held[w]
  OBVIOUS
<1>1. heap' = Stored(f, n, m) /\ \A v \in Vars \ {w} : held'[v] = held[v]
  BY <1>0 DEF AssignField, IInv, Typed
<1>2. born[w] \in 0 .. MaxClasses /\ type[w] \in Types /\ Typed /\ IsFields(f)
  BY <1>0 DEF AssignField, IInv, Typed
<1>3. ASSUME NEW v \in Vars, <<type[v], born[v]>> # <<type[w], born[w]>>, NEW k \in DOMAIN held[v]
      PROVE  heap'[held[v][k]] = heap[held[v][k]]
  <2>1. Disjoint(f, held[v])
    BY <1>0, <1>3 DEF IInv, Apart
  <2>2. held[v][k] \in Addresses
    BY DEF IInv, Typed, IsFields, Within, Addresses
  <2>3. held[v][k] # WithField(f, n)[n]
    BY <1>2, <2>1, <2>2 DEF Disjoint, WithField, New, Addresses, Typed
  <2> QED
    BY <1>1, <1>2, <2>2, <2>3, StoringKeeps
<1> QED
  BY <1>1, <1>2, <1>3, Staying

\* What a registration or an assignment changes is seen by variables of one
\* type and generation only, and no later method reaches an instance.
THEOREM LaterMethodsUnseen == Spec => StepsStayInClass
<1>1. ASSUME IInv, [Next]_vars PROVE [StayInClass]_vars
  <2>1. CASE Next
    BY <1>1, <2>1, ClassRegisterStays, ConstructStays, MethodRegisterStays, AssignFieldStays DEF Next
  <2> QED
    BY <1>1, <2>1
<1> QED
  BY <1>1, Invariant, PTL DEF Spec, StepsStayInClass

-----------------------------------------------------------------------------

\* What exec has seen so far: the histories hold the present as well, every
\* candidate before the one looked at was there, and the one chosen was missing
\* or is the name itself after all the others were there.
SearchTyped ==
  /\ exists \subseteq Files
  /\ pc \in {"idle", "stat", "open"}
  /\ at \in 0 .. Dirs
  /\ pc # "idle" => name \in Scripts
  /\ name # NoFile => name \in Scripts

Recorded == pc # "idle" => exists \subseteq there /\ Files \ exists \subseteq gone

Skipped == pc = "stat" => \A k \in 0 .. at - 1 : FileOf[name][k] \in there

Chosen == Candidate \in gone \/ (at = 0 /\ Candidates \subseteq there)

Choice == (pc = "open" \/ Returned) => Chosen

Opened ==
  Returned => /\ outcome \in {NoFile, Candidate}
              /\ Candidate \notin gone => outcome = Candidate

SearchInv == SearchTyped /\ Recorded /\ Skipped /\ Choice /\ Opened

LEMMA CandidateIsFile ==
  ASSUME NEW n \in Scripts, NEW k \in 0 .. Dirs
  PROVE  FileOf[n][k] \in Files /\ FileOf[n][k] # NoFile
  BY SearchAssumption

LEMMA SearchInitially == SearchInit => SearchInv
  BY SearchAssumption DEF SearchInit, SearchInv, SearchTyped, Recorded, Skipped, Choice, Opened, Returned

LEMMA FoundStep == ASSUME SearchInv, Found PROVE SearchInv'
<1>1. /\ SearchTyped /\ pc = "stat" /\ Candidate \in exists /\ exists \subseteq there
      /\ name \in Scripts /\ at \in 0 .. Dirs /\ Dirs \in Nat
      /\ \A k \in 0 .. at - 1 : FileOf[name][k] \in there
      /\ UNCHANGED <<exists, name, outcome, there, gone>>
  BY SearchAssumption DEF Found, SearchInv, SearchTyped, Recorded, Skipped
<1>2. \A k \in 0 .. at : FileOf[name][k] \in there
  BY <1>1 DEF Candidate
<1>3. CASE at < Dirs
  <2>1. at' = at + 1 /\ pc' = "stat"
    BY <1>1, <1>3 DEF Found
  <2>2. SearchTyped' /\ Recorded'
    BY <1>1, <1>3, <2>1 DEF SearchInv, SearchTyped, Recorded
  <2>3. Skipped'
    BY <1>1, <1>2, <2>1 DEF Skipped
  <2>4. QED
    BY <2>1, <2>2, <2>3 DEF SearchInv, Choice, Opened, Returned
<1>4. CASE ~(at < Dirs)
  <2>1. at' = 0 /\ pc' = "open" /\ at = Dirs
    BY <1>1, <1>4 DEF Found
  <2>2. SearchTyped' /\ Recorded'
    BY <1>1, <2>1 DEF SearchInv, SearchTyped, Recorded
  <2>3. Candidates' \subseteq there'
    BY <1>1, <1>2, <2>1 DEF Candidates
  <2>4. QED
    BY <2>1, <2>2, <2>3 DEF SearchInv, Skipped, Choice, Chosen, Opened, Returned
<1>5. QED
  BY <1>3, <1>4

LEMMA SearchKept == SearchInv /\ [SearchNext]_searchVars => SearchInv'
<1> SUFFICES ASSUME SearchInv, [SearchNext]_searchVars PROVE SearchInv'
  OBVIOUS
<1> USE SearchAssumption
<1>0. SearchTyped /\ Recorded /\ Skipped /\ Choice /\ Opened
  BY DEF SearchInv
<1>1. ASSUME NEW n \in Scripts, Exec(n) PROVE SearchInv'
  BY <1>0, <1>1 DEF Exec, SearchInv, SearchTyped, Recorded, Skipped, Choice, Opened, Returned
<1>2. CASE Missing
  <2>1. /\ pc = "stat" /\ Candidate \notin exists /\ pc' = "open"
        /\ UNCHANGED <<exists, name, at, outcome, there, gone>>
    BY <1>2 DEF Missing
  <2>2. Candidate \in gone
    BY <1>0, <2>1 DEF SearchTyped, Recorded, Candidate
  <2>3. Chosen'
    BY <2>1, <2>2 DEF Chosen, Candidate
  <2>4. QED
    BY <1>0, <2>1, <2>3 DEF SearchInv, SearchTyped, Recorded, Skipped, Choice, Opened, Returned
<1>3. CASE Found
  BY <1>3, FoundStep
<1>4. CASE Open
  <2>1. /\ pc = "open" /\ pc' = "idle" /\ UNCHANGED <<exists, name, at, there, gone>>
        /\ outcome' = IF Candidate \in exists THEN Candidate ELSE NoFile
    BY <1>4 DEF Open
  <2>2. Chosen'
    BY <1>0, <2>1 DEF Choice, Chosen, Candidate, Candidates
  <2>3. Candidate \in Files /\ Candidate' = Candidate
    BY <1>0, <2>1 DEF SearchTyped, Candidate
  <2>4. Opened'
    BY <1>0, <2>1, <2>3 DEF Recorded, Opened
  <2>5. QED
    BY <1>0, <2>1, <2>2, <2>4 DEF SearchInv, SearchTyped, Recorded, Skipped, Choice
<1>5. ASSUME NEW f \in Files, Create(f) \/ Remove(f) PROVE SearchInv'
  <2>1. /\ UNCHANGED <<pc, name, at, outcome>>
        /\ there \subseteq there' /\ gone \subseteq gone'
        /\ pc = "idle" => there' = there /\ gone' = gone
    BY <1>5 DEF Create, Remove
  <2>2. SearchTyped' /\ Recorded'
    BY <1>0, <1>5 DEF Create, Remove, SearchTyped, Recorded
  <2>3. Skipped'
    BY <1>0, <2>1 DEF Skipped
  <2>4. Choice'
    BY <1>0, <2>1 DEF Choice, Chosen, Candidate, Candidates, Returned
  <2>5. Opened'
    BY <1>0, <2>1 DEF Opened, Candidate, Returned
  <2>6. QED
    BY <2>2, <2>3, <2>4, <2>5 DEF SearchInv
<1>6. CASE UNCHANGED searchVars
  BY <1>0, <1>6 DEF searchVars, SearchInv, SearchTyped, Recorded, Skipped, Choice, Chosen, Opened,
                    Returned, Candidate, Candidates
<1>7. QED
  BY <1>1, <1>2, <1>3, <1>4, <1>5, <1>6 DEF SearchNext

LEMMA SearchInvariance == SearchSpec => []SearchInv
  BY SearchInitially, SearchKept, PTL DEF SearchSpec

\* A file that was there all the time is opened only when it is the one the name
\* means by itself and every directory of the path holds the name too
\* (mlInterpreter.cpp:18-31).
THEOREM PathFindsNothing == SearchSpec => []OldScriptIsOwn
<1>1. SearchInv => OldScriptIsOwn
  BY DEF SearchInv, Choice, Chosen, Opened, OldScriptIsOwn, Candidate
<1>2. QED
  BY <1>1, SearchInvariance, PTL

\* A script that stays behind all its candidates is run, whatever else is created
\* and removed between a stat and the open.
THEOREM StayingScripts == SearchSpec => []StayingScriptRuns
<1>1. SearchInv => StayingScriptRuns
  <2> SUFFICES ASSUME SearchInv, Returned, Candidates \cap gone = {}
               PROVE  outcome = FileOf[name][0]
    BY DEF StayingScriptRuns
  <2>1. Candidate \in Candidates
    BY DEF SearchInv, SearchTyped, Candidate, Candidates
  <2>2. QED
    BY <2>1 DEF SearchInv, Choice, Chosen, Opened, Candidate
<1>2. QED
  BY <1>1, SearchInvariance, PTL
=============================================================================
