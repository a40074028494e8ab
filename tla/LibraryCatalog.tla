--------------------------- MODULE LibraryCatalog ---------------------------
(***************************************************************************)
(* What a host may rely on from mlFactory: libraries that are loaded stay  *)
(* loaded, every interpreter belongs to a loaded library for good, and no  *)
(* two interpreters have the same identifier.                              *)
(***************************************************************************)
CONSTANTS Libraries, Ids

VARIABLES
  loaded,   \* the libraries that can make interpreters
  made      \* the interpreters: which library made which

Init == loaded = {} /\ made = {}

Load(l) ==
  /\ l \notin loaded
  /\ loaded' = loaded \cup {l}
  /\ UNCHANGED made

Make(l, id) ==
  /\ l \in loaded
  /\ \A m \in made : m.id # id
  /\ made' = made \cup {[library |-> l, id |-> id]}
  /\ UNCHANGED loaded

Next ==
  \/ \E l \in Libraries : Load(l)
  \/ \E l \in Libraries, id \in Ids : Make(l, id)

Spec == Init /\ [][Next]_<<loaded, made>>
=============================================================================
