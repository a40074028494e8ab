----------------------------- MODULE IdAllocator -----------------------------
(***************************************************************************)
(* What a caller of metatype_t::generate may rely on: an identifier that   *)
(* no registered metatype carries, for as long as one is left, and an      *)
(* exception only when none is left.  Which free identifier is handed out  *)
(* is left open.                                                           *)
(***************************************************************************)
CONSTANT Ids        \* the identifiers a metatype may carry

VARIABLES
  taken,            \* identifiers of the registered metatypes
  refused           \* "yes" once a call has been answered by an exception

vars == <<taken, refused>>

Init ==
  /\ taken = {}
  /\ refused = "no"

Allocate ==
  /\ \E id \in Ids \ taken : taken' = taken \cup {id}
  /\ UNCHANGED refused

Refuse ==
  /\ taken = Ids
  /\ refused' = "yes"
  /\ UNCHANGED taken

Next == Allocate \/ Refuse

Spec == Init /\ [][Next]_vars
=============================================================================
