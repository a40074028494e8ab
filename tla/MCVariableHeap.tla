--------------------------- MODULE MCVariableHeap ---------------------------
(***************************************************************************)
(* VariableHeap for TLC.  Variables, fields and addresses are               *)
(* interchangeable: no definition names one of them.                       *)
(***************************************************************************)
EXTENDS VariableHeap, TLC

Symmetry == Permutations(Vars) \cup Permutations(Nodes) \cup Permutations(Blocks)
=============================================================================
