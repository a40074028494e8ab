-------------------------- MODULE MCCallbackTable --------------------------
\* CallbackTable for TLC.  Functions, methods, addresses and names are each
\* interchangeable.
EXTENDS CallbackTable, TLC

Symmetry ==
  Permutations(Functions) \cup Permutations(Methods) \cup Permutations(Slots) \cup Permutations(Names)
=============================================================================
