---------------------------- MODULE MCLuaBridge ----------------------------
\* LuaBridge for TLC.  No definition names a value or a global.
EXTENDS LuaBridge, TLC

Symmetry == Permutations(Names) \cup Permutations(Plain)
=============================================================================
