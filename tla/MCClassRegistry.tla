--------------------------- MODULE MCClassRegistry ---------------------------
EXTENDS ClassRegistry, TLC

CONSTANTS s1, s2, v1, v2, v3, m1, m2, print

Alike == Permutations({s1, s2}) \cup Permutations({v1, v2, v3}) \cup Permutations({m1, m2})
=============================================================================
