\* The alias that mlCallback.cpp:25 announces.
SPECIFICATION TableSpec
SYMMETRY Symmetry
CONSTANTS
  Functions = {f, g}
  Methods = {m, o}
  Slots = {s1, s2}
  Names = {a, b}
INVARIANTS
  AliasGenerated
