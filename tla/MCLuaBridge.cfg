\* Two globals, one value of each kind but two plain ones, a table that may be
\* empty, three leftovers: gets, evals, errors and calls in any order below and
\* above the bottom.
SPECIFICATION Spec
SYMMETRY Symmetry
CONSTANTS
  Names = {f, x}
  Plain = {one, two}
  Fractions = {half}
  Texts = {hi}
  Tables = {t}
  Contents = {full, Nil, Spoiled}
  Spoiled = Spoiled
  Functions = {fun}
  Objects = {file}
  Callback = Callback
  Nil = Nil
  MaxResults = 2
  MaxDepth = 3
INVARIANTS
  OneAnswer
PROPERTIES
  BottomStays
\* The process may abort, or go on undefined.
CHECK_DEADLOCK FALSE
