\* Two variables that may share a field, or leave it behind, and two blocks: a
\* long string with its characters, a value in the field, a second get.
SPECIFICATION Spec
SYMMETRY Symmetry
CONSTANTS
  Vars = {v1, v2}
  Nodes = {n1}
  Blocks = {b1, b2}
  Names = {x}
  Numbers = {one}
  Texts = {hi}
  LongTexts = {epic}
  None = None
  Wild = Wild
PROPERTIES
  LeaksAccounted
\* The program may end with free() undefined.
CHECK_DEADLOCK FALSE
