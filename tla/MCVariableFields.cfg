\* Two variables and two fields that they may share, contain each other or
\* contain themselves; one block, for the buffer an assignment allocates.
SPECIFICATION Spec
SYMMETRY Symmetry
CONSTANTS
  Vars = {v1, v2}
  Nodes = {n1, n2}
  Blocks = {b1}
  Names = {x}
  Numbers = {one}
  Texts = {}
  LongTexts = {}
  None = None
  Wild = Wild
PROPERTIES
  CyclesFromOwnFields
\* The program may end with free() undefined.
CHECK_DEADLOCK FALSE
