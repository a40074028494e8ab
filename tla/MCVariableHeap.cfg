\* Two variables and four blocks, without fields: an original and its copy, the
\* temporary of an assignment with the characters of a long string, and a buffer
\* that is taken again.
SPECIFICATION Spec
SYMMETRY Symmetry
CONSTANTS
  Vars = {v1, v2}
  Nodes = {}
  Blocks = {b1, b2, b3, b4}
  Names = {}
  Numbers = {one}
  Texts = {hi, yo}
  LongTexts = {epic}
  None = None
  Wild = Wild
INVARIANTS
  GetSound
PROPERTIES
  UndefinedOnlyFromEmptyCopies
  AliasedOnlyByTexts
  TextLostWithOriginal
\* The program may end with free() undefined.
CHECK_DEADLOCK FALSE
