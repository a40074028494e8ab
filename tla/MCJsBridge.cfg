\* One value of every kind and up to four arguments: an argument that stays with
\* one behind it and two before it, two that stay in either order, the same string
\* twice.  Three enumerators of the last of three or four arguments do not fit into
\* the frame, as happens from 63 arguments on when Room is 64.
SPECIFICATION Spec
CONSTANTS
  Plain = {one}
  Fractions = {half}
  Texts = {hi}
  Objects = {point}
  Bare = {empty}
  Nested = {tree}
  Undefined = Undefined
  Null = Null
  Nil = Nil
  Room = 4
  MaxArgs = 4
  MaxDepth = 3
INVARIANTS
  FrameSuffices
  ArgumentsReceived
  TextsDangle
PROPERTIES
  ErrorsFromNestedOrFull
  CallbackReturns
\* The process may abort, and MaxDepth ends the host's calls.
CHECK_DEADLOCK FALSE
