\* Two nested objects just fit.
SPECIFICATION Spec
CONSTANTS
  x = x
  y = y
  p = p
  f = f
  a = a
  b = b
  Callback = Callback
  Nil = Nil
  Valueless = Valueless
  Global = Global
  Old = Old
  Objects = {x, y}
  Plain = {p}
  Functions = {f}
  Names = {a, b}
  Contents <- MCContents
  Leftovers <- MCLeftovers
  Slots = 5
INVARIANTS
  TypeOK
  Converted
  OldTableKept
  CallableIsNamed
  OverrunOnlyDeep
CHECK_DEADLOCK FALSE
