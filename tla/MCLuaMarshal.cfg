\* Two nested tables just fit.
SPECIFICATION Spec
CONSTANTS
  t1 = t1
  t2 = t2
  p = p
  half = half
  s = s
  f = f
  o = o
  one = one
  str = str
  odd = odd
  Nil = Nil
  NoName = NoName
  Tables = {t1, t2}
  Plain = {p}
  Fractions = {half}
  Texts = {s}
  Functions = {f}
  Objects = {o}
  Keys = {one, str, odd}
  Names = {str}
  NameOf <- MCNameOf
  Contents <- MCContents
  Givens <- MCGivens
  Slots = 8
INVARIANTS
  TypeOK
  ResultsRead
  Balanced
  OverrunOnlyDeep
  ThrownLeaves
PROPERTIES
  ConversionEnds
CHECK_DEADLOCK FALSE
