SPECIFICATION Spec
CONSTANTS
  s1 = s1
  s2 = s2
  v1 = v1
  v2 = v2
  v3 = v3
  m1 = m1
  m2 = m2
  None = None
  print = print
  DataName = DataName
  Types = {s1, s2}
  Names = {print, DataName}
  Methods = {m1, m2}
  Vars = {v1, v2, v3}
  MaxFields = 3
  MaxClasses = 2
INVARIANTS
  ObjectsLost
  SiblingsAgree
PROPERTIES
  StepsStayInClass
SYMMETRY Alike
CHECK_DEADLOCK FALSE
