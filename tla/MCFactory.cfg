\* Two threads of the host, and every way a load can end.  Loads of one library
\* that overlap make the vector grow, and move.
SPECIFICATION Spec
CONSTANTS
  t1 = t1
  t2 = t2
  lua = lua
  broken = broken
  pLua = pLua
  pAlias = pAlias
  pBroken = pBroken
  pNone = pNone
  i1 = i1
  co = co
  Missing = Missing
  Nothing = Nothing
  Threads = {t1, t2}
  Paths = {pLua, pAlias, pBroken, pNone}
  Libraries = {lua, broken}
  Complete = {lua}
  Ids = {i1}
  Coroutines = {co}
  Image <- MCImage
  NameOf <- MCNameOf
INVARIANTS
  DuplicatesOverlap
  SearchComplete
  OneLibraryPerName
PROPERTIES
  NullMeansLoaded
  CatalogSpec
  OperationsReturn
CHECK_DEADLOCK FALSE
