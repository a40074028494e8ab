\* The working directory's "./" and another directory.
SPECIFICATION SearchSpec
CONSTANTS
  relative = relative
  absolute = absolute
  script = script
  copy = copy
  other = other
  NoFile = NoFile
  Scripts = {relative, absolute}
  Files = {script, copy, other}
  Dirs = 2
  FileOf <- MCFileOf
INVARIANTS
  OldScriptIsOwn
  StayingScriptRuns
