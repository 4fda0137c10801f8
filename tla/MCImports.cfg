SPECIFICATION Spec
CONSTANTS
  m1 = m1
  m2 = m2
  m3 = m3
  here = here
  lib = lib
  Module <- MCModule
  Dir <- MCDir
  Cwd = here
  Content <- MCContent
  Programs <- MCPrograms
  MaxDepth = 4
INVARIANTS
  OneVersion
PROPERTIES
  NeverReplaced
  CallsEnd
CHECK_DEADLOCK FALSE
