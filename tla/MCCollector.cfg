\* Two addresses and two references; the list may hold one of them twice.
SPECIFICATION Spec
CONSTANTS
  a1 = a1
  a2 = a2
  Addr = {a1, a2}
  Null = Null
  Field = {next}
  Slot = {x, y}
  MaxListed = 4
  MaxStray = 1
INVARIANTS
  NoDangling
  ListedOnce
  CleanWithoutFree
  FinalizersMeetTheirOwn
PROPERTIES
  GarbageGone
  CollectEnds
