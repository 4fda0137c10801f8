SPECIFICATION Spec
CONSTANTS
  Languages <- CycleLanguages
INVARIANTS
  NoOwnershipCycle
CHECK_DEADLOCK FALSE
