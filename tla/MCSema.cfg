\* Modules of up to three statements.  A module ends, so the analysis stops.
CONSTANTS
  Statement <- MCStatement
  Nodes <- MCNodes
  MaxNesting = 6
  MaxProgram = 3
  Builtins <- MCBuiltins
SPECIFICATION Spec
INVARIANTS
  NamesAreExact
  GeneratorsYield
  FunctionsTyped
PROPERTY ScopesAreClosed
CHECK_DEADLOCK FALSE
