SPECIFICATION Spec
CONSTANTS
  Languages <- MCLanguages
INVARIANTS
  TakesTheGrammar
  WordsInOrder
  TreeUnlessReopened
CHECK_DEADLOCK FALSE
