\* Files of up to four lines.
CONSTANTS
  Word <- MCWord
  Line <- MCLine
  MaxLines = 4
  LYTHON_INDENT = 4
SPECIFICATION Spec
INVARIANTS
  IndentMatchesLine
  NeverTooShallow
  TokensInOrder
PROPERTY EndsInEof
