\* Up to four lines, read from a file or typed at the prompt.
CONSTANTS
  Word <- MCWord
  Line <- MCLine
  MaxLines = 4
  LYTHON_INDENT = 4
  Callers <- Both
SPECIFICATION Spec
INVARIANTS
  StatementInItsBlock
  ClauseMatchesStatement
  SilentMeansComplete
 
