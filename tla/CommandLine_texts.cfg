\* Every text of up to six symbols, and edited statements.
CONSTANTS
  Name = {"x", "exit"}
  MaxToken = 3
  MaxColumns = 2
  MaxIdentifier = 1
  MaxSqlLength = 15
  Length = 6
  LateLength = 4
  Padding = 12
  Script <- MCScript
SPECIFICATION Spec
INVARIANTS
  SameStatements
  ExitBetweenStatements
  CutsAgreeWithTokens
  ParserKnowsLanguage
  FailureReported
