\* Rows of any characters in three statements, or in five of the frequent ones; one
\* write may be cut.
CONSTANTS
  LineMax = 8
  MaxColumns = 2
  MaxName = 2
  MaxInteger = 12
  MaxValue = 3
  FAILURE = FAILURE
  AllRows = AllRows
  MaxWeight = 15
  Weight <- MCWeight
  MaxTears = 1
  InsertStatement <- MCInsertStatement
  DeleteStatement <- MCDeleteStatement
  Literal <- MCLiteral
SPECIFICATION Spec
INVARIANTS
  RowsReadBack
  IdsDiffer
  IndexAgreesWithScan
PROPERTIES
  UnreadableKeepsItsRows
