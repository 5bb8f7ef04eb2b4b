\* A buffer of 26 symbols, strings of up to three.
CONSTANTS
  BufferSize = 26
  KeyRoom = 2
  SqlRoom = 3
  NULL = NULL
  Request <- MCRequest
SPECIFICATION Spec
INVARIANTS
  PiecesDoNotMatter
  WholeStatementOrNone
  RefusalMeansNothingStored
