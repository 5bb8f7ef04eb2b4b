\* An INSERT and a DELETE, nothing fails.
CONSTANTS
  Proc = {p1, p2}
  Column = {"name"}
  ExplicitId = {1}
  MaxId = 2
  MaxCalls = 3
  MaxCrashes = 0
  MaxFaults = 0
  MaxFull = 0
  AutoId = AutoId
  EmptyId = EmptyId
  AllRows = AllRows
  UnknownColumn = UnknownColumn
  SUCCESS = SUCCESS
  FAILURE = FAILURE
  NULL = NULL
SPECIFICATION Spec
INVARIANTS
  InsertedRowIsStored
