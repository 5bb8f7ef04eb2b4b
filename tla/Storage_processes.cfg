\* Three processes, four calls, one of each failure.
CONSTANTS
  Proc = {p1, p2, p3}
  Column = {"name"}
  ExplicitId = {2}
  MaxId = 2
  MaxCalls = 4
  MaxCrashes = 1
  MaxFaults = 1
  MaxFull = 1
  AutoId = AutoId
  EmptyId = EmptyId
  AllRows = AllRows
  UnknownColumn = UnknownColumn
  SUCCESS = SUCCESS
  FAILURE = FAILURE
  NULL = NULL
SPECIFICATION Spec
SYMMETRY Symmetry
INVARIANTS
  OffsetsFindTheirRows
  DeletesMeetAcrossVersions
PROPERTIES
  FileHistory
