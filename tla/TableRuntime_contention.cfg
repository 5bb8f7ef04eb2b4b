\* Three threads contending for one table, any allocation may fail.
CONSTANTS
  Thread = {t1, t2, t3}
  TableName = {users}
  users = users
  USERS = USERS
  orders = orders
  Shape = {s1, s2, wide, withId}
  s1 = s1
  s2 = s2
  wide = wide
  withId = withId
  MentionsId = {withId}
  TooWide = {wide}
  Value = {a, b}
  a = a
  b = b
  MaxId = 2
  InitialCapacity = 1
  AllocMayFail = TRUE
  SplitMayFail = FALSE
  NULL = NULL
  Fold <- MCFold
  Workload <- Contention
SPECIFICATION Spec
SYMMETRY Symmetry
INVARIANTS
  ReadersSeeWholeTable
PROPERTIES
  CommittedRowsStable
  StatementsAtomic
