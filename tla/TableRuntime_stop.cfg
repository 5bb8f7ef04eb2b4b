\* Shutdown with two threads and two tables, one of them under two spellings,
\* under weak fairness; any allocation may fail, and bptree_insert halfway
\* through a split.
CONSTANTS
  Thread = {t1, t2}
  TableName = {users, USERS, orders}
  users = users
  USERS = USERS
  orders = orders
  Shape = {s1, s2, wide, withId}
  s1 = s1
  s2 = s2
  wide = wide
  withId = withId
  MentionsId = {withId}
  TooWide = {wide}
  Value = {a, b}
  a = a
  b = b
  MaxId = 3
  InitialCapacity = 1
  AllocMayFail = TRUE
  SplitMayFail = TRUE
  NULL = NULL
  Fold <- MCFold
  Workload <- Stopping
SPECIFICATION FairSpec
INVARIANTS
  RuntimeInv
  OneEntryPerTable
PROPERTIES
  OnlyInsertsGrowRegistry
  StopFreesEverything
  StatementsAtomic
