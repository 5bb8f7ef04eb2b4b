\* The keys of a table whose index fails to grow once.
CONSTANTS
  MaxKeys = 3
  MaxKey = 5
  MaxNode = 8
  Shuffled = 0
  MaxFailures = 1
  NULL = NULL
SPECIFICATION Spec
INVARIANTS
  InsertedKeysStaySearchable
