\* Five keys in every order, six more as a table inserts them, nodes of two
\* keys, two callocs may fail.
CONSTANTS
  MaxKeys = 2
  MaxKey = 11
  MaxNode = 22
  Shuffled = 5
  MaxFailures = 2
  NULL = NULL
SPECIFICATION Spec
INVARIANTS
  TypeOK
  SearchTree
  SplitNodeIsChild
PROPERTIES
  IndexPromise
  FailureLosesNewest
