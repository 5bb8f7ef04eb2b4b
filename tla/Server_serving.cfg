\* Five clients, two workers, a queue of one, just enough descriptors.
CONSTANTS
  Worker = {w1, w2}
  Client = {c1, c2, c3, c4, c5}
  Capacity = 1
  LastFd = 4
  Fd <- MCFd
  CreateMayFail = FALSE
  AcceptMayFail = FALSE
  NULL = NULL
SPECIFICATION ServerSpec
SYMMETRY Symmetry
INVARIANTS
  OneHolderPerConnection
  OnlySignalEndsServing
PROPERTIES
  UsesQueueProperly
