\* Startup and accept may fail; three clients, under the fairness of the threads.
CONSTANTS
  Worker = {w1, w2}
  Client = {c1, c2, c3}
  Capacity = 2
  LastFd = 5
  Fd <- MCFd
  CreateMayFail = TRUE
  AcceptMayFail = TRUE
  NULL = NULL
SPECIFICATION FairServerSpec
INVARIANTS
  CleanupAlone
PROPERTIES
  SignalEndsServer
  FailureEndsServer
  EveryClientServed
