\* Three workers, a ring of two cells, enough descriptors to fill both.
CONSTANTS
  Worker = {w1, w2, w3}
  Fd = {c1, c2, c3, c4}
  Capacity = 2
  NULL = NULL
SPECIFICATION FairSpec
INVARIANTS
  NoSleepingOnWork
  NobodySleepsInShutdown
PROPERTIES
  RingIsFifo
  EveryRequestTaken
  EveryWorkerLeaves
