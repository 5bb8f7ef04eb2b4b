----------------------------- MODULE RequestQueue -----------------------------
(***************************************************************************)
(* The ServerRequestQueue of server.c: a ring of client descriptors, its   *)
(* mutex and its condition variable, used by the accept thread and by the  *)
(* worker threads.                                                         *)
(*                                                                         *)
(* All fields of the queue are read and written under its mutex only, so   *)
(* one critical section is one step; pthread_cond_wait ends a critical     *)
(* section and starts another.  A worker inside server_queue_pop is either *)
(* popping (it holds or wants the mutex) or asleep in the wait.            *)
(***************************************************************************)
EXTENDS Integers, Sequences, FiniteSets

CONSTANTS
  Fd,        \* client descriptors
  Worker,
  Capacity,  \* SERVER_QUEUE_CAPACITY
  NULL

ASSUME RequestQueueAssumption ==
  /\ Capacity \in Nat \ {0}
  /\ IsFiniteSet(Worker)
  /\ NULL \notin Fd \cup Worker

VARIABLES
  items, head, tail, count,
  shuttingDown,
  popping,   \* the workers inside server_queue_pop and not in the wait
  asleep,    \* the workers inside pthread_cond_wait
  request,   \* request[w]: the descriptor worker w popped and has not closed
  left       \* the workers whose server_queue_pop returned FAILURE

ringVars   == <<items, head, tail, count>>
workerVars == <<popping, asleep, request, left>>
queueVars  == <<ringVars, shuttingDown, workerVars>>

Cell == 0..(Capacity - 1)

TypeOK ==
  /\ items \in [Cell -> Fd \cup {NULL}]
  /\ head \in Cell
  /\ tail \in Cell
  /\ count \in 0..Capacity
  /\ shuttingDown \in BOOLEAN
  /\ popping \subseteq Worker
  /\ asleep \subseteq Worker
  /\ request \in [Worker -> Fd \cup {NULL}]
  /\ left \subseteq Worker

\* server_queue_init
Init ==
  /\ items = [i \in Cell |-> NULL]
  /\ head = 0
  /\ tail = 0
  /\ count = 0
  /\ shuttingDown = FALSE
  /\ popping = {}
  /\ asleep = {}
  /\ request = [w \in Worker |-> NULL]
  /\ left = {}

Following(i) == (i + 1) % Capacity

\* The waiting descriptors, oldest first.
Waiting == [i \in 1..count |-> items[(head + i - 1) % Capacity]]

Queued == { Waiting[i] : i \in 1..count }

-------------------------------------------------------------------------------
\* Mutant: the test for a full queue is off by one.
RefusedLate == shuttingDown \/ count > Capacity

\* server_queue_push fails.
Refused == shuttingDown \/ count = Capacity

\* Mutants: no signal, a signal only for the first request in the queue, and a
\* shutdown that signals instead of broadcasting.
SignalNobody == UNCHANGED <<asleep, popping>>

SignalWhenEmpty ==
  IF asleep = {} \/ count > 0 THEN UNCHANGED <<asleep, popping>>
  ELSE \E w \in asleep : asleep' = asleep \ {w} /\ popping' = popping \cup {w}

BroadcastToOne ==
  IF asleep = {} THEN UNCHANGED <<asleep, popping>>
  ELSE \E w \in asleep : asleep' = asleep \ {w} /\ popping' = popping \cup {w}

\* pthread_cond_signal, pthread_cond_broadcast
Signal ==
  IF asleep = {} THEN UNCHANGED <<asleep, popping>>
  ELSE \E w \in asleep : asleep' = asleep \ {w} /\ popping' = popping \cup {w}

Broadcast == asleep' = {} /\ popping' = popping \cup asleep

Push(fd) ==
  /\ ~Refused
  /\ items' = [items EXCEPT ![tail] = fd]
  /\ tail' = Following(tail)
  /\ count' = count + 1
  /\ Signal
  /\ UNCHANGED <<head, shuttingDown, request, left>>

\* A worker calls server_queue_pop.
EnterPop(w) == popping' = popping \cup {w}

\* Mutant: the loop condition forgets shutting_down.
WaitWhileEmpty(w) ==
  /\ w \in popping
  /\ count = 0
  /\ popping' = popping \ {w}
  /\ asleep' = asleep \cup {w}
  /\ UNCHANGED <<ringVars, shuttingDown, request, left>>

\* The loop condition holds: the worker waits.
Wait(w) ==
  /\ w \in popping
  /\ count = 0
  /\ ~shuttingDown
  /\ popping' = popping \ {w}
  /\ asleep' = asleep \cup {w}
  /\ UNCHANGED <<ringVars, shuttingDown, request, left>>

\* pthread_cond_wait may return without a signal.
WakeSpuriously(w) ==
  /\ w \in asleep
  /\ asleep' = asleep \ {w}
  /\ popping' = popping \cup {w}
  /\ UNCHANGED <<ringVars, shuttingDown, request, left>>

PopRequest(w) ==
  /\ w \in popping
  /\ count > 0
  /\ request' = [request EXCEPT ![w] = items[head]]
  /\ head' = Following(head)
  /\ count' = count - 1
  /\ popping' = popping \ {w}
  /\ UNCHANGED <<items, tail, shuttingDown, asleep, left>>

\* Mutant: a shutdown drops what is still queued.
PopNothingEarly(w) ==
  /\ w \in popping
  /\ shuttingDown
  /\ popping' = popping \ {w}
  /\ left' = left \cup {w}
  /\ UNCHANGED <<ringVars, shuttingDown, asleep, request>>

\* server_queue_pop returns FAILURE and server_worker_main returns.
PopNothing(w) ==
  /\ w \in popping
  /\ count = 0
  /\ shuttingDown
  /\ popping' = popping \ {w}
  /\ left' = left \cup {w}
  /\ UNCHANGED <<ringVars, shuttingDown, asleep, request>>

\* server_queue_shutdown
Shutdown ==
  /\ shuttingDown' = TRUE
  /\ Broadcast
  /\ UNCHANGED <<ringVars, request, left>>

Pop(w) == Wait(w) \/ PopRequest(w) \/ PopNothing(w)

-------------------------------------------------------------------------------
\* The queue on its own: the accept thread pushes descriptors that are open
\* and not yet in use, and a worker calls pop, handles, closes and calls again.
InUse == Queued \cup { request[w] : w \in Worker }

Accept(fd) == fd \notin InUse /\ Push(fd)

Start(w) ==
  /\ w \notin popping \cup asleep \cup left
  /\ request[w] = NULL
  /\ EnterPop(w)
  /\ UNCHANGED <<ringVars, shuttingDown, asleep, request, left>>

Handled(w) ==
  /\ request[w] # NULL
  /\ request' = [request EXCEPT ![w] = NULL]
  /\ EnterPop(w)
  /\ UNCHANGED <<ringVars, shuttingDown, asleep, left>>

Work(w) == Start(w) \/ Pop(w) \/ Handled(w)

Close == ~shuttingDown /\ Shutdown

\* server_run has joined the workers.
Ended == left = Worker /\ UNCHANGED queueVars

Next ==
  \/ \E fd \in Fd : Accept(fd)
  \/ \E w \in Worker : Work(w) \/ WakeSpuriously(w)
  \/ Close
  \/ Ended

Spec == Init /\ [][Next]_queueVars

\* A thread that can run does; nobody has to connect or to stop the server.
FairSpec == Spec /\ \A w \in Worker : WF_queueVars(Work(w))

-------------------------------------------------------------------------------
\* Properties

(***************************************************************************)
(* No lost wakeup: a worker sleeps only while enough others are about to   *)
(* look at the queue for every request in it.  One signal per push is      *)
(* enough although a busy worker may steal the request of a worker that    *)
(* was just signalled (server.c:134-137, 153-155).                         *)
(***************************************************************************)
NoSleepingOnWork == asleep # {} => count <= Cardinality(popping)

(***************************************************************************)
(* After server_queue_shutdown no worker sleeps or falls asleep again, so  *)
(* the joins of server_run can end (server.c:114-117).                     *)
(***************************************************************************)
NobodySleepsInShutdown == shuttingDown => asleep = {}

(***************************************************************************)
(* Across any number of wraparounds the ring hands every descriptor to one *)
(* worker, in the order of acceptance, never waits with more than Capacity *)
(* and sends workers away only when it is shut down and drained            *)
(* (server.c:124-167).                                                     *)
(***************************************************************************)
Abstract == INSTANCE BoundedQueue WITH queue <- Waiting, closed <- shuttingDown

RingIsFifo == Abstract!Spec

(***************************************************************************)
(* A queued request is taken as long as workers finish what they handle,   *)
(* and after a shutdown every worker that runs leaves its loop.            *)
(***************************************************************************)
EveryRequestTaken == \A fd \in Fd : fd \in Queued ~> fd \notin Queued

EveryWorkerLeaves == shuttingDown ~> left = Worker
===============================================================================
