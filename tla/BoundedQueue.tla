----------------------------- MODULE BoundedQueue -----------------------------
(***************************************************************************)
(* What the request queue promises: requests are handed to the workers     *)
(* once each, in the order they were put in; at most Capacity of them      *)
(* wait; a worker is sent away only when the queue is closed and empty.    *)
(***************************************************************************)
EXTENDS Naturals, Sequences

CONSTANTS
  Fd,        \* client descriptors
  Worker,
  Capacity,
  NULL

VARIABLES
  queue,     \* the waiting descriptors, oldest first
  closed,
  request,   \* request[w]: the descriptor worker w was given, NULL when none
  left       \* the workers that were sent away

queueVars == <<queue, closed, request, left>>

Init ==
  /\ queue = <<>>
  /\ closed = FALSE
  /\ request = [w \in Worker |-> NULL]
  /\ left = {}

Put(fd) ==
  /\ ~closed
  /\ Len(queue) < Capacity
  /\ queue' = Append(queue, fd)
  /\ UNCHANGED <<closed, request, left>>

Give(w) ==
  /\ w \notin left
  /\ request[w] = NULL
  /\ queue # <<>>
  /\ request' = [request EXCEPT ![w] = Head(queue)]
  /\ queue' = Tail(queue)
  /\ UNCHANGED <<closed, left>>

Finish(w) ==
  /\ request[w] # NULL
  /\ request' = [request EXCEPT ![w] = NULL]
  /\ UNCHANGED <<queue, closed, left>>

SendAway(w) ==
  /\ closed
  /\ queue = <<>>
  /\ request[w] = NULL
  /\ left' = left \cup {w}
  /\ UNCHANGED <<queue, closed, request>>

Close ==
  /\ closed' = TRUE
  /\ UNCHANGED <<queue, request, left>>

Next ==
  \/ \E fd \in Fd : Put(fd)
  \/ \E w \in Worker : Give(w) \/ Finish(w) \/ SendAway(w)
  \/ Close

Spec == Init /\ [][Next]_queueVars
===============================================================================
