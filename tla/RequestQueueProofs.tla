------------------------- MODULE RequestQueueProofs -------------------------
(***************************************************************************)
(* The request queue loses no wakeup, lets every worker go at the shutdown *)
(* and is the bounded queue it promises to be, for every number of         *)
(* workers, descriptors and places.                                        *)
(***************************************************************************)
EXTENDS RequestQueue, FiniteSetTheorems, SequenceTheorems, TLAPS

USE DEF queueVars, ringVars, workerVars, Abstract!queueVars

(***************************************************************************)
(* A worker in server_queue_pop is either popping or asleep, and handles   *)
(* no request; so whoever enters is counted once more among the popping.   *)
(***************************************************************************)
WorkerInv ==
  /\ popping \cap asleep = {}
  /\ \A w \in popping \cup asleep : request[w] = NULL

QueueInv == TypeOK /\ WorkerInv /\ NoSleepingOnWork /\ NobodySleepsInShutdown

-------------------------------------------------------------------------------
\* How many workers pop

\* The ring indices stay inside the array.
LEMMA FollowingInCell == \A i \in Cell : Following(i) \in Cell
BY RequestQueueAssumption DEF Cell, Following

\* A worker that enters adds one to those that pop.
LEMMA OneMorePops ==
  ASSUME NEW P \in SUBSET Worker, NEW w \in Worker
  PROVE  /\ Cardinality(P) \in Nat
         /\ Cardinality(P) <= Cardinality(P \cup {w})
         /\ w \notin P => Cardinality(P \cup {w}) = Cardinality(P) + 1
         /\ Cardinality(P \cup {w}) \in Nat
<1>1. IsFiniteSet(P)
  BY RequestQueueAssumption, FS_Subset
<1>2. Cardinality(P) \in Nat /\ Cardinality(P \cup {w}) \in Nat
  BY <1>1, FS_AddElement, FS_CardinalityType
<1>3. Cardinality(P \cup {w}) = IF w \in P THEN Cardinality(P) ELSE Cardinality(P) + 1
  BY <1>1, FS_AddElement
<1> QED  BY <1>2, <1>3

\* A worker that leaves takes one from those that pop.
LEMMA OneFewerPops ==
  ASSUME NEW P \in SUBSET Worker, NEW w \in P
  PROVE  /\ Cardinality(P) \in Nat
         /\ Cardinality(P \ {w}) = Cardinality(P) - 1
<1>1. IsFiniteSet(P)
  BY RequestQueueAssumption, FS_Subset
<1>2. Cardinality(P) \in Nat
  BY <1>1, FS_CardinalityType
<1>3. Cardinality(P \ {w}) = Cardinality(P) - 1
  BY <1>1, FS_RemoveElement
<1> QED  BY <1>2, <1>3

-------------------------------------------------------------------------------
\* One lemma per action

\* A push signals one sleeper, who will look at the new request.
LEMMA PushInv ==
  ASSUME QueueInv, NEW fd \in Fd, Push(fd) PROVE QueueInv'
<1> USE DEF QueueInv, Push, Refused
<1>1. TypeOK'
  BY FollowingInCell, RequestQueueAssumption DEF TypeOK, Signal
<1>2. CASE asleep = {}
  BY <1>1, <1>2 DEF Signal, WorkerInv, NoSleepingOnWork, NobodySleepsInShutdown
<1>3. CASE asleep # {}
  <2>1. PICK w \in asleep : asleep' = asleep \ {w} /\ popping' = popping \cup {w}
    BY <1>3 DEF Signal
  <2>2. w \in Worker /\ w \notin popping /\ popping \in SUBSET Worker
    BY DEF TypeOK, WorkerInv
  <2>3. WorkerInv'
    BY <2>1 DEF WorkerInv
  <2>4. NoSleepingOnWork'
    BY <1>3, <2>1, <2>2, OneMorePops DEF NoSleepingOnWork, TypeOK
  <2> QED  BY <1>1, <2>3, <2>4 DEF NobodySleepsInShutdown
<1> QED  BY <1>2, <1>3

\* A worker calls server_queue_pop, at first or after a request.
LEMMA EnterInv ==
  ASSUME QueueInv, NEW w \in Worker, Start(w) \/ Handled(w) PROVE QueueInv'
<1> USE DEF QueueInv, EnterPop
<1>1. TypeOK'
  BY DEF TypeOK, Start, Handled
<1>2. WorkerInv'
  BY DEF TypeOK, WorkerInv, Start, Handled
<1>3. NoSleepingOnWork'
  <2>1. popping' = popping \cup {w} /\ UNCHANGED <<count, asleep>>
    BY DEF Start, Handled
  <2>2. count \in Nat /\ popping \in SUBSET Worker
    BY RequestQueueAssumption DEF TypeOK
  <2> QED  BY <2>1, <2>2, OneMorePops DEF NoSleepingOnWork
<1>4. NobodySleepsInShutdown'
  BY DEF NobodySleepsInShutdown, Start, Handled
<1> QED  BY <1>1, <1>2, <1>3, <1>4

\* A worker in server_queue_pop waits, takes a request or is sent away.
LEMMA PopInv ==
  ASSUME QueueInv, NEW w \in Worker, Pop(w) PROVE QueueInv'
<1> USE DEF QueueInv
<1>1. w \in popping /\ popping \in SUBSET Worker /\ count \in Nat
  BY RequestQueueAssumption DEF Pop, Wait, PopRequest, PopNothing, TypeOK
<1>2. Cardinality(popping) \in Nat /\ Cardinality(popping \ {w}) = Cardinality(popping) - 1
  BY <1>1, OneFewerPops
<1>3. Cardinality(popping \ {w}) \in Nat
  BY <1>1, RequestQueueAssumption, FS_Subset, FS_CardinalityType
<1>4. CASE Wait(w)
  <2>1. TypeOK' /\ WorkerInv'
    BY <1>1, <1>4 DEF Wait, TypeOK, WorkerInv
  <2>2. NoSleepingOnWork' /\ NobodySleepsInShutdown'
    BY <1>3, <1>4 DEF Wait, NoSleepingOnWork, NobodySleepsInShutdown
  <2> QED  BY <2>1, <2>2
<1>5. CASE PopRequest(w)
  <2>1. TypeOK'
    BY <1>1, <1>5, FollowingInCell, RequestQueueAssumption DEF PopRequest, TypeOK
  <2>2. WorkerInv'
    BY <1>1, <1>5 DEF PopRequest, TypeOK, WorkerInv
  <2>3. NoSleepingOnWork'
    BY <1>1, <1>2, <1>5 DEF PopRequest, NoSleepingOnWork
  <2>4. NobodySleepsInShutdown'
    BY <1>5 DEF PopRequest, NobodySleepsInShutdown
  <2> QED  BY <2>1, <2>2, <2>3, <2>4
<1>6. CASE PopNothing(w)
  <2>1. TypeOK' /\ WorkerInv'
    BY <1>1, <1>6 DEF PopNothing, TypeOK, WorkerInv
  <2>2. NoSleepingOnWork' /\ NobodySleepsInShutdown'
    BY <1>6 DEF PopNothing, NoSleepingOnWork, NobodySleepsInShutdown
  <2> QED  BY <2>1, <2>2
<1> QED  BY <1>4, <1>5, <1>6 DEF Pop

\* pthread_cond_wait returns without a signal.
LEMMA WakeInv ==
  ASSUME QueueInv, NEW w \in Worker, WakeSpuriously(w) PROVE QueueInv'
<1> USE DEF QueueInv, WakeSpuriously
<1>1. TypeOK' /\ WorkerInv'
  BY DEF TypeOK, WorkerInv
<1>2. popping \in SUBSET Worker /\ count \in Nat
  BY RequestQueueAssumption DEF TypeOK
<1>3. NoSleepingOnWork'
  BY <1>2, OneMorePops DEF NoSleepingOnWork
<1> QED  BY <1>1, <1>3 DEF NobodySleepsInShutdown

\* The shutdown wakes everybody.
LEMMA CloseInv ==
  ASSUME QueueInv, Close PROVE QueueInv'
BY DEF QueueInv, TypeOK, WorkerInv, NoSleepingOnWork, NobodySleepsInShutdown,
       Close, Shutdown, Broadcast

\* The queue begins counted right.
LEMMA QueueBegins == Init => QueueInv
<1> SUFFICES ASSUME Init PROVE QueueInv
  OBVIOUS
<1>1. 0 \in Cell /\ 0 \in 0..Capacity
  BY RequestQueueAssumption DEF Cell
<1>2. TypeOK
  BY <1>1 DEF Init, TypeOK
<1>3. WorkerInv /\ NoSleepingOnWork /\ NobodySleepsInShutdown
  BY DEF Init, WorkerInv, NoSleepingOnWork, NobodySleepsInShutdown
<1> QED  BY <1>2, <1>3 DEF QueueInv

\* Every step keeps it so.
LEMMA QueueStep == QueueInv /\ [Next]_queueVars => QueueInv'
<1> SUFFICES ASSUME QueueInv, [Next]_queueVars PROVE QueueInv'
  OBVIOUS
<1>1. CASE \E fd \in Fd : Accept(fd)
  BY <1>1, PushInv DEF Accept
<1>2. CASE \E w \in Worker : Work(w)
  BY <1>2, EnterInv, PopInv DEF Work
<1>3. CASE \E w \in Worker : WakeSpuriously(w)
  BY <1>3, WakeInv
<1>4. CASE Close
  BY <1>4, CloseInv
<1>5. CASE UNCHANGED queueVars
  BY <1>5 DEF QueueInv, TypeOK, WorkerInv, NoSleepingOnWork, NobodySleepsInShutdown
<1> QED  BY <1>1, <1>2, <1>3, <1>4, <1>5 DEF Next, Ended

-------------------------------------------------------------------------------
\* Theorems

(***************************************************************************)
(* The fields of the queue keep their ranges, and the workers inside pop   *)
(* are counted right: the invariant the other theorems follow from         *)
(* (server.c:78-167).                                                      *)
(***************************************************************************)
THEOREM QueueCorrect == Spec => []QueueInv
BY QueueBegins, QueueStep, PTL DEF Spec

(***************************************************************************)
(* One signal per push loses no wakeup: while a worker sleeps there are at *)
(* least as many others in server_queue_pop as requests (server.c:138,     *)
(* 153-155).                                                               *)
(***************************************************************************)
THEOREM NoSleepingOnWorkHolds == Spec => []NoSleepingOnWork
<1>1. QueueInv => NoSleepingOnWork
  BY DEF QueueInv
<1> QED  BY <1>1, QueueCorrect, PTL

(***************************************************************************)
(* No worker sleeps after the broadcast of server_queue_shutdown           *)
(* (server.c:109-117).                                                     *)
(***************************************************************************)
THEOREM NobodySleepsInShutdownHolds == Spec => []NobodySleepsInShutdown
<1>1. QueueInv => NobodySleepsInShutdown
  BY DEF QueueInv
<1> QED  BY <1>1, QueueCorrect, PTL

-------------------------------------------------------------------------------
\* Where the cells of the ring lie

\* An index inside the array is its own cell.
LEMMA ModSmall == \A a \in Cell : a % Capacity = a
BY RequestQueueAssumption DEF Cell

\* A turn of the ring leads to the same cell.
LEMMA ModOnce == \A a \in Cell : (a + Capacity) % Capacity = a
BY RequestQueueAssumption DEF Cell

\* Where a cell that is k places after i lies: before or after the end of the array.
LEMMA CellAt ==
  ASSUME NEW i \in Cell, NEW k \in 0..Capacity
  PROVE  (i + k) % Capacity = IF i + k < Capacity THEN i + k ELSE i + k - Capacity
<1>1. CASE i + k < Capacity
  <2>1. i + k \in Cell
    BY <1>1, RequestQueueAssumption DEF Cell
  <2> QED  BY <1>1, <2>1, ModSmall
<1>2. CASE ~(i + k < Capacity)
  <2>1. i + k - Capacity \in Cell
    BY <1>2, RequestQueueAssumption DEF Cell
  <2>2. ((i + k - Capacity) + Capacity) % Capacity = i + k - Capacity
    BY <2>1, ModOnce
  <2>3. (i + k - Capacity) + Capacity = i + k
    BY RequestQueueAssumption DEF Cell
  <2> QED  BY <1>2, <2>2, <2>3
<1> QED  BY <1>1, <1>2

\* tail lies count places after head.
RingInv == tail = (head + count) % Capacity

\* A worker that was sent away does nothing any more.
LeftInv ==
  /\ left \cap (popping \cup asleep) = {}
  /\ \A w \in left : request[w] = NULL

\* Waiting is a sequence of count entries.
LEMMA WaitingIsSeq ==
  ASSUME TypeOK PROVE Waiting \in Seq(Fd \cup {NULL}) /\ Len(Waiting) = count
<1>1. count \in Nat
  BY RequestQueueAssumption DEF TypeOK
<1>2. \A i \in 1..count : items[(head + i - 1) % Capacity] \in Fd \cup {NULL}
  <2> SUFFICES ASSUME NEW i \in 1..count
               PROVE  items[(head + i - 1) % Capacity] \in Fd \cup {NULL}
    OBVIOUS
  <2>1. (head + i - 1) % Capacity \in Cell
    BY RequestQueueAssumption DEF TypeOK, Cell
  <2> QED  BY <2>1 DEF TypeOK
<1>3. Waiting \in [1..count -> Fd \cup {NULL}]
  BY <1>2 DEF Waiting
<1> QED  BY <1>1, <1>3

\* A push writes to a cell no waiting descriptor lies in, the one after them.
LEMMA PushAppends ==
  ASSUME TypeOK, RingInv, NEW fd \in Fd, Push(fd)
  PROVE  Waiting' = Append(Waiting, fd) /\ RingInv' /\ count < Capacity
<1> USE DEF Push, Refused
<1>1. /\ count \in Nat /\ Capacity \in Nat \ {0} /\ count < Capacity
      /\ head \in Cell /\ tail \in Cell /\ items \in [Cell -> Fd \cup {NULL}]
      /\ head' = head /\ count' = count + 1 /\ items' = [items EXCEPT ![tail] = fd]
  BY RequestQueueAssumption DEF TypeOK
<1>2. tail = IF head + count < Capacity THEN head + count ELSE head + count - Capacity
  <2>1. (head + count) % Capacity =
          IF head + count < Capacity THEN head + count ELSE head + count - Capacity
    BY <1>1, CellAt
  <2> QED  BY <2>1 DEF RingInv
<1>3. RingInv'
  <2>1. (head + (count + 1)) % Capacity =
          IF head + (count + 1) < Capacity THEN head + (count + 1)
                                           ELSE head + (count + 1) - Capacity
    BY <1>1, CellAt
  <2>2. Following(tail) = IF tail + 1 < Capacity THEN tail + 1 ELSE tail + 1 - Capacity
    BY <1>1, CellAt DEF Following
  <2> QED  BY <1>1, <1>2, <2>1, <2>2 DEF RingInv, Cell
<1>4. ASSUME NEW i \in 1..(count + 1)
      PROVE  items'[(head + i - 1) % Capacity] = IF i <= count THEN Waiting[i] ELSE fd
  <2>1. (head + (i - 1)) % Capacity =
          IF head + (i - 1) < Capacity THEN head + (i - 1) ELSE head + (i - 1) - Capacity
    BY <1>1, CellAt
  <2>2. head + (i - 1) = head + i - 1
    BY <1>1 DEF Cell
  <2>3. (head + i - 1) % Capacity \in Cell
    BY <1>1, <2>1, <2>2 DEF Cell
  <2>4. CASE i <= count
    <3>1. (head + i - 1) % Capacity # tail
      BY <1>1, <1>2, <2>1, <2>2, <2>4 DEF Cell
    <3>2. items'[(head + i - 1) % Capacity] = items[(head + i - 1) % Capacity]
      BY <1>1, <2>3, <3>1
    <3>3. Waiting[i] = items[(head + i - 1) % Capacity]
      BY <1>1, <2>4 DEF Waiting
    <3> QED  BY <2>4, <3>2, <3>3
  <2>5. CASE i = count + 1
    <3>1. (head + i - 1) % Capacity = tail
      BY <1>1, <1>2, <2>1, <2>2, <2>5 DEF Cell
    <3> QED  BY <1>1, <2>3, <2>5, <3>1
  <2> QED  BY <1>1, <2>4, <2>5
<1>5. Waiting' = [i \in 1..(count + 1) |-> IF i <= count THEN Waiting[i] ELSE fd]
  BY <1>1, <1>4 DEF Waiting
<1>6. Waiting' = Append(Waiting, fd)
  <2>1. Waiting \in Seq(Fd \cup {NULL}) /\ Len(Waiting) = count
    BY WaitingIsSeq
  <2>2. /\ Append(Waiting, fd) \in Seq(Fd \cup {NULL})
        /\ Len(Append(Waiting, fd)) = count + 1
        /\ \A i \in 1..(count + 1) : Append(Waiting, fd)[i] = IF i <= count THEN Waiting[i] ELSE fd
    BY <1>1, <2>1, AppendProperties
  <2>3. \A i \in 1..count : Waiting[i] \in Fd \cup {NULL}
    BY <2>1, ElementOfSeq
  <2>4. Waiting' \in [1..(count + 1) -> Fd \cup {NULL}]
    BY <1>1, <1>5, <2>3
  <2>5. Waiting' \in Seq(Fd \cup {NULL}) /\ Len(Waiting') = count + 1
    BY <1>1, <2>4
  <2>6. \A i \in 1..(count + 1) : Waiting'[i] = Append(Waiting, fd)[i]
    BY <1>5, <2>2
  <2> QED  BY <2>2, <2>5, <2>6, SeqEqual
<1> QED  BY <1>1, <1>3, <1>6

\* A pop takes the descriptor that waits longest and moves no other.
LEMMA PopTakesOldest ==
  ASSUME TypeOK, RingInv, NEW w \in Worker, PopRequest(w)
  PROVE  /\ Waiting # <<>> /\ items[head] = Head(Waiting)
         /\ Waiting' = Tail(Waiting) /\ RingInv'
<1> USE DEF PopRequest
<1>1. /\ count \in Nat \ {0} /\ Capacity \in Nat \ {0} /\ count <= Capacity
      /\ head \in Cell /\ tail \in Cell /\ items \in [Cell -> Fd \cup {NULL}]
      /\ head' = Following(head) /\ count' = count - 1 /\ items' = items /\ tail' = tail
  BY RequestQueueAssumption DEF TypeOK
<1>2. Waiting \in Seq(Fd \cup {NULL}) /\ Len(Waiting) = count
  BY WaitingIsSeq
<1>3. items[head] = Head(Waiting)
  <2>1. head + 1 - 1 = head /\ head % Capacity = head
    BY <1>1, ModSmall DEF Cell
  <2>2. Waiting[1] = items[head]
    BY <1>1, <2>1 DEF Waiting
  <2> QED  BY <1>1, <1>2, <2>2
<1>4. Following(head) = IF head + 1 < Capacity THEN head + 1 ELSE head + 1 - Capacity
  BY <1>1, CellAt DEF Following
<1>5. Following(head) \in Cell
  BY <1>1, <1>4 DEF Cell
<1>6. RingInv'
  <2>1. (head + count) % Capacity =
          IF head + count < Capacity THEN head + count ELSE head + count - Capacity
    BY <1>1, CellAt
  <2>2. (Following(head) + (count - 1)) % Capacity =
          IF Following(head) + (count - 1) < Capacity THEN Following(head) + (count - 1)
                                           ELSE Following(head) + (count - 1) - Capacity
    BY <1>1, <1>5, CellAt
  <2> QED  BY <1>1, <1>4, <2>1, <2>2 DEF RingInv, Cell
<1>7. ASSUME NEW i \in 1..(count - 1)
      PROVE  items[(Following(head) + i - 1) % Capacity] = Waiting[i + 1]
  <2>1. (Following(head) + (i - 1)) % Capacity =
          IF Following(head) + (i - 1) < Capacity THEN Following(head) + (i - 1)
                                           ELSE Following(head) + (i - 1) - Capacity
    BY <1>1, <1>5, CellAt
  <2>2. (head + i) % Capacity = IF head + i < Capacity THEN head + i ELSE head + i - Capacity
    BY <1>1, CellAt
  <2>3. Following(head) + (i - 1) = Following(head) + i - 1 /\ head + (i + 1) - 1 = head + i
    BY <1>1, <1>5 DEF Cell
  <2>4. (Following(head) + i - 1) % Capacity = (head + i) % Capacity
    BY <1>1, <1>4, <2>1, <2>2, <2>3 DEF Cell
  <2>5. Waiting[i + 1] = items[(head + i) % Capacity]
    BY <1>1, <2>3 DEF Waiting
  <2> QED  BY <2>4, <2>5
<1>8. Waiting' = [i \in 1..(count - 1) |-> Waiting[i + 1]]
  BY <1>1, <1>7 DEF Waiting
<1>9. Waiting # <<>>
  BY <1>1, <1>2
<1>10. Waiting' = Tail(Waiting)
  <2>1. /\ Tail(Waiting) \in Seq(Fd \cup {NULL})
        /\ Len(Tail(Waiting)) = count - 1
        /\ \A i \in 1..(count - 1) : Tail(Waiting)[i] = Waiting[i + 1]
    BY <1>2, <1>9, HeadTailProperties
  <2>2. \A i \in 1..(count - 1) : Waiting[i + 1] \in Fd \cup {NULL}
    BY <1>1, <1>2, ElementOfSeq
  <2>3. Waiting' \in [1..(count - 1) -> Fd \cup {NULL}]
    BY <1>8, <2>2
  <2>4. Waiting' \in Seq(Fd \cup {NULL}) /\ Len(Waiting') = count - 1
    BY <1>1, <2>3
  <2>5. \A i \in 1..(count - 1) : Waiting'[i] = Tail(Waiting)[i]
    BY <1>8, <2>1
  <2> QED  BY <2>1, <2>4, <2>5, SeqEqual
<1> QED  BY <1>3, <1>6, <1>9, <1>10

-------------------------------------------------------------------------------
\* The ring implements BoundedQueue

\* What the steps of the ring need to be steps of the bounded queue.
RefInv == QueueInv /\ RingInv /\ LeftInv

\* An empty ring is an empty queue.
LEMMA InitRefines == Init => Abstract!Init /\ RingInv /\ LeftInv
<1> SUFFICES ASSUME Init PROVE Abstract!Init /\ RingInv /\ LeftInv
  OBVIOUS
<1>1. Waiting = <<>>
  <2>1. Waiting = [i \in 1..0 |-> items[(head + i - 1) % Capacity]]
    BY DEF Init, Waiting
  <2> QED  BY <2>1
<1>2. RingInv
  BY RequestQueueAssumption DEF Init, RingInv
<1> QED  BY <1>1, <1>2 DEF Init, Abstract!Init, LeftInv

\* No step but a push and a pop changes what waits.
LEMMA WaitingKept ==
  ASSUME UNCHANGED ringVars PROVE Waiting' = Waiting /\ (RingInv => RingInv')
BY DEF Waiting, RingInv

\* A push puts a descriptor into the queue.
LEMMA AcceptRefines ==
  ASSUME RefInv, NEW fd \in Fd, Accept(fd)
  PROVE  Abstract!Put(fd) /\ RingInv' /\ LeftInv'
<1> USE DEF RefInv, QueueInv
<1>1. Push(fd)
  BY DEF Accept
<1>2. Waiting' = Append(Waiting, fd) /\ RingInv' /\ count < Capacity
  BY <1>1, PushAppends
<1>3. Len(Waiting) = count
  BY WaitingIsSeq
<1>4. Abstract!Put(fd)
  BY <1>1, <1>2, <1>3 DEF Push, Refused, Abstract!Put
<1>5. LeftInv'
  BY <1>1 DEF Push, Signal, LeftInv
<1> QED  BY <1>2, <1>4, <1>5

\* A step of a worker gives it a descriptor, finishes one, sends it away or
\* changes nothing the queue promises.
LEMMA WorkRefines ==
  ASSUME RefInv, NEW w \in Worker, Work(w) \/ WakeSpuriously(w)
  PROVE  /\ \/ Abstract!Give(w)
            \/ Abstract!Finish(w)
            \/ Abstract!SendAway(w)
            \/ UNCHANGED <<Waiting, shuttingDown, request, left>>
         /\ RingInv' /\ LeftInv'
<1> USE DEF RefInv, QueueInv
<1>1. CASE Start(w) \/ Wait(w) \/ WakeSpuriously(w)
  <2>1. UNCHANGED <<ringVars, shuttingDown, request, left>>
    BY <1>1 DEF Start, Wait, WakeSpuriously
  <2>2. LeftInv'
    BY <1>1 DEF Start, Wait, WakeSpuriously, EnterPop, LeftInv
  <2> QED  BY <2>1, <2>2, WaitingKept
<1>2. CASE PopRequest(w)
  <2>1. /\ Waiting # <<>> /\ items[head] = Head(Waiting)
        /\ Waiting' = Tail(Waiting) /\ RingInv'
    BY <1>2, PopTakesOldest
  <2>2. w \notin left /\ request[w] = NULL
    BY <1>2 DEF PopRequest, LeftInv, WorkerInv
  <2>3. Abstract!Give(w)
    BY <1>2, <2>1, <2>2 DEF PopRequest, Abstract!Give
  <2>4. LeftInv'
    BY <1>2, <2>2 DEF PopRequest, LeftInv, TypeOK
  <2> QED  BY <2>1, <2>3, <2>4
<1>3. CASE PopNothing(w)
  <2>1. Waiting' = Waiting /\ RingInv'
    BY <1>3, WaitingKept DEF PopNothing
  <2>2. Waiting = <<>>
    <3>1. Waiting = [i \in 1..0 |-> items[(head + i - 1) % Capacity]]
      BY <1>3 DEF PopNothing, Waiting
    <3> QED  BY <3>1
  <2>3. request[w] = NULL
    BY <1>3 DEF PopNothing, WorkerInv
  <2>4. Abstract!SendAway(w)
    BY <1>3, <2>1, <2>2, <2>3 DEF PopNothing, Abstract!SendAway
  <2>5. LeftInv'
    BY <1>3, <2>3 DEF PopNothing, LeftInv, WorkerInv
  <2> QED  BY <2>1, <2>4, <2>5
<1>4. CASE Handled(w)
  <2>1. Waiting' = Waiting /\ RingInv'
    BY <1>4, WaitingKept DEF Handled
  <2>2. Abstract!Finish(w)
    BY <1>4, <2>1 DEF Handled, Abstract!Finish
  <2>3. LeftInv'
    BY <1>4 DEF Handled, EnterPop, LeftInv, TypeOK
  <2> QED  BY <2>1, <2>2, <2>3
<1> QED  BY <1>1, <1>2, <1>3, <1>4 DEF Work, Pop

\* A shutdown closes the queue.
LEMMA CloseRefines ==
  ASSUME RefInv, Close PROVE Abstract!Close /\ RingInv' /\ LeftInv'
<1> USE DEF RefInv, Close, Shutdown
<1>1. Waiting' = Waiting /\ RingInv'
  BY WaitingKept
<1>2. LeftInv'
  BY DEF Broadcast, LeftInv
<1> QED  BY <1>1, <1>2 DEF Abstract!Close

\* Every step of the ring is a step of the queue or none.
LEMMA StepRefines ==
  RefInv /\ [Next]_queueVars => [Abstract!Next]_Abstract!queueVars /\ RingInv' /\ LeftInv'
<1> SUFFICES ASSUME RefInv, [Next]_queueVars
             PROVE  [Abstract!Next]_Abstract!queueVars /\ RingInv' /\ LeftInv'
  OBVIOUS
<1>1. CASE \E fd \in Fd : Accept(fd)
  BY <1>1, AcceptRefines DEF Abstract!Next
<1>2. CASE \E w \in Worker : Work(w) \/ WakeSpuriously(w)
  BY <1>2, WorkRefines DEF Abstract!Next
<1>3. CASE Close
  BY <1>3, CloseRefines DEF Abstract!Next
<1>4. CASE UNCHANGED queueVars
  <2>1. Waiting' = Waiting /\ RingInv'
    BY <1>4, WaitingKept DEF RefInv
  <2> QED  BY <1>4, <2>1 DEF RefInv, LeftInv
<1> QED  BY <1>1, <1>2, <1>3, <1>4 DEF Next, Ended

(***************************************************************************)
(* The ring with its wraparound implements the bounded queue: every        *)
(* descriptor is handed to one worker, in order, at most Capacity wait,    *)
(* and a worker is sent away only from a closed and empty queue            *)
(* (server.c:124-167).                                                     *)
(***************************************************************************)
THEOREM RingIsFifoHolds == Spec => RingIsFifo
<1>1. Init => Abstract!Init /\ RingInv /\ LeftInv
  BY InitRefines
<1>2. QueueInv /\ (RingInv /\ LeftInv) /\ [Next]_queueVars
        => [Abstract!Next]_Abstract!queueVars /\ (RingInv' /\ LeftInv')
  BY StepRefines DEF RefInv
<1>3. Spec => []QueueInv
  BY QueueCorrect
<1>4. Spec => [](RingInv /\ LeftInv)
  BY <1>1, <1>2, <1>3, PTL DEF Spec
<1>5. QueueInv /\ (RingInv /\ LeftInv) /\ [Next]_queueVars => [Abstract!Next]_Abstract!queueVars
  BY <1>2
<1> QED  BY <1>1, <1>3, <1>4, <1>5, PTL DEF Spec, RingIsFifo, Abstract!Spec
===============================================================================
