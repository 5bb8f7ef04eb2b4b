---------------------------- MODULE ServerProofs ----------------------------
(***************************************************************************)
(* The server keeps every accepted connection in one pair of hands, cleans *)
(* up alone and stops only for a signal, for every number of clients,      *)
(* workers and places in the queue.                                        *)
(*                                                                         *)
(* What the queue promises is taken from RequestQueueProofs: every step of *)
(* the server is shown to be a step the queue's specification allows.      *)
(***************************************************************************)
EXTENDS Server, RequestQueueProofs

USE DEF queueVars, ringVars, workerVars

\* The main thread has made every worker, and there is one.
AllCreated == Worker # {} /\ \A w \in Worker : worker[w] # "none"

(***************************************************************************)
(* Where the main thread is tells what it holds and what it did.           *)
(***************************************************************************)
MainInv ==
  /\ clientFd # NULL <=> main \in {"push", "reject"}
  /\ shuttingDown <=> main \in {"join", "cleanup", "exited"}
  /\ main \in {"check", "accept", "blocked", "push", "reject"} => AllCreated
  /\ count > 0 => AllCreated
  /\ main \in {"cleanup", "exited"} => \A w \in Worker : worker[w] \in {"none", "done"}

(***************************************************************************)
(* Where a worker is tells what the queue knows of it, and the queue sends *)
(* one away only when it is shut down and drained.                         *)
(***************************************************************************)
StepInv ==
  /\ \A w \in Worker :
       /\ worker[w] = "pop" <=> w \in popping \cup asleep
       /\ worker[w] = "done" <=> w \in left
       /\ worker[w] \in {"read", "execute", "close"} <=> request[w] # NULL
  /\ left # {} => shuttingDown /\ count = 0

\* No two places of the queue, no two workers and no two of them all hold the
\* same descriptor.
OneHolder ==
  /\ \A i, j \in 1..count : Waiting[i] = Waiting[j] => i = j
  /\ \A v, w \in Worker : request[v] = request[w] /\ request[v] # NULL => v = w
  /\ \A i \in 1..count, w \in Worker : Waiting[i] # request[w]
  /\ clientFd # NULL => clientFd \notin InUse

(***************************************************************************)
(* Only open descriptors wait, and the open ones are those in use.         *)
(***************************************************************************)
HolderInv ==
  /\ NULL \notin Queued
  /\ OneHolder
  /\ \A fd \in Fd : file[fd] \in Client \cup {NULL}
  /\ \A fd \in Fd : file[fd] \in Client <=> fd \in InUse \cup {clientFd}

(***************************************************************************)
(* The socket that listens, and the connections that depend on it or on    *)
(* a descriptor.                                                           *)
(***************************************************************************)
SocketInv ==
  /\ listenerFd = NULL => file[LISTENER] = NULL
  /\ main \in {"forget", "shutdown", "join", "cleanup", "exited"} => file[LISTENER] = NULL
  /\ file[LISTENER] # LISTENER => stop \/ main \in Leaving
  /\ \A c \in Client : conn[c] = "backlog" => file[LISTENER] = LISTENER
  /\ \A c \in Client : conn[c] = "open" => \E fd \in Fd : file[fd] = c

ServerInv ==
  /\ ServerTypeOK /\ RefInv
  /\ MainInv /\ StepInv /\ HolderInv /\ SocketInv

-------------------------------------------------------------------------------
\* Every step of the server is one the queue allows

\* The server begins with an empty queue and its listener open.
LEMMA ServerBegins == ServerInit => ServerInv
<1> SUFFICES ASSUME ServerInit PROVE ServerInv
  OBVIOUS
<1> USE ServerAssumption DEF ServerInit
<1>1. RefInv
  BY QueueBegins, InitRefines DEF RefInv
<1>2. ServerTypeOK
  BY <1>1 DEF ServerTypeOK, RefInv, QueueInv, MainSteps, WorkerSteps
<1>3. count = 0 /\ popping = {} /\ asleep = {} /\ left = {} /\ ~shuttingDown
      /\ request = [w \in Worker |-> NULL]
  BY DEF Init
<1>4. Queued = {}
  BY <1>3 DEF Queued
<1>5. MainInv /\ StepInv
  BY <1>3 DEF MainInv, StepInv, Leaving
<1>6. LISTENER \notin Fd
  BY DEF LISTENER
<1>7. InUse \subseteq {NULL}
  BY <1>3, <1>4 DEF InUse
<1>8. HolderInv
  BY <1>3, <1>4, <1>6, <1>7, RequestQueueAssumption DEF HolderInv, OneHolder
<1>9. SocketInv
  BY DEF SocketInv
<1> QED  BY <1>1, <1>2, <1>5, <1>8, <1>9 DEF ServerInv

\* The server pushes only descriptors that nobody else holds, starts a worker
\* once, lets it pop again only when it closed what it popped, and shuts the
\* queue down once.
LEMMA StepOfQueue == ServerInv /\ [ServerNext]_vars => [Next]_queueVars
<1> SUFFICES ASSUME ServerInv, [ServerNext]_vars PROVE [Next]_queueVars
  OBVIOUS
<1> USE DEF ServerInv
<1>1. CASE \E w \in Worker : CreateWorker(w)
  <2>1. PICK w \in Worker : CreateWorker(w)
    BY <1>1
  <2>2. w \notin popping \cup asleep \cup left /\ request[w] = NULL
    BY <2>1 DEF CreateWorker, StepInv
  <2>3. Start(w)
    BY <2>1, <2>2 DEF CreateWorker, Start
  <2> QED  BY <2>3 DEF Next, Work
<1>2. CASE PushClient
  <2>1. CASE Push(clientFd) /\ main = "push"
    <3>1. clientFd \in Fd /\ clientFd \notin InUse
      BY <2>1 DEF MainInv, HolderInv, OneHolder, ServerTypeOK
    <3> QED  BY <2>1, <3>1 DEF Next, Accept
  <2> QED  BY <1>2, <2>1 DEF PushClient, MainMoves
<1>3. CASE ShutdownQueue
  BY <1>3 DEF ShutdownQueue, MainMoves, MainInv, Next, Close
<1>4. CASE \E w \in Worker : WorkerStep(w) \/ WakeWorker(w)
  BY <1>4 DEF WorkerStep, PopClient, ReadRequest, ExecuteStatement, CloseClient, WakeWorker,
              Next, Work
<1>5. CASE CheckStop \/ CallAccept \/ AcceptFails \/ Reject \/ TestListener \/ CloseListener
             \/ ForgetListener \/ JoinWorkers \/ Cleanup \/ (\E c \in Client : AcceptClient(c))
  BY <1>5 DEF CheckStop, CallAccept, AcceptFails, Reject, TestListener, CloseListener,
              ForgetListener, JoinWorkers, Cleanup, AcceptClient
<1>6. CASE Faults \/ RequestShutdown \/ (\E c \in Client : Connect(c) \/ Speak(c))
             \/ Exited \/ UNCHANGED vars
  BY <1>6 DEF Faults, CreateFails, AcceptBreaks, RequestShutdown, Connect, Speak, Exited, vars
<1> QED  BY <1>1, <1>2, <1>3, <1>4, <1>5, <1>6 DEF ServerNext, Main

\* So the queue's own invariants hold after it.
LEMMA QueueKept == ServerInv /\ [ServerNext]_vars => RefInv'
BY StepOfQueue, QueueStep, StepRefines DEF ServerInv, RefInv

-------------------------------------------------------------------------------
\* What is in use before and after a step of the queue

\* Nothing in the queue moves: the same descriptors are in use.
LEMMA SameUse ==
  ASSUME UNCHANGED <<ringVars, request>>
  PROVE  Waiting' = Waiting /\ Queued' = Queued /\ InUse' = InUse
BY DEF Waiting, Queued, InUse

\* A push adds one descriptor behind the others.
LEMMA PushUse ==
  ASSUME RefInv, NEW fd \in Fd, Push(fd)
  PROVE  /\ count' = count + 1 /\ count \in Nat
         /\ \A i \in 1..count : Waiting'[i] = Waiting[i]
         /\ Waiting'[count + 1] = fd
         /\ Queued' = Queued \cup {fd}
         /\ InUse' = InUse \cup {fd}
<1>1. TypeOK /\ RingInv /\ count \in Nat /\ count' = count + 1 /\ request' = request
  BY RequestQueueAssumption DEF RefInv, QueueInv, TypeOK, Push
<1>2. Waiting' = Append(Waiting, fd)
  BY <1>1, PushAppends
<1>3. Waiting \in Seq(Fd \cup {NULL}) /\ Len(Waiting) = count
  BY <1>1, WaitingIsSeq
<1>4. /\ \A i \in 1..count : Waiting'[i] = Waiting[i]
      /\ Waiting'[count + 1] = fd
  BY <1>1, <1>2, <1>3, AppendProperties
<1>5. Queued' = { Waiting'[i] : i \in 1..(count + 1) }
  BY <1>1 DEF Queued
<1>6. Queued' = Queued \cup {fd}
  <2>1. \A i \in 1..(count + 1) : i \in 1..count \/ i = count + 1
    BY <1>1
  <2>2. (1..count) \subseteq 1..(count + 1) /\ count + 1 \in 1..(count + 1)
    BY <1>1
  <2>3. Queued = { Waiting[i] : i \in 1..count }
    BY DEF Queued
  <2>4. Queued' \subseteq Queued \cup {fd}
    BY <1>4, <1>5, <2>1, <2>3
  <2>5. Queued \cup {fd} \subseteq Queued'
    BY <1>4, <1>5, <2>2, <2>3
  <2> QED  BY <2>4, <2>5
<1> QED  BY <1>1, <1>4, <1>6 DEF InUse

\* A pop hands the first to the worker and leaves the others in their order.
LEMMA PopUse ==
  ASSUME RefInv, OneHolder, NEW w \in Worker, PopRequest(w)
  PROVE  /\ count' = count - 1 /\ count \in Nat \ {0}
         /\ \A i \in 1..(count - 1) : Waiting'[i] = Waiting[i + 1]
         /\ items[head] = Waiting[1] /\ Waiting[1] \in Queued
         /\ Queued' = Queued \ {Waiting[1]}
         /\ InUse' \cup {NULL} = InUse \cup {NULL}
<1>1. /\ TypeOK /\ RingInv /\ count \in Nat \ {0} /\ count' = count - 1
      /\ request' = [request EXCEPT ![w] = items[head]]
      /\ request \in [Worker -> Fd \cup {NULL}]
      /\ request[w] = NULL
  BY RequestQueueAssumption DEF RefInv, QueueInv, WorkerInv, TypeOK, PopRequest
<1>2. Waiting # <<>> /\ items[head] = Head(Waiting) /\ Waiting' = Tail(Waiting)
  BY <1>1, PopTakesOldest
<1>3. Waiting \in Seq(Fd \cup {NULL}) /\ Len(Waiting) = count
  BY <1>1, WaitingIsSeq
<1>4. items[head] = Waiting[1] /\ \A i \in 1..(count - 1) : Waiting'[i] = Waiting[i + 1]
  BY <1>1, <1>2, <1>3, HeadTailProperties
<1>5. Queued' = { Waiting'[i] : i \in 1..(count - 1) } /\ Queued = { Waiting[i] : i \in 1..count }
  BY <1>1 DEF Queued
<1>6. Waiting[1] \in Queued
  BY <1>1, <1>5
<1>7. Queued' = Queued \ {Waiting[1]}
  <2>1. \A i \in 1..(count - 1) : i + 1 \in 1..count /\ i + 1 # 1
    BY <1>1
  <2>2. \A i \in 1..count : i = 1 \/ (i - 1 \in 1..(count - 1) /\ (i - 1) + 1 = i)
    BY <1>1
  <2>3. 1 \in 1..count
    BY <1>1
  <2>4. Queued' \subseteq Queued \ {Waiting[1]}
    BY <1>4, <1>5, <2>1, <2>3 DEF OneHolder
  <2>5. Queued \ {Waiting[1]} \subseteq Queued'
    BY <1>4, <1>5, <2>2
  <2> QED  BY <2>4, <2>5
<1>8. InUse' \cup {NULL} = InUse \cup {NULL}
  <2>1. InUse = Queued \cup { request[v] : v \in Worker }
        /\ InUse' = Queued' \cup { request'[v] : v \in Worker }
    BY DEF InUse
  <2>2. request'[w] = Waiting[1] /\ \A v \in Worker \ {w} : request'[v] = request[v]
    BY <1>1, <1>4
  <2>3. InUse' \subseteq InUse
    BY <1>6, <1>7, <2>1, <2>2
  <2>4. InUse \subseteq InUse' \cup {NULL}
    BY <1>1, <1>7, <2>1, <2>2
  <2> QED  BY <2>3, <2>4
<1> QED  BY <1>1, <1>4, <1>6, <1>7, <1>8

-------------------------------------------------------------------------------
\* One lemma per kind of step

\* What a step has to establish besides the invariants of the queue.
Threads == ServerTypeOK /\ MainInv /\ StepInv /\ HolderInv /\ SocketInv

\* The main thread moves on without touching anything, or nothing happens.
LEMMA MainMovesOn ==
  ASSUME ServerInv, RefInv',
         UNCHANGED <<queueVars, stop, listenerFd, clientFd, file, worker, conn>>,
         \/ CreateFails \/ CheckStop \/ CallAccept \/ AcceptFails \/ AcceptBreaks
         \/ PushClient \/ TestListener \/ JoinWorkers \/ Cleanup
         \/ \E c \in Client : Speak(c)
         \/ UNCHANGED vars
  PROVE  Threads'
<1> USE DEF ServerInv, Threads
<1>1. Waiting' = Waiting /\ Queued' = Queued /\ InUse' = InUse
  BY SameUse
<1>2. AllCreated' <=> AllCreated
  BY DEF AllCreated
<1>3. ServerTypeOK'
  BY DEF ServerTypeOK, RefInv, QueueInv, MainSteps, Leaving, CreateFails, CheckStop, CallAccept,
         AcceptFails, AcceptBreaks, PushClient, TestListener, JoinWorkers, Cleanup, Speak,
         MainMoves, vars, serverVars
<1>4. MainInv'
  BY <1>2 DEF MainInv, Leaving, CreateFails, CheckStop, CallAccept, Refused, Push, TypeOK,
         AcceptFails, AcceptBreaks, PushClient, TestListener, JoinWorkers, Cleanup, Speak,
         MainMoves, vars, serverVars
<1>5. StepInv'
  BY DEF StepInv
<1>6. HolderInv'
  BY <1>1 DEF HolderInv, OneHolder
<1>7. SocketInv'
  BY DEF SocketInv, Leaving, CreateFails, CheckStop, CallAccept,
         AcceptFails, AcceptBreaks, PushClient, TestListener, JoinWorkers, Cleanup, Speak,
         MainMoves, vars, serverVars
<1> QED  BY <1>3, <1>4, <1>5, <1>6, <1>7

\* A client connects, or the listening socket is closed or forgotten.
LEMMA SocketStep ==
  ASSUME ServerInv, RefInv',
         \/ \E c \in Client : Connect(c)
         \/ RequestShutdown \/ CloseListener \/ ForgetListener
  PROVE  Threads'
<1> USE DEF ServerInv, Threads
<1>1. UNCHANGED <<queueVars, clientFd, worker, spoken>>
  BY DEF Connect, RequestShutdown, CloseListener, ForgetListener
<1>2. Waiting' = Waiting /\ Queued' = Queued /\ InUse' = InUse
  BY <1>1, SameUse
<1>3. LISTENER \notin Fd /\ LISTENER # NULL
  BY ServerAssumption DEF LISTENER
<1>4. ServerTypeOK'
  BY <1>1, <1>3 DEF ServerTypeOK, RefInv, QueueInv, MainSteps, Leaving, Connect, RequestShutdown,
         CloseListener, ForgetListener, CloseSocket, MainMoves
<1>5. /\ \A fd \in Fd : file'[fd] = file[fd]
      /\ \A c \in Client : conn'[c] = "open" => conn[c] = "open"
  BY <1>1, <1>3 DEF ServerTypeOK, Connect, RequestShutdown, CloseListener, ForgetListener,
         CloseSocket
<1>6. MainInv'
  BY <1>1 DEF MainInv, AllCreated, Leaving, Connect, RequestShutdown, CloseListener,
         ForgetListener, MainMoves
<1>7. StepInv'
  BY <1>1 DEF StepInv
<1>8. HolderInv'
  BY <1>1, <1>2, <1>5 DEF HolderInv, OneHolder
<1>9. SocketInv'
  <2>1. \A c \in Client : conn'[c] = "open" => \E fd \in Fd : file'[fd] = c
    BY <1>5 DEF SocketInv
  <2>2. \A c \in Client : conn'[c] = "backlog" => file'[LISTENER] = LISTENER
    BY <1>3 DEF SocketInv, ServerTypeOK, Connect, RequestShutdown, CloseListener, ForgetListener,
         CloseSocket
  <2>3. /\ listenerFd' = NULL => file'[LISTENER] = NULL
        /\ main' \in {"forget", "shutdown", "join", "cleanup", "exited"} => file'[LISTENER] = NULL
        /\ file'[LISTENER] # LISTENER => stop' \/ main' \in Leaving
    BY <1>3 DEF SocketInv, ServerTypeOK, Connect, RequestShutdown, CloseListener, ForgetListener,
         CloseSocket, MainMoves, Leaving
  <2> QED  BY <2>1, <2>2, <2>3 DEF SocketInv
<1> QED  BY <1>4, <1>6, <1>7, <1>8, <1>9

\* A worker is created.
LEMMA CreateStep ==
  ASSUME ServerInv, RefInv', NEW w \in Worker, CreateWorker(w)
  PROVE  Threads'
<1> USE DEF ServerInv, Threads, CreateWorker, EnterPop
<1>1. Waiting' = Waiting /\ Queued' = Queued /\ InUse' = InUse
  BY SameUse
<1>2. ServerTypeOK'
  BY DEF ServerTypeOK, RefInv, QueueInv, MainSteps, WorkerSteps
<1>3. MainInv'
  BY DEF MainInv, AllCreated, ServerTypeOK
<1>4. StepInv'
  BY DEF StepInv, ServerTypeOK
<1>5. HolderInv'
  BY <1>1 DEF HolderInv, OneHolder
<1>6. SocketInv'
  BY DEF SocketInv, Leaving
<1> QED  BY <1>2, <1>3, <1>4, <1>5, <1>6

\* accept gives a client a descriptor that nobody holds.
LEMMA AcceptStep ==
  ASSUME ServerInv, RefInv', NEW c \in Client, AcceptClient(c)
  PROVE  Threads'
<1> USE DEF ServerInv, Threads, AcceptClient, MainMoves
<1>1. Waiting' = Waiting /\ Queued' = Queued /\ InUse' = InUse
  BY SameUse
<1>2. PICK fd \in FreeFds : clientFd' = fd /\ file' = [file EXCEPT ![fd] = c]
  OBVIOUS
<1>3. fd \in Fd /\ file[fd] = NULL /\ NULL \notin Client /\ NULL \notin Fd /\ LISTENER \notin Fd
  BY <1>2, ServerAssumption, RequestQueueAssumption DEF FreeFds, LISTENER
<1>4. fd \notin InUse /\ clientFd = NULL
  BY <1>3 DEF HolderInv, MainInv
<1>5. ServerTypeOK'
  BY <1>2, <1>3 DEF ServerTypeOK, RefInv, QueueInv, MainSteps
<1>6. MainInv'
  BY <1>2, <1>3 DEF MainInv, AllCreated
<1>7. StepInv'
  BY DEF StepInv
<1>8. HolderInv'
  BY <1>1, <1>2, <1>3, <1>4 DEF HolderInv, OneHolder, ServerTypeOK
<1>9. SocketInv'
  BY <1>2, <1>3 DEF SocketInv, ServerTypeOK, Leaving
<1> QED  BY <1>5, <1>6, <1>7, <1>8, <1>9

\* The accept loop hands its descriptor to the queue.
LEMMA PushStep ==
  ASSUME ServerInv, RefInv', MainMoves("push", "check"), Push(clientFd), clientFd' = NULL,
         UNCHANGED <<stop, listenerFd, file, worker, conn, spoken>>
  PROVE  Threads'
<1> USE DEF ServerInv, Threads, MainMoves
<1>1. clientFd \in Fd /\ clientFd \notin InUse /\ NULL \notin Fd
  BY RequestQueueAssumption DEF MainInv, HolderInv, OneHolder, ServerTypeOK
<1>2. /\ count' = count + 1 /\ count \in Nat
      /\ \A i \in 1..count : Waiting'[i] = Waiting[i]
      /\ Waiting'[count + 1] = clientFd
      /\ Queued' = Queued \cup {clientFd}
      /\ InUse' = InUse \cup {clientFd}
  BY <1>1, PushUse
<1>3. request' = request /\ left' = left /\ shuttingDown' = shuttingDown
      /\ popping' \cup asleep' = popping \cup asleep
  BY DEF Push, Signal
<1>4. ServerTypeOK'
  BY DEF ServerTypeOK, RefInv, QueueInv, MainSteps
<1>5. MainInv'
  BY <1>2, <1>3 DEF MainInv, AllCreated
<1>6. StepInv'
  <2>1. left = {}
    BY DEF StepInv, MainInv
  <2> QED  BY <1>3, <2>1 DEF StepInv
<1>7. OneHolder'
  <2>1. \A i \in 1..(count + 1) : i \in 1..count \/ i = count + 1
    BY <1>2
  <2>2. \A i \in 1..count : Waiting[i] \in Queued
    BY DEF Queued
  <2>3. \A i \in 1..count : Waiting[i] # clientFd
    BY <1>1, <2>2 DEF InUse
  <2>4. \A w \in Worker : request[w] # clientFd
    BY <1>1 DEF InUse
  <2> QED  BY <1>2, <1>3, <2>1, <2>3, <2>4 DEF HolderInv, OneHolder
<1>8. HolderInv'
  BY <1>1, <1>2, <1>7 DEF HolderInv
<1>9. SocketInv'
  BY DEF SocketInv, Leaving
<1> QED  BY <1>4, <1>5, <1>6, <1>8, <1>9

\* A refused client is closed by the accept loop.
LEMMA RejectStep ==
  ASSUME ServerInv, RefInv', Reject PROVE Threads'
<1> USE DEF ServerInv, Threads, Reject, CloseFd, MainMoves
<1>1. Waiting' = Waiting /\ Queued' = Queued /\ InUse' = InUse
  BY SameUse
<1>2. /\ clientFd \in Fd /\ clientFd \notin InUse /\ NULL \notin Fd /\ NULL \notin Client
      /\ LISTENER \notin Fd
  BY RequestQueueAssumption, ServerAssumption
     DEF MainInv, HolderInv, OneHolder, ServerTypeOK, LISTENER
<1>3. ServerTypeOK'
  BY <1>2 DEF ServerTypeOK, RefInv, QueueInv, MainSteps
<1>4. MainInv'
  BY DEF MainInv, AllCreated
<1>5. StepInv'
  BY DEF StepInv
<1>6. HolderInv'
  BY <1>1, <1>2 DEF HolderInv, OneHolder, ServerTypeOK
<1>7. SocketInv'
  BY <1>2 DEF SocketInv, ServerTypeOK, Leaving
<1> QED  BY <1>3, <1>4, <1>5, <1>6, <1>7

\* The accept loop is over: nobody pushes any more, and the workers wake up.
LEMMA ShutdownStep ==
  ASSUME ServerInv, RefInv', ShutdownQueue PROVE Threads'
<1> USE DEF ServerInv, Threads, ShutdownQueue, Shutdown, Broadcast, MainMoves
<1>1. Waiting' = Waiting /\ Queued' = Queued /\ InUse' = InUse
  BY SameUse
<1>2. ServerTypeOK'
  BY DEF ServerTypeOK, RefInv, QueueInv, MainSteps, Leaving
<1>3. MainInv'
  BY DEF MainInv, AllCreated
<1>4. StepInv'
  BY DEF StepInv, MainInv
<1>5. HolderInv'
  BY <1>1 DEF HolderInv, OneHolder
<1>6. SocketInv'
  BY DEF SocketInv, Leaving
<1> QED  BY <1>2, <1>3, <1>4, <1>5, <1>6

\* A worker takes the descriptor that waits longest into its own hands.
LEMMA PopStep ==
  ASSUME ServerInv, RefInv', NEW w \in Worker, PopClient(w) PROVE Threads'
<1> USE DEF ServerInv, Threads, PopClient
<1>1. /\ request \in [Worker -> Fd \cup {NULL}] /\ worker \in [Worker -> WorkerSteps]
      /\ NULL \notin Fd /\ main \in MainSteps /\ w \notin left
  BY RequestQueueAssumption DEF ServerTypeOK, TypeOK, StepInv
<1>2. CASE Wait(w) \/ PopNothing(w)
  <2>1. UNCHANGED <<ringVars, request, shuttingDown>>
    BY <1>2 DEF Wait, PopNothing
  <2>2. Waiting' = Waiting /\ Queued' = Queued /\ InUse' = InUse
    BY <2>1, SameUse
  <2>3. request[w] = NULL
    BY <1>1 DEF StepInv
  <2>4. worker' = [worker EXCEPT ![w] = IF w \in left' THEN "done" ELSE "pop"]
    BY <2>1, <2>3
  <2>5. ServerTypeOK'
    BY <2>4 DEF ServerTypeOK, RefInv, QueueInv, WorkerSteps
  <2>6. MainInv'
    BY <1>1, <2>1, <2>4 DEF MainInv, AllCreated
  <2>7. StepInv'
    BY <1>1, <1>2, <2>1, <2>3, <2>4 DEF StepInv, Wait, PopNothing, TypeOK, RefInv, QueueInv, WorkerInv
  <2>8. HolderInv'
    BY <2>1, <2>2 DEF HolderInv, OneHolder
  <2>9. SocketInv'
    BY DEF SocketInv
  <2> QED  BY <2>5, <2>6, <2>7, <2>8, <2>9
<1>3. CASE PopRequest(w)
  <2>1. /\ count' = count - 1 /\ count \in Nat \ {0}
        /\ \A i \in 1..(count - 1) : Waiting'[i] = Waiting[i + 1]
        /\ items[head] = Waiting[1] /\ Waiting[1] \in Queued
        /\ Queued' = Queued \ {Waiting[1]}
        /\ InUse' \cup {NULL} = InUse \cup {NULL}
    BY <1>3, PopUse DEF HolderInv
  <2>2. request' = [request EXCEPT ![w] = Waiting[1]] /\ Waiting[1] # NULL
    BY <1>3, <2>1 DEF PopRequest, HolderInv
  <2>3. UNCHANGED <<shuttingDown, asleep, left>> /\ popping' = popping \ {w} /\ w \in popping
    BY <1>3 DEF PopRequest
  <2>4. worker' = [worker EXCEPT ![w] = "read"]
    BY <1>1, <2>2, <2>3
  <2>5. ServerTypeOK'
    BY <2>4 DEF ServerTypeOK, RefInv, QueueInv, WorkerSteps
  <2>6. MainInv'
    BY <1>1, <2>1, <2>3, <2>4 DEF MainInv, AllCreated
  <2>7. StepInv'
    <3>1. left = {}
      BY <2>1 DEF StepInv
    <3>2. w \notin asleep
      BY <2>3 DEF RefInv, QueueInv, WorkerInv
    <3> QED  BY <1>1, <2>2, <2>3, <2>4, <3>1, <3>2 DEF StepInv
  <2>8. OneHolder'
    <3>1. /\ \A i \in 1..(count - 1) : i + 1 \in 1..count /\ i + 1 # 1
          /\ 1 \in 1..count
          /\ \A i, j \in 1..(count - 1) : i + 1 = j + 1 => i = j
      BY <2>1
    <3>2. \A i, j \in 1..(count - 1) : Waiting'[i] = Waiting'[j] => i = j
      BY <2>1, <3>1 DEF HolderInv, OneHolder
    <3>3. \A v \in Worker \ {w} : request'[v] = request[v] /\ request[v] # Waiting[1]
      BY <1>1, <2>2, <3>1 DEF HolderInv, OneHolder
    <3>4. \A u, v \in Worker : request'[u] = request'[v] /\ request'[u] # NULL => u = v
      BY <1>1, <2>2, <3>3 DEF HolderInv, OneHolder
    <3>5. \A i \in 1..(count - 1), v \in Worker : Waiting'[i] # request'[v]
      BY <1>1, <2>1, <2>2, <3>1, <3>3 DEF HolderInv, OneHolder
    <3>6. clientFd # NULL => clientFd \notin InUse'
      BY <2>1 DEF HolderInv, OneHolder
    <3> QED  BY <2>1, <3>2, <3>4, <3>5, <3>6 DEF OneHolder
  <2>9. HolderInv'
    BY <1>1, <2>1, <2>8 DEF HolderInv
  <2>10. SocketInv'
    BY DEF SocketInv
  <2> QED  BY <2>5, <2>6, <2>7, <2>9, <2>10
<1> QED  BY <1>2, <1>3 DEF Pop

\* A worker wakes up without a signal.
LEMMA WakeStep ==
  ASSUME ServerInv, RefInv', NEW w \in Worker, WakeWorker(w) PROVE Threads'
<1> USE DEF ServerInv, Threads, WakeWorker, WakeSpuriously, serverVars
<1>1. Waiting' = Waiting /\ Queued' = Queued /\ InUse' = InUse
  BY SameUse
<1>2. ServerTypeOK'
  BY DEF ServerTypeOK, RefInv, QueueInv
<1>3. MainInv' /\ SocketInv'
  BY DEF MainInv, AllCreated, SocketInv
<1>4. StepInv'
  BY DEF StepInv
<1>5. HolderInv'
  BY <1>1 DEF HolderInv, OneHolder
<1> QED  BY <1>2, <1>3, <1>4, <1>5

\* A worker has read a request, or executed it.
LEMMA HandleStep ==
  ASSUME ServerInv, RefInv', NEW w \in Worker, ReadRequest(w) \/ ExecuteStatement(w)
  PROVE  Threads'
<1> USE DEF ServerInv, Threads, ReadRequest, ExecuteStatement, WorkerMoves
<1>1. UNCHANGED <<queueVars, main, stop, listenerFd, clientFd, file, conn, spoken>>
  OBVIOUS
<1>2. Waiting' = Waiting /\ Queued' = Queued /\ InUse' = InUse
  BY <1>1, SameUse
<1>3. PICK next \in {"execute", "close"} :
        worker' = [worker EXCEPT ![w] = next] /\ worker[w] \in {"read", "execute"}
  OBVIOUS
<1>4. ServerTypeOK'
  BY <1>1, <1>3 DEF ServerTypeOK, RefInv, QueueInv, WorkerSteps
<1>5. MainInv' /\ SocketInv'
  BY <1>1, <1>3 DEF MainInv, AllCreated, SocketInv, ServerTypeOK
<1>6. StepInv'
  BY <1>1, <1>3 DEF StepInv, ServerTypeOK
<1>7. HolderInv'
  BY <1>1, <1>2 DEF HolderInv, OneHolder
<1> QED  BY <1>4, <1>5, <1>6, <1>7

\* A worker closes the descriptor it handled and lets go of it.
LEMMA CloseStep ==
  ASSUME ServerInv, RefInv', NEW w \in Worker, CloseClient(w) PROVE Threads'
<1> USE DEF ServerInv, Threads, CloseClient, CloseFd, WorkerMoves, Handled, EnterPop
<1>1. /\ request \in [Worker -> Fd \cup {NULL}] /\ worker \in [Worker -> WorkerSteps]
      /\ request[w] \in Fd /\ NULL \notin Fd /\ NULL \notin Client /\ LISTENER \notin Fd
  BY RequestQueueAssumption, ServerAssumption DEF ServerTypeOK, TypeOK, LISTENER
<1>2. Waiting' = Waiting /\ Queued' = Queued
  <2>1. UNCHANGED ringVars
    OBVIOUS
  <2> QED  BY <2>1 DEF Waiting, Queued
<1>3. request[w] \notin Queued
  BY DEF Queued, HolderInv, OneHolder
<1>4. InUse' \cup {NULL} = (InUse \ {request[w]}) \cup {NULL}
  <2>1. InUse = Queued \cup { request[v] : v \in Worker }
        /\ InUse' = Queued \cup { request'[v] : v \in Worker }
    BY <1>2 DEF InUse
  <2>2. request'[w] = NULL
        /\ \A v \in Worker \ {w} : request'[v] = request[v] /\ request[v] # request[w]
    BY <1>1 DEF HolderInv, OneHolder
  <2> QED  BY <1>1, <1>3, <2>1, <2>2
<1>5. clientFd # request[w] /\ (clientFd # NULL => clientFd \notin InUse')
  <2>1. request[w] \in InUse
    BY DEF InUse
  <2> QED  BY <1>1, <1>4, <2>1 DEF HolderInv, OneHolder
<1>6. ServerTypeOK'
  BY <1>1 DEF ServerTypeOK, RefInv, QueueInv, WorkerSteps
<1>7. MainInv'
  BY <1>1 DEF MainInv, AllCreated
<1>8. StepInv'
  BY <1>1 DEF StepInv
<1>9. OneHolder'
  BY <1>1, <1>2, <1>5 DEF HolderInv, OneHolder, Queued
<1>10. HolderInv'
  <2>1. file \in [Fd \cup {LISTENER} -> Client \cup {LISTENER, NULL}]
        /\ file' = [file EXCEPT ![request[w]] = NULL]
    BY DEF ServerTypeOK
  <2> QED  BY <1>1, <1>2, <1>4, <1>5, <1>9, <2>1 DEF HolderInv
<1>11. SocketInv'
  BY <1>1 DEF SocketInv, ServerTypeOK
<1> QED  BY <1>6, <1>7, <1>8, <1>10, <1>11

\* Every step keeps the invariant.
LEMMA ServerStep == ServerInv /\ [ServerNext]_vars => ServerInv'
<1> SUFFICES ASSUME ServerInv, [ServerNext]_vars, RefInv' PROVE Threads'
  BY QueueKept DEF Threads, ServerInv
<1>1. CASE \E w \in Worker : CreateWorker(w)
  BY <1>1, CreateStep
<1>2. CASE CheckStop \/ CallAccept \/ AcceptFails \/ TestListener \/ JoinWorkers \/ Cleanup
           \/ Faults \/ (\E c \in Client : Speak(c)) \/ Exited \/ UNCHANGED vars
  <2>1. UNCHANGED <<queueVars, stop, listenerFd, clientFd, file, worker, conn>>
    BY <1>2 DEF CheckStop, CallAccept, AcceptFails, TestListener, JoinWorkers, Cleanup,
                Faults, CreateFails, AcceptBreaks, Speak, Exited, vars, serverVars
  <2> QED  BY <1>2, <2>1, MainMovesOn DEF Faults, Exited
<1>3. CASE \E c \in Client : AcceptClient(c)
  BY <1>3, AcceptStep
<1>4. CASE PushClient
  <2>1. CASE UNCHANGED <<queueVars, stop, listenerFd, clientFd, file, worker, conn>>
    BY <1>4, <2>1, MainMovesOn
  <2>2. CASE /\ MainMoves("push", "check") /\ Push(clientFd) /\ clientFd' = NULL
             /\ UNCHANGED <<stop, listenerFd, file, worker, conn, spoken>>
    BY <2>2, PushStep
  <2> QED  BY <1>4, <2>1, <2>2 DEF PushClient
<1>5. CASE Reject
  BY <1>5, RejectStep
<1>6. CASE CloseListener \/ ForgetListener \/ RequestShutdown \/ \E c \in Client : Connect(c)
  BY <1>6, SocketStep
<1>7. CASE ShutdownQueue
  BY <1>7, ShutdownStep
<1>8. CASE \E w \in Worker : WorkerStep(w) \/ WakeWorker(w)
  BY <1>8, PopStep, WakeStep, HandleStep, CloseStep DEF WorkerStep
<1> QED  BY <1>1, <1>2, <1>3, <1>4, <1>5, <1>6, <1>7, <1>8 DEF ServerNext, Main

-------------------------------------------------------------------------------
\* Counting holders and descriptors

\* Who holds a descriptor once is counted once.
LEMMA CountOne ==
  ASSUME NEW S, \A x, y \in S : x = y
  PROVE  Cardinality(S) = IF S = {} THEN 0 ELSE 1
<1>1. CASE S = {}
  BY <1>1, FS_EmptySet
<1>2. CASE S # {}
  <2>1. PICK x : S = {x}
    BY <1>2
  <2> QED  BY <2>1, FS_Singleton
<1> QED  BY <1>1, <1>2

\* The invariant of the holders, counted.
LEMMA HoldersCounted == ServerInv => OneHolderPerConnection
<1> SUFFICES ASSUME ServerInv, NEW fd \in Fd
             PROVE  HoldersOf(fd) = IF file[fd] \in Client THEN 1 ELSE 0
  BY DEF OneHolderPerConnection
<1> DEFINE Places == { i \in 1..count : Waiting[i] = fd }
           Hands  == { w \in Worker : request[w] = fd }
<1>1. fd # NULL
  BY RequestQueueAssumption
<1>2. Cardinality(Places) = IF Places = {} THEN 0 ELSE 1
  <2>1. \A i, j \in Places : i = j
    BY DEF ServerInv, HolderInv, OneHolder
  <2> HIDE DEF Places
  <2> QED  BY <2>1, CountOne
<1>3. Cardinality(Hands) = IF Hands = {} THEN 0 ELSE 1
  <2>1. \A v, w \in Hands : v = w
    BY <1>1 DEF ServerInv, HolderInv, OneHolder
  <2> HIDE DEF Hands
  <2> QED  BY <2>1, CountOne
<1>4. Places = {} \/ Hands = {}
  BY DEF ServerInv, HolderInv, OneHolder
<1>5. clientFd = fd => Places = {} /\ Hands = {}
  BY <1>1 DEF ServerInv, HolderInv, OneHolder, InUse, Queued
<1>6. file[fd] \in Client <=> Places # {} \/ Hands # {} \/ clientFd = fd
  BY DEF ServerInv, HolderInv, InUse, Queued
<1>7. HoldersOf(fd) = Cardinality(Places) + Cardinality(Hands) + (IF clientFd = fd THEN 1 ELSE 0)
  BY DEF HoldersOf
<1> HIDE DEF Places, Hands
<1> QED  BY <1>2, <1>3, <1>4, <1>5, <1>6, <1>7

\* The queue and the workers never use more descriptors than they have room for.
LEMMA UseIsBounded ==
  ASSUME TypeOK
  PROVE  IsFiniteSet(InUse) /\ Cardinality(InUse) <= Capacity + Cardinality(Worker)
<1> DEFINE Hands == { request[w] : w \in Worker }
<1>1. count \in Nat /\ Capacity \in Nat /\ count <= Capacity
  BY RequestQueueAssumption DEF TypeOK
<1>2. IsFiniteSet(Queued) /\ Cardinality(Queued) <= count
  <2>1. IsFiniteSet(1..count) /\ Cardinality(1..count) = count
    BY <1>1, FS_Interval
  <2>2. Waiting \in Surjection(1..count, Queued)
    BY DEF Waiting, Queued, Surjection
  <2> QED  BY <2>1, <2>2, FS_Surjection
<1>3. IsFiniteSet(Hands) /\ Cardinality(Hands) <= Cardinality(Worker)
  <2>1. request \in Surjection(Worker, Hands)
    BY DEF TypeOK, Surjection
  <2> QED  BY <2>1, RequestQueueAssumption, FS_Surjection
<1>4. /\ Cardinality(Queued) \in Nat /\ Cardinality(Hands) \in Nat /\ Cardinality(Worker) \in Nat
      /\ Cardinality(Queued \cap Hands) \in Nat
  BY <1>2, <1>3, RequestQueueAssumption, FS_CardinalityType, FS_Intersection
<1>5. InUse = Queued \cup Hands
  BY DEF InUse
<1> HIDE DEF Hands
<1>6. IsFiniteSet(InUse) /\
      Cardinality(InUse) = Cardinality(Queued) + Cardinality(Hands) - Cardinality(Queued \cap Hands)
  BY <1>2, <1>3, <1>5, FS_Union
<1>7. Cardinality(InUse) \in Nat
  BY <1>6, FS_CardinalityType
<1> QED  BY <1>1, <1>2, <1>3, <1>4, <1>6, <1>7

\* While accept is called, a descriptor is free for it.
LEMMA DescriptorLeft ==
  ASSUME LastFd > Capacity + Cardinality(Worker), ServerInv, main = "accept"
  PROVE  FreeFds # {}
<1> SUFFICES ASSUME FreeFds = {} PROVE FALSE
  OBVIOUS
<1>1. TypeOK /\ clientFd = NULL
  BY DEF ServerInv, ServerTypeOK, MainInv
<1>2. IsFiniteSet(InUse) /\ Cardinality(InUse) <= Capacity + Cardinality(Worker)
  BY <1>1, UseIsBounded
<1>3. Fd \subseteq InUse
  BY <1>1, RequestQueueAssumption DEF ServerInv, HolderInv, FreeFds
<1>4. Cardinality(Fd) = LastFd
  BY ServerAssumption, FS_Interval
<1>5. Cardinality(Fd) <= Cardinality(InUse)
  BY <1>2, <1>3, FS_Subset
<1>6. /\ LastFd \in Nat /\ Capacity \in Nat /\ Cardinality(Worker) \in Nat
      /\ Cardinality(InUse) \in Nat
  BY <1>2, ServerAssumption, RequestQueueAssumption, FS_CardinalityType
<1> QED  BY <1>2, <1>4, <1>5, <1>6

\* With enough descriptors, a step leads out of the accept loop only for a
\* signal or for a failure of the system.
LEMMA LeavingStep ==
  ASSUME LastFd > Capacity + Cardinality(Worker),
         ServerInv, OnlySignalEndsServing, [ServerNext]_vars
  PROVE  OnlySignalEndsServing'
<1> USE DEF OnlySignalEndsServing
<1>1. SUFFICES ASSUME main \notin Leaving, main' \in Leaving, ~AcceptMayFail, ~CreateMayFail
               PROVE  stop'
  <2>1. stop => stop'
    BY DEF ServerNext, Main, Faults, WorkerStep, CreateWorker, CheckStop, CallAccept, AcceptFails,
           AcceptClient, PushClient, Reject, TestListener, CloseListener, ForgetListener,
           ShutdownQueue, JoinWorkers, Cleanup, CreateFails, AcceptBreaks, RequestShutdown,
           PopClient, WakeWorker, ReadRequest, ExecuteStatement, CloseClient, Connect, Speak,
           Exited, vars, serverVars
  <2>2. AcceptMayFail \in BOOLEAN /\ CreateMayFail \in BOOLEAN
    BY ServerAssumption
  <2> QED  BY <2>1, <2>2
<1>2. CASE CheckStop
  BY <1>1, <1>2 DEF CheckStop, MainMoves, Leaving
<1>3. CASE AcceptFails
  <2>1. main = "accept" /\ (file[LISTENER] # LISTENER \/ FreeFds = {}) /\ stop' = stop
    BY <1>3 DEF AcceptFails, MainMoves
  <2>2. FreeFds # {}
    BY <2>1, DescriptorLeft
  <2> QED  BY <1>1, <2>1, <2>2 DEF ServerInv, SocketInv
<1>4. CASE TestListener \/ CloseListener \/ ForgetListener \/ ShutdownQueue \/ JoinWorkers
           \/ Cleanup \/ Exited
  BY <1>1, <1>4 DEF TestListener, CloseListener, ForgetListener, ShutdownQueue, JoinWorkers,
                    Cleanup, Exited, MainMoves, Leaving
<1>5. CASE Faults
  BY <1>1, <1>5 DEF Faults, CreateFails, AcceptBreaks
<1>6. CASE \/ \E w \in Worker : CreateWorker(w)
           \/ \E c \in Client : AcceptClient(c)
           \/ CallAccept \/ PushClient \/ Reject
  BY <1>1, <1>6 DEF CreateWorker, AcceptClient, CallAccept, PushClient, Reject, MainMoves, Leaving
<1>7. CASE RequestShutdown
  BY <1>7 DEF RequestShutdown
<1>8. CASE \/ \E w \in Worker : WorkerStep(w) \/ WakeWorker(w)
           \/ \E c \in Client : Connect(c) \/ Speak(c)
           \/ UNCHANGED vars
  BY <1>1, <1>8 DEF WorkerStep, PopClient, WakeWorker, ReadRequest, ExecuteStatement, CloseClient,
                    Connect, Speak, vars, serverVars
<1> QED  BY <1>2, <1>3, <1>4, <1>5, <1>6, <1>7, <1>8 DEF ServerNext, Main

-------------------------------------------------------------------------------
\* Theorems

(***************************************************************************)
(* Where the threads are, who holds which descriptor and which of them are *)
(* open always agree: the invariant the other theorems follow from         *)
(* (server.c:879-925, 1005-1053).                                          *)
(***************************************************************************)
THEOREM ServerCorrect == ServerSpec => []ServerInv
BY ServerBegins, ServerStep, PTL DEF ServerSpec

(***************************************************************************)
(* server_run and server_worker_main use the queue as its specification    *)
(* assumes, so whatever is proved of the queue alone holds of the queue in *)
(* the running server (server.c:906-918, 1027-1047).                       *)
(***************************************************************************)
THEOREM UsesQueueProperlyHolds == ServerSpec => UsesQueueProperly
<1>1. ServerInit => Init
  BY DEF ServerInit
<1> QED  BY <1>1, StepOfQueue, ServerCorrect, PTL DEF ServerSpec, UsesQueueProperly, Spec

(***************************************************************************)
(* In the running server, too, no wakeup is lost, nobody sleeps through    *)
(* the shutdown, and the ring hands out what was accepted in order, each   *)
(* descriptor once (server.c:109-167).                                     *)
(***************************************************************************)
THEOREM ServerQueueIsFifo ==
  ServerSpec => [](NoSleepingOnWork /\ NobodySleepsInShutdown) /\ RingIsFifo
BY UsesQueueProperlyHolds, NoSleepingOnWorkHolds, NobodySleepsInShutdownHolds, RingIsFifoHolds,
   PTL DEF UsesQueueProperly

(***************************************************************************)
(* No descriptor leaks, none is closed twice, and a worker never answers   *)
(* another client on a number that was given out again (server.c:913-915,  *)
(* 1035-1039).                                                             *)
(***************************************************************************)
THEOREM OneHolderPerConnectionHolds == ServerSpec => []OneHolderPerConnection
BY HoldersCounted, ServerCorrect, PTL

(***************************************************************************)
(* When engine_shutdown runs, no worker is left to execute a statement, no *)
(* client waits in the backlog or the queue and none is connected          *)
(* (server.c:1043-1052).                                                   *)
(***************************************************************************)
THEOREM CleanupAloneHolds == ServerSpec => []CleanupAlone
<1>1. ServerInv => CleanupAlone
  <2> SUFFICES ASSUME ServerInv, main \in {"cleanup", "exited"}
               PROVE  /\ \A w \in Worker : worker[w] \in {"none", "done"}
                      /\ \A c \in Client : conn[c] \notin {"backlog", "open"}
                      /\ count = 0
    BY DEF CleanupAlone
  <2> USE DEF ServerInv
  <2>1. \A w \in Worker : worker[w] \in {"none", "done"}
    BY DEF MainInv
  <2>2. count = 0
    <3>1. SUFFICES ASSUME count > 0 PROVE FALSE
      BY RequestQueueAssumption DEF ServerTypeOK, TypeOK
    <3>2. PICK w \in Worker : worker[w] = "done"
      BY <2>1, <3>1 DEF MainInv, AllCreated
    <3> QED  BY <3>1, <3>2 DEF StepInv
  <2>3. clientFd = NULL /\ Queued = {} /\ \A w \in Worker : request[w] = NULL
    BY <2>1, <2>2 DEF MainInv, StepInv, Queued
  <2>4. \A fd \in Fd : file[fd] \notin Client
    BY <2>3, RequestQueueAssumption DEF HolderInv, InUse
  <2>5. file[LISTENER] = NULL /\ LISTENER # NULL
    BY ServerAssumption DEF SocketInv
  <2> QED  BY <2>1, <2>2, <2>4, <2>5 DEF SocketInv
<1> QED  BY <1>1, ServerCorrect, PTL

(***************************************************************************)
(* With one descriptor for every place in the queue, every worker and the  *)
(* accept loop, besides the listener, only a signal ends the accept loop:  *)
(* accept never runs out of descriptors, whatever the clients do           *)
(* (server.c:1021-1034).                                                   *)
(***************************************************************************)
THEOREM OnlySignalEndsServingHolds ==
  ASSUME LastFd > Capacity + Cardinality(Worker)
  PROVE  ServerSpec => []OnlySignalEndsServing
<1>1. ServerInit => OnlySignalEndsServing
  BY DEF ServerInit, OnlySignalEndsServing, Leaving
<1>2. ServerInv /\ OnlySignalEndsServing /\ [ServerNext]_vars => OnlySignalEndsServing'
  BY LeavingStep
<1> QED  BY <1>1, <1>2, ServerCorrect, PTL DEF ServerSpec
===============================================================================
