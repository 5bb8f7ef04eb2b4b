-------------------------------- MODULE Server --------------------------------
(***************************************************************************)
(* server_run and its worker threads: the accept loop, the signal handler, *)
(* the request queue and the life of a client connection from accept to    *)
(* close.  What a request says is left out; a worker waits in recv until   *)
(* its client speaks or hangs up, may execute a statement, and closes.     *)
(*                                                                         *)
(* Descriptors are numbers, given out lowest first as accept does, so that *)
(* a descriptor closed twice or leaked would meet another connection.      *)
(*                                                                         *)
(* The signal handler runs on the main thread, as Linux delivers it, at    *)
(* any of its steps; it is atomic there because the main thread stands     *)
(* still meanwhile and no other thread reads what it writes.               *)
(***************************************************************************)
EXTENDS RequestQueue

CONSTANTS
  Client,
  LastFd,          \* the descriptors of the process are 0..LastFd
  CreateMayFail,   \* whether pthread_create may fail
  AcceptMayFail    \* whether accept may fail for a reason of its own

\* The descriptor of the listening socket, the lowest: it is opened first.
LISTENER == 0

ASSUME ServerAssumption ==
  /\ LastFd \in Nat
  /\ Fd = 1..LastFd
  /\ CreateMayFail \in BOOLEAN
  /\ AcceptMayFail \in BOOLEAN
  /\ LISTENER \notin Client
  /\ NULL \notin Client \cup {LISTENER}

VARIABLES
  main,        \* the step of the main thread
  stop,        \* server_stop_requested
  listenerFd,  \* server_listener_fd, NULL for -1
  clientFd,    \* the client_fd of the accept loop
  file,        \* file[d]: the connection descriptor d stands for, or NULL
  worker,      \* the step of each worker thread
  conn,        \* the state of each client's connection
  spoken       \* the clients that sent a request or hung up

serverVars == <<main, stop, listenerFd, clientFd, file, worker, conn, spoken>>
vars == <<queueVars, serverVars>>

\* Past the accept loop.
Leaving == {"closing", "close", "forget", "shutdown", "join", "cleanup", "exited"}

MainSteps == {"create", "check", "accept", "blocked", "push", "reject"} \cup Leaving

WorkerSteps == {"none", "pop", "read", "execute", "close", "done"}

ServerTypeOK ==
  /\ TypeOK
  /\ main \in MainSteps
  /\ stop \in BOOLEAN
  /\ listenerFd \in {LISTENER, NULL}
  /\ clientFd \in Fd \cup {NULL}
  /\ file \in [Fd \cup {LISTENER} -> Client \cup {LISTENER, NULL}]
  /\ worker \in [Worker -> WorkerSteps]
  /\ conn \in [Client -> {"away", "backlog", "open", "closed", "reset"}]
  /\ spoken \subseteq Client

\* The listener is open and the signal handlers are installed.
ServerInit ==
  /\ Init
  /\ main = "create"
  /\ stop = FALSE
  /\ listenerFd = LISTENER
  /\ clientFd = NULL
  /\ file = [d \in Fd \cup {LISTENER} |-> IF d = LISTENER THEN LISTENER ELSE NULL]
  /\ worker = [w \in Worker |-> "none"]
  /\ conn = [c \in Client |-> "away"]
  /\ spoken = {}

FreeFds == { fd \in Fd : file[fd] = NULL }

-------------------------------------------------------------------------------
\* Clients and the kernel

Connect(c) ==
  /\ file[LISTENER] = LISTENER
  /\ conn[c] = "away"
  /\ conn' = [conn EXCEPT ![c] = "backlog"]
  /\ UNCHANGED <<queueVars, main, stop, listenerFd, clientFd, file, worker, spoken>>

\* recv returns in whichever worker reads from c.
Speak(c) ==
  /\ conn[c] = "open"
  /\ c \notin spoken
  /\ spoken' = spoken \cup {c}
  /\ UNCHANGED <<queueVars, main, stop, listenerFd, clientFd, file, worker, conn>>

\* close of the listening socket: nobody will accept what waits in its backlog.
CloseSocket ==
  /\ file' = [file EXCEPT ![LISTENER] = NULL]
  /\ conn' = [c \in Client |-> IF conn[c] = "backlog" THEN "reset" ELSE conn[c]]

\* close of a client's descriptor
CloseFd(fd) ==
  /\ file' = [file EXCEPT ![fd] = NULL]
  /\ conn' = IF file[fd] \in Client THEN [conn EXCEPT ![file[fd]] = "closed"] ELSE conn

\* Mutant: the handler only sets the flag.
RequestShutdownByFlag ==
  /\ main # "exited"
  /\ ~stop
  /\ main' = IF main = "blocked" THEN "check" ELSE main
  /\ stop' = TRUE
  /\ UNCHANGED <<queueVars, listenerFd, clientFd, file, worker, conn, spoken>>

\* server_request_shutdown, on SIGINT or SIGTERM; accept returns EINTR and the
\* loop condition is checked again.
RequestShutdown ==
  /\ main # "exited"
  /\ ~stop
  /\ main' = IF main = "blocked" THEN "check" ELSE main
  /\ stop' = TRUE
  /\ IF listenerFd # NULL THEN CloseSocket ELSE UNCHANGED <<file, conn>>
  /\ listenerFd' = NULL
  /\ UNCHANGED <<queueVars, clientFd, worker, spoken>>

-------------------------------------------------------------------------------
\* The main thread in server_run

MainMoves(from, to) == main = from /\ main' = to

CreateWorker(w) ==
  /\ main = "create"
  /\ worker[w] = "none"
  /\ worker' = [worker EXCEPT ![w] = "pop"]
  /\ EnterPop(w)
  /\ main' = IF \A v \in Worker \ {w} : worker[v] # "none" THEN "check" ELSE "create"
  /\ UNCHANGED <<ringVars, shuttingDown, asleep, request, left,
                 stop, listenerFd, clientFd, file, conn, spoken>>

\* Mutant: a failed start goes straight to the joins.
CreateFailsToJoin ==
  /\ CreateMayFail
  /\ MainMoves("create", "join")
  /\ UNCHANGED <<queueVars, stop, listenerFd, clientFd, file, worker, conn, spoken>>

\* The workers that did start are shut down and joined.
CreateFails ==
  /\ CreateMayFail
  /\ MainMoves("create", "closing")
  /\ UNCHANGED <<queueVars, stop, listenerFd, clientFd, file, worker, conn, spoken>>

CheckStop ==
  /\ MainMoves("check", IF stop THEN "closing" ELSE "accept")
  /\ UNCHANGED <<queueVars, stop, listenerFd, clientFd, file, worker, conn, spoken>>

CallAccept ==
  /\ file[LISTENER] = LISTENER
  /\ FreeFds # {}
  /\ MainMoves("accept", "blocked")
  /\ UNCHANGED <<queueVars, stop, listenerFd, clientFd, file, worker, conn, spoken>>

AcceptClient(c) ==
  /\ MainMoves("blocked", "push")
  /\ conn[c] = "backlog"
  /\ \E fd \in FreeFds :
       /\ \A other \in FreeFds : fd <= other
       /\ clientFd' = fd
       /\ file' = [file EXCEPT ![fd] = c]
  /\ conn' = [conn EXCEPT ![c] = "open"]
  /\ UNCHANGED <<queueVars, stop, listenerFd, worker, spoken>>

\* The handler ran before accept (EBADF) or no descriptor is left (EMFILE).
AcceptFails ==
  /\ file[LISTENER] # LISTENER \/ FreeFds = {}
  /\ MainMoves("accept", "closing")
  /\ UNCHANGED <<queueVars, stop, listenerFd, clientFd, file, worker, conn, spoken>>

\* Any other error of accept ends the loop too.
AcceptBreaks ==
  /\ AcceptMayFail
  /\ MainMoves("blocked", "closing")
  /\ UNCHANGED <<queueVars, stop, listenerFd, clientFd, file, worker, conn, spoken>>

PushClient ==
  \/ /\ MainMoves("push", "check")
     /\ Push(clientFd)
     /\ clientFd' = NULL
     /\ UNCHANGED <<stop, listenerFd, file, worker, conn, spoken>>
  \/ /\ MainMoves("push", "reject")
     /\ Refused
     /\ UNCHANGED <<queueVars, stop, listenerFd, clientFd, file, worker, conn, spoken>>

\* Mutant: the refused client is not closed.
RejectLeaking ==
  /\ MainMoves("reject", "check")
  /\ clientFd' = NULL
  /\ UNCHANGED <<queueVars, stop, listenerFd, file, worker, conn, spoken>>

\* 503 without reading the request, then close
Reject ==
  /\ MainMoves("reject", "check")
  /\ CloseFd(clientFd)
  /\ clientFd' = NULL
  /\ UNCHANGED <<queueVars, stop, listenerFd, worker, spoken>>

\* The handler may run between the test of server_listener_fd, the close and
\* the assignment; the descriptor closed is then read before or after it ran.
TestListener ==
  /\ MainMoves("closing", IF listenerFd # NULL THEN "close" ELSE "shutdown")
  /\ UNCHANGED <<queueVars, stop, listenerFd, clientFd, file, worker, conn, spoken>>

CloseListener ==
  /\ MainMoves("close", "forget")
  /\ CloseSocket \/ (listenerFd = NULL /\ UNCHANGED <<file, conn>>)
  /\ UNCHANGED <<queueVars, stop, listenerFd, clientFd, worker, spoken>>

ForgetListener ==
  /\ MainMoves("forget", "shutdown")
  /\ listenerFd' = NULL
  /\ UNCHANGED <<queueVars, stop, clientFd, file, worker, conn, spoken>>

ShutdownQueue ==
  /\ MainMoves("shutdown", "join")
  /\ Shutdown
  /\ UNCHANGED <<stop, listenerFd, clientFd, file, worker, conn, spoken>>

\* pthread_join of every worker that was created, then server_queue_destroy
JoinWorkers ==
  /\ MainMoves("join", "cleanup")
  /\ \A w \in Worker : worker[w] \in {"none", "done"}
  /\ UNCHANGED <<queueVars, stop, listenerFd, clientFd, file, worker, conn, spoken>>

\* engine_shutdown in main, and the process exits.
Cleanup ==
  /\ MainMoves("cleanup", "exited")
  /\ UNCHANGED <<queueVars, stop, listenerFd, clientFd, file, worker, conn, spoken>>

Main ==
  \/ \E w \in Worker : CreateWorker(w)
  \/ CheckStop \/ CallAccept \/ AcceptFails
  \/ \E c \in Client : AcceptClient(c)
  \/ PushClient \/ Reject
  \/ TestListener \/ CloseListener \/ ForgetListener
  \/ ShutdownQueue \/ JoinWorkers \/ Cleanup

\* What the system may do to the main thread, and need not.
Faults == CreateFails \/ AcceptBreaks

-------------------------------------------------------------------------------
\* A worker thread in server_worker_main

WorkerMoves(w, from, to) == worker[w] = from /\ worker' = [worker EXCEPT ![w] = to]

\* server_queue_pop
PopClient(w) ==
  /\ worker[w] = "pop"
  /\ Pop(w)
  /\ worker' = [worker EXCEPT ![w] = IF w \in left' THEN "done"
                                     ELSE IF request'[w] # NULL THEN "read" ELSE "pop"]
  /\ UNCHANGED <<main, stop, listenerFd, clientFd, file, conn, spoken>>

WakeWorker(w) == WakeSpuriously(w) /\ UNCHANGED serverVars

\* Mutant: the error paths of server_handle_client close the descriptor too.
ReadRequestClosing(w) ==
  /\ worker[w] = "read"
  /\ file[request[w]] \in spoken
  /\ \/ WorkerMoves(w, "read", "execute") /\ UNCHANGED <<file, conn>>
     \/ WorkerMoves(w, "read", "close") /\ CloseFd(request[w])
  /\ UNCHANGED <<queueVars, main, stop, listenerFd, clientFd, spoken>>

\* server_handle_client: recv blocks until the client speaks; a request that
\* is well formed reaches engine_execute_sql, any other is answered at once.
ReadRequest(w) ==
  /\ \E next \in {"execute", "close"} : WorkerMoves(w, "read", next)
  /\ file[request[w]] \in spoken
  /\ UNCHANGED <<queueVars, main, stop, listenerFd, clientFd, file, conn, spoken>>

ExecuteStatement(w) ==
  /\ WorkerMoves(w, "execute", "close")
  /\ UNCHANGED <<queueVars, main, stop, listenerFd, clientFd, file, conn, spoken>>

CloseClient(w) ==
  /\ WorkerMoves(w, "close", "pop")
  /\ CloseFd(request[w])
  /\ Handled(w)
  /\ UNCHANGED <<main, stop, listenerFd, clientFd, spoken>>

WorkerStep(w) == PopClient(w) \/ ReadRequest(w) \/ ExecuteStatement(w) \/ CloseClient(w)

-------------------------------------------------------------------------------
Exited == main = "exited" /\ UNCHANGED vars

ServerNext ==
  \/ Main
  \/ Faults
  \/ RequestShutdown
  \/ \E w \in Worker : WorkerStep(w) \/ WakeWorker(w)
  \/ \E c \in Client : Connect(c) \/ Speak(c)
  \/ Exited

ServerSpec == ServerInit /\ [][ServerNext]_vars

\* Threads that can run do.  recv has no timeout, so progress also needs that
\* a client whose connection was accepted sends its request or hangs up.
FairServerSpec ==
  /\ ServerSpec
  /\ WF_vars(Main)
  /\ \A w \in Worker : WF_vars(WorkerStep(w))
  /\ \A c \in Client : WF_vars(Speak(c))

-------------------------------------------------------------------------------
\* Properties

HoldersOf(fd) ==
  Cardinality({ i \in 1..count : Waiting[i] = fd })
    + Cardinality({ w \in Worker : request[w] = fd })
    + (IF clientFd = fd THEN 1 ELSE 0)

(***************************************************************************)
(* Every accepted connection is in the hands of exactly one of the accept  *)
(* loop, the queue and a worker until its descriptor is closed, and no one *)
(* holds a closed descriptor: none leaks, none is closed twice, and a      *)
(* worker never answers another client's request on a number that accept   *)
(* has given out again (server.c:913-915, 1035-1039).                      *)
(***************************************************************************)
OneHolderPerConnection ==
  \A fd \in Fd : HoldersOf(fd) = IF file[fd] \in Client THEN 1 ELSE 0

(***************************************************************************)
(* The server does not stop by itself: one descriptor for every place in   *)
(* the queue, every worker, the accept loop and the listener is enough,    *)
(* however many clients come and go (server.c:1021-1034).                  *)
(***************************************************************************)
OnlySignalEndsServing ==
  main \in Leaving => stop \/ CreateMayFail \/ AcceptMayFail

(***************************************************************************)
(* engine_shutdown frees the tables only when no worker can be executing a *)
(* statement and every accepted client has been answered and closed, even  *)
(* those that were still queued (server.c:1043-1052, main.c:367).          *)
(***************************************************************************)
CleanupAlone ==
  main \in {"cleanup", "exited"} =>
    /\ \A w \in Worker : worker[w] \in {"none", "done"}
    /\ \A c \in Client : conn[c] \notin {"backlog", "open"}
    /\ count = 0

(***************************************************************************)
(* A signal ends the process whenever it comes, whichever workers sleep,   *)
(* or wait for a client (server.c:64-72, 1021-1053).                       *)
(***************************************************************************)
SignalEndsServer == stop ~> main = "exited"

(***************************************************************************)
(* A server that failed to start its workers, or to accept, ends as well:  *)
(* the workers that did start are woken and joined (server.c:1005-1052).   *)
(***************************************************************************)
FailureEndsServer == main \in Leaving ~> main = "exited"

(***************************************************************************)
(* Every accepted client is answered and closed, also when the server is   *)
(* told to stop while the client is queued (server.c:147-167, 913-915).    *)
(***************************************************************************)
EveryClientServed ==
  \A c \in Client : conn[c] = "open" ~> conn[c] = "closed"

(***************************************************************************)
(* The server uses the queue as RequestQueue assumes: it pushes only       *)
(* descriptors nobody else holds, a worker pops again only after it closed *)
(* what it popped, and the queue is shut down once.                        *)
(***************************************************************************)
UsesQueueProperly == Spec
===============================================================================
