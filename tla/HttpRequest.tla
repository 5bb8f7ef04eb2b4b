----------------------------- MODULE HttpRequest -----------------------------
(***************************************************************************)
(* server_read_http_request (server.c:578-637): one worker reads one       *)
(* request into a buffer of fixed size, in whatever pieces recv returns.   *)
(*                                                                         *)
(* Of the bytes the client sends only their number counts, where the blank *)
(* line ends, and what the Content-Length header says.                     *)
(***************************************************************************)
EXTENDS Naturals

CONSTANTS
  Request,     \* the requests, records with at least the fields of WellFormed
  BufferSize,  \* SERVER_REQUEST_BUFFER_SIZE
  NULL

ASSUME HttpRequestAssumption ==
  /\ BufferSize \in Nat \ {0}
  /\ NULL \notin Nat

\* sent is the number of bytes before the client hangs up, head that of those
\* up to the blank line, header the Content-Length: none, a number, no number,
\* or no value at all; digit is the number that the body begins with, if any.
WellFormed(r) ==
  /\ r.sent \in Nat
  /\ r.head \in 1..r.sent \cup {NULL}
  /\ r.header \in {"absent", "number", "garbage", "blank"}
  /\ r.number \in Nat /\ (r.header # "number" => r.number = 0)
  /\ r.digit \in 0..9 \cup {NULL} /\ (r.header # "blank" => r.digit = NULL)
  /\ r.head = NULL => r.header = "absent"

ASSUME RequestAssumption == \A r \in Request : WellFormed(r)

VARIABLES
  request,        \* what the client sends
  length,         \* bytes in the buffer
  header_end,     \* where the body begins, NULL until the blank line is seen
  content_length,
  status          \* ServerReadStatus, reading until the call returns

readVars == <<request, length, header_end, content_length, status>>

ReadInit ==
  /\ request \in Request
  /\ length = 0
  /\ header_end = NULL
  /\ content_length = 0
  /\ status = "reading"

\* server_find_header_end
FindHeaderEnd(n) ==
  IF request.head # NULL /\ request.head <= n THEN request.head ELSE NULL

\* server_parse_content_length; strtol skips the line ends after a header
\* without a value and reads what follows the blank line, if it is there.
ParseContentLength(n) ==
  CASE request.header = "absent"  -> 0
    [] request.header = "number"  -> request.number
    [] request.header = "garbage" -> NULL
    [] request.header = "blank"   -> IF n > request.head THEN request.digit ELSE NULL

Finish(s) == status' = s

\* Mutant: a body that arrives with the header is not looked at.
AcceptAfterNextRecv(n, end, claim) ==
  IF header_end # NULL /\ n >= end + claim THEN Finish("ok") ELSE UNCHANGED status

Accept(n, end, claim) ==
  IF n >= end + claim THEN Finish("ok") ELSE UNCHANGED status

\* recv returns k bytes.
Receive(k) ==
  LET n == length + k
      end == FindHeaderEnd(n)
      claim == IF header_end = NULL THEN ParseContentLength(n) ELSE content_length
  IN /\ status = "reading"
     /\ n + 1 <= BufferSize
     /\ n <= request.sent
     /\ length' = n
     /\ header_end' = end
     /\ \/ /\ end = NULL
           /\ UNCHANGED <<content_length, status>>
        \/ /\ end # NULL
           /\ claim = NULL
           /\ Finish("bad")
           /\ UNCHANGED content_length
        \/ /\ end # NULL
           /\ claim # NULL
           /\ content_length' = claim
           /\ IF claim > BufferSize - end - 1 THEN Finish("too_large")
                                              ELSE Accept(n, end, claim)
     /\ UNCHANGED request

\* recv returns 0 or an error other than EINTR, after which it is called again:
\* the client has hung up.
ReceiveNothing ==
  /\ status = "reading"
  /\ length + 1 < BufferSize
  /\ length = request.sent
  /\ Finish("bad")
  /\ UNCHANGED <<request, length, header_end, content_length>>

BufferFull ==
  /\ status = "reading"
  /\ length + 1 >= BufferSize
  /\ Finish("too_large")
  /\ UNCHANGED <<request, length, header_end, content_length>>

\* One step of server_read_http_request.
Read ==
  \/ \E k \in 1..(request.sent - length) : Receive(k)
  \/ ReceiveNothing \/ BufferFull

-------------------------------------------------------------------------------
\* What a request deserves, whatever the pieces it arrives in.
Outcome(r) ==
  LET read == IF r.sent < BufferSize THEN r.sent ELSE BufferSize - 1
      claim == IF r.header = "number" THEN r.number ELSE 0
      seen == r.head # NULL /\ r.head <= read
      tooLarge == IF seen THEN r.header # "garbage" /\ r.head + claim >= BufferSize
                          ELSE r.sent >= BufferSize - 1
      whole == seen /\ r.header # "garbage" /\ r.head + claim <= r.sent
  IN IF tooLarge THEN "too_large" ELSE IF whole THEN "ok" ELSE "bad"

(***************************************************************************)
(* Whether a request is read, refused or too large depends on its bytes,   *)
(* not on the pieces recv returned, up to the last byte of the buffer.     *)
(* A Content-Length without a value is excepted: there the answer depends  *)
(* on whether the body came with the header (server.c:551-556, 600-636).   *)
(***************************************************************************)
PiecesDoNotMatter ==
  status # "reading" /\ request.header # "blank" => status = Outcome(request)
===============================================================================
