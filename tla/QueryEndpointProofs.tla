-------------------------- MODULE QueryEndpointProofs --------------------------
(***************************************************************************)
(* What a worker makes of one request, for every set of requests and every *)
(* size of the buffer: the pieces recv returns do not decide the outcome,  *)
(* and a refusal means that nothing was stored.                            *)
(***************************************************************************)
EXTENDS QueryEndpoint, TLAPS

USE DEF readVars, Finish

-------------------------------------------------------------------------------
\* Reading the request

\* The Content-Length of a request, where it does not depend on what else has
\* arrived.
Claim(r) == IF r.header = "number" THEN r.number ELSE 0

(***************************************************************************)
(* The buffer holds the first bytes of the request and has room for the    *)
(* terminator; while the reader goes on after the header, the whole        *)
(* request fits and some of it is missing (server.c:588-634).              *)
(***************************************************************************)
ReadInv ==
  /\ request \in Request
  /\ status \in {"reading", "ok", "bad", "too_large"}
  /\ length \in 0..request.sent /\ length + 1 <= BufferSize
  /\ header_end = FindHeaderEnd(length)
  /\ content_length \in Nat
  /\ status = "reading" /\ header_end # NULL =>
       /\ request.header # "garbage"
       /\ request.header # "blank" => content_length = Claim(request)
       /\ length < header_end + content_length
       /\ header_end + content_length + 1 <= BufferSize
  /\ PiecesDoNotMatter

\* The first byte of a request is not yet its blank line.
LEMMA ReadBegins == ReadInit => ReadInv
<1> SUFFICES ASSUME ReadInit PROVE ReadInv
  OBVIOUS
<1>1. WellFormed(request) /\ NULL \notin Nat /\ BufferSize \in Nat \ {0}
  BY RequestAssumption, HttpRequestAssumption DEF ReadInit
<1>2. FindHeaderEnd(0) = NULL
  BY <1>1 DEF FindHeaderEnd, WellFormed
<1> QED  BY <1>1, <1>2 DEF ReadInit, ReadInv, PiecesDoNotMatter, WellFormed

\* recv returns a piece, nothing, or there is no room for it.
LEMMA ReadStep ==
  ASSUME ReadInv, [Read]_readVars
  PROVE  ReadInv'
<1>1. WellFormed(request) /\ NULL \notin Nat /\ BufferSize \in Nat \ {0}
  BY RequestAssumption, HttpRequestAssumption DEF ReadInv
<1>2. CASE UNCHANGED readVars
  BY <1>2 DEF ReadInv, FindHeaderEnd, PiecesDoNotMatter, Outcome
<1>3. CASE ReceiveNothing
  <2>1. status = "reading" /\ length + 1 < BufferSize /\ length = request.sent /\ status' = "bad"
        /\ UNCHANGED <<request, length, header_end, content_length>>
    BY <1>3 DEF ReceiveNothing
  <2>2. request.header # "blank" => Outcome(request) = "bad"
    <3>1. CASE header_end = NULL
      <4>1. request.head = NULL
        BY <1>1, <2>1, <3>1 DEF ReadInv, FindHeaderEnd, WellFormed
      <4>2. request.sent \in Nat /\ request.sent < BufferSize - 1
        BY <1>1, <2>1 DEF WellFormed
      <4> QED  BY <1>1, <4>1, <4>2 DEF Outcome
    <3>2. CASE header_end # NULL
      BY <1>1, <2>1, <3>2 DEF ReadInv, FindHeaderEnd, WellFormed, Outcome, Claim
    <3> QED  BY <3>1, <3>2
  <2> QED  BY <2>1, <2>2 DEF ReadInv, FindHeaderEnd, PiecesDoNotMatter, Outcome
<1>4. CASE BufferFull
  <2>1. status = "reading" /\ length + 1 = BufferSize /\ status' = "too_large"
        /\ UNCHANGED <<request, length, header_end, content_length>>
    BY <1>1, <1>4 DEF ReadInv, BufferFull, WellFormed
  <2>2. header_end = NULL
    BY <1>1, <2>1 DEF ReadInv, FindHeaderEnd, WellFormed
  <2>3. Outcome(request) = "too_large"
    BY <1>1, <2>1, <2>2 DEF ReadInv, FindHeaderEnd, WellFormed, Outcome
  <2> QED  BY <2>1, <2>3 DEF ReadInv, FindHeaderEnd, PiecesDoNotMatter, Outcome
<1>5. ASSUME NEW k \in 1..(request.sent - length), Receive(k) PROVE ReadInv'
  <2> DEFINE n == length + k
             end == FindHeaderEnd(n)
             claim == IF header_end = NULL THEN ParseContentLength(n) ELSE content_length
  <2>1. /\ status = "reading" /\ n + 1 <= BufferSize /\ n \in 1..request.sent
        /\ UNCHANGED request /\ length' = n /\ header_end' = end
    BY <1>1, <1>5 DEF ReadInv, WellFormed, Receive
  <2>2. header_end' = FindHeaderEnd(length)'
    BY <2>1 DEF FindHeaderEnd
  <2>3. CASE end = NULL
    <3>1. UNCHANGED <<content_length, status>>
      BY <1>5, <2>3 DEF Receive
    <3> QED  BY <1>1, <2>1, <2>2, <2>3, <3>1 DEF ReadInv, PiecesDoNotMatter, WellFormed
  <2>4. CASE end # NULL
    <3>1. end = request.head /\ request.head \in 1..n
      BY <1>1, <2>1, <2>4 DEF FindHeaderEnd, WellFormed
    <3>2. header_end # NULL => header_end = end
      BY <3>1 DEF ReadInv, FindHeaderEnd
    <3>3. claim = NULL \/ claim \in Nat
      BY <1>1, <2>1, <3>1 DEF ReadInv, WellFormed, ParseContentLength
    <3>4. request.header # "blank" =>
            IF request.header = "garbage" THEN claim = NULL ELSE claim = Claim(request)
      BY <1>1, <2>1 DEF ReadInv, WellFormed, ParseContentLength, Claim
    <3>5. CASE claim = NULL
      <4>1. status' = "bad" /\ UNCHANGED content_length
        BY <1>5, <2>4, <3>5 DEF Receive
      <4>2. request.header # "blank" => Outcome(request) = "bad"
        BY <1>1, <2>1, <3>1, <3>4, <3>5 DEF WellFormed, Outcome, Claim
      <4> QED  BY <2>1, <2>2, <4>1, <4>2 DEF ReadInv, PiecesDoNotMatter, Outcome
    <3>6. CASE claim # NULL
      <4>1. content_length' = claim /\ claim \in Nat /\ request.header # "garbage"
        BY <1>5, <2>4, <3>3, <3>4, <3>6 DEF Receive, ReadInv
      <4>2. CASE claim > BufferSize - end - 1
        <5>1. status' = "too_large"
          BY <1>5, <2>4, <3>6, <4>2 DEF Receive
        <5>2. request.header # "blank" => Outcome(request) = "too_large"
          BY <1>1, <2>1, <3>1, <3>4, <4>1, <4>2 DEF WellFormed, Outcome, Claim
        <5> QED  BY <2>1, <2>2, <4>1, <5>1, <5>2 DEF ReadInv, PiecesDoNotMatter, Outcome
      <4>3. CASE ~(claim > BufferSize - end - 1) /\ n >= end + claim
        <5>1. status' = "ok"
          BY <1>5, <2>4, <3>6, <4>3 DEF Receive, Accept
        <5>2. request.header # "blank" => Outcome(request) = "ok"
          BY <1>1, <2>1, <3>1, <3>4, <4>1, <4>3 DEF WellFormed, Outcome, Claim
        <5> QED  BY <2>1, <2>2, <4>1, <5>1, <5>2 DEF ReadInv, PiecesDoNotMatter, Outcome
      <4>4. CASE ~(claim > BufferSize - end - 1) /\ ~(n >= end + claim)
        <5>1. UNCHANGED status
          BY <1>5, <2>4, <3>6, <4>4 DEF Receive, Accept
        <5>2. n < end + claim /\ end + claim + 1 <= BufferSize
          BY <1>1, <2>1, <3>1, <4>1, <4>4
        <5>3. request.header # "blank" => claim = Claim(request)
          BY <3>4, <4>1
        <5> HIDE DEF claim, n, end
        <5> QED  BY <2>1, <2>2, <4>1, <5>1, <5>2, <5>3 DEF ReadInv, PiecesDoNotMatter, Claim
      <4> QED  BY <4>2, <4>3, <4>4
    <3> QED  BY <3>5, <3>6
  <2> QED  BY <2>3, <2>4
<1> QED  BY <1>2, <1>3, <1>4, <1>5 DEF Read

-------------------------------------------------------------------------------
\* From the request to the answer

(***************************************************************************)
(* The engine runs once, after the request was read and before the answer  *)
(* is chosen from its result (server.c:822-900).                           *)
(***************************************************************************)
EndpointInv ==
  /\ TypeOK
  /\ ReadInv
  /\ at # "read" /\ at # "end" => status = "ok"
  /\ at \in {"read", "route", "execute"} => stored = 0 /\ answer = NULL
  /\ at = "answer" =>
       /\ result \in {"stored", "rows", "no_table", "error"} /\ answer = NULL
       /\ stored = 1 => result = "stored"
  /\ RefusalMeansNothingStored

LEMMA EndpointBegins == Init => EndpointInv
BY ReadBegins DEF Init, ReadInit, EndpointInv, TypeOK, RefusalMeansNothingStored

LEMMA EndpointStep ==
  ASSUME EndpointInv, [Next]_vars
  PROVE  EndpointInv'
<1>1. NULL \notin Nat
  BY HttpRequestAssumption
<1>2. CASE ReadRequest
  <2>1. ReadInv'
    BY <1>2, ReadStep DEF EndpointInv, ReadRequest
  <2> QED  BY <1>2, <2>1 DEF EndpointInv, TypeOK, ReadInv, ReadRequest, RefusalMeansNothingStored
<1>3. ASSUME UNCHANGED readVars PROVE ReadInv'
  BY <1>3, ReadStep DEF EndpointInv
<1>4. CASE ReadDone
  <2>1. at = "read" /\ stored = 0 /\ UNCHANGED <<readVars, stored, result>>
    BY <1>4 DEF EndpointInv, ReadDone
  <2>2. \/ at' = "route" /\ status = "ok" /\ UNCHANGED answer
        \/ at' = "end" /\ answer' \in {400, 413, NULL}
    BY <1>4 DEF ReadDone, Answer
  <2>3. TypeOK'
    BY <2>1, <2>2 DEF EndpointInv, TypeOK
  <2> QED  BY <1>3, <2>1, <2>2, <2>3 DEF EndpointInv, RefusalMeansNothingStored
<1>5. CASE Route
  <2>1. at = "route" /\ stored = 0 /\ UNCHANGED <<readVars, stored, result>>
    BY <1>5 DEF EndpointInv, Route
  <2>2. \/ at' = "end" /\ answer' \in {400, 404, 405, 413, NULL}
        \/ at' = "execute" /\ UNCHANGED answer
    BY <1>5 DEF Route, Answer
  <2>3. TypeOK'
    BY <2>1, <2>2 DEF EndpointInv, TypeOK
  <2> QED  BY <1>3, <2>1, <2>2, <2>3 DEF EndpointInv, RefusalMeansNothingStored
<1>6. CASE Execute
  <2>1. at = "execute" /\ at' = "answer" /\ stored = 0 /\ UNCHANGED <<readVars, answer>>
    BY <1>6 DEF EndpointInv, Execute
  <2>2. /\ result' \in {"stored", "rows", "no_table", "error"}
        /\ stored' = IF result' = "stored" THEN 1 ELSE 0
    BY <1>6, <2>1 DEF Execute
  <2>3. TypeOK'
    BY <2>1, <2>2 DEF EndpointInv, TypeOK
  <2> QED  BY <1>3, <2>1, <2>2, <2>3 DEF EndpointInv, RefusalMeansNothingStored
<1>7. CASE AnswerResult
  <2>1. at = "answer" /\ at' = "end" /\ UNCHANGED <<readVars, stored, result>>
        /\ result \in {"stored", "rows", "no_table", "error"}
    BY <1>7 DEF EndpointInv, AnswerResult, Answer
  <2>2. answer' \in {StatusForResult(result), 500, NULL}
    BY <1>7 DEF AnswerResult, Answer
  <2>3. /\ StatusForResult(result) \in {200, 400, 404}
        /\ result = "stored" => StatusForResult(result) = 200
    BY <2>1 DEF StatusForResult
  <2>4. TypeOK'
    <3> HIDE DEF StatusForResult
    <3> QED  BY <2>1, <2>2, <2>3 DEF EndpointInv, TypeOK
  <2>5. RefusalMeansNothingStored'
    BY <2>1, <2>2, <2>3 DEF EndpointInv, RefusalMeansNothingStored
  <2> QED  BY <1>3, <2>1, <2>4, <2>5 DEF EndpointInv
<1>8. CASE Ended \/ UNCHANGED vars
  <2>1. UNCHANGED vars
    BY <1>8 DEF Ended
  <2> QED  BY <1>3, <2>1 DEF EndpointInv, TypeOK, vars, RefusalMeansNothingStored
<1> QED  BY <1>2, <1>4, <1>5, <1>6, <1>7, <1>8 DEF Next

(***************************************************************************)
(* A worker that reads and answers one request keeps the invariant.        *)
(***************************************************************************)
THEOREM EndpointCorrect == Spec => []EndpointInv
BY EndpointBegins, EndpointStep, PTL DEF Spec

(***************************************************************************)
(* server_read_http_request comes to the same answer however TCP cut the   *)
(* request, for requests and buffers of any size (server.c:578-637).       *)
(***************************************************************************)
THEOREM PiecesDoNotMatterHolds == Spec => []PiecesDoNotMatter
<1>1. EndpointInv => PiecesDoNotMatter
  BY DEF EndpointInv, ReadInv
<1> QED  BY <1>1, EndpointCorrect, PTL

(***************************************************************************)
(* No client is refused whose INSERT took effect (server.c:779-790,        *)
(* 884-897).                                                               *)
(***************************************************************************)
THEOREM RefusalMeansNothingStoredHolds == Spec => []RefusalMeansNothingStored
<1>1. EndpointInv => RefusalMeansNothingStored
  BY DEF EndpointInv
<1> QED  BY <1>1, EndpointCorrect, PTL
===============================================================================
