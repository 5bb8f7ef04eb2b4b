---------------------------- MODULE QueryEndpoint ----------------------------
(***************************************************************************)
(* server_handle_client (server.c:816-901): one worker answers one         *)
(* request.  Reading it is HttpRequest's; then come the route, the         *)
(* statement in the body, the engine and the answer.                       *)
(***************************************************************************)
EXTENDS HttpRequest, JsonSql

\* A request also has a first line and the bytes of its body; fields are the
\* members of the JSON object it holds, NULL if it is not an object of strings.
ASSUME EndpointAssumption ==
  \A r \in Request :
    /\ r.line \in {"malformed", "GET", "POST_elsewhere", "POST_query"}
    /\ r.head # NULL => r.sent <= r.head + Len(r.content)

VARIABLES
  at,      \* where in server_handle_client the worker is
  sql,     \* the text given to the engine
  stored,  \* how many INSERTs have taken effect
  result,  \* the engine's result, NULL before
  answer   \* the status code sent, NULL when none

vars == <<readVars, at, sql, stored, result, answer>>

TypeOK ==
  /\ status \in {"reading", "ok", "bad", "too_large"}
  /\ at \in {"read", "route", "execute", "answer", "end"}
  /\ stored \in 0..1
  /\ result \in {"stored", "rows", "no_table", "error", NULL}
  /\ answer \in {200, 400, 404, 405, 413, 500, NULL}

Init ==
  /\ ReadInit
  /\ at = "read"
  /\ sql = NULL
  /\ stored = 0
  /\ result = NULL
  /\ answer = NULL

\* server_send_response, whose failure is ignored
Answer(code) ==
  /\ answer' \in {code, NULL}
  /\ at' = "end"

ReadRequest ==
  /\ at = "read"
  /\ Read
  /\ UNCHANGED <<at, sql, stored, result, answer>>

ReadDone ==
  /\ at = "read"
  /\ \/ status = "ok" /\ at' = "route" /\ UNCHANGED answer
     \/ status = "bad" /\ Answer(400)
     \/ status = "too_large" /\ Answer(413)
  /\ UNCHANGED <<readVars, sql, stored, result>>

Body == SubSeq(request.content, 1, content_length)

\* The first line and the body are looked at; a request that passes has a
\* statement.
Route ==
  LET found == ExtractSql(Body)
  IN /\ at = "route"
     /\ \/ request.line = "malformed" /\ Answer(400) /\ UNCHANGED sql
        \/ request.line = "GET" /\ Answer(405) /\ UNCHANGED sql
        \/ request.line = "POST_elsewhere" /\ Answer(404) /\ UNCHANGED sql
        \/ /\ request.line = "POST_query"
           /\ \/ Body = <<>> /\ Answer(400) /\ UNCHANGED sql
              \/ Body # <<>> /\ found.status = "invalid" /\ Answer(400) /\ UNCHANGED sql
              \/ Body # <<>> /\ found.status = "long" /\ Answer(413) /\ UNCHANGED sql
              \/ /\ Body # <<>>
                 /\ found.status = "ok"
                 /\ sql' = found.text
                 /\ at' = "execute"
                 /\ UNCHANGED answer
     /\ UNCHANGED <<readVars, stored, result>>

\* engine_execute_sql: an INSERT takes effect or fails as a whole.
Execute ==
  /\ at = "execute"
  /\ result' \in {"stored", "rows", "no_table", "error"}
  /\ stored' = IF result' = "stored" THEN stored + 1 ELSE stored
  /\ at' = "answer"
  /\ UNCHANGED <<readVars, sql, answer>>

\* Mutant: only a SELECT with its rows is a success.
StatusForRowsOnly(r) ==
  CASE r = "rows" -> 200
    [] r = "no_table" -> 404
    [] r \in {"stored", "error"} -> 400

\* server_status_for_result
StatusForResult(r) ==
  CASE r \in {"stored", "rows"} -> 200
    [] r = "no_table" -> 404
    [] r = "error" -> 400

AnswerResult ==
  /\ at = "answer"
  /\ \/ Answer(StatusForResult(result))
     \/ Answer(500)  \* server_build_json_response runs out of memory
  /\ UNCHANGED <<readVars, sql, stored, result>>

Ended == at = "end" /\ UNCHANGED vars

Next == ReadRequest \/ ReadDone \/ Route \/ Execute \/ AnswerResult \/ Ended

Spec == Init /\ [][Next]_vars

-------------------------------------------------------------------------------
\* Properties

\* What the reader makes of a string: control characters are lost.
Masked(t) == ReplaceAll(t, "^", "?")

\* The statement of an object, and whether the strings before it are short
\* enough to be read.
SqlField(fields) == SelectInSeq(fields, LAMBDA f : f.key = <<"sql">>)

Readable(fields) ==
  /\ \A i \in 1..(SqlField(fields) - 1) :
       Len(fields[i].key) <= KeyRoom /\ Len(fields[i].value) <= KeyRoom
  /\ Len(fields[SqlField(fields)].value) <= SqlRoom

(***************************************************************************)
(* The engine is given the whole value of the first field named sql, as    *)
(* the client wrote it but for control characters, or nothing: also when a *)
(* value before it is the word sql or looks like a field, and when the     *)
(* Content-Length cuts the body inside it.  A whole request whose strings  *)
(* are short enough is executed, any other is not (server.c:667-773).      *)
(***************************************************************************)
WholeStatementOrNone ==
  LET fields == request.fields
      whole == content_length = Len(request.content)
  IN fields # NULL /\ at \notin {"read", "route"} /\ request.line = "POST_query" /\ status = "ok" =>
       /\ sql # NULL => /\ SqlField(fields) # 0
                        /\ sql = Masked(fields[SqlField(fields)].value)
       /\ whole => (sql # NULL <=> SqlField(fields) # 0 /\ Readable(fields))

(***************************************************************************)
(* A client that gets an answer can tell whether its INSERT took effect:   *)
(* every refusal means it did not.  Only no answer, or 500, leaves it open *)
(* (server.c:779-790, 884-897).                                            *)
(***************************************************************************)
RefusalMeansNothingStored ==
  at = "end" /\ answer \notin {NULL, 500} => (stored = 1 => answer = 200)
===============================================================================
