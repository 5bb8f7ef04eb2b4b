--------------------------- MODULE MCQueryEndpoint ---------------------------
(***************************************************************************)
(* An instance of QueryEndpoint for TLC: requests of every length around   *)
(* the size of the buffer, and JSON objects of up to two members, their    *)
(* bodies cut anywhere.                                                    *)
(***************************************************************************)
EXTENDS QueryEndpoint

Filler(digit, n) == [i \in 1..n |-> IF i = 1 /\ digit # NULL THEN "1" ELSE "x"]

Sizes == {0, 1, 2} \cup (BufferSize - 3)..(BufferSize + 1)

\* Requests whose bytes are counted only.
Counted ==
  { [sent |-> n, head |-> h, header |-> c[1], number |-> c[2], digit |-> c[3],
     line |-> l, content |-> Filler(c[3], IF h = NULL THEN 0 ELSE n - h), fields |-> NULL] :
      <<n, h, c, l>> \in
        { t \in Sizes \X ((Sizes \ {0}) \cup {NULL})
                \X ({<<"absent", 0, NULL>>, <<"garbage", 0, NULL>>,
                     <<"blank", 0, NULL>>, <<"blank", 0, 1>>}
                      \cup { <<"number", k, NULL>> : k \in Sizes })
                \X {"malformed", "GET", "POST_elsewhere", "POST_query"} :
            IF t[2] = NULL THEN t[3][1] = "absent"
            ELSE t[2] <= t[1] /\ (t[3][3] # NULL => t[2] < t[1]) } }

\* The client's JSON: members with a space before the colon, or without.
Member(f, gap) == JsonString(f.key) \o gap \o <<":">> \o gap \o JsonString(f.value)

Object(fields, gap) ==
  <<"{">> \o FlattenSeq([i \in 1..Len(fields) |->
                           IF i = 1 THEN Member(fields[i], gap)
                           ELSE <<",">> \o Member(fields[i], gap)])
    \o <<"}">>

Values ==
  {<<>>, <<"x">>, <<"\"">>, <<"\\">>, <<"n">>, <<"\n">>, <<"^">>, <<"sql">>, <<":">>,
   <<"x", "x", "x">>, <<"x", "x", "x", "x">>}

Field(keys) == [key : keys, value : Values]

Objects ==
  { <<f>> : f \in Field({<<"sql">>, <<"x">>, <<"x", "x", "x">>}) }
    \cup { <<f, g>> : f \in Field({<<"x">>, <<"sql">>}), g \in Field({<<"sql">>}) }

Json(content, n, fields) ==
  [sent |-> 1 + Len(content), head |-> 1, header |-> "number", number |-> n, digit |-> NULL,
   line |-> "POST_query", content |-> content, fields |-> fields]

Nested == {<<"{", "\"", "x", "\"", ":", "{", "\"", "sql", "\"", ":", "\"", "x", "\"", "}", "}">>,
           <<"{", "\"", "sql", "\"", ":", "x", "}">>}

MCRequest ==
  Counted
    \cup UNION { { Json(Object(o, gap), n, o) : n \in 0..Len(Object(o, gap)) } :
                   o \in Objects, gap \in {<<>>, <<" ">>} }
    \cup UNION { { Json(c, n, NULL) : n \in 0..Len(c) } : c \in Nested }
===============================================================================
