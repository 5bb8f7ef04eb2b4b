------------------------------- MODULE JsonSql -------------------------------
(***************************************************************************)
(* The JSON of server.c: how the text of a statement is found in a request *)
(* body, and how a string is written in an answer.                         *)
(*                                                                         *)
(* A text is a sequence of symbols: "sql" is one, every other is one       *)
(* character; "^" stands for a control character without an escape of its  *)
(* own, which JSON writes as \u0001.                                       *)
(***************************************************************************)
EXTENDS Naturals, SequencesExt

CONSTANTS
  KeyRoom,  \* the longest string that fits key[64]
  SqlRoom   \* MAX_SQL_LENGTH - 1

ASSUME JsonSqlAssumption == {KeyRoom, SqlRoom} \subseteq Nat

Space == {" ", "\n", "\r", "\t"}

At(t, i) == IF i \in 1..Len(t) THEN t[i] ELSE "\\0"

\* The letters of the escapes of line ends and tabs.
Escape == ("\n" :> "n") @@ ("\r" :> "r") @@ ("\t" :> "t")

\* server_buffer_append_json_string
JsonString(t) ==
  LET written(c) ==
        CASE c \in {"\"", "\\"} -> <<"\\", c>>
          [] c \in DOMAIN Escape -> <<"\\", Escape[c]>>
          [] c = "^" -> <<"\\", "u", "0", "0", "0", "1">>
          [] OTHER -> <<c>>
  IN <<"\"">> \o FlattenSeq([i \in 1..Len(t) |-> written(t[i])]) \o <<"\"">>

\* What an escaped character c is read as; every \u is a question mark.
Unescaped(c) ==
  IF c = "u" THEN "?"
  ELSE IF \E e \in DOMAIN Escape : Escape[e] = c THEN CHOOSE e \in DOMAIN Escape : Escape[e] = c
  ELSE c

Invalid == [status |-> "invalid", text |-> <<>>, next |-> 0]

TooLong == [status |-> "long", text |-> <<>>, next |-> 0]

\* server_read_json_string at position i: the string, and where it stops.
ReadString(t, i, room) ==
  LET escaped(p) == t[p] = "\\"
      cut(p) == escaped(p) /\ (p = Len(t) \/ (t[p + 1] = "u" /\ p + 5 > Len(t)))
      width(p) == IF ~escaped(p) THEN 1 ELSE IF t[p + 1] = "u" THEN 6 ELSE 2
      read[p \in Nat, out \in Seq(STRING)] ==
        IF p > Len(t) THEN Invalid
        ELSE IF t[p] = "\"" THEN [status |-> "ok", text |-> out, next |-> p + 1]
        ELSE IF cut(p) THEN Invalid
        ELSE IF Len(out) >= room THEN TooLong
        ELSE read[p + width(p), Append(out, IF escaped(p) THEN Unescaped(t[p + 1]) ELSE t[p])]
  IN IF At(t, i) # "\"" THEN Invalid ELSE read[i + 1, <<>>]

\* server_skip_json_space
SkipSpace(t, i) ==
  CHOOSE j \in i..(Len(t) + 1) : (\A k \in i..(j - 1) : t[k] \in Space) /\ At(t, j) \notin Space

\* Mutant: a string is taken for a key without looking for a colon.
ExtractSqlAnyString(t) ==
  LET from[i \in Nat] ==
        LET quote == SelectInSubSeq(t, i, Len(t), LAMBDA c : c = "\"")
            key == ReadString(t, quote, KeyRoom)
            value == SelectInSubSeq(t, key.next, Len(t), LAMBDA c : c = "\"")
        IN IF quote = 0 THEN Invalid
           ELSE IF key.status # "ok" THEN key
           ELSE IF key.text # <<"sql">> THEN from[key.next]
           ELSE ReadString(t, value, SqlRoom)
  IN from[1]

\* server_extract_sql_from_json: strings are read one after the other, each
\* one followed by a colon is a key.
ExtractSql(t) ==
  LET from[i \in Nat] ==
        LET quote == SelectInSubSeq(t, i, Len(t), LAMBDA c : c = "\"")
            key == ReadString(t, quote, KeyRoom)
            colon == SkipSpace(t, key.next)
            value == SkipSpace(t, colon + 1)
        IN IF quote = 0 THEN Invalid
           ELSE IF key.status # "ok" THEN key
           ELSE IF At(t, colon) # ":" THEN from[colon]
           ELSE IF key.text # <<"sql">> THEN from[value]
           ELSE ReadString(t, value, SqlRoom)
  IN from[1]
===============================================================================
