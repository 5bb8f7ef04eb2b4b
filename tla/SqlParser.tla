------------------------------ MODULE SqlParser ------------------------------
(***************************************************************************)
(* parser.c: from the tokens of one text to one statement, and what        *)
(* engine_execute_sql makes of a text before it calls the executor.        *)
(*                                                                         *)
(* The parser reads tokens from left to right; here each function says     *)
(* where it stops reading, 0 when it fails.                                *)
(***************************************************************************)
EXTENDS SqlTokens

CONSTANTS
  MaxColumns,     \* MAX_COLUMNS
  MaxIdentifier,  \* MAX_IDENTIFIER_LEN - 1, the length of the longest name
  MaxSqlLength    \* MAX_SQL_LENGTH

ASSUME SqlParserAssumption ==
  /\ MaxColumns \in Nat
  /\ MaxIdentifier \in Nat
  /\ MaxSqlLength \in Nat \ {0, 1}

SyntaxError == [op |-> "error"]

\* parser_is_token
IsToken(ts, i, type) == i \in 1..Len(ts) /\ ts[i].type = type

IsKeyword(ts, i, word) == IsToken(ts, i, "KEYWORD") /\ ts[i].value = <<word>>

IsIdentifier(ts, i) == IsToken(ts, i, "IDENTIFIER") /\ Len(ts[i].value) <= MaxIdentifier

\* A value has the room of a token, so none is too long for it.
IsLiteral(ts, i) == IsToken(ts, i, "INT_LITERAL") \/ IsToken(ts, i, "STR_LITERAL")

IsItem(ts, i, kind) == IF kind = "name" THEN IsIdentifier(ts, i) ELSE IsLiteral(ts, i)

\* Mutant: the limit on the number of items is checked one item late.
ListEndLate(ts, from, kind) ==
  LET end[i \in Nat] ==
        CASE i > Len(ts) -> i
          [] i <= Len(ts) /\ ((i - from) \div 2 > MaxColumns \/ ~IsItem(ts, i, kind)) -> 0
          [] OTHER -> IF IsToken(ts, i + 1, "COMMA") THEN end[i + 2] ELSE i + 1
  IN end[from]

\* The loop over columns or values that begins at from.
ListEnd(ts, from, kind) ==
  LET end[i \in Nat] ==
        CASE i > Len(ts) -> i
          [] i <= Len(ts) /\ ((i - from) \div 2 >= MaxColumns \/ ~IsItem(ts, i, kind)) -> 0
          [] OTHER -> IF IsToken(ts, i + 1, "COMMA") THEN end[i + 2] ELSE i + 1
  IN end[from]

\* The items of a list that was read from there up to end.
Items(ts, from, end) == [k \in 1..((end - from + 1) \div 2) |-> ts[from + 2 * (k - 1)]]

\* parser_consume_optional_semicolon
Complete(ts, i) ==
  (IF IsToken(ts, i, "SEMICOLON") THEN i + 1 ELSE i) = Len(ts) + 1

ParseInsert(ts) ==
  LET columns == ListEnd(ts, 5, "name")
      values == ListEnd(ts, columns + 3, "literal")
  IN IF /\ IsKeyword(ts, 2, "INTO")
        /\ IsIdentifier(ts, 3)
        /\ IsToken(ts, 4, "LPAREN")
        /\ columns # 0
        /\ IsToken(ts, columns, "RPAREN")
        /\ IsKeyword(ts, columns + 1, "VALUES")
        /\ IsToken(ts, columns + 2, "LPAREN")
        /\ values # 0
        /\ IsToken(ts, values, "RPAREN")
        /\ Len(Items(ts, 5, columns)) = Len(Items(ts, columns + 3, values))
        /\ Complete(ts, values + 1)
     THEN [op |-> "insert", table |-> ts[3],
           columns |-> Items(ts, 5, columns), values |-> Items(ts, columns + 3, values)]
     ELSE SyntaxError

\* parser_parse_where, if there is a WHERE at i
WhereEnd(ts, i) ==
  CASE ~IsKeyword(ts, i, "WHERE") -> i
    [] /\ IsKeyword(ts, i, "WHERE")
       /\ IsIdentifier(ts, i + 1)
       /\ IsToken(ts, i + 2, "OPERATOR")
       /\ IsLiteral(ts, i + 3) -> i + 4
    [] OTHER -> 0

\* The condition read from i up to end: column, operator, literal.
Condition(ts, i, end) == SubSeq(ts, i + 1, end - 1)

\* parser_parse_select_columns
ColumnsEnd(ts) ==
  IF IsToken(ts, 2, "IDENTIFIER") /\ ts[2].value = <<"*">> THEN 3
  ELSE ListEnd(ts, 2, "name")

ParseSelect(ts) ==
  LET from == ColumnsEnd(ts)
      end == WhereEnd(ts, from + 2)
  IN IF /\ from # 0
        /\ IsKeyword(ts, from, "FROM")
        /\ IsIdentifier(ts, from + 1)
        /\ end # 0
        /\ Complete(ts, end)
     THEN [op |-> "select", table |-> ts[from + 1],
           columns |-> Items(ts, 2, from), where |-> Condition(ts, from + 2, end)]
     ELSE SyntaxError

ParseDelete(ts) ==
  LET end == WhereEnd(ts, 4)
  IN IF /\ IsKeyword(ts, 2, "FROM")
        /\ IsIdentifier(ts, 3)
        /\ end # 0
        /\ Complete(ts, end)
     THEN [op |-> "delete", table |-> ts[3], where |-> Condition(ts, 4, end)]
     ELSE SyntaxError

\* parser_parse
Parse(ts) ==
  CASE IsKeyword(ts, 1, "INSERT") -> ParseInsert(ts)
    [] IsKeyword(ts, 1, "SELECT") -> ParseSelect(ts)
    [] IsKeyword(ts, 1, "DELETE") -> ParseDelete(ts)
    [] OTHER -> SyntaxError

\* engine_execute_sql up to the executor: the statement, or an error
Compile(sql) ==
  LET tokens == Tokenize(sql)
  IN IF Len(sql) >= MaxSqlLength \/ Untokenized(tokens) THEN SyntaxError ELSE Parse(tokens)

-------------------------------------------------------------------------------
(***************************************************************************)
(* The language by the form of its sentences: what the classes of the      *)
(* tokens of a statement may be.  The star is a name like any other, only  *)
(* that a SELECT that begins with it has no other column.                  *)
(***************************************************************************)
Class(token) ==
  CASE token.type = "KEYWORD" -> token.value[1]
    [] token.type = "IDENTIFIER" -> IF Len(token.value) <= MaxIdentifier THEN "name" ELSE "long"
    [] token.type \in {"INT_LITERAL", "STR_LITERAL"} -> "literal"
    [] OTHER -> token.type

ClassList(class, n) == [i \in 1..(2 * n - 1) |-> IF i % 2 = 1 THEN class ELSE "COMMA"]

Sentences ==
  LET where == {<<>>, <<"WHERE", "name", "OPERATOR", "literal">>}
  IN { <<"INSERT", "INTO", "name", "LPAREN">> \o ClassList("name", n)
         \o <<"RPAREN", "VALUES", "LPAREN">> \o ClassList("literal", n) \o <<"RPAREN">> :
         n \in 1..MaxColumns }
     \cup { <<"SELECT">> \o ClassList("name", n) \o <<"FROM", "name">> \o w :
             n \in 1..MaxColumns, w \in where }
     \cup { <<"DELETE", "FROM", "name">> \o w : w \in where }

InLanguage(ts) ==
  LET classes == [i \in 1..Len(ts) |-> Class(ts[i])]
  IN /\ \E s \in Sentences : classes \in {s, Append(s, "SEMICOLON")}
     /\ classes[1] = "SELECT" /\ ts[2].value = <<"*">> => classes[3] = "FROM"

\* The names, operators and literals of a statement in the order of its text.
Contents(s) ==
  CASE s.op = "insert" -> <<s.table>> \o s.columns \o s.values
    [] s.op = "select" -> s.columns \o <<s.table>> \o s.where
    [] s.op = "delete" -> <<s.table>> \o s.where
===============================================================================
