------------------------------ MODULE Statements ------------------------------
(***************************************************************************)
(* The SQL statements that reach the executor, and the results it returns. *)
(*                                                                         *)
(* A parsed statement carries only what the table runtime tells apart:     *)
(*  - a table name; names that differ only by case denote one table        *)
(*    (utils_equals_ignore_case), Fold maps a name to the table it denotes *)
(*  - for INSERT the shape of the column list (number, names and kinds of  *)
(*    the columns) and one value standing for the tuple of values          *)
(*  - for SELECT what the WHERE clause and the projection come down to     *)
(***************************************************************************)
EXTENDS Naturals

CONSTANTS
  TableName,   \* spellings of table names
  Fold,        \* Fold[n]: the table that spelling n denotes
  Shape,       \* column lists of INSERT statements
  MentionsId,  \* shapes that name the column id
  TooWide,     \* shapes of MAX_COLUMNS columns or more, no room left for id
  Value,       \* the data of one row besides its id
  MaxId,       \* INT_MAX, the largest key of the id index
  Workload,    \* the statements that clients may send
  NULL

Id == 1..MaxId

Row == [id : Id, val : Value]

Table == { Fold[n] : n \in TableName }

Where == [kind : {"all", "unknown_column", "bad_projection"}]
           \cup [kind : {"id"}, id : Nat]
           \cup [kind : {"value"}, val : Value]

InsertStatement == [op : {"insert"}, name : TableName, shape : Shape, val : Value]
SelectStatement == [op : {"select"}, name : TableName, where : Where]
DeleteStatement == [op : {"delete"}, name : TableName]

Statement == InsertStatement \cup SelectStatement \cup DeleteStatement

(***************************************************************************)
(* QueryResult: how the statement ended and the rows it returned.  The     *)
(* rows are a set because ids order them as the code does.                 *)
(***************************************************************************)
QueryResult ==
  [status : {"inserted", "rows", "not_found", "error"}, rows : SUBSET Row]

Inserted   == [status |-> "inserted",  rows |-> {}]
NotFound   == [status |-> "not_found", rows |-> {}]
Failed     == [status |-> "error",     rows |-> {}]
Rows(R)    == [status |-> "rows",      rows |-> R]

\* Does the WHERE clause w select row r?
Matches(w, r) ==
  \/ w.kind = "all"
  \/ w.kind = "id" /\ r.id = w.id
  \/ w.kind = "value" /\ r.val = w.val

ASSUME StatementsAssumption ==
  /\ MaxId \in Nat \ {0}
  /\ MentionsId \subseteq Shape
  /\ TooWide \subseteq Shape
  /\ Workload \subseteq Statement
  /\ NULL \notin Nat \cup TableName \cup Shape \cup Row \cup QueryResult \cup Statement
===============================================================================
