------------------------------ MODULE CsvTable ------------------------------
(***************************************************************************)
(* storage.c: what INSERTs and DELETEs do to the text of one table's file, *)
(* one statement after the other (Storage is about several at a time).     *)
(*                                                                         *)
(* A write may be cut: the process is killed in it, or the disk is full    *)
(* and the failure of fflush goes unnoticed.                               *)
(***************************************************************************)
EXTENDS CsvIndex

CONSTANTS
  InsertStatement,  \* columns and values
  DeleteStatement,  \* column, op and value, or no WHERE
  Literal,          \* the values that queries compare with
  AllRows,          \* a DELETE without a WHERE
  Weight(_),        \* bound: what a statement counts
  MaxWeight,        \* bound: what all statements count together
  MaxTears          \* bound: writes that are cut

ASSUME CsvTableAssumption ==
  /\ \A s \in InsertStatement : Len(s.columns) = Len(s.values)
  /\ \A s \in InsertStatement \cup DeleteStatement : Weight(s) \in Nat \ {0}
  /\ {MaxWeight, MaxTears} \subseteq Nat

VARIABLES
  text,    \* the file, empty when there is none
  exists,  \* whether there is one
  stored,  \* the rows that were written whole and not deleted since
  weight,  \* what the statements so far count
  tears    \* the writes that were cut

vars == <<text, exists, stored, weight, tears>>

TypeOK ==
  /\ text \in Seq(ToSet(Characters))
  /\ exists \in BOOLEAN
  /\ stored \in Seq(Seq(Seq(ToSet(Characters))))
  /\ weight \in 0..MaxWeight
  /\ tears \in 0..MaxTears

Init ==
  /\ text = <<>>
  /\ exists = FALSE
  /\ stored = <<>>
  /\ weight = 0
  /\ tears = 0

\* Bound: frequent statements count less than others.
Count(s) ==
  /\ weight + Weight(s) <= MaxWeight
  /\ weight' = weight + Weight(s)

Id == <<"i", "d">>

\* storage_find_column_index, 0 when there is no such column
FindColumn(columns, name) == SelectInSeq(columns, LAMBDA c : c = name)

\* Rows that a scan of an INSERT can read to the end.
Ids(columns, rows) ==
  LET id == FindColumn(columns, Id)
  IN { r.values[id] : r \in { x \in ToSet(rows) : x.values # <<>> } }

-------------------------------------------------------------------------------
\* storage_insert

\* Mutant: an INSERT gives the number of rows as the next id.
NextAutoIdCounts(columns, rows) == Print64(Len(rows))

\* storage_get_next_auto_id; an id at the limit overflows, and the build
\* wraps around.
NextAutoId(columns, rows) ==
  LET above(n, id) == IF id < n THEN n ELSE IF id = MaxInteger THEN -MaxInteger - 1 ELSE id + 1
      next(n, r) == above(n, ParseInteger(r.values[FindColumn(columns, Id)]))
  IN Print64(FoldLeft(next, 1, rows))

AutoIdAllowed(columns, rows) ==
  ~Broken(rows) /\ \A id \in Ids(columns, rows) : IsInteger(id)

\* Mutant: a row that cannot be read is passed over.
ValidPrimaryKeyUnread(columns, rows, row) ==
  LET id == FindColumn(columns, Id)
  IN id # 0 => row[id] # <<>> /\ row[id] \notin Ids(columns, rows)

\* storage_validate_primary_key
ValidPrimaryKey(columns, rows, row) ==
  LET id == FindColumn(columns, Id)
  IN id # 0 => row[id] # <<>> /\ ~Broken(rows) /\ row[id] \notin Ids(columns, rows)

\* The bytes of the first INSERT: a header and a row; FAILURE when refused.
CreateTable(s) ==
  LET auto == FindColumn(s.columns, Id) = 0
      columns == IF auto THEN <<Id>> \o s.columns ELSE s.columns
      row == IF auto THEN <<Print64(1)>> \o s.values ELSE s.values
  IN IF Len(columns) <= MaxColumns /\ ValidPrimaryKey(columns, <<>>, row)
     THEN [before |-> WriteRow(columns), row |-> row]
     ELSE FAILURE

\* The row of a later INSERT, its values in the order of the header.
AppendRow(columns, rows, s) ==
  LET auto == FindColumn(columns, Id) # 0 /\ FindColumn(s.columns, Id) = 0
      value(name) == IF auto /\ name = Id THEN NextAutoId(columns, rows)
                     ELSE s.values[FindColumn(s.columns, name)]
      row == [i \in 1..Len(columns) |-> value(columns[i])]
  IN IF /\ columns # FAILURE
        /\ Len(columns) = IF auto THEN Len(s.columns) + 1 ELSE Len(s.columns)
        /\ \A name \in ToSet(columns) : (auto /\ name = Id) \/ FindColumn(s.columns, name) # 0
        /\ IF auto THEN AutoIdAllowed(columns, rows) ELSE ValidPrimaryKey(columns, rows, row)
     THEN [before |-> <<>>, row |-> row]
     ELSE FAILURE

ToInsert(t, s) ==
  IF t = <<>> THEN CreateTable(s) ELSE AppendRow(ReadHeader(t), ReadRows(t), s)

\* new is what storage_insert is to write, or FAILURE.
Write(new) ==
  \/ /\ new = FAILURE
     /\ UNCHANGED <<text, stored>>
  \/ /\ new # FAILURE
     /\ text' = text \o new.before \o WriteRow(new.row)
     /\ stored' = IF tears = 0 THEN Append(stored, new.row) ELSE stored

\* An INSERT makes the file when it opens it, also if it is refused then.
Insert(s) ==
  /\ Count(s)
  /\ exists' = TRUE
  /\ Write(ToInsert(text, s))
  /\ UNCHANGED tears

\* The beginnings of what is to be written.
Cut(new) ==
  LET bytes == new.before \o WriteRow(new.row)
  IN IF new = FAILURE THEN {} ELSE { SubSeq(bytes, 1, n) : n \in 1..(Len(bytes) - 1) }

\* Only some of the bytes of an INSERT reach the file.
InsertTorn(s) ==
  /\ Count(s)
  /\ tears < MaxTears
  /\ tears' = tears + 1
  /\ exists' = TRUE
  /\ \E bytes \in Cut(ToInsert(text, s)) : text' = text \o bytes
  /\ UNCHANGED stored

-------------------------------------------------------------------------------
\* storage_delete

\* storage_row_matches_where
Matches(columns, row, where) ==
  where # AllRows => Compare(row[FindColumn(columns, where.column)], where.op, where.value)

Kept(columns, rows, where) == SelectSeq(rows, LAMBDA row : ~Matches(columns, row, where))

\* An unknown column is noticed at the first row.
DeleteAllowed(columns, rows, where) ==
  /\ rows # FAILURE
  /\ where # AllRows /\ rows # <<>> => FindColumn(columns, where.column) # 0

NewFile(columns, kept) == WriteRow(columns) \o WriteRows(kept)

Delete(where) ==
  LET columns == ReadHeader(text)
  IN /\ Count(where)
     /\ \/ /\ ~(exists /\ DeleteAllowed(columns, Load(text), where))
           /\ UNCHANGED <<text, stored>>
        \/ /\ exists
           /\ DeleteAllowed(columns, Load(text), where)
           /\ text' = NewFile(columns, Kept(columns, Values(Load(text)), where))
           /\ stored' = Kept(columns, stored, where)
     /\ UNCHANGED <<exists, tears>>

\* The beginnings of a file, and the rows that they hold whole.
Beginnings(columns, kept) ==
  LET size(k) == Len(NewFile(columns, SubSeq(kept, 1, k)))
      whole(n) == { k \in 0..Len(kept) : size(k) <= n }
  IN { [text |-> SubSeq(NewFile(columns, kept), 1, n),
        stored |-> SubSeq(kept, 1, Max(whole(n) \cup {0}))] : n \in 0..(size(Len(kept)) - 1) }

\* The disk fills while the new file is written, and it replaces the old one.
DeleteTorn(where) ==
  LET columns == ReadHeader(text)
  IN /\ Count(where)
     /\ tears < MaxTears
     /\ tears' = tears + 1
     /\ exists
     /\ DeleteAllowed(columns, Load(text), where)
     /\ \E new \in Beginnings(columns, Kept(columns, Values(Load(text)), where)) :
          text' = new.text /\ stored' = new.stored
     /\ UNCHANGED exists

\* Bound: no more statements.
Ended ==
  /\ \A s \in InsertStatement \cup DeleteStatement : weight + Weight(s) > MaxWeight
  /\ UNCHANGED vars

Next ==
  \/ \E s \in InsertStatement : Insert(s) \/ InsertTorn(s)
  \/ \E where \in DeleteStatement : Delete(where) \/ DeleteTorn(where)
  \/ Ended

Spec == Init /\ [][Next]_vars

-------------------------------------------------------------------------------
\* Properties

\* A row that every reader takes as one line.
FitsLine(row) == Len(WriteRow(row)) <= LineMax /\ \A i \in 1..Len(row) : ToSet(row[i]) \cap LineEnd = {}

(***************************************************************************)
(* Whatever characters its values have, a table is read back as the rows   *)
(* that were inserted and not deleted, in their order and unaltered, or    *)
(* not at all: the latter exactly when a value holds a line end or a row   *)
(* is longer than the line buffer.  Behind a write that was cut nothing is *)
(* certain, but the rows before it are unaltered (storage.c:168-271,       *)
(* 524-594, 644-757).                                                      *)
(***************************************************************************)
RowsReadBack ==
  LET asStored(rows) ==
        IF tears = 0
        THEN IF \A i \in 1..Len(stored) : FitsLine(stored[i])
             THEN rows # FAILURE /\ Values(rows) = stored
             ELSE rows = FAILURE
        ELSE rows # FAILURE => IsPrefix(stored, Values(rows))
  IN asStored(Load(text))

(***************************************************************************)
(* No statement drops rows of a table that cannot be read.  With an id     *)
(* column none appends to it either; without one, which takes a header     *)
(* that was cut, an INSERT does not read the rows before it appends its    *)
(* own (storage.c:319-374, 456-519, 834-838).                              *)
(***************************************************************************)
UnreadableKeepsItsRows ==
  [][Load(text) = FAILURE =>
       IF ReadHeader(text) = FAILURE \/ FindColumn(ReadHeader(text), Id) # 0
       THEN text' = text
       ELSE IsPrefix(text, text')]_vars

(***************************************************************************)
(* As long as no id is at the limit of the integers, the spellings of the  *)
(* ids of a table differ, whether the ids were given or counted            *)
(* (storage.c:319-374, 456-519).                                           *)
(***************************************************************************)
IdsDiffer ==
  LET ids(rows) ==
        [i \in 1..Len(rows) |-> rows[i].values[FindColumn(ReadHeader(text), Id)]]
      differ(s) ==
        (\A i \in 1..Len(s) : IsInteger(s[i]) => ParseInteger(s[i]) # MaxInteger) => IsInjective(s)
  IN tears = 0 /\ text # <<>> /\ Load(text) # FAILURE => differ(ids(Load(text)))

(***************************************************************************)
(* A query through an index, its rows read one by one at their offsets,    *)
(* finds the rows that a scan with the same condition finds, for every     *)
(* column, operator and literal, where two things hold: the comparison     *)
(* orders the values (numbers and other texts mixed are not ordered), and  *)
(* for equality no number has two spellings (index.c:102-171, 197-361,     *)
(* storage.c:1189-1248).                                                   *)
(***************************************************************************)
IndexAgreesWithScan ==
  LET found(offsets, width) == { ReadRowAt(text, o, width) : o \in ToSet(offsets) }
      agree(rows, c, index, values, value, width) ==
        index # FAILURE /\ Ordered(values) =>
          \A op \in IF SpeltAlike(values) THEN Operator ELSE Operator \ {"="} :
            found(Query(index, op, value), width)
              = { r.values : r \in { x \in ToSet(rows) : Compare(x.values[c], op, value) } }
      check(rows, width) ==
        rows # FAILURE =>
          \A c \in 1..width, value \in Literal :
            agree(rows, c, BuildIndex(rows, c),
                  { r.values[c] : r \in ToSet(rows) } \cup {value}, value, width)
  IN check(Load(text), Len(ReadHeader(text)))
===============================================================================
