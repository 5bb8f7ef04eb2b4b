------------------------------- MODULE Storage -------------------------------
(***************************************************************************)
(* storage.c: one table kept in data/<table>.csv by processes that share   *)
(* nothing but the file system and flock().                                *)
(*                                                                         *)
(* A file is its columns and its rows; an inode is a position of `file`,   *)
(* so a process keeps the inode it opened when rename() gives the path     *)
(* another.  A byte offset is the position of a row, what a call writes    *)
(* fits the stdio buffer and reaches the file in one write (CsvTable has   *)
(* it cut).  Nothing keeps two DELETEs that have locked two inodes from    *)
(* opening data/<table>.tmp at once: each writes from the start of the     *)
(* inode it has opened, whatever became of it and of that path.            *)
(***************************************************************************)
EXTENDS FileRows, SequencesExt

CONSTANTS
  Proc,
  Column,      \* the column a table has beside id
  ExplicitId,  \* the ids statements give
  AutoId, EmptyId,         \* no id column in an INSERT, an id of no characters
  AllRows, UnknownColumn,  \* no WHERE in a DELETE, a WHERE on no column
  MaxId,       \* LLONG_MAX, a small one
  SUCCESS, FAILURE,
  MaxCalls,    \* bound: calls
  MaxCrashes,  \* bound: processes killed in a call
  MaxFaults,   \* bound: failing fopen, flock and rename
  MaxFull,     \* bound: writes on a full disk
  NULL

\* The values of a long long.
LongLong == (-MaxId - 1)..MaxId

ASSUME StorageAssumption ==
  /\ MaxId \in Nat \ {0}
  /\ ExplicitId \subseteq LongLong
  /\ {"none", "blank", "torn"} \cap Column = {}
  /\ {NULL, AutoId, EmptyId, AllRows, UnknownColumn} \cap Int = {}
  /\ {MaxCalls, MaxCrashes, MaxFaults, MaxFull} \subseteq Nat

\* An INSERT names the column and gives an id, an empty one, or none.
InsertStatement ==
  [kind : {"insert"}, column : Column, id : ExplicitId \cup {AutoId, EmptyId}]

\* A DELETE has no WHERE, one that compares ids, or one on an unknown column.
DeleteStatement == [kind : {"delete"}, where : ExplicitId \cup {AllRows, UnknownColumn}]

\* storage_load_table, storage_select; storage_read_row_at_offset
Read == [kind : {"load"}] \cup [kind : {"read"}, position : 1..MaxCalls]

Empty == [columns |-> "none", rows |-> <<>>]

\* Pieces of lines: no reader takes them for a table.
Torn == [columns |-> "torn", rows |-> <<>>]

VARIABLES
  file,    \* file[i]: the columns and the rows of inode i
  path,    \* the inodes data/<table>.csv has named; the last is the table
  temp,    \* the inode of data/<table>.tmp, 0 when there is none
  call,    \* call[p]: the statement in progress
  at,      \* at[p]: where in it the process is
  fd,      \* fd[p]: the inode it has open, 0 when none
  draft,   \* draft[p]: the inode it opened as data/<table>.tmp, 0 when none
  lock,    \* lock[p]: the flock it holds on the inode fd[p]
  buffer,  \* buffer[p]: what stdio has not written yet
  result,  \* result[p]: what the call returns
  loaded,  \* loaded[p]: the inode and the rows of the last load
  calls, crashes, faults, full

\* A history variable: no step depends on it.
VARIABLE
  shared   \* the inodes two DELETEs may both write, or one and another rename

counters == <<calls, crashes, faults, full>>

files == <<file, path, temp, shared>>

vars == <<files, call, at, fd, draft, lock, buffer, result, loaded, counters>>

Init ==
  /\ file = <<>>
  /\ path = <<>>
  /\ temp = 0
  /\ shared = {}
  /\ call = [p \in Proc |-> NULL]
  /\ at = [p \in Proc |-> "idle"]
  /\ fd = [p \in Proc |-> 0]
  /\ draft = [p \in Proc |-> 0]
  /\ lock = [p \in Proc |-> "none"]
  /\ buffer = [p \in Proc |-> Empty]
  /\ result = [p \in Proc |-> NULL]
  /\ loaded = [p \in Proc |-> [inode |-> 0, rows |-> <<>>]]
  /\ calls = 0 /\ crashes = 0 /\ faults = 0 /\ full = 0

Kind(p) == call[p].kind

\* Between the fopen of data/<table>.tmp and its rename or removal.
Deleting(p) == at[p] \in {"flush", "giveup", "rename", "remove"} /\ Kind(p) = "delete"

\* The call returns: it drops the lock and closes the file first.
Finish(p, r) ==
  /\ at' = [at EXCEPT ![p] = "close"]
  /\ result' = [result EXCEPT ![p] = r]

Step(p, from, to) == at[p] = from /\ at' = [at EXCEPT ![p] = to]

Fault == faults < MaxFaults /\ faults' = faults + 1 /\ UNCHANGED <<calls, crashes, full>>

-------------------------------------------------------------------------------
Begin(p, s) ==
  /\ calls < MaxCalls
  /\ s.kind = "read" => s.position <= Len(loaded[p].rows)
  /\ Step(p, "idle", "open")
  /\ call' = [call EXCEPT ![p] = s]
  /\ calls' = calls + 1
  /\ UNCHANGED <<files, fd, draft, lock, buffer, result, loaded, crashes, faults, full>>

\* fopen "a+" creates the file when there is none.
OpenForInsert(p) ==
  /\ Step(p, "open", "lock")
  /\ Kind(p) = "insert"
  /\ \/ path # <<>> /\ UNCHANGED <<file, path>>
     \/ path = <<>> /\ file' = Append(file, Empty) /\ path' = <<Len(file')>>
  /\ fd' = [fd EXCEPT ![p] = Last(path')]
  /\ UNCHANGED <<temp, shared, call, draft, lock, buffer, result, loaded, counters>>

\* fopen "r" of a file that exists.
OpenForRead(p) ==
  /\ Step(p, "open", "lock")
  /\ Kind(p) # "insert"
  /\ path # <<>>
  /\ fd' = [fd EXCEPT ![p] = Last(path)]
  /\ UNCHANGED <<files, call, draft, lock, buffer, result, loaded, counters>>

\* fopen returns NULL: there is no such table, or the call itself fails.
OpenFails(p) ==
  /\ at[p] = "open"
  /\ \/ Kind(p) # "insert" /\ path = <<>> /\ UNCHANGED counters
     \/ Fault
  /\ Finish(p, FAILURE)
  /\ UNCHANGED <<files, call, fd, draft, lock, buffer, loaded>>

\* Mutant: an INSERT takes a shared lock, as it opens the file to append.
LockModeShared(p) == IF Kind(p) = "delete" THEN "exclusive" ELSE "shared"

\* Mutant: a DELETE takes a shared lock, as it opens the file to read.
LockModeOfFopen(p) == IF Kind(p) = "insert" THEN "exclusive" ELSE "shared"

LockMode(p) == IF Kind(p) \in {"insert", "delete"} THEN "exclusive" ELSE "shared"

\* storage_lock_file: flock on the inode that is open.
LockTable(p) ==
  /\ Step(p, "lock", "locked")
  /\ \A q \in Proc \ {p} :
       fd[q] = fd[p] /\ lock[q] # "none" => LockMode(p) = "shared" /\ lock[q] = "shared"
  /\ lock' = [lock EXCEPT ![p] = LockMode(p)]
  /\ UNCHANGED <<files, call, fd, draft, buffer, result, loaded, counters>>

LockFails(p) ==
  /\ at[p] = "lock"
  /\ Fault
  /\ Finish(p, FAILURE)
  /\ UNCHANGED <<files, call, fd, draft, lock, buffer, loaded>>

-------------------------------------------------------------------------------
\* storage_insert
\* Mutant: the id is the number of the row.
NextAutoIdCounts(rows) == Len(rows) + 1

\* storage_get_next_auto_id: one more than the largest id so far, row by row;
\* behind LLONG_MAX the sum wraps around (the build does not optimise).
NextAutoId(rows) ==
  LET next[i \in 0..Len(rows)] ==
        IF i = 0 THEN 1
        ELSE IF rows[i].id < next[i - 1] THEN next[i - 1]
        ELSE IF rows[i].id = MaxId THEN -MaxId - 1
        ELSE rows[i].id + 1
  IN next[Len(rows)]

\* The statement names the columns of the table, or makes it.
ColumnsMatch(s, f) == f.columns \in {"none", s.column}

\* storage_validate_primary_key; an automatic id needs no check.
ValidPrimaryKey(s, f) == s.id # EmptyId /\ s.id \notin Ids(f.rows)

Accepted(s, f) == ColumnsMatch(s, f) /\ ValidPrimaryKey(s, f)

NewRow(s, f) == [id |-> IF s.id = AutoId THEN NextAutoId(f.rows) ELSE s.id]

PrepareInsert(p) ==
  LET f == file[fd[p]]
      s == call[p]
  IN /\ at[p] = "locked"
     /\ Kind(p) = "insert"
     /\ \/ /\ Accepted(s, f)
           /\ buffer' = [buffer EXCEPT ![p] =
                [columns |-> IF f.columns = "none" THEN s.column ELSE "none",
                 rows |-> <<NewRow(s, f)>>]]
           /\ Step(p, "locked", "flush")
           /\ UNCHANGED result
        \/ /\ ~Accepted(s, f)
           /\ Finish(p, FAILURE)
           /\ UNCHANGED buffer
     /\ UNCHANGED <<files, call, fd, draft, lock, loaded, counters>>

\* Rows go behind a header, and a header to the start of a file.
Appended(f, b) ==
  IF f.columns \in {"blank", "torn"} \/ (b.columns = "none") = (f.columns = "none")
  THEN Torn
  ELSE [columns |-> IF b.columns = "none" THEN f.columns ELSE b.columns,
        rows |-> f.rows \o b.rows]

\* Mutant: the row is written over the first one, not at the end.
FlushInsertAtStart(p) ==
  /\ at[p] = "flush"
  /\ Kind(p) = "insert"
  /\ file' = [file EXCEPT ![fd[p]] =
       [columns |-> IF buffer[p].columns = "none" THEN @.columns ELSE buffer[p].columns,
        rows |-> buffer[p].rows \o SubSeq(@.rows, 2, Len(@.rows))]]
  /\ UNCHANGED full
  /\ Finish(p, SUCCESS)
  /\ UNCHANGED <<path, temp, shared, call, fd, draft, lock, buffer, loaded,
                 calls, crashes, faults>>

\* fflush appends the row; its failure goes unnoticed, and fclose, which
\* writes what is left, fails like it.
FlushInsert(p) ==
  /\ at[p] = "flush"
  /\ Kind(p) = "insert"
  /\ \/ /\ file' = [file EXCEPT ![fd[p]] = Appended(@, buffer[p])]
        /\ UNCHANGED full
     \/ /\ full < MaxFull
        /\ full' = full + 1
        /\ UNCHANGED file
  /\ Finish(p, SUCCESS)
  /\ UNCHANGED <<path, temp, shared, call, fd, draft, lock, buffer, loaded,
                 calls, crashes, faults>>

-------------------------------------------------------------------------------
\* storage_delete
Matching(rows, where) == { id \in Ids(rows) : where \in {AllRows, id} }

\* The table cannot be read, or data/<table>.tmp not opened.
DeleteFails(p) ==
  /\ at[p] = "locked"
  /\ Kind(p) = "delete"
  /\ \/ file[fd[p]] = Torn /\ UNCHANGED counters
     \/ Fault
  /\ Finish(p, FAILURE)
  /\ UNCHANGED <<files, call, fd, draft, lock, buffer, loaded>>

\* fopen "w" empties the inode data/<table>.tmp names, or makes one; the
\* rows go to the buffer.  An unknown column is noticed at the first row.
CreateTemp(p) ==
  LET f == file[fd[p]]
      inode == IF temp = 0 THEN Len(file) + 1 ELSE temp
      unknown == call[p].where = UnknownColumn /\ f.rows # <<>>
      others == { q \in Proc \ {p} : Deleting(q) }
  IN /\ at[p] = "locked"
     /\ Kind(p) = "delete"
     /\ f # Torn
     /\ Step(p, "locked", IF unknown THEN "giveup" ELSE "flush")
     /\ file' = IF temp = 0 THEN Append(file, Empty) ELSE [file EXCEPT ![temp] = Empty]
     /\ temp' = inode
     /\ draft' = [draft EXCEPT ![p] = inode]
     /\ shared' = IF others = {} THEN shared \ {inode}
                  ELSE shared \cup {inode} \cup { draft[q] : q \in others }
     /\ buffer' = [buffer EXCEPT ![p] =
          [columns |-> IF f.columns = "none" THEN "blank" ELSE f.columns,
           rows |-> IF unknown THEN <<>>
                    ELSE Without(f.rows, Matching(f.rows, call[p].where))]]
     /\ UNCHANGED <<path, call, fd, lock, result, loaded, counters>>

\* What may be left when `new` is written over `old` from the start: the
\* lengths of their lines decide which rows of `old` stick out and whether
\* the first of them is cut; a cut row is taken for one no reader accepts.
Overwritten(old, new) ==
  IF old = Empty THEN {new}
  ELSE {new, Torn} \cup
       { [new EXCEPT !.rows = @ \o SubSeq(old.rows, i, Len(old.rows))] :
           i \in IF new.columns = "blank" THEN {} ELSE 1..Len(old.rows) }

\* fclose, with or without the fflush before it: a failure goes unnoticed.
FlushTemp(p) ==
  /\ at[p] \in {"flush", "giveup"}
  /\ Kind(p) = "delete"
  /\ at' = [at EXCEPT ![p] = IF @ = "flush" THEN "rename" ELSE "remove"]
  /\ \/ /\ \E f \in Overwritten(file[draft[p]], buffer[p]) :
             file' = [file EXCEPT ![draft[p]] = f]
        /\ UNCHANGED full
     \/ /\ full < MaxFull
        /\ full' = full + 1
        /\ UNCHANGED file
  /\ UNCHANGED <<path, temp, shared, call, fd, draft, lock, buffer, result, loaded,
                 calls, crashes, faults>>

\* rename puts what data/<table>.tmp names now in the place of the table.
RenameTemp(p) ==
  /\ at[p] = "rename"
  /\ temp # 0
  /\ path' = Append(path, temp)
  /\ temp' = 0
  /\ Finish(p, SUCCESS)
  /\ UNCHANGED <<file, shared, call, fd, draft, lock, buffer, loaded, counters>>

\* There is no such file any more, or the call itself fails.
RenameFails(p) ==
  /\ Step(p, "rename", "remove")
  /\ \/ temp = 0 /\ UNCHANGED counters
     \/ Fault
  /\ UNCHANGED <<files, call, fd, draft, lock, buffer, result, loaded>>

\* remove, of what the path names now
RemoveTemp(p) ==
  /\ at[p] = "remove"
  /\ temp' = 0
  /\ Finish(p, FAILURE)
  /\ UNCHANGED <<file, path, shared, call, fd, draft, lock, buffer, loaded, counters>>

-------------------------------------------------------------------------------
\* storage_load_table_internal
LoadTable(p) ==
  /\ at[p] = "locked"
  /\ Kind(p) = "load"
  /\ \/ /\ file[fd[p]] # Torn
        /\ loaded' = [loaded EXCEPT ![p] = [inode |-> fd[p], rows |-> file[fd[p]].rows]]
        /\ Finish(p, SUCCESS)
     \/ /\ file[fd[p]] = Torn
        /\ UNCHANGED loaded
        /\ Finish(p, FAILURE)
  /\ UNCHANGED <<files, call, fd, draft, lock, buffer, counters>>

\* storage_read_row_at_offset
ReadRowAtOffset(p) ==
  LET rows == file[fd[p]].rows
      i == call[p].position
  IN /\ at[p] = "locked"
     /\ Kind(p) = "read"
     /\ Finish(p, IF i <= Len(rows) THEN rows[i] ELSE FAILURE)
     /\ UNCHANGED <<files, call, fd, draft, lock, buffer, loaded, counters>>

\* Everything a process holds is gone when a call ends, or with the process.
Leave(p) ==
  /\ at' = [at EXCEPT ![p] = "idle"]
  /\ call' = [call EXCEPT ![p] = NULL]
  /\ fd' = [fd EXCEPT ![p] = 0]
  /\ draft' = [draft EXCEPT ![p] = 0]
  /\ lock' = [lock EXCEPT ![p] = "none"]
  /\ buffer' = [buffer EXCEPT ![p] = Empty]
  /\ result' = [result EXCEPT ![p] = NULL]

Close(p) ==
  /\ at[p] = "close"
  /\ Leave(p)
  /\ UNCHANGED <<files, loaded, counters>>

\* The process is killed in the middle of a call and started again.
Crash(p) ==
  /\ at[p] # "idle"
  /\ crashes < MaxCrashes
  /\ crashes' = crashes + 1
  /\ Leave(p)
  /\ loaded' = [loaded EXCEPT ![p] = [inode |-> 0, rows |-> <<>>]]
  /\ UNCHANGED <<files, calls, faults, full>>

\* Bound: no more calls.
Ended ==
  /\ calls = MaxCalls
  /\ \A p \in Proc : at[p] = "idle"
  /\ UNCHANGED vars

Next ==
  \/ \E p \in Proc :
       \/ \E s \in InsertStatement \cup DeleteStatement \cup Read : Begin(p, s)
       \/ OpenForInsert(p) \/ OpenForRead(p) \/ OpenFails(p)
       \/ LockTable(p) \/ LockFails(p)
       \/ PrepareInsert(p) \/ FlushInsert(p)
       \/ DeleteFails(p) \/ CreateTemp(p) \/ FlushTemp(p)
       \/ RenameTemp(p) \/ RenameFails(p) \/ RemoveTemp(p)
       \/ LoadTable(p) \/ ReadRowAtOffset(p)
       \/ Close(p)
       \/ Crash(p)
  \/ Ended

Spec == Init /\ [][Next]_vars

-------------------------------------------------------------------------------
\* Properties

(***************************************************************************)
(* However processes interleave, are killed or meet failing calls, every   *)
(* version of the table that no two DELETEs wrote at once is at every      *)
(* instant the result of whole INSERTs, each with a new id as long as      *)
(* LLONG_MAX is not taken, and of one whole DELETE in an older version;    *)
(* only a full disk can make it lose other rows.  The older version need   *)
(* not be the last: a DELETE that waited for another one starts from the   *)
(* rows the other one deleted.  Two DELETEs that have data/<table>.tmp     *)
(* open at once can put anything in the place of the table, and change it  *)
(* when it is there, but they change no other version                      *)
(* (storage.c:797-1119).                                                   *)
(***************************************************************************)
Versions == [k \in 1..Len(path) |-> file[path[k]]]

Collided == { k \in 1..Len(path) : path[k] \in shared }

History ==
  INSTANCE TableFile WITH versions <- Versions, collided <- Collided, BlankHeader <- "blank"

FileHistory == History!Spec

(***************************************************************************)
(* A row read at an offset is the row that was loaded from there, as long  *)
(* as no DELETE has replaced the file in between and no two DELETEs write  *)
(* it; rows appended since do not move it (storage.c:1189-1248, index.c).  *)
(***************************************************************************)
OffsetsFindTheirRows ==
  \A p \in Proc :
    /\ at[p] = "close" /\ Kind(p) = "read" /\ lock[p] # "none"
    /\ fd[p] = loaded[p].inode /\ fd[p] \notin shared
    => result[p] = loaded[p].rows[call[p].position]

(***************************************************************************)
(* storage.h:15-16: storage_insert adds one row to the table's CSV file    *)
(* and returns SUCCESS when it did.                                        *)
(***************************************************************************)
InsertedRowIsStored ==
  \A p \in Proc :
    at[p] = "close" /\ Kind(p) = "insert" /\ result[p] = SUCCESS =>
      ToSet(buffer[p].rows) \subseteq ToSet(file[Last(path)].rows)

(***************************************************************************)
(* Two DELETEs between fopen and rename of data/<table>.tmp have started   *)
(* from two versions of the table: on one version the lock keeps them      *)
(* apart, so they meet only after a third one has replaced the file a      *)
(* DELETE had opened (storage.c:823-895).                                  *)
(***************************************************************************)
DeletesMeetAcrossVersions ==
  \A p, q \in Proc : p # q /\ Deleting(p) /\ Deleting(q) => fd[p] # fd[q]
===============================================================================
