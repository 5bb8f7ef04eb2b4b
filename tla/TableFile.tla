------------------------------ MODULE TableFile ------------------------------
(***************************************************************************)
(* What storage.c keeps of data/<table>.csv while several processes        *)
(* insert, delete, read and crash: the file is created, grows by one row   *)
(* with a new id, or loses the rows of a DELETE, at one instant each.      *)
(*                                                                         *)
(* A DELETE makes a new version of the table and puts it in the place of   *)
(* the old one.  The old one lives on as long as somebody has it open, and *)
(* a statement may still work on it.  Two DELETEs that meet at the         *)
(* temporary file make a version of which nothing is known.                *)
(***************************************************************************)
EXTENDS FileRows, SequencesExt

CONSTANTS Empty, BlankHeader, MaxId

VARIABLES
  versions,  \* the files that data/<table>.csv has named, in this order
  collided,  \* the versions that two DELETEs wrote at once
  full       \* the writes that a full disk has swallowed

Version == 1..Len(versions)

Init ==
  /\ versions = <<>>
  /\ collided = {}
  /\ full = 0

\* A new version takes the place of the current one.
Replace(table) ==
  /\ versions' = Append(versions, table)
  /\ UNCHANGED <<collided, full>>

Create ==
  /\ versions = <<>>
  /\ Replace(Empty)

\* The first row brings the columns with it; behind LLONG_MAX ids start over.
InsertRow(v) ==
  LET old == versions[v]
      new == versions'[v]
  IN /\ new.columns # BlankHeader
     /\ old = Empty \/ new.columns = old.columns
     /\ Len(new.rows) = Len(old.rows) + 1
     /\ Front(new.rows) = old.rows
     /\ Last(new.rows).id \notin Ids(old.rows) \/ MaxId \in Ids(old.rows)
     /\ versions' = [versions EXCEPT ![v] = new]
     /\ UNCHANGED <<collided, full>>

\* A DELETE on a file without a header writes an empty one.
DeleteRows(v) ==
  \E gone \in SUBSET Ids(versions[v].rows) :
    Replace([columns |-> IF versions[v] = Empty THEN BlankHeader ELSE versions[v].columns,
             rows |-> Without(versions[v].rows, gone)])

\* The disk fills: nothing is written; if it was a DELETE that wrote, the
\* file it replaces the table with is empty.
DiskFills ==
  /\ full' = full + 1
  /\ UNCHANGED <<versions, collided>>

LoseTable ==
  /\ full > 0
  /\ versions # <<>>
  /\ Replace(Empty)

AnyTable == versions' # <<>> /\ Front(versions') = versions

\* Two DELETEs, of two versions, wrote the new one, and may go on to.
Collide ==
  /\ Len(versions) >= 2
  /\ AnyTable
  /\ collided' = collided \cup {Len(versions')}
  /\ UNCHANGED full

Overwrite(v) ==
  /\ versions' = [versions EXCEPT ![v] = versions'[v]]
  /\ UNCHANGED <<collided, full>>

\* The rows a DELETE read from such a version before it was written again.
DeleteOverwritten ==
  /\ collided # {}
  /\ AnyTable
  /\ UNCHANGED <<collided, full>>

Next ==
  \/ Create
  \/ \E v \in Version : InsertRow(v) \/ DeleteRows(v)
  \/ DiskFills \/ LoseTable
  \/ Collide \/ DeleteOverwritten
  \/ \E v \in collided : Overwrite(v)

Spec == Init /\ [][Next]_<<versions, collided, full>>
===============================================================================
