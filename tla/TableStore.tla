------------------------------ MODULE TableStore ------------------------------
(***************************************************************************)
(* What the engine promises to its callers, with no locks and no memory:   *)
(* each statement takes effect at one instant between the moment a thread  *)
(* hands it to engine_execute_sql and the moment the call returns.         *)
(*                                                                         *)
(* A table is an append-only sequence of rows; the row at position i has   *)
(* id i.  The first INSERT fixes the schema.  An INSERT fails only for a   *)
(* reason its caller can name, and changes no row when it does; one that   *)
(* fails halfway through a split of the id index may leave the newest rows *)
(* out of later lookups by id.                                             *)
(***************************************************************************)
EXTENDS Statements, Sequences

CONSTANTS
  Thread,
  AllocMayFail,  \* whether malloc may return NULL
  SplitMayFail   \* whether bptree_insert may fail after it split a node

VARIABLES
  schema,   \* schema[k]: the shape of table k, NULL before its first INSERT
  rows,     \* rows[k]: the rows of table k in insertion order
  lost,     \* lost[k]: the ids of rows that a lookup by id does not find
  stmt,     \* stmt[t]: the statement thread t executes, NULL when none
  result    \* result[t]: its result, NULL until it took effect

storeVars == <<schema, rows, lost, stmt, result>>

Init ==
  /\ schema = [k \in Table |-> NULL]
  /\ rows   = [k \in Table |-> <<>>]
  /\ lost   = [k \in Table |-> {}]
  /\ stmt   = [t \in Thread |-> NULL]
  /\ result = [t \in Thread |-> NULL]

Pending(t, op) == stmt[t] # NULL /\ stmt[t].op = op /\ result[t] = NULL

Target(t) == Fold[stmt[t].name]

Begin(t) ==
  /\ stmt[t] = NULL
  /\ \E s \in Workload : stmt' = [stmt EXCEPT ![t] = s]
  /\ UNCHANGED <<schema, rows, lost, result>>

\* The first INSERT into a table gives it a schema; the row may still fail.
DefineSchema(t) ==
  /\ Pending(t, "insert")
  /\ schema[Target(t)] = NULL
  /\ stmt[t].shape \notin MentionsId \cup TooWide
  /\ schema' = [schema EXCEPT ![Target(t)] = stmt[t].shape]
  /\ UNCHANGED <<rows, lost, stmt, result>>

AppendRow(t) ==
  LET k == Target(t)
      r == [id |-> Len(rows[k]) + 1, val |-> stmt[t].val]
  IN /\ Pending(t, "insert")
     /\ schema[k] = stmt[t].shape
     /\ r.id \in Id
     /\ rows' = [rows EXCEPT ![k] = Append(@, r)]
     /\ result' = [result EXCEPT ![t] = Inserted]
     /\ UNCHANGED <<schema, lost, stmt>>

\* The reasons an INSERT may give for leaving the table as it was.
RefuseInsert(t) ==
  LET k == Target(t)
  IN /\ Pending(t, "insert")
     /\ \/ stmt[t].shape \in MentionsId
        \/ schema[k] = NULL /\ stmt[t].shape \in TooWide
        \/ schema[k] # NULL /\ stmt[t].shape # schema[k]
        \/ Len(rows[k]) = MaxId
        \/ AllocMayFail
     /\ result' = [result EXCEPT ![t] = Failed]
     /\ UNCHANGED <<schema, rows, lost, stmt>>

\* A split that fails halfway takes the ids after some key out of the index.
LoseIds(t) ==
  LET k == Target(t)
  IN /\ Pending(t, "insert")
     /\ SplitMayFail /\ AllocMayFail
     /\ \E cut \in Id :
          lost' = [lost EXCEPT ![k] = @ \cup {i \in Id : cut < i /\ i <= Len(rows[k])}]
     /\ result' = [result EXCEPT ![t] = Failed]
     /\ UNCHANGED <<schema, rows, stmt>>

\* A SELECT returns the matching rows of one instant; only a lookup by id
\* misses the rows lost to the index.
Query(t) ==
  LET k == Target(t)
      w == stmt[t].where
      R == { rows[k][i] : i \in 1..Len(rows[k]) }
      found == { r \in R : Matches(w, r) /\ (w.kind = "id" => r.id \notin lost[k]) }
  IN /\ Pending(t, "select")
     /\ \/ /\ schema[k] = NULL
           /\ result' = [result EXCEPT ![t] = NotFound]
        \/ /\ schema[k] # NULL
           /\ w.kind # "bad_projection"
           /\ w.kind = "unknown_column" => R = {}
           /\ result' = [result EXCEPT ![t] = Rows(found)]
        \/ /\ schema[k] # NULL
           /\ \/ w.kind = "bad_projection"
              \/ w.kind = "unknown_column" /\ R # {}
              \/ AllocMayFail
           /\ result' = [result EXCEPT ![t] = Failed]
     /\ UNCHANGED <<schema, rows, lost, stmt>>

RefuseDelete(t) ==
  /\ Pending(t, "delete")
  /\ result' = [result EXCEPT ![t] = Failed]
  /\ UNCHANGED <<schema, rows, lost, stmt>>

Return(t) ==
  /\ result[t] # NULL
  /\ stmt'   = [stmt EXCEPT ![t] = NULL]
  /\ result' = [result EXCEPT ![t] = NULL]
  /\ UNCHANGED <<schema, rows, lost>>

\* engine_shutdown: the tables live in memory only.
Forget ==
  /\ \A t \in Thread : stmt[t] = NULL
  /\ schema' = [k \in Table |-> NULL]
  /\ rows'   = [k \in Table |-> <<>>]
  /\ lost'   = [k \in Table |-> {}]
  /\ UNCHANGED <<stmt, result>>

Next ==
  \/ \E t \in Thread :
       \/ Begin(t) \/ DefineSchema(t) \/ AppendRow(t) \/ RefuseInsert(t)
       \/ LoseIds(t) \/ Query(t) \/ RefuseDelete(t) \/ Return(t)
  \/ Forget

Spec == Init /\ [][Next]_storeVars
===============================================================================
