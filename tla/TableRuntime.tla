----------------------------- MODULE TableRuntime -----------------------------
(***************************************************************************)
(* executor.c over table_runtime.c: the threads that execute statements    *)
(* against the in-memory tables.                                           *)
(*                                                                         *)
(* The registry is a list of entries guarded by one mutex; an entry is     *)
(* identified here by the spelling it was created with.  Each entry has a  *)
(* readers-writer lock, taken after the registry mutex is released, and a  *)
(* table: row slots, a row count, the next id and the id index.  Every     *)
(* step below is one critical section or one update of a shared field, so  *)
(* threads interleave between them.                                        *)
(***************************************************************************)
EXTENDS Statements, Sequences, FiniteSets

CONSTANTS
  Thread,
  InitialCapacity,  \* INITIAL_ROW_CAPACITY
  AllocMayFail,     \* whether malloc may return NULL
  SplitMayFail      \* whether bptree_insert may fail after it split a node

ASSUME TableRuntimeAssumption ==
  /\ InitialCapacity \in Nat \ {0}
  /\ AllocMayFail \in BOOLEAN
  /\ SplitMayFail \in BOOLEAN
  /\ NULL \notin Thread

VARIABLES
  phase,     \* serving, stopping (threads are joined), detached, stopped
  registry,  \* the entries on the registry list
  heap,      \* the entries whose memory is allocated
  regLock,   \* the owner of table_runtime_registry_lock
  writer,    \* writer[e]: the thread holding e's rwlock for writing
  readers,   \* readers[e]: the threads holding it for reading
  schema,    \* columns, kinds and loaded: NULL until loaded is 1
  capacity,
  slots,     \* slots[e][i]: rows[i]
  rowCount,
  nextId,
  index,     \* index[e][id]: the row slot bptree_search finds, or NULL
  pc,
  stmt,      \* the statement a thread executes
  entry,     \* handle.entry
  hits,      \* row_indices collected by a SELECT
  result     \* the QueryResult under construction, NULL until decided

tableVars  == <<schema, capacity, slots, rowCount, nextId, index>>
lockVars   == <<regLock, writer, readers>>
threadVars == <<pc, stmt, entry, hits, result>>
vars == <<phase, registry, heap, lockVars, tableVars, threadVars>>

Slot == 0..(MaxId - 1)

\* Where a thread stands: the steps under the write lock, under the read
\* lock, and all of them.
WriteSteps == {"schema", "reserve", "store", "index", "commit"}
ReadSteps  == {"loaded", "collect", "copy"}
Steps == {"idle", "dispatch", "registry", "find", "create", "lock",
          "release", "return"} \cup WriteSteps \cup ReadSteps

TypeOK ==
  /\ phase \in {"serving", "stopping", "detached", "stopped"}
  /\ registry \subseteq heap
  /\ heap \subseteq TableName
  /\ regLock \in Thread \cup {NULL}
  /\ writer  \in [TableName -> Thread \cup {NULL}]
  /\ readers \in [TableName -> SUBSET Thread]
  /\ schema   \in [TableName -> Shape \cup {NULL}]
  /\ capacity \in [TableName -> Nat]
  /\ slots    \in [TableName -> [Slot -> Row \cup {NULL}]]
  /\ rowCount \in [TableName -> 0..MaxId]
  /\ nextId   \in [TableName -> 1..(MaxId + 1)]
  /\ index    \in [TableName -> [Id -> Slot \cup {NULL}]]
  /\ pc     \in [Thread -> Steps]
  /\ stmt   \in [Thread -> Workload \cup {NULL}]
  /\ entry  \in [Thread -> TableName \cup {NULL}]
  /\ hits   \in [Thread -> SUBSET Slot]
  /\ result \in [Thread -> QueryResult \cup {NULL}]

Init ==
  /\ phase = "serving"
  /\ registry = {}
  /\ heap = {}
  /\ regLock = NULL
  /\ writer   = [e \in TableName |-> NULL]
  /\ readers  = [e \in TableName |-> {}]
  /\ schema   = [e \in TableName |-> NULL]
  /\ capacity = [e \in TableName |-> 0]
  /\ slots    = [e \in TableName |-> [i \in Slot |-> NULL]]
  /\ rowCount = [e \in TableName |-> 0]
  /\ nextId   = [e \in TableName |-> 1]
  /\ index    = [e \in TableName |-> [i \in Id |-> NULL]]
  /\ pc     = [t \in Thread |-> "idle"]
  /\ stmt   = [t \in Thread |-> NULL]
  /\ entry  = [t \in Thread |-> NULL]
  /\ hits   = [t \in Thread |-> {}]
  /\ result = [t \in Thread |-> NULL]

-------------------------------------------------------------------------------
Goto(t, step) == pc' = [pc EXCEPT ![t] = step]

\* The outcome of thread t's statement is r; step finishes the call.
Decide(t, step, r) ==
  /\ Goto(t, step)
  /\ result' = [result EXCEPT ![t] = r]

IsInsert(t) == stmt[t].op = "insert"

\* table_runtime_find_entry_locked
Entries(name) == { e \in registry : Fold[e] = Fold[name] }

-------------------------------------------------------------------------------
\* A worker, or the file and REPL modes, enters engine_execute_sql.
Begin(t) ==
  /\ pc[t] = "idle"
  /\ phase = "serving"
  /\ Goto(t, "dispatch")
  /\ \E s \in Workload : stmt' = [stmt EXCEPT ![t] = s]
  /\ UNCHANGED <<phase, registry, heap, lockVars, tableVars, entry, hits, result>>

\* executor_execute: DELETE and an INSERT of an explicit id touch no table.
Dispatch(t) ==
  /\ pc[t] = "dispatch"
  /\ LET refused == \/ stmt[t].op = "delete"
                    \/ IsInsert(t) /\ stmt[t].shape \in MentionsId
     IN \/ refused /\ Decide(t, "return", Failed)
        \/ ~refused /\ Goto(t, "registry") /\ UNCHANGED result
  /\ UNCHANGED <<phase, registry, heap, lockVars, tableVars, stmt, entry, hits>>

\* Mutant: the lookup does not take the registry mutex.
LockRegistryFreely(t) ==
  /\ pc[t] = "registry"
  /\ Goto(t, "find")
  /\ regLock' = t
  /\ UNCHANGED <<phase, registry, heap, writer, readers, tableVars,
                 stmt, entry, hits, result>>

LockRegistry(t) ==
  /\ pc[t] = "registry"
  /\ Goto(t, "find")
  /\ regLock = NULL
  /\ regLock' = t
  /\ UNCHANGED <<phase, registry, heap, writer, readers, tableVars,
                 stmt, entry, hits, result>>

\* Mutant: a SELECT of a missing table creates it.
FindEntryCreating(t) ==
  /\ pc[t] = "find"
  /\ \/ \E e \in Entries(stmt[t].name) :
          /\ Goto(t, "lock")
          /\ entry' = [entry EXCEPT ![t] = e]
          /\ regLock' = NULL
     \/ /\ Entries(stmt[t].name) = {}
        /\ Goto(t, "create")
        /\ UNCHANGED <<regLock, entry>>
  /\ UNCHANGED <<phase, registry, heap, writer, readers, tableVars, stmt, hits, result>>

\* Mutant: a reader waits for a missing table to appear.
FindEntryRetrying(t) ==
  /\ pc[t] = "find"
  /\ \/ \E e \in Entries(stmt[t].name) :
          /\ Goto(t, "lock")
          /\ entry' = [entry EXCEPT ![t] = e]
     \/ /\ Entries(stmt[t].name) = {}
        /\ Goto(t, IF IsInsert(t) THEN "create" ELSE "registry")
        /\ UNCHANGED entry
  /\ regLock' = IF pc'[t] = "create" THEN t ELSE NULL
  /\ UNCHANGED <<phase, registry, heap, writer, readers, tableVars, stmt, hits, result>>

\* The lookup under the registry mutex; only a writer goes on to create.
FindEntry(t) ==
  /\ pc[t] = "find"
  /\ \/ \E e \in Entries(stmt[t].name) :
          /\ Goto(t, "lock")
          /\ entry' = [entry EXCEPT ![t] = e]
          /\ regLock' = NULL
          /\ UNCHANGED result
     \/ /\ Entries(stmt[t].name) = {}
        /\ ~IsInsert(t)
        /\ Decide(t, "return", NotFound)
        /\ regLock' = NULL
        /\ UNCHANGED entry
     \/ /\ Entries(stmt[t].name) = {}
        /\ IsInsert(t)
        /\ Goto(t, "create")
        /\ UNCHANGED <<regLock, entry, result>>
  /\ UNCHANGED <<phase, registry, heap, writer, readers, tableVars, stmt, hits>>

\* table_runtime_create_entry, then the registry mutex is released.
CreateEntry(t) ==
  LET e == stmt[t].name
  IN /\ pc[t] = "create"
     /\ \/ /\ Goto(t, "lock")
           /\ registry' = registry \cup {e}
           /\ heap' = heap \cup {e}
           /\ entry' = [entry EXCEPT ![t] = e]
           /\ UNCHANGED result
        \/ /\ AllocMayFail
           /\ Decide(t, "return", Failed)
           /\ UNCHANGED <<registry, heap, entry>>
     /\ regLock' = NULL
     /\ UNCHANGED <<phase, writer, readers, tableVars, stmt, hits>>

\* pthread_rwlock_wrlock
AcquireWrite(t) ==
  LET e == entry[t]
  IN /\ pc[t] = "lock"
     /\ Goto(t, "schema")
     /\ IsInsert(t)
     /\ writer[e] = NULL
     /\ readers[e] = {}
     /\ writer' = [writer EXCEPT ![e] = t]
     /\ UNCHANGED <<phase, registry, heap, regLock, readers, tableVars,
                    stmt, entry, hits, result>>

\* Mutant: readers do not wait for the writer.
AcquireReadUnlocked(t) ==
  LET e == entry[t]
  IN /\ pc[t] = "lock"
     /\ Goto(t, "loaded")
     /\ ~IsInsert(t)
     /\ readers' = [readers EXCEPT ![e] = @ \cup {t}]
     /\ UNCHANGED <<phase, registry, heap, regLock, writer, tableVars,
                    stmt, entry, hits, result>>

\* pthread_rwlock_rdlock: the default lock admits readers before a waiting writer.
AcquireRead(t) ==
  LET e == entry[t]
  IN /\ pc[t] = "lock"
     /\ Goto(t, "loaded")
     /\ ~IsInsert(t)
     /\ writer[e] = NULL
     /\ readers' = [readers EXCEPT ![e] = @ \cup {t}]
     /\ UNCHANGED <<phase, registry, heap, regLock, writer, tableVars,
                    stmt, entry, hits, result>>

-------------------------------------------------------------------------------
\* table_insert_row, under the write lock

\* table_validate_insert_schema on a loaded table, table_initialize_schema
\* on a fresh one.
CheckSchema(t) ==
  LET e == entry[t]
      s == stmt[t].shape
  IN /\ pc[t] = "schema"
     /\ \/ /\ schema[e] = NULL
           /\ s \notin TooWide
           /\ schema' = [schema EXCEPT ![e] = s]
           /\ Goto(t, "reserve")
           /\ UNCHANGED result
        \/ /\ schema[e] = s
           /\ Goto(t, "reserve")
           /\ UNCHANGED <<schema, result>>
        \/ /\ \/ schema[e] = NULL /\ s \in TooWide
              \/ schema[e] # NULL /\ schema[e] # s
           /\ Decide(t, "release", Failed)
           /\ UNCHANGED schema
     /\ UNCHANGED <<phase, registry, heap, lockVars, capacity, slots, rowCount,
                    nextId, index, stmt, entry, hits>>

\* Mutant: the array is taken to have room for one row more.
ReserveLate(t) ==
  LET e == entry[t]
  IN /\ pc[t] = "reserve"
     /\ \/ /\ rowCount[e] <= capacity[e]
           /\ UNCHANGED capacity
        \/ /\ rowCount[e] > capacity[e]
           /\ capacity' = [capacity EXCEPT ![e] =
                             IF @ = 0 THEN InitialCapacity ELSE 2 * @]
     /\ Goto(t, "store")
     /\ UNCHANGED <<phase, registry, heap, lockVars, schema, slots, rowCount,
                    nextId, index, stmt, entry, hits, result>>

\* table_reserve_if_needed
Reserve(t) ==
  LET e == entry[t]
  IN /\ pc[t] = "reserve"
     /\ \/ /\ rowCount[e] < capacity[e]
           /\ Goto(t, "store")
           /\ UNCHANGED <<capacity, result>>
        \/ /\ rowCount[e] >= capacity[e]
           /\ capacity' = [capacity EXCEPT ![e] =
                             IF @ = 0 THEN InitialCapacity ELSE 2 * @]
           /\ Goto(t, "store")
           /\ UNCHANGED result
        \/ /\ rowCount[e] >= capacity[e]
           /\ AllocMayFail
           /\ Decide(t, "release", Failed)
           /\ UNCHANGED capacity
     /\ UNCHANGED <<phase, registry, heap, lockVars, schema, slots, rowCount,
                    nextId, index, stmt, entry, hits>>

\* table_build_row, the check of next_id against INT_MAX, rows[row_index] = row
StoreRow(t) ==
  LET e == entry[t]
  IN /\ pc[t] = "store"
     /\ \/ /\ nextId[e] <= MaxId
           /\ slots' = [slots EXCEPT ![e][rowCount[e]] =
                          [id |-> nextId[e], val |-> stmt[t].val]]
           /\ Goto(t, "index")
           /\ UNCHANGED result
        \/ /\ nextId[e] > MaxId \/ AllocMayFail
           /\ Decide(t, "release", Failed)
           /\ UNCHANGED slots
     /\ UNCHANGED <<phase, registry, heap, lockVars, schema, capacity, rowCount,
                    nextId, index, stmt, entry, hits>>

\* Mutant: a split that fails leaves no root behind.
IndexAfterFailureEmpty(ix) ==
  {ix} \cup { [i \in Id |-> NULL] : cut \in IF SplitMayFail THEN Id ELSE {} }

\* What the search still finds when bptree_insert fails: everything, or only
\* the keys left of the split that never reached its parent.
IndexAfterFailure(ix) ==
  {ix} \cup { [i \in Id |-> IF i <= cut THEN ix[i] ELSE NULL] :
              cut \in IF SplitMayFail THEN Id ELSE {} }

\* Mutant: a failed insert clears the slot before its own.
IndexRowClearing(t) ==
  LET e == entry[t]
      key == nextId[e]
  IN /\ pc[t] = "index"
     /\ \/ /\ index' = [index EXCEPT ![e][key] = rowCount[e]]
           /\ Goto(t, "commit")
           /\ UNCHANGED <<slots, result>>
        \/ /\ AllocMayFail
           /\ slots' = [slots EXCEPT ![e][rowCount[e] - 1] = NULL]
           /\ Decide(t, "release", Failed)
           /\ UNCHANGED index
     /\ UNCHANGED <<phase, registry, heap, lockVars, schema, capacity, rowCount,
                    nextId, stmt, entry, hits>>

\* bptree_insert of next_id; on failure the row is freed and its slot cleared.
IndexRow(t) ==
  LET e == entry[t]
      key == nextId[e]
  IN /\ pc[t] = "index"
     /\ \/ /\ index[e][key] = NULL
           /\ index' = [index EXCEPT ![e][key] = rowCount[e]]
           /\ Goto(t, "commit")
           /\ UNCHANGED <<slots, result>>
        \/ /\ index[e][key] # NULL \/ AllocMayFail
           /\ \E ix \in IndexAfterFailure(index[e]) : index' = [index EXCEPT ![e] = ix]
           /\ slots' = [slots EXCEPT ![e][rowCount[e]] = NULL]
           /\ Decide(t, "release", Failed)
     /\ UNCHANGED <<phase, registry, heap, lockVars, schema, capacity, rowCount,
                    nextId, stmt, entry, hits>>

CommitRow(t) ==
  LET e == entry[t]
  IN /\ pc[t] = "commit"
     /\ rowCount' = [rowCount EXCEPT ![e] = @ + 1]
     /\ nextId' = [nextId EXCEPT ![e] = @ + 1]
     /\ Decide(t, "release", Inserted)
     /\ UNCHANGED <<phase, registry, heap, lockVars, schema, capacity, slots,
                    index, stmt, entry, hits>>

-------------------------------------------------------------------------------
\* executor_execute_select, under the read lock

\* An entry registered by an INSERT that has not loaded a schema is no table.
\* executor_prepare_projection follows.
CheckLoaded(t) ==
  LET e == entry[t]
  IN /\ pc[t] = "loaded"
     /\ \/ /\ schema[e] = NULL
           /\ Decide(t, "release", NotFound)
        \/ /\ schema[e] # NULL
           /\ stmt[t].where.kind = "bad_projection"
           /\ Decide(t, "release", Failed)
        \/ /\ schema[e] # NULL
           /\ stmt[t].where.kind # "bad_projection"
           /\ Goto(t, "collect")
           /\ UNCHANGED result
     /\ UNCHANGED <<phase, registry, heap, lockVars, tableVars, stmt, entry, hits>>

\* The slots a statement selects: by bptree_search when the clause is an
\* equality on id and the index has a root, by table_linear_scan otherwise.
IndexLookup(e, id) ==
  IF id \in Id /\ index[e][id] # NULL THEN {index[e][id]} ELSE {}

\* Mutant: the scan stops one row early.
LinearScanShort(e, w) ==
  { i \in Slot : i + 1 < rowCount[e] /\ slots[e][i] # NULL /\ Matches(w, slots[e][i]) }

LinearScan(e, w) ==
  { i \in Slot : i < rowCount[e] /\ slots[e][i] # NULL /\ Matches(w, slots[e][i]) }

UsesIndex(e, w) == w.kind = "id" /\ \E i \in Id : index[e][i] # NULL

Collect(t) ==
  LET e == entry[t]
      w == stmt[t].where
  IN /\ pc[t] = "collect"
     /\ \/ /\ w.kind = "unknown_column" => rowCount[e] = 0
           /\ hits' = [hits EXCEPT ![t] = IF UsesIndex(e, w) THEN IndexLookup(e, w.id)
                                          ELSE LinearScan(e, w)]
           /\ Goto(t, "copy")
           /\ UNCHANGED result
        \/ /\ \/ w.kind = "unknown_column" /\ rowCount[e] > 0
              \/ AllocMayFail
           /\ Decide(t, "release", Failed)
           /\ UNCHANGED hits
     /\ UNCHANGED <<phase, registry, heap, lockVars, tableVars, stmt, entry>>

\* executor_collect_rows_by_indices: table_get_row_by_slot refuses a slot
\* beyond row_count and hands back a cleared one as NULL.
CopyRows(t) ==
  LET e == entry[t]
      readable == \A i \in hits[t] : i < rowCount[e] /\ slots[e][i] # NULL
  IN /\ pc[t] = "copy"
     /\ \/ /\ readable
           /\ Decide(t, "release", Rows({ slots[e][i] : i \in hits[t] }))
        \/ /\ ~readable \/ AllocMayFail
           /\ Decide(t, "release", Failed)
     /\ hits' = [hits EXCEPT ![t] = {}]
     /\ UNCHANGED <<phase, registry, heap, lockVars, tableVars, stmt, entry>>

-------------------------------------------------------------------------------
\* table_runtime_release
Release(t) ==
  LET e == entry[t]
  IN /\ pc[t] = "release"
     /\ Goto(t, "return")
     /\ IF IsInsert(t)
          THEN writer' = [writer EXCEPT ![e] = NULL] /\ UNCHANGED readers
          ELSE readers' = [readers EXCEPT ![e] = @ \ {t}] /\ UNCHANGED writer
     /\ entry' = [entry EXCEPT ![t] = NULL]
     /\ UNCHANGED <<phase, registry, heap, regLock, tableVars, stmt, hits, result>>

\* engine_execute_sql returns the result to its caller.
Return(t) ==
  /\ pc[t] = "return"
  /\ Goto(t, "idle")
  /\ stmt' = [stmt EXCEPT ![t] = NULL]
  /\ result' = [result EXCEPT ![t] = NULL]
  /\ UNCHANGED <<phase, registry, heap, lockVars, tableVars, entry, hits>>

Step(t) ==
  \/ Dispatch(t) \/ LockRegistry(t) \/ FindEntry(t) \/ CreateEntry(t)
  \/ AcquireWrite(t) \/ AcquireRead(t)
  \/ CheckSchema(t) \/ Reserve(t) \/ StoreRow(t) \/ IndexRow(t) \/ CommitRow(t)
  \/ CheckLoaded(t) \/ Collect(t) \/ CopyRows(t)
  \/ Release(t) \/ Return(t)

-------------------------------------------------------------------------------
\* The shutdown of server_run and main: no new statement starts, the threads
\* are joined, then engine_shutdown detaches the registry list and frees it.
Stop ==
  /\ phase = "serving"
  /\ phase' = "stopping"
  /\ UNCHANGED <<registry, heap, lockVars, tableVars, threadVars>>

DetachRegistry ==
  /\ phase = "stopping"
  /\ \A t \in Thread : pc[t] = "idle"
  /\ regLock = NULL
  /\ phase' = "detached"
  /\ registry' = {}
  /\ UNCHANGED <<heap, lockVars, tableVars, threadVars>>

\* table_runtime_destroy_entry
DestroyEntry(e) ==
  /\ phase = "detached"
  /\ e \in heap
  /\ heap' = heap \ {e}
  /\ schema'   = [schema EXCEPT ![e] = NULL]
  /\ capacity' = [capacity EXCEPT ![e] = 0]
  /\ slots'    = [slots EXCEPT ![e] = [i \in Slot |-> NULL]]
  /\ rowCount' = [rowCount EXCEPT ![e] = 0]
  /\ nextId'   = [nextId EXCEPT ![e] = 1]
  /\ index'    = [index EXCEPT ![e] = [i \in Id |-> NULL]]
  /\ UNCHANGED <<phase, registry, lockVars, threadVars>>

CleanupDone ==
  /\ phase = "detached"
  /\ heap = {}
  /\ phase' = "stopped"
  /\ UNCHANGED <<registry, heap, lockVars, tableVars, threadVars>>

\* The process has ended.
Ended == phase = "stopped" /\ UNCHANGED vars

Next ==
  \/ \E t \in Thread : Begin(t) \/ Step(t)
  \/ Stop
  \/ DetachRegistry
  \/ \E e \in TableName : DestroyEntry(e)
  \/ CleanupDone
  \/ Ended

Spec == Init /\ [][Next]_vars

\* A thread that can run does, and a lock that stays free is obtained; nothing
\* obliges a client to send a statement or an operator to stop the process.
FairSpec ==
  /\ Spec
  /\ \A t \in Thread : WF_vars(Step(t))
  /\ WF_vars(DetachRegistry)
  /\ \A e \in TableName : WF_vars(DestroyEntry(e))
  /\ WF_vars(CleanupDone)

-------------------------------------------------------------------------------
\* Properties

(***************************************************************************)
(* Two INSERTs racing to create a table end up in one entry, however they  *)
(* spell its name: find and create share one critical section of the       *)
(* registry mutex (table_runtime.c:378-385).                               *)
(***************************************************************************)
OneEntryPerTable ==
  \A e, f \in registry : Fold[e] = Fold[f] => e = f

\* A table between two inserts: count, next id, rows and index agree.
RowsWhole(e) ==
  /\ nextId[e] = rowCount[e] + 1
  /\ \A i \in Slot :
       IF i < rowCount[e] THEN slots[e][i] # NULL /\ slots[e][i].id = i + 1
                          ELSE slots[e][i] = NULL

\* A failed split may take keys out of the index, never the first, and never
\* adds or misplaces one.
IndexWhole(e) ==
  \A i \in Id :
    IF i <= rowCount[e]
      THEN index[e][i] = i - 1 \/ (SplitMayFail /\ i > 1 /\ index[e][i] = NULL)
      ELSE index[e][i] = NULL

(***************************************************************************)
(* No SELECT ever looks at a half-inserted row: while a thread holds the   *)
(* read lock the rows, the count and the next id agree, and the index      *)
(* leads to committed rows only, each at its slot, and to all of them but  *)
(* those a failed split lost (executor.c:383-411 against the updates of    *)
(* table_runtime.c:473-483, bptree.c:239).                                 *)
(***************************************************************************)
ReadersSeeWholeTable ==
  \A t \in Thread : pc[t] \in ReadSteps =>
    RowsWhole(entry[t]) /\ IndexWhole(entry[t])

(***************************************************************************)
(* The row is stored inside the array table_reserve_if_needed allocated,   *)
(* at every doubling and after every failed insert.                        *)
(***************************************************************************)
StoreWithinCapacity ==
  \A t \in Thread : pc[t] = "store" => rowCount[entry[t]] < capacity[entry[t]]

(***************************************************************************)
(* table_runtime_cleanup frees entries outside any lock: no thread may     *)
(* hold, wait for or look up an entry by then (table_runtime.c:561-579,    *)
(* main.c:367 after the joins of server.c:1049-1051).                      *)
(***************************************************************************)
NoUseAfterFree ==
  /\ \A t \in Thread : entry[t] # NULL => entry[t] \in heap
  /\ \A e \in TableName : e \notin heap => writer[e] = NULL /\ readers[e] = {}

(***************************************************************************)
(* A committed row is never changed, moved or taken back while the process *)
(* serves, whatever later inserts do or fail to do.                        *)
(***************************************************************************)
CommittedRowsStable ==
  [][\A e \in heap \cap heap' :
       /\ rowCount'[e] >= rowCount[e]
       /\ \A i \in Slot : i < rowCount[e] => slots'[e][i] = slots[e][i]]_vars

(***************************************************************************)
(* A flood of reads of missing tables does not grow the registry: only a   *)
(* thread executing an INSERT adds an entry, for the table it names        *)
(* (table_runtime.h:31-39).                                                *)
(***************************************************************************)
OnlyInsertsGrowRegistry ==
  [][\A e \in registry' \ registry :
       \E t \in Thread : regLock = t /\ IsInsert(t) /\ Fold[stmt[t].name] = Fold[e]]_vars

(***************************************************************************)
(* Once the server stops, the statements in progress end, every lock is    *)
(* released and every table is freed: an error path that kept a lock, or   *)
(* two threads waiting for each other, would hang the joins.               *)
(***************************************************************************)
StopFreesEverything ==
  phase = "stopping" ~> phase = "stopped"

-------------------------------------------------------------------------------
\* The promise of TableStore.  Table k is the registered entry of that name;
\* its rows are the committed slots.
EntryOf(k) == CHOOSE e \in registry : Fold[e] = k

Registered(k) == \E e \in registry : Fold[e] = k

TableSchema(k) == IF Registered(k) THEN schema[EntryOf(k)] ELSE NULL

TableRows(k) ==
  IF Registered(k) THEN [i \in 1..rowCount[EntryOf(k)] |-> slots[EntryOf(k)][i - 1]] ELSE <<>>

TableLost(k) ==
  IF Registered(k) THEN { i \in 1..rowCount[EntryOf(k)] : index[EntryOf(k)][i] = NULL } ELSE {}

Store == INSTANCE TableStore WITH
  schema <- [k \in Table |-> TableSchema(k)],
  rows   <- [k \in Table |-> TableRows(k)],
  lost   <- [k \in Table |-> TableLost(k)]

(***************************************************************************)
(* Concurrent statements behave as if each took effect at one instant:     *)
(* ids are consecutive, a SELECT returns the rows of one moment, by index  *)
(* or by scan alike but for the ids a failed split lost to the index, and  *)
(* a failed INSERT changes no row.                                         *)
(***************************************************************************)
StatementsAtomic == Store!Spec

-------------------------------------------------------------------------------
\* The inductive invariant behind the safety properties.

\* The threads past the registry lookup hold an entry; those past the rwlock
\* hold that entry's lock until they release it.
HasEntry(t) == pc[t] \in {"lock", "release"} \cup WriteSteps \cup ReadSteps

WriteHeld(t) == pc[t] \in WriteSteps \/ (pc[t] = "release" /\ IsInsert(t))

ReadHeld(t) == pc[t] \in ReadSteps \/ (pc[t] = "release" /\ ~IsInsert(t))

\* Some thread has reached one of the steps S on entry e.
At(e, S) == \E t \in Thread : entry[t] = e /\ pc[t] \in S

StatementInv ==
  \A t \in Thread :
    /\ pc[t] = "idle" <=> stmt[t] = NULL
    /\ pc[t] \in WriteSteps \cup {"create"} => IsInsert(t)
    /\ pc[t] \in ReadSteps => stmt[t].op = "select"
    /\ pc[t] \in {"registry", "find", "lock"} => stmt[t].op \in {"insert", "select"}

MutexInv ==
  \A t \in Thread : pc[t] \in {"find", "create"} <=> regLock = t

RegistryInv ==
  /\ phase \in {"serving", "stopping"} => registry = heap
  /\ phase \in {"detached", "stopped"} => registry = {} /\ \A t \in Thread : pc[t] = "idle"
  /\ OneEntryPerTable
  /\ \A t \in Thread : pc[t] = "create" => Entries(stmt[t].name) = {}
  /\ \A t \in Thread : IF HasEntry(t) THEN entry[t] \in registry ELSE entry[t] = NULL

LockInv ==
  \A e \in TableName :
    /\ \A t \in Thread : writer[e] = t <=> entry[t] = e /\ WriteHeld(t)
    /\ \A t \in Thread : t \in readers[e] <=> entry[t] = e /\ ReadHeld(t)
    /\ writer[e] # NULL => readers[e] = {}

RowsInv ==
  \A e \in TableName :
    /\ nextId[e] = rowCount[e] + 1
    /\ rowCount[e] <= capacity[e]
    /\ At(e, {"store", "index", "commit"}) => rowCount[e] < capacity[e]
    /\ At(e, {"index", "commit"}) => rowCount[e] < MaxId
    /\ \A i \in Slot :
         IF i < rowCount[e] \/ (i = rowCount[e] /\ At(e, {"index", "commit"}))
           THEN slots[e][i] # NULL /\ slots[e][i].id = i + 1
           ELSE slots[e][i] = NULL

\* The index of a table, whole but for the key of the INSERT in progress.
IndexInv ==
  \A e \in TableName : \A i \in Id :
    IF i <= rowCount[e]
      THEN index[e][i] = i - 1 \/ (SplitMayFail /\ i > 1 /\ index[e][i] = NULL)
      ELSE index[e][i] = IF i = nextId[e] /\ At(e, {"commit"}) THEN i - 1 ELSE NULL

(***************************************************************************)
(* What every step preserves: the registry mutex and the rwlocks are held  *)
(* exactly by the threads at the steps they cover, entries stay registered *)
(* while held, and a table is whole but for the slot and the key of the    *)
(* one INSERT in progress (all of table_runtime.c).                        *)
(***************************************************************************)
RuntimeInv ==
  /\ TypeOK
  /\ StatementInv
  /\ MutexInv
  /\ RegistryInv
  /\ LockInv
  /\ RowsInv
  /\ IndexInv

===============================================================================
