------------------------- MODULE TableRuntimeProofs -------------------------
(***************************************************************************)
(* The inductive invariant of TableRuntime holds in every reachable state, *)
(* for every number of threads, tables and rows.                           *)
(***************************************************************************)
EXTENDS TableRuntime, TLAPS

USE DEF Goto, Decide, IsInsert, vars, lockVars, tableVars, threadVars, Slot, Id,
        WriteSteps, ReadSteps, Steps

-------------------------------------------------------------------------------
\* Facts about results, locks and steps in progress

\* The results a statement may get are results.
LEMMA ResultTypes ==
  /\ Inserted \in QueryResult
  /\ NotFound \in QueryResult
  /\ Failed \in QueryResult
  /\ \A R \in SUBSET Row : Rows(R) \in QueryResult
BY DEF Inserted, NotFound, Failed, Rows, QueryResult

\* One cell of a function of functions changed.
LEMMA NestedUpdate ==
  ASSUME NEW A, NEW B, NEW C, NEW F \in [A -> [B -> C]],
         NEW a \in A, NEW b \in B, NEW c \in C, NEW G, G = [F EXCEPT ![a][b] = c]
  PROVE  /\ G \in [A -> [B -> C]]
         /\ \A x \in A : x # a => G[x] = F[x]
         /\ \A y \in B : G[a][y] = IF y = b THEN c ELSE F[a][y]
<1>1. G = [F EXCEPT ![a] = [F[a] EXCEPT ![b] = c]]
  OBVIOUS
<1>2. [F[a] EXCEPT ![b] = c] \in [B -> C]
  OBVIOUS
<1> QED  BY <1>1, <1>2

\* A thread holding the write lock is alone on its entry.
LEMMA WriterAlone ==
  ASSUME RuntimeInv, NEW t \in Thread, WriteHeld(t)
  PROVE  /\ entry[t] \in TableName
         /\ writer[entry[t]] = t
         /\ \A u \in Thread :
              entry[u] = entry[t] /\ (WriteHeld(u) \/ ReadHeld(u)) => u = t
<1>1. entry[t] \in TableName
  BY DEF RuntimeInv, TypeOK, RegistryInv, HasEntry, WriteHeld
<1>2. writer[entry[t]] = t /\ readers[entry[t]] = {}
  BY <1>1, TableRuntimeAssumption DEF RuntimeInv, LockInv
<1> QED  BY <1>1, <1>2 DEF RuntimeInv, LockInv

\* The steps in progress on an entry, after thread t moved from one step
\* under its write lock to step s.
LEMMA WriterMoves ==
  ASSUME RuntimeInv, NEW t \in Thread, pc[t] \in WriteSteps,
         NEW s \in WriteSteps \cup {"release"},
         pc' = [pc EXCEPT ![t] = s], UNCHANGED entry
  PROVE  \A e \in TableName :
           /\ At(e, {"store", "index", "commit"})' <=>
                IF e = entry[t] THEN s \in {"store", "index", "commit"}
                                ELSE At(e, {"store", "index", "commit"})
           /\ At(e, {"index", "commit"})' <=>
                IF e = entry[t] THEN s \in {"index", "commit"} ELSE At(e, {"index", "commit"})
           /\ At(e, {"commit"})' <=> IF e = entry[t] THEN s = "commit" ELSE At(e, {"commit"})
<1>1. \A u \in Thread \ {t} : pc'[u] = pc[u] /\ (entry[u] = entry[t] => pc[u] \notin WriteSteps)
  BY WriterAlone DEF WriteHeld, RuntimeInv, TypeOK
<1>2. pc'[t] = s
  BY DEF RuntimeInv, TypeOK
<1> QED  BY <1>1, <1>2 DEF At

\* Before the move only t itself can be at such a step on its entry.
LEMMA WriterStands ==
  ASSUME RuntimeInv, NEW t \in Thread, pc[t] \in WriteSteps
  PROVE  /\ At(entry[t], {"store", "index", "commit"}) <=> pc[t] \in {"store", "index", "commit"}
         /\ At(entry[t], {"index", "commit"}) <=> pc[t] \in {"index", "commit"}
         /\ At(entry[t], {"commit"}) <=> pc[t] = "commit"
<1>1. \A u \in Thread \ {t} : entry[u] = entry[t] => pc[u] \notin WriteSteps
  BY WriterAlone DEF WriteHeld
<1> QED  BY <1>1 DEF At

\* A step that leaves every table alone and neither starts nor ends the
\* update of one preserves what is known of the tables.
LEMMA TablesKept ==
  ASSUME RuntimeInv, NEW t \in Thread, NEW s \in Steps \ {"store", "index", "commit"},
         pc[t] \notin {"store", "index", "commit"},
         pc' = [pc EXCEPT ![t] = s],
         \A u \in Thread \ {t} : entry'[u] = entry[u],
         UNCHANGED tableVars
  PROVE  RowsInv' /\ IndexInv'
<1>1. \A u \in Thread \ {t} : pc'[u] = pc[u]
  BY DEF RuntimeInv, TypeOK
<1>2. pc'[t] = s
  BY DEF RuntimeInv, TypeOK
<1>3. \A e \in TableName :
        /\ At(e, {"store", "index", "commit"})' <=> At(e, {"store", "index", "commit"})
        /\ At(e, {"index", "commit"})' <=> At(e, {"index", "commit"})
        /\ At(e, {"commit"})' <=> At(e, {"commit"})
  BY <1>1, <1>2 DEF At
<1>4. RowsInv'
  BY <1>3 DEF RuntimeInv, RowsInv
<1>5. IndexInv'
  BY <1>3 DEF RuntimeInv, IndexInv
<1> QED  BY <1>4, <1>5

\* A step of a thread that keeps its entry leaves the registry as it was.
LEMMA RegistryKept ==
  ASSUME RuntimeInv, NEW t \in Thread, NEW s \in Steps \ {"create"},
         pc[t] # "idle",
         pc' = [pc EXCEPT ![t] = s],
         HasEntry(t)' <=> HasEntry(t),
         UNCHANGED <<phase, registry, heap, stmt, entry>>
  PROVE  RegistryInv'
<1>1. \A u \in Thread \ {t} : pc'[u] = pc[u] /\ (HasEntry(u)' <=> HasEntry(u))
  BY DEF RuntimeInv, TypeOK, HasEntry
<1>2. pc'[t] = s
  BY DEF RuntimeInv, TypeOK
<1>3. OneEntryPerTable'
  BY DEF RuntimeInv, RegistryInv, OneEntryPerTable
<1>4. \A u \in Thread : pc'[u] = "create" => Entries(stmt[u].name)' = {}
  BY <1>1, <1>2 DEF RuntimeInv, RegistryInv, Entries
<1>5. \A u \in Thread : IF HasEntry(u)' THEN entry'[u] \in registry' ELSE entry'[u] = NULL
  BY <1>1 DEF RuntimeInv, RegistryInv
<1>6. /\ phase' \in {"serving", "stopping"} => registry' = heap'
      /\ phase' \in {"detached", "stopped"} =>
           registry' = {} /\ \A u \in Thread : pc'[u] = "idle"
  BY DEF RuntimeInv, RegistryInv
<1> QED  BY <1>3, <1>4, <1>5, <1>6 DEF RegistryInv, Entries

\* A step of a thread that holds no lock before or after leaves the locks as
\* they were.
LEMMA HoldsNothing ==
  ASSUME RuntimeInv, NEW t \in Thread,
         NEW s \in Steps \ (WriteSteps \cup ReadSteps \cup {"release"}),
         pc[t] \notin WriteSteps \cup ReadSteps \cup {"release"},
         pc' = [pc EXCEPT ![t] = s],
         \A u \in Thread \ {t} : entry'[u] = entry[u],
         UNCHANGED <<writer, readers, stmt>>
  PROVE  LockInv'
<1>1. \A u \in Thread \ {t} : (WriteHeld(u)' <=> WriteHeld(u)) /\ (ReadHeld(u)' <=> ReadHeld(u))
  BY DEF RuntimeInv, TypeOK, WriteHeld, ReadHeld
<1>2. ~WriteHeld(t) /\ ~ReadHeld(t) /\ ~WriteHeld(t)' /\ ~ReadHeld(t)'
  BY DEF RuntimeInv, TypeOK, WriteHeld, ReadHeld
<1> QED  BY <1>1, <1>2 DEF RuntimeInv, LockInv

-------------------------------------------------------------------------------
\* Each step preserves the invariant

\* Taking up a statement preserves the invariant (engine_execute_sql).
LEMMA BeginPreserves ==
  ASSUME RuntimeInv, NEW t \in Thread, Begin(t)
  PROVE  RuntimeInv'
<1>1. TypeOK'
  BY DEF RuntimeInv, TypeOK, Begin
<1>2. StatementInv'
  BY StatementsAssumption DEF RuntimeInv, TypeOK, StatementInv, Begin
<1>3. MutexInv'
  BY TableRuntimeAssumption DEF RuntimeInv, TypeOK, MutexInv, Begin
<1>4. RegistryInv'
  BY DEF RuntimeInv, TypeOK, RegistryInv, OneEntryPerTable, Entries, HasEntry, Begin
<1>5. LockInv'
  BY DEF RuntimeInv, TypeOK, LockInv, WriteHeld, ReadHeld, Begin
<1>6. RowsInv' /\ IndexInv'
  BY TablesKept DEF Begin
<1> QED  BY <1>1, <1>2, <1>3, <1>4, <1>5, <1>6 DEF RuntimeInv

\* executor_execute preserves it.
LEMMA DispatchPreserves ==
  ASSUME RuntimeInv, NEW t \in Thread, Dispatch(t)
  PROVE  RuntimeInv'
<1>1. TypeOK'
  <2>1. PICK s \in {"return", "registry"} : pc' = [pc EXCEPT ![t] = s]
    BY DEF Dispatch
  <2>2. pc' \in [Thread -> Steps]
    BY <2>1 DEF RuntimeInv, TypeOK
  <2>3. result' = result \/ result' = [result EXCEPT ![t] = Failed]
    BY DEF Dispatch
  <2>4. result' \in [Thread -> QueryResult \cup {NULL}]
    BY <2>3, ResultTypes DEF RuntimeInv, TypeOK
  <2> QED  BY <2>2, <2>4 DEF RuntimeInv, TypeOK, Dispatch
<1>2. StatementInv'
  BY StatementsAssumption DEF RuntimeInv, TypeOK, StatementInv, Dispatch,
         Statement, InsertStatement, SelectStatement, DeleteStatement
<1>3. MutexInv'
  BY TableRuntimeAssumption DEF RuntimeInv, TypeOK, MutexInv, Dispatch
<1>4. PICK s \in {"return", "registry"} : pc' = [pc EXCEPT ![t] = s]
  BY DEF Dispatch
<1>5. RegistryInv'
  BY <1>4, RegistryKept DEF RuntimeInv, TypeOK, HasEntry, Dispatch
<1>6. LockInv'
  BY DEF RuntimeInv, TypeOK, LockInv, WriteHeld, ReadHeld, Dispatch
<1>7. RowsInv' /\ IndexInv'
  BY <1>4, TablesKept DEF Dispatch
<1> QED  BY <1>1, <1>2, <1>3, <1>5, <1>6, <1>7 DEF RuntimeInv

\* Taking the registry mutex preserves it.
LEMMA LockRegistryPreserves ==
  ASSUME RuntimeInv, NEW t \in Thread, LockRegistry(t)
  PROVE  RuntimeInv'
<1>1. TypeOK'
  BY DEF RuntimeInv, TypeOK, LockRegistry
<1>2. StatementInv'
  BY DEF RuntimeInv, TypeOK, StatementInv, LockRegistry
<1>3. MutexInv'
  BY TableRuntimeAssumption DEF RuntimeInv, TypeOK, MutexInv, LockRegistry
<1>4. RegistryInv'
  BY RegistryKept DEF RuntimeInv, TypeOK, HasEntry, LockRegistry
<1>5. LockInv'
  BY DEF RuntimeInv, TypeOK, LockInv, WriteHeld, ReadHeld, LockRegistry
<1>6. RowsInv' /\ IndexInv'
  BY TablesKept DEF LockRegistry
<1> QED  BY <1>1, <1>2, <1>3, <1>4, <1>5, <1>6 DEF RuntimeInv

\* The lookup in table_runtime_acquire_entry preserves it.
LEMMA FindEntryPreserves ==
  ASSUME RuntimeInv, NEW t \in Thread, FindEntry(t)
  PROVE  RuntimeInv'
<1>1. TypeOK'
  <2>1. Entries(stmt[t].name) \subseteq TableName
    BY DEF RuntimeInv, TypeOK, Entries
  <2>2. PICK s \in {"lock", "return", "create"} : pc' = [pc EXCEPT ![t] = s]
    BY DEF FindEntry
  <2>3. pc' \in [Thread -> Steps]
    BY <2>2 DEF RuntimeInv, TypeOK
  <2>4. entry' \in [Thread -> TableName \cup {NULL}]
    BY <2>1 DEF RuntimeInv, TypeOK, FindEntry
  <2>5. result' = result \/ result' = [result EXCEPT ![t] = NotFound]
    BY DEF FindEntry
  <2>6. result' \in [Thread -> QueryResult \cup {NULL}]
    BY <2>5, ResultTypes DEF RuntimeInv, TypeOK
  <2>7. regLock' \in Thread \cup {NULL}
    BY DEF RuntimeInv, TypeOK, FindEntry
  <2> QED  BY <2>3, <2>4, <2>6, <2>7 DEF RuntimeInv, TypeOK, FindEntry
<1>2. StatementInv'
  BY DEF RuntimeInv, TypeOK, StatementInv, FindEntry
<1>4. PICK s \in {"lock", "return", "create"} : pc' = [pc EXCEPT ![t] = s]
  BY DEF FindEntry
<1>5. \A u \in Thread \ {t} : entry'[u] = entry[u] /\ pc'[u] = pc[u]
  BY <1>4 DEF RuntimeInv, TypeOK, FindEntry
<1>3. MutexInv'
  <2>1. regLock = t /\ \A u \in Thread \ {t} : pc[u] \notin {"find", "create"}
    BY DEF RuntimeInv, MutexInv, FindEntry
  <2>2. pc'[t] = s /\ regLock' = IF s = "create" THEN t ELSE NULL
    BY <1>4, <2>1 DEF RuntimeInv, TypeOK, FindEntry
  <2> QED  BY <1>5, <2>1, <2>2, TableRuntimeAssumption DEF MutexInv
<1>6. RegistryInv'
  <2>1. /\ phase' \in {"serving", "stopping"} => registry' = heap'
        /\ phase' \in {"detached", "stopped"} =>
             registry' = {} /\ \A u \in Thread : pc'[u] = "idle"
        /\ OneEntryPerTable'
    BY DEF RuntimeInv, RegistryInv, OneEntryPerTable, FindEntry
  <2>2. \A u \in Thread : pc'[u] = "create" => Entries(stmt[u].name) = {}
    BY <1>4, <1>5 DEF RuntimeInv, TypeOK, RegistryInv, FindEntry
  <2>3. Entries(stmt[t].name) \subseteq registry
    BY DEF Entries
  <2>4. pc'[t] = s /\ entry[t] = NULL
    BY <1>4 DEF RuntimeInv, TypeOK, RegistryInv, HasEntry, FindEntry
  <2>5. IF HasEntry(t)' THEN entry'[t] \in registry ELSE entry'[t] = NULL
    <3>1. CASE s = "lock"
      BY <1>4, <2>3, <2>4, <3>1 DEF RuntimeInv, TypeOK, HasEntry, FindEntry
    <3>2. CASE s # "lock"
      BY <1>4, <2>4, <3>2 DEF RuntimeInv, TypeOK, HasEntry, FindEntry
    <3> QED  BY <3>1, <3>2
  <2>6. \A u \in Thread \ {t} : IF HasEntry(u)' THEN entry'[u] \in registry ELSE entry'[u] = NULL
    BY <1>5 DEF RuntimeInv, RegistryInv, HasEntry
  <2> QED  BY <2>1, <2>2, <2>5, <2>6 DEF RegistryInv, Entries, FindEntry
<1>7. LockInv'
  BY <1>4, <1>5, HoldsNothing DEF FindEntry
<1>8. RowsInv' /\ IndexInv'
  BY <1>4, <1>5, TablesKept DEF FindEntry
<1> QED  BY <1>1, <1>2, <1>3, <1>6, <1>7, <1>8 DEF RuntimeInv

\* table_runtime_create_entry preserves it: no entry of that table exists.
LEMMA CreateEntryPreserves ==
  ASSUME RuntimeInv, NEW t \in Thread, CreateEntry(t)
  PROVE  RuntimeInv'
<1> DEFINE e == stmt[t].name
<1>1. e \in TableName /\ IsInsert(t) /\ Entries(e) = {} /\ regLock = t
  <2>1. IsInsert(t) /\ stmt[t] # NULL /\ Entries(e) = {} /\ regLock = t
    BY DEF RuntimeInv, StatementInv, RegistryInv, MutexInv, CreateEntry
  <2>2. stmt[t] \in Statement
    BY <2>1, StatementsAssumption DEF RuntimeInv, TypeOK
  <2> QED  BY <2>1, <2>2 DEF Statement, InsertStatement, SelectStatement, DeleteStatement
<1>2. PICK s \in {"lock", "return"} : pc' = [pc EXCEPT ![t] = s]
  BY DEF CreateEntry
<1>3. \A u \in Thread \ {t} : entry'[u] = entry[u] /\ pc'[u] = pc[u]
  BY <1>2 DEF RuntimeInv, TypeOK, CreateEntry
<1>4. pc'[t] = s
  BY <1>2 DEF RuntimeInv, TypeOK
<1>5. TypeOK'
  <2>1. entry' \in [Thread -> TableName \cup {NULL}]
    BY <1>1 DEF RuntimeInv, TypeOK, CreateEntry
  <2>2. result' \in [Thread -> QueryResult \cup {NULL}]
    BY ResultTypes DEF RuntimeInv, TypeOK, CreateEntry
  <2>3. registry' \subseteq heap' /\ heap' \subseteq TableName
    BY <1>1 DEF RuntimeInv, TypeOK, CreateEntry
  <2> QED  BY <1>2, <2>1, <2>2, <2>3 DEF RuntimeInv, TypeOK, CreateEntry
<1>6. StatementInv'
  BY <1>1 DEF RuntimeInv, TypeOK, StatementInv, CreateEntry
<1>7. \A u \in Thread \ {t} : pc[u] \notin {"find", "create"}
  BY <1>1 DEF RuntimeInv, MutexInv
<1>8. MutexInv'
  BY <1>2, <1>3, <1>4, <1>7, TableRuntimeAssumption DEF MutexInv, CreateEntry
<1>9. RegistryInv'
  <2>1. phase \in {"serving", "stopping"} /\ registry = heap
    BY DEF RuntimeInv, TypeOK, RegistryInv, CreateEntry
  <2>2. phase' = phase /\ registry' = heap'
    BY <2>1 DEF CreateEntry
  <2>3. OneEntryPerTable'
    BY <1>1 DEF RuntimeInv, RegistryInv, OneEntryPerTable, Entries, CreateEntry
  <2>4. \A u \in Thread : pc'[u] # "create"
    BY <1>2, <1>3, <1>4, <1>7
  <2>5. IF HasEntry(t)' THEN entry'[t] \in registry' ELSE entry'[t] = NULL
    BY DEF RuntimeInv, TypeOK, RegistryInv, HasEntry, CreateEntry
  <2>6. registry \subseteq registry'
    BY DEF CreateEntry
  <2>7. \A u \in Thread \ {t} : IF HasEntry(u)' THEN entry'[u] \in registry' ELSE entry'[u] = NULL
    BY <1>3, <2>6 DEF RuntimeInv, RegistryInv, HasEntry
  <2> QED  BY <2>1, <2>2, <2>3, <2>4, <2>5, <2>7 DEF RegistryInv
<1>10. LockInv'
  BY <1>2, <1>3, HoldsNothing DEF CreateEntry
<1>11. RowsInv' /\ IndexInv'
  BY <1>2, <1>3, TablesKept DEF CreateEntry
<1> QED  BY <1>5, <1>6, <1>8, <1>9, <1>10, <1>11 DEF RuntimeInv

\* pthread_rwlock_wrlock preserves it.
LEMMA AcquireWritePreserves ==
  ASSUME RuntimeInv, NEW t \in Thread, AcquireWrite(t)
  PROVE  RuntimeInv'
<1>1. TypeOK'
  BY DEF RuntimeInv, TypeOK, AcquireWrite
<1>2. StatementInv'
  BY DEF RuntimeInv, TypeOK, StatementInv, AcquireWrite
<1>3. MutexInv'
  BY TableRuntimeAssumption DEF RuntimeInv, TypeOK, MutexInv, AcquireWrite
<1>4. RegistryInv'
  BY RegistryKept DEF RuntimeInv, TypeOK, HasEntry, AcquireWrite
<1>5. LockInv'
  BY TableRuntimeAssumption
  DEF RuntimeInv, TypeOK, LockInv, RegistryInv, HasEntry, WriteHeld, ReadHeld, AcquireWrite
<1>6. RowsInv' /\ IndexInv'
  BY TablesKept DEF AcquireWrite
<1> QED  BY <1>1, <1>2, <1>3, <1>4, <1>5, <1>6 DEF RuntimeInv

\* pthread_rwlock_rdlock preserves it.
LEMMA AcquireReadPreserves ==
  ASSUME RuntimeInv, NEW t \in Thread, AcquireRead(t)
  PROVE  RuntimeInv'
<1>1. TypeOK'
  BY DEF RuntimeInv, TypeOK, AcquireRead
<1>2. StatementInv'
  BY DEF RuntimeInv, TypeOK, StatementInv, AcquireRead
<1>3. MutexInv'
  BY TableRuntimeAssumption DEF RuntimeInv, TypeOK, MutexInv, AcquireRead
<1>4. RegistryInv'
  BY RegistryKept DEF RuntimeInv, TypeOK, HasEntry, AcquireRead
<1>5. LockInv'
  BY TableRuntimeAssumption
  DEF RuntimeInv, TypeOK, LockInv, RegistryInv, HasEntry, WriteHeld, ReadHeld, AcquireRead
<1>6. RowsInv' /\ IndexInv'
  BY TablesKept DEF AcquireRead
<1> QED  BY <1>1, <1>2, <1>3, <1>4, <1>5, <1>6 DEF RuntimeInv

-------------------------------------------------------------------------------
\* The steps under a lock keep the lock

\* A step from one step under the write lock to another, or to its release,
\* which touches neither locks nor the registry.
LEMMA WriterKeepsLock ==
  ASSUME RuntimeInv, NEW t \in Thread, NEW s \in WriteSteps \cup {"release"},
         pc[t] \in WriteSteps,
         pc' = [pc EXCEPT ![t] = s],
         UNCHANGED <<phase, registry, heap, lockVars, stmt, entry>>
  PROVE  StatementInv' /\ MutexInv' /\ RegistryInv' /\ LockInv'
<1>1. pc'[t] = s /\ \A u \in Thread \ {t} : pc'[u] = pc[u]
  BY DEF RuntimeInv, TypeOK
<1>2. IsInsert(t) /\ stmt[t] # NULL
  BY DEF RuntimeInv, StatementInv
<1>3. StatementInv'
  BY <1>1, <1>2 DEF RuntimeInv, StatementInv
<1>4. MutexInv'
  BY <1>1 DEF RuntimeInv, MutexInv
<1>5. RegistryInv'
  BY RegistryKept, <1>1 DEF HasEntry
<1>6. \A u \in Thread : (WriteHeld(u)' <=> WriteHeld(u)) /\ (ReadHeld(u)' <=> ReadHeld(u))
  BY <1>1, <1>2 DEF WriteHeld, ReadHeld
<1>7. LockInv'
  BY <1>6 DEF RuntimeInv, LockInv
<1> QED  BY <1>3, <1>4, <1>5, <1>7

\* The same for a thread under the read lock.
LEMMA ReaderKeepsLock ==
  ASSUME RuntimeInv, NEW t \in Thread, NEW s \in {"collect", "copy", "release"},
         pc[t] \in ReadSteps,
         pc' = [pc EXCEPT ![t] = s],
         UNCHANGED <<phase, registry, heap, lockVars, tableVars, stmt, entry>>
  PROVE  StatementInv' /\ MutexInv' /\ RegistryInv' /\ LockInv' /\ RowsInv' /\ IndexInv'
<1>1. pc'[t] = s /\ \A u \in Thread \ {t} : pc'[u] = pc[u]
  BY DEF RuntimeInv, TypeOK
<1>2. ~IsInsert(t) /\ stmt[t] # NULL
  BY DEF RuntimeInv, StatementInv
<1>3. StatementInv'
  BY <1>1, <1>2 DEF RuntimeInv, StatementInv
<1>4. MutexInv'
  BY <1>1 DEF RuntimeInv, MutexInv
<1>5. RegistryInv'
  BY RegistryKept, <1>1 DEF HasEntry
<1>6. \A u \in Thread : (WriteHeld(u)' <=> WriteHeld(u)) /\ (ReadHeld(u)' <=> ReadHeld(u))
  BY <1>1, <1>2 DEF WriteHeld, ReadHeld
<1>7. LockInv'
  BY <1>6 DEF RuntimeInv, LockInv
<1>8. RowsInv' /\ IndexInv'
  BY TablesKept
<1> QED  BY <1>3, <1>4, <1>5, <1>7, <1>8

-------------------------------------------------------------------------------
\* INSERT

\* Validating or initialising the schema preserves it.
LEMMA CheckSchemaPreserves ==
  ASSUME RuntimeInv, NEW t \in Thread, CheckSchema(t)
  PROVE  RuntimeInv'
<1>1. PICK s \in {"reserve", "release"} : pc' = [pc EXCEPT ![t] = s]
  BY DEF CheckSchema
<1>2. StatementInv' /\ MutexInv' /\ RegistryInv' /\ LockInv'
  BY <1>1, WriterKeepsLock DEF CheckSchema
<1>3. TypeOK'
  <2>1. stmt[t] \in Statement /\ IsInsert(t)
    BY StatementsAssumption DEF RuntimeInv, TypeOK, StatementInv, CheckSchema
  <2>2. stmt[t].shape \in Shape
    BY <2>1 DEF Statement, InsertStatement, SelectStatement, DeleteStatement
  <2>3. /\ schema' = schema \/ schema' = [schema EXCEPT ![entry[t]] = stmt[t].shape]
        /\ result' = result \/ result' = [result EXCEPT ![t] = Failed]
    BY DEF CheckSchema
  <2>4. schema' \in [TableName -> Shape \cup {NULL}]
    BY <2>2, <2>3 DEF RuntimeInv, TypeOK
  <2>5. result' \in [Thread -> QueryResult \cup {NULL}]
    BY <2>3, ResultTypes DEF RuntimeInv, TypeOK
  <2> QED  BY <1>1, <2>4, <2>5 DEF RuntimeInv, TypeOK, CheckSchema
<1>4. \A e \in TableName :
        /\ At(e, {"store", "index", "commit"})' <=> At(e, {"store", "index", "commit"})
        /\ At(e, {"index", "commit"})' <=> At(e, {"index", "commit"})
        /\ At(e, {"commit"})' <=> At(e, {"commit"})
  <2>1. pc[t] = "schema" /\ UNCHANGED entry
    BY DEF CheckSchema
  <2>2. /\ ~At(entry[t], {"store", "index", "commit"})
        /\ ~At(entry[t], {"index", "commit"}) /\ ~At(entry[t], {"commit"})
    BY <2>1, WriterStands
  <2>3. \A e \in TableName :
          /\ At(e, {"store", "index", "commit"})' <=>
               IF e = entry[t] THEN s \in {"store", "index", "commit"}
                               ELSE At(e, {"store", "index", "commit"})
          /\ At(e, {"index", "commit"})' <=>
               IF e = entry[t] THEN s \in {"index", "commit"} ELSE At(e, {"index", "commit"})
          /\ At(e, {"commit"})' <=> IF e = entry[t] THEN s = "commit" ELSE At(e, {"commit"})
    BY <1>1, <2>1, WriterMoves
  <2> QED  BY <1>1, <2>2, <2>3
<1>5. RowsInv'
  BY <1>4 DEF RuntimeInv, RowsInv, CheckSchema
<1>6. IndexInv'
  BY <1>4 DEF RuntimeInv, IndexInv, CheckSchema
<1> QED  BY <1>2, <1>3, <1>5, <1>6 DEF RuntimeInv

\* table_reserve_if_needed preserves it: afterwards there is room for a row.
LEMMA ReservePreserves ==
  ASSUME RuntimeInv, NEW t \in Thread, Reserve(t)
  PROVE  RuntimeInv'
<1> DEFINE e == entry[t]
<1>1. PICK s \in {"store", "release"} : pc' = [pc EXCEPT ![t] = s]
  BY DEF Reserve
<1>2. StatementInv' /\ MutexInv' /\ RegistryInv' /\ LockInv'
  BY <1>1, WriterKeepsLock DEF Reserve
<1>3. e \in TableName
  BY WriterAlone DEF WriteHeld, Reserve
<1>4. capacity' \in [TableName -> Nat]
  BY TableRuntimeAssumption DEF RuntimeInv, TypeOK, Reserve
<1>5. TypeOK'
  <2>1. result' \in [Thread -> QueryResult \cup {NULL}]
    BY ResultTypes DEF RuntimeInv, TypeOK, Reserve
  <2> QED  BY <1>1, <1>4, <2>1 DEF RuntimeInv, TypeOK, Reserve
<1>6. /\ rowCount[e] \in Nat /\ capacity[e] \in Nat
      /\ rowCount[e] <= capacity[e]
  BY <1>3, StatementsAssumption DEF RuntimeInv, TypeOK, RowsInv
<1>7. /\ \A f \in TableName : f # e => capacity'[f] = capacity[f]
      /\ rowCount[e] <= capacity'[e]
      /\ s = "store" => rowCount[e] < capacity'[e]
  BY <1>1, <1>3, <1>6, TableRuntimeAssumption DEF RuntimeInv, TypeOK, Reserve
<1>8. \A f \in TableName :
        /\ At(f, {"store", "index", "commit"})' <=>
             IF f = e THEN s = "store" ELSE At(f, {"store", "index", "commit"})
        /\ At(f, {"index", "commit"})' <=> At(f, {"index", "commit"})
        /\ At(f, {"commit"})' <=> At(f, {"commit"})
  <2>1. pc[t] = "reserve" /\ UNCHANGED entry
    BY DEF Reserve
  <2>2. /\ ~At(e, {"store", "index", "commit"})
        /\ ~At(e, {"index", "commit"}) /\ ~At(e, {"commit"})
    BY <2>1, WriterStands
  <2>3. \A f \in TableName :
          /\ At(f, {"store", "index", "commit"})' <=>
               IF f = e THEN s \in {"store", "index", "commit"}
                        ELSE At(f, {"store", "index", "commit"})
          /\ At(f, {"index", "commit"})' <=>
               IF f = e THEN s \in {"index", "commit"} ELSE At(f, {"index", "commit"})
          /\ At(f, {"commit"})' <=> IF f = e THEN s = "commit" ELSE At(f, {"commit"})
    BY <1>1, <2>1, WriterMoves
  <2> QED  BY <1>1, <2>2, <2>3
<1>9. RowsInv'
  BY <1>7, <1>8 DEF RuntimeInv, RowsInv, Reserve
<1>10. IndexInv'
  BY <1>8 DEF RuntimeInv, IndexInv, Reserve
<1> QED  BY <1>2, <1>5, <1>9, <1>10 DEF RuntimeInv

\* Storing the row preserves it: the slot is the first free one.
LEMMA StoreRowPreserves ==
  ASSUME RuntimeInv, NEW t \in Thread, StoreRow(t)
  PROVE  RuntimeInv'
<1> DEFINE e == entry[t]
           row == [id |-> nextId[e], val |-> stmt[t].val]
<1>1. PICK s \in {"index", "release"} :
        /\ pc' = [pc EXCEPT ![t] = s]
        /\ \/ /\ s = "index" /\ nextId[e] <= MaxId
              /\ slots' = [slots EXCEPT ![e][rowCount[e]] = row]
           \/ s = "release" /\ slots' = slots
  BY DEF StoreRow
<1>2. StatementInv' /\ MutexInv' /\ RegistryInv' /\ LockInv'
  BY <1>1, WriterKeepsLock DEF StoreRow
<1>3. e \in TableName
  BY WriterAlone DEF WriteHeld, StoreRow
<1>4. /\ rowCount[e] \in Nat /\ capacity[e] \in Nat /\ MaxId \in Nat
      /\ nextId[e] = rowCount[e] + 1
      /\ rowCount[e] < capacity[e]
  BY <1>3, WriterStands, StatementsAssumption DEF RuntimeInv, TypeOK, RowsInv, StoreRow
<1>5. row \in Row \/ s # "index"
  <2>1. stmt[t] \in Statement /\ IsInsert(t)
    BY StatementsAssumption DEF RuntimeInv, TypeOK, StatementInv, StoreRow
  <2>2. stmt[t].val \in Value
    BY <2>1 DEF Statement, InsertStatement, SelectStatement, DeleteStatement
  <2> QED  BY <1>1, <1>4, <2>2 DEF Row
<1>6. /\ slots' \in [TableName -> [Slot -> Row \cup {NULL}]]
      /\ \A f \in TableName : f # e => slots'[f] = slots[f]
      /\ s = "index" => \A i \in Slot :
           slots'[e][i] = IF i = rowCount[e] THEN row ELSE slots[e][i]
  <2>1. slots \in [TableName -> [Slot -> Row \cup {NULL}]]
    BY DEF RuntimeInv, TypeOK
  <2>2. CASE s = "index"
    <3>1. rowCount[e] \in Slot /\ row \in Row \cup {NULL}
      BY <1>1, <1>4, <1>5, <2>2
    <3>2. slots' = [slots EXCEPT ![e][rowCount[e]] = row]
      BY <1>1, <2>2
    <3> HIDE DEF row, e, Slot
    <3> QED  BY <1>3, <2>1, <3>1, <3>2, NestedUpdate
  <2>3. CASE s = "release"
    BY <1>1, <2>1, <2>3
  <2> QED  BY <1>1, <2>2, <2>3
<1>7. TypeOK'
  <2>1. result' \in [Thread -> QueryResult \cup {NULL}]
    BY ResultTypes DEF RuntimeInv, TypeOK, StoreRow
  <2> QED  BY <1>1, <1>6, <2>1 DEF RuntimeInv, TypeOK, StoreRow
<1>8. \A f \in TableName :
        /\ At(f, {"store", "index", "commit"})' <=>
             IF f = e THEN s = "index" ELSE At(f, {"store", "index", "commit"})
        /\ At(f, {"index", "commit"})' <=> IF f = e THEN s = "index" ELSE At(f, {"index", "commit"})
        /\ At(f, {"commit"})' <=> At(f, {"commit"})
  <2>1. pc[t] = "store" /\ UNCHANGED entry
    BY DEF StoreRow
  <2>2. ~At(e, {"index", "commit"}) /\ ~At(e, {"commit"})
    BY <2>1, WriterStands
  <2>3. \A f \in TableName :
          /\ At(f, {"store", "index", "commit"})' <=>
               IF f = e THEN s \in {"store", "index", "commit"}
                        ELSE At(f, {"store", "index", "commit"})
          /\ At(f, {"index", "commit"})' <=>
               IF f = e THEN s \in {"index", "commit"} ELSE At(f, {"index", "commit"})
          /\ At(f, {"commit"})' <=> IF f = e THEN s = "commit" ELSE At(f, {"commit"})
    BY <1>1, <2>1, WriterMoves
  <2> QED  BY <1>1, <2>2, <2>3
<1>9. ~At(e, {"index", "commit"})
  BY WriterStands DEF StoreRow
<1>10. RowsInv'
  <2> SUFFICES ASSUME NEW f \in TableName
               PROVE  /\ nextId[f] = rowCount[f] + 1
                      /\ rowCount[f] <= capacity[f]
                      /\ At(f, {"store", "index", "commit"})' => rowCount[f] < capacity[f]
                      /\ At(f, {"index", "commit"})' => rowCount[f] < MaxId
                      /\ \A i \in Slot :
                           IF i < rowCount[f] \/ (i = rowCount[f] /\ At(f, {"index", "commit"})')
                             THEN slots'[f][i] # NULL /\ slots'[f][i].id = i + 1
                             ELSE slots'[f][i] = NULL
    BY DEF RowsInv, StoreRow
  <2>1. CASE f # e
    BY <1>6, <1>8, <2>1 DEF RuntimeInv, RowsInv
  <2>2. CASE f = e /\ s = "index"
    <3>1. rowCount[e] \in Slot /\ rowCount[e] < MaxId
      BY <1>1, <1>4, <2>2
    <3>2. row # NULL /\ row.id = rowCount[e] + 1
      BY <1>4, <1>5, <2>2, StatementsAssumption
    <3>3. \A i \in Slot : IF i < rowCount[e] THEN slots[e][i] # NULL /\ slots[e][i].id = i + 1
                                             ELSE slots[e][i] = NULL
      BY <1>3, <1>9 DEF RuntimeInv, RowsInv
    <3>4. \A i \in Slot :
            IF i < rowCount[e] \/ i = rowCount[e]
              THEN slots'[e][i] # NULL /\ slots'[e][i].id = i + 1
              ELSE slots'[e][i] = NULL
      <4> HIDE DEF row, e, Slot
      <4> QED  BY <1>4, <1>6, <2>2, <3>1, <3>2, <3>3
    <3> HIDE DEF row, e, Slot
    <3> QED  BY <1>3, <1>4, <1>8, <2>2, <3>1, <3>4
  <2>3. CASE f = e /\ s = "release"
    <3>1. slots' = slots
      BY <1>1, <2>3
    <3> QED  BY <1>8, <1>9, <2>3, <3>1 DEF RuntimeInv, RowsInv
  <2> QED  BY <1>1, <2>1, <2>2, <2>3
<1>11. IndexInv'
  BY <1>8 DEF RuntimeInv, IndexInv, StoreRow
<1> QED  BY <1>2, <1>7, <1>10, <1>11 DEF RuntimeInv

\* bptree_insert preserves it, also when it fails and the slot is cleared.
LEMMA IndexRowPreserves ==
  ASSUME RuntimeInv, NEW t \in Thread, IndexRow(t)
  PROVE  RuntimeInv'
<1> DEFINE e == entry[t]
           key == nextId[e]
           n == rowCount[e]
<1>1. PICK s \in {"commit", "release"} :
        /\ pc' = [pc EXCEPT ![t] = s]
        /\ \/ /\ s = "commit"
              /\ index' = [index EXCEPT ![e][key] = n]
              /\ slots' = slots
           \/ /\ s = "release"
              /\ \E ix \in IndexAfterFailure(index[e]) : index' = [index EXCEPT ![e] = ix]
              /\ slots' = [slots EXCEPT ![e][n] = NULL]
  BY DEF IndexRow
<1>2. StatementInv' /\ MutexInv' /\ RegistryInv' /\ LockInv'
  BY <1>1, WriterKeepsLock DEF IndexRow
<1>3. e \in TableName
  BY WriterAlone DEF WriteHeld, IndexRow
<1>4. /\ n \in Slot /\ n \in Nat /\ MaxId \in Nat /\ n < MaxId
      /\ capacity[e] \in Nat /\ n < capacity[e]
      /\ key = n + 1 /\ key \in Id
  BY SMTT(30), <1>3, WriterStands, StatementsAssumption DEF RuntimeInv, TypeOK, RowsInv, IndexRow
<1>5. /\ slots \in [TableName -> [Slot -> Row \cup {NULL}]]
      /\ index \in [TableName -> [Id -> Slot \cup {NULL}]]
  BY DEF RuntimeInv, TypeOK
<1>6. \A i \in Slot : IF i <= n THEN slots[e][i] # NULL /\ slots[e][i].id = i + 1
                                ELSE slots[e][i] = NULL
  BY <1>3, <1>4, WriterStands DEF RuntimeInv, RowsInv, IndexRow
<1>7. \A i \in Id : IF i <= n THEN index[e][i] = i - 1 \/ (SplitMayFail /\ i > 1 /\ index[e][i] = NULL)
                              ELSE index[e][i] = NULL
  BY <1>3, <1>4, WriterStands DEF RuntimeInv, IndexInv, IndexRow
<1>8. /\ slots' \in [TableName -> [Slot -> Row \cup {NULL}]]
      /\ \A f \in TableName : f # e => slots'[f] = slots[f]
      /\ \A i \in Slot : slots'[e][i] = IF s = "release" /\ i = n THEN NULL ELSE slots[e][i]
  <2>1. CASE s = "release"
    <3>1. slots' = [slots EXCEPT ![e][n] = NULL]
      BY <1>1, <2>1
    <3> HIDE DEF e, n, Slot
    <3>2. /\ slots' \in [TableName -> [Slot -> Row \cup {NULL}]]
          /\ \A f \in TableName : f # e => slots'[f] = slots[f]
          /\ \A i \in Slot : slots'[e][i] = IF i = n THEN NULL ELSE slots[e][i]
      BY <1>3, <1>4, <1>5, <3>1, NestedUpdate
    <3> QED  BY <2>1, <3>2
  <2> QED  BY <1>1, <1>5, <2>1
<1>9. /\ index' \in [TableName -> [Id -> Slot \cup {NULL}]]
      /\ \A f \in TableName : f # e => index'[f] = index[f]
      /\ \A i \in Id :
           \/ index'[e][i] = IF s = "commit" /\ i = key THEN n ELSE index[e][i]
           \/ SplitMayFail /\ s = "release" /\ i > 1 /\ index'[e][i] = NULL
  <2>1. CASE s = "commit"
    <3>1. index' = [index EXCEPT ![e][key] = n]
      BY <1>1, <2>1
    <3> HIDE DEF e, n, key, Slot, Id
    <3>2. /\ index' \in [TableName -> [Id -> Slot \cup {NULL}]]
          /\ \A f \in TableName : f # e => index'[f] = index[f]
          /\ \A i \in Id : index'[e][i] = IF i = key THEN n ELSE index[e][i]
      BY <1>3, <1>4, <1>5, <3>1, NestedUpdate
    <3> QED  BY <2>1, <3>2
  <2>2. CASE s = "release"
    <3>1. PICK ix \in IndexAfterFailure(index[e]) : index' = [index EXCEPT ![e] = ix]
      BY <1>1, <2>2
    <3>2. /\ ix \in [Id -> Slot \cup {NULL}]
          /\ \A i \in Id : ix[i] = index[e][i] \/ (SplitMayFail /\ i > 1 /\ ix[i] = NULL)
      <4>1. index[e] \in [Id -> Slot \cup {NULL}]
        BY <1>3, <1>5
      <4>2. CASE ix = index[e]
        BY <4>1, <4>2
      <4>3. CASE SplitMayFail /\ \E cut \in Id : ix = [i \in Id |-> IF i <= cut THEN index[e][i] ELSE NULL]
        <5>1. \A cut, i \in Id : i > 1 \/ i <= cut
          OBVIOUS
        <5> HIDE DEF Id, Slot, e
        <5> QED  BY <4>1, <4>3, <5>1
      <4> QED  BY <3>1, <4>2, <4>3 DEF IndexAfterFailure
    <3> HIDE DEF e, n, key, Slot, Id
    <3> QED  BY <1>3, <1>5, <2>2, <3>1, <3>2
  <2> QED  BY <1>1, <2>1, <2>2
<1>10. TypeOK'
  <2>1. result' \in [Thread -> QueryResult \cup {NULL}]
    BY ResultTypes DEF RuntimeInv, TypeOK, IndexRow
  <2> QED  BY <1>1, <1>8, <1>9, <2>1 DEF RuntimeInv, TypeOK, IndexRow
<1>11. \A f \in TableName :
        /\ At(f, {"store", "index", "commit"})' <=>
             IF f = e THEN s = "commit" ELSE At(f, {"store", "index", "commit"})
        /\ At(f, {"index", "commit"})' <=> IF f = e THEN s = "commit" ELSE At(f, {"index", "commit"})
        /\ At(f, {"commit"})' <=> IF f = e THEN s = "commit" ELSE At(f, {"commit"})
  BY <1>1, WriterMoves DEF IndexRow
<1>12. RowsInv'
  <2> SUFFICES ASSUME NEW f \in TableName
               PROVE  /\ nextId[f] = rowCount[f] + 1
                      /\ rowCount[f] <= capacity[f]
                      /\ At(f, {"store", "index", "commit"})' => rowCount[f] < capacity[f]
                      /\ At(f, {"index", "commit"})' => rowCount[f] < MaxId
                      /\ \A i \in Slot :
                           IF i < rowCount[f] \/ (i = rowCount[f] /\ At(f, {"index", "commit"})')
                             THEN slots'[f][i] # NULL /\ slots'[f][i].id = i + 1
                             ELSE slots'[f][i] = NULL
    BY DEF RowsInv, IndexRow
  <2>1. CASE f # e
    BY <1>8, <1>11, <2>1 DEF RuntimeInv, RowsInv
  <2>2. CASE f = e
    <3>1. \A i \in Slot :
            IF i < n \/ (i = n /\ s = "commit")
              THEN slots'[e][i] # NULL /\ slots'[e][i].id = i + 1
              ELSE slots'[e][i] = NULL
      BY <1>1, <1>4, <1>6, <1>8
    <3> HIDE DEF Slot
    <3> QED  BY <1>3, <1>4, <1>11, <2>2, <3>1
  <2> QED  BY <2>1, <2>2
<1>13. IndexInv'
  <2> SUFFICES ASSUME NEW f \in TableName, NEW i \in Id
               PROVE  IF i <= rowCount[f]
                        THEN index'[f][i] = i - 1 \/ (SplitMayFail /\ i > 1 /\ index'[f][i] = NULL)
                        ELSE index'[f][i] = IF i = nextId[f] /\ At(f, {"commit"})' THEN i - 1 ELSE NULL
    BY DEF IndexInv, IndexRow
  <2>1. CASE f # e
    BY <1>9, <1>11, <2>1 DEF RuntimeInv, IndexInv
  <2>2. CASE f = e
    BY <1>1, <1>4, <1>7, <1>9, <1>11, <2>2
  <2> QED  BY <2>1, <2>2
<1> QED  BY <1>2, <1>10, <1>12, <1>13 DEF RuntimeInv

\* Counting the row preserves it: rows, count, next id and index agree again.
LEMMA CommitRowPreserves ==
  ASSUME RuntimeInv, NEW t \in Thread, CommitRow(t)
  PROVE  RuntimeInv'
<1> DEFINE e == entry[t]
<1>1. StatementInv' /\ MutexInv' /\ RegistryInv' /\ LockInv'
  BY WriterKeepsLock DEF CommitRow
<1>2. e \in TableName
  BY WriterAlone DEF WriteHeld, CommitRow
<1>3. /\ rowCount[e] \in Nat /\ MaxId \in Nat /\ rowCount[e] < MaxId
      /\ capacity[e] \in Nat /\ rowCount[e] < capacity[e]
      /\ nextId[e] = rowCount[e] + 1
  BY <1>2, WriterStands, StatementsAssumption DEF RuntimeInv, TypeOK, RowsInv, CommitRow
<1>4. /\ rowCount'[e] = rowCount[e] + 1
      /\ nextId'[e] = nextId[e] + 1
      /\ \A f \in TableName : f # e => rowCount'[f] = rowCount[f] /\ nextId'[f] = nextId[f]
  BY <1>2 DEF RuntimeInv, TypeOK, CommitRow
<1>5. TypeOK'
  <2>1. result' \in [Thread -> QueryResult \cup {NULL}]
    BY ResultTypes DEF RuntimeInv, TypeOK, CommitRow
  <2>2. rowCount' \in [TableName -> 0..MaxId] /\ nextId' \in [TableName -> 1..(MaxId + 1)]
    BY <1>2, <1>3 DEF RuntimeInv, TypeOK, CommitRow
  <2> QED  BY <2>1, <2>2 DEF RuntimeInv, TypeOK, CommitRow
<1>6. \A f \in TableName :
        /\ At(f, {"store", "index", "commit"})' <=> f # e /\ At(f, {"store", "index", "commit"})
        /\ At(f, {"index", "commit"})' <=> f # e /\ At(f, {"index", "commit"})
        /\ At(f, {"commit"})' <=> f # e /\ At(f, {"commit"})
  <2>1. PICK s \in {"release"} :
          pc[t] \in WriteSteps /\ pc' = [pc EXCEPT ![t] = s] /\ UNCHANGED entry
    BY DEF CommitRow
  <2> QED  BY <2>1, WriterMoves
<1>7. /\ At(e, {"store", "index", "commit"})
      /\ At(e, {"index", "commit"})
      /\ At(e, {"commit"})
  BY WriterStands DEF CommitRow
<1>8. RowsInv'
  <2> SUFFICES ASSUME NEW f \in TableName
               PROVE  /\ nextId'[f] = rowCount'[f] + 1
                      /\ rowCount'[f] <= capacity[f]
                      /\ At(f, {"store", "index", "commit"})' => rowCount'[f] < capacity[f]
                      /\ At(f, {"index", "commit"})' => rowCount'[f] < MaxId
                      /\ \A i \in Slot :
                           IF i < rowCount'[f] \/ (i = rowCount'[f] /\ At(f, {"index", "commit"})')
                             THEN slots[f][i] # NULL /\ slots[f][i].id = i + 1
                             ELSE slots[f][i] = NULL
    BY DEF RowsInv, CommitRow
  <2>1. CASE f # e
    BY <1>4, <1>6, <2>1 DEF RuntimeInv, RowsInv
  <2>2. CASE f = e
    <3>1. \A i \in Slot :
            IF i < rowCount[e] \/ i = rowCount[e]
              THEN slots[e][i] # NULL /\ slots[e][i].id = i + 1
              ELSE slots[e][i] = NULL
      BY <1>2, <1>7 DEF RuntimeInv, RowsInv
    <3> QED  BY <1>3, <1>4, <1>6, <2>2, <3>1
  <2> QED  BY <2>1, <2>2
<1>9. IndexInv'
  <2> SUFFICES ASSUME NEW f \in TableName, NEW i \in Id
               PROVE  IF i <= rowCount'[f]
                        THEN index[f][i] = i - 1 \/ (SplitMayFail /\ i > 1 /\ index[f][i] = NULL)
                        ELSE index[f][i] = IF i = nextId'[f] /\ At(f, {"commit"})' THEN i - 1 ELSE NULL
    BY DEF IndexInv, CommitRow
  <2>1. CASE f # e
    BY <1>4, <1>6, <2>1 DEF RuntimeInv, IndexInv
  <2>2. CASE f = e
    <3>1. IF i <= rowCount[e]
            THEN index[e][i] = i - 1 \/ (SplitMayFail /\ i > 1 /\ index[e][i] = NULL)
            ELSE index[e][i] = IF i = nextId[e] THEN i - 1 ELSE NULL
      BY <1>2, <1>7 DEF RuntimeInv, IndexInv
    <3> QED  BY <1>3, <1>4, <1>6, <2>2, <3>1
  <2> QED  BY <2>1, <2>2
<1> QED  BY <1>1, <1>5, <1>8, <1>9 DEF RuntimeInv

-------------------------------------------------------------------------------
\* SELECT

\* The test for a loaded table preserves it.
LEMMA CheckLoadedPreserves ==
  ASSUME RuntimeInv, NEW t \in Thread, CheckLoaded(t)
  PROVE  RuntimeInv'
<1>1. PICK s \in {"collect", "release"} : pc' = [pc EXCEPT ![t] = s]
  BY DEF CheckLoaded
<1>2. TypeOK'
  <2>1. result' \in [Thread -> QueryResult \cup {NULL}]
    BY ResultTypes DEF RuntimeInv, TypeOK, CheckLoaded
  <2> QED  BY <1>1, <2>1 DEF RuntimeInv, TypeOK, CheckLoaded
<1> QED  BY <1>1, <1>2, ReaderKeepsLock DEF RuntimeInv, CheckLoaded

\* Collecting the row slots of a SELECT preserves it.
LEMMA CollectPreserves ==
  ASSUME RuntimeInv, NEW t \in Thread, Collect(t)
  PROVE  RuntimeInv'
<1>1. PICK s \in {"copy", "release"} : pc' = [pc EXCEPT ![t] = s]
  BY DEF Collect
<1>2. entry[t] \in TableName
  BY DEF RuntimeInv, TypeOK, RegistryInv, HasEntry, Collect
<1>3. \A i : IndexLookup(entry[t], i) \subseteq Slot
  <2>1. \A i \in Id : index[entry[t]][i] \in Slot \cup {NULL}
    <3>1. index \in [TableName -> [Id -> Slot \cup {NULL}]]
      BY DEF RuntimeInv, TypeOK
    <3> HIDE DEF Slot, Id
    <3> QED  BY <1>2, <3>1
  <2> HIDE DEF Slot, Id
  <2> QED  BY <2>1 DEF IndexLookup
<1>4. \A w : LinearScan(entry[t], w) \subseteq Slot
  BY DEF LinearScan
<1>5. TypeOK'
  <2>1. result' \in [Thread -> QueryResult \cup {NULL}]
    BY ResultTypes DEF RuntimeInv, TypeOK, Collect
  <2>2. PICK H \in SUBSET Slot : hits' = [hits EXCEPT ![t] = H] \/ hits' = hits
    BY <1>3, <1>4 DEF Collect
  <2>3. hits' \in [Thread -> SUBSET Slot]
    BY <2>2 DEF RuntimeInv, TypeOK
  <2> QED  BY <1>1, <2>1, <2>3 DEF RuntimeInv, TypeOK, Collect
<1> QED  BY <1>1, <1>5, ReaderKeepsLock DEF RuntimeInv, Collect

\* Copying the selected rows preserves it.
LEMMA CopyRowsPreserves ==
  ASSUME RuntimeInv, NEW t \in Thread, CopyRows(t)
  PROVE  RuntimeInv'
<1>1. entry[t] \in TableName
  BY DEF RuntimeInv, TypeOK, RegistryInv, HasEntry, CopyRows
<1>2. \A i \in hits[t] : slots[entry[t]][i] \in Row \cup {NULL}
  <2>1. hits[t] \in SUBSET Slot /\ slots[entry[t]] \in [Slot -> Row \cup {NULL}]
    BY <1>1 DEF RuntimeInv, TypeOK
  <2> HIDE DEF Slot
  <2> QED  BY <2>1
<1>3. PICK r \in QueryResult : pc' = [pc EXCEPT ![t] = "release"] /\ result' = [result EXCEPT ![t] = r]
  <2>1. CASE \A i \in hits[t] : slots[entry[t]][i] # NULL
    <3>1. { slots[entry[t]][i] : i \in hits[t] } \in SUBSET Row
      BY <1>2, <2>1
    <3> QED  BY <3>1, ResultTypes DEF CopyRows
  <2>2. CASE ~ \A i \in hits[t] : slots[entry[t]][i] # NULL
    BY <2>2, ResultTypes DEF CopyRows
  <2> QED  BY <2>1, <2>2
<1>4. TypeOK'
  <2>1. result' \in [Thread -> QueryResult \cup {NULL}]
    BY <1>3 DEF RuntimeInv, TypeOK
  <2>2. pc' \in [Thread -> Steps] /\ hits' \in [Thread -> SUBSET Slot]
    BY DEF RuntimeInv, TypeOK, CopyRows
  <2> QED  BY <2>1, <2>2 DEF RuntimeInv, TypeOK, CopyRows
<1> QED  BY <1>4, ReaderKeepsLock DEF RuntimeInv, CopyRows

-------------------------------------------------------------------------------
\* The end of a statement, and the shutdown

\* table_runtime_release preserves it.
LEMMA ReleasePreserves ==
  ASSUME RuntimeInv, NEW t \in Thread, Release(t)
  PROVE  RuntimeInv'
<1>1. /\ pc'[t] = "return" /\ entry'[t] = NULL
      /\ \A u \in Thread \ {t} : pc'[u] = pc[u] /\ entry'[u] = entry[u]
  BY DEF RuntimeInv, TypeOK, Release
<1>2. TypeOK'
  <2>1. writer' \in [TableName -> Thread \cup {NULL}]
    BY DEF RuntimeInv, TypeOK, Release
  <2>2. readers' = [readers EXCEPT ![entry[t]] = @ \ {t}] \/ readers' = readers
    BY DEF Release
  <2>3. \A e \in TableName : readers[e] \ {t} \in SUBSET Thread
    BY DEF RuntimeInv, TypeOK
  <2>4. readers \in [TableName -> SUBSET Thread]
    BY DEF RuntimeInv, TypeOK
  <2>5. readers' \in [TableName -> SUBSET Thread]
    BY <2>2, <2>3, <2>4
  <2> QED  BY <2>1, <2>5 DEF RuntimeInv, TypeOK, Release
<1>3. StatementInv'
  BY <1>1 DEF RuntimeInv, StatementInv, Release
<1>4. MutexInv'
  BY <1>1 DEF RuntimeInv, MutexInv, Release
<1>5. RegistryInv'
  <2>1. \A u \in Thread : IF HasEntry(u)' THEN entry'[u] \in registry ELSE entry'[u] = NULL
    BY <1>1 DEF RuntimeInv, RegistryInv, HasEntry
  <2> QED  BY <1>1, <2>1 DEF RuntimeInv, RegistryInv, OneEntryPerTable, Entries, Release
<1>6. LockInv'
  BY <1>1, TableRuntimeAssumption, StatementsAssumption
  DEF RuntimeInv, TypeOK, LockInv, RegistryInv, HasEntry, WriteHeld, ReadHeld, Release
<1>7. RowsInv' /\ IndexInv'
  BY <1>1, TablesKept DEF Release
<1> QED  BY <1>2, <1>3, <1>4, <1>5, <1>6, <1>7 DEF RuntimeInv

\* Returning the result preserves it.
LEMMA ReturnPreserves ==
  ASSUME RuntimeInv, NEW t \in Thread, Return(t)
  PROVE  RuntimeInv'
<1>1. TypeOK'
  BY DEF RuntimeInv, TypeOK, Return
<1>2. StatementInv'
  BY DEF RuntimeInv, TypeOK, StatementInv, Return
<1>3. MutexInv'
  BY TableRuntimeAssumption DEF RuntimeInv, TypeOK, MutexInv, Return
<1>4. RegistryInv'
  BY DEF RuntimeInv, TypeOK, RegistryInv, OneEntryPerTable, Entries, HasEntry, Return
<1>5. LockInv'
  BY DEF RuntimeInv, TypeOK, LockInv, WriteHeld, ReadHeld, Return
<1>6. RowsInv' /\ IndexInv'
  BY TablesKept DEF Return
<1> QED  BY <1>1, <1>2, <1>3, <1>4, <1>5, <1>6 DEF RuntimeInv

\* Stopping and detaching the registry list preserve it.
LEMMA ShutdownPreserves ==
  ASSUME RuntimeInv, Stop \/ DetachRegistry \/ CleanupDone
  PROVE  RuntimeInv'
<1> USE DEF Stop, DetachRegistry, CleanupDone
<1>1. UNCHANGED <<heap, lockVars, tableVars, threadVars>>
  OBVIOUS
<1>2. TypeOK'
  BY <1>1 DEF RuntimeInv, TypeOK
<1>3. StatementInv' /\ MutexInv' /\ LockInv'
  BY <1>1 DEF RuntimeInv, StatementInv, MutexInv, LockInv, WriteHeld, ReadHeld
<1>4. RowsInv' /\ IndexInv'
  BY <1>1 DEF RuntimeInv, RowsInv, IndexInv, At
<1>5. RegistryInv'
  BY DEF RuntimeInv, TypeOK, RegistryInv, OneEntryPerTable, Entries, HasEntry
<1> QED  BY <1>2, <1>3, <1>4, <1>5 DEF RuntimeInv

\* table_runtime_destroy_entry preserves it.
LEMMA DestroyEntryPreserves ==
  ASSUME RuntimeInv, NEW e \in TableName, DestroyEntry(e)
  PROVE  RuntimeInv'
<1>1. \A t \in Thread : pc[t] = "idle"
  BY DEF RuntimeInv, RegistryInv, DestroyEntry
<1>2. TypeOK'
  <2>1. /\ nextId' \in [TableName -> 1..(MaxId + 1)]
        /\ rowCount' \in [TableName -> 0..MaxId]
        /\ capacity' \in [TableName -> Nat]
        /\ schema' \in [TableName -> Shape \cup {NULL}]
    BY StatementsAssumption DEF RuntimeInv, TypeOK, DestroyEntry
  <2>2. /\ slots' \in [TableName -> [Slot -> Row \cup {NULL}]]
        /\ index' \in [TableName -> [Id -> Slot \cup {NULL}]]
    BY DEF RuntimeInv, TypeOK, DestroyEntry
  <2>3. registry' \subseteq heap' /\ heap' \subseteq TableName
    BY DEF RuntimeInv, TypeOK, RegistryInv, DestroyEntry
  <2> QED  BY <2>1, <2>2, <2>3 DEF RuntimeInv, TypeOK, DestroyEntry
<1>3. StatementInv' /\ MutexInv' /\ LockInv'
  BY DEF RuntimeInv, StatementInv, MutexInv, LockInv, WriteHeld, ReadHeld, DestroyEntry
<1>4. RegistryInv'
  BY DEF RuntimeInv, TypeOK, RegistryInv, OneEntryPerTable, Entries, HasEntry, DestroyEntry
<1>5. \A f \in TableName :
        /\ ~At(f, {"store", "index", "commit"})'
        /\ ~At(f, {"index", "commit"})'
        /\ ~At(f, {"commit"})'
        /\ ~At(f, {"store", "index", "commit"})
        /\ ~At(f, {"index", "commit"})
        /\ ~At(f, {"commit"})
  BY <1>1 DEF At, DestroyEntry
<1>6. RowsInv'
  BY <1>5, StatementsAssumption DEF RuntimeInv, TypeOK, RowsInv, DestroyEntry
<1>7. IndexInv'
  BY <1>5, StatementsAssumption DEF RuntimeInv, TypeOK, IndexInv, DestroyEntry
<1> QED  BY <1>2, <1>3, <1>4, <1>6, <1>7 DEF RuntimeInv

-------------------------------------------------------------------------------
\* The theorems

\* The initial state satisfies the invariant.
LEMMA InitInv == Init => RuntimeInv
<1> SUFFICES ASSUME Init PROVE RuntimeInv
  OBVIOUS
<1>1. TypeOK
  BY StatementsAssumption DEF Init, TypeOK
<1>2. StatementInv /\ MutexInv /\ RegistryInv
  BY TableRuntimeAssumption DEF Init, StatementInv, MutexInv, RegistryInv, OneEntryPerTable, HasEntry
<1>3. LockInv
  BY TableRuntimeAssumption DEF Init, LockInv, WriteHeld, ReadHeld
<1>4. \A e \in TableName : /\ ~At(e, {"store", "index", "commit"})
                           /\ ~At(e, {"index", "commit"})
                           /\ ~At(e, {"commit"})
  BY DEF Init, At
<1>5. RowsInv
  <2> SUFFICES ASSUME NEW e \in TableName
               PROVE  /\ nextId[e] = rowCount[e] + 1
                      /\ rowCount[e] <= capacity[e]
                      /\ \A i \in Slot : slots[e][i] = NULL /\ ~(i < rowCount[e])
    BY <1>4 DEF RowsInv
  <2> QED  BY StatementsAssumption DEF Init, Slot
<1>6. IndexInv
  BY <1>4 DEF Init, IndexInv
<1> QED  BY <1>1, <1>2, <1>3, <1>5, <1>6 DEF RuntimeInv

\* Every step preserves the invariant.
LEMMA NextInv == RuntimeInv /\ [Next]_vars => RuntimeInv'
<1> SUFFICES ASSUME RuntimeInv, [Next]_vars PROVE RuntimeInv'
  OBVIOUS
<1>1. ASSUME NEW t \in Thread, Begin(t) PROVE RuntimeInv'
  BY <1>1, BeginPreserves
<1>2. ASSUME NEW t \in Thread, Step(t) PROVE RuntimeInv'
  BY <1>2, DispatchPreserves, LockRegistryPreserves, FindEntryPreserves,
     CreateEntryPreserves, AcquireWritePreserves, AcquireReadPreserves,
     CheckSchemaPreserves, ReservePreserves, StoreRowPreserves, IndexRowPreserves,
     CommitRowPreserves, CheckLoadedPreserves, CollectPreserves, CopyRowsPreserves,
     ReleasePreserves, ReturnPreserves DEF Step
<1>3. CASE Stop \/ DetachRegistry \/ CleanupDone
  BY <1>3, ShutdownPreserves
<1>4. ASSUME NEW e \in TableName, DestroyEntry(e) PROVE RuntimeInv'
  BY <1>4, DestroyEntryPreserves
<1>5. CASE UNCHANGED vars
  <2>1. TypeOK' /\ StatementInv' /\ MutexInv'
    BY <1>5 DEF RuntimeInv, TypeOK, StatementInv, MutexInv
  <2>2. RegistryInv' /\ LockInv'
    BY <1>5 DEF RuntimeInv, RegistryInv, LockInv, OneEntryPerTable, Entries, HasEntry,
                WriteHeld, ReadHeld
  <2>3. RowsInv' /\ IndexInv'
    BY <1>5 DEF RuntimeInv, RowsInv, IndexInv, At
  <2> QED  BY <2>1, <2>2, <2>3 DEF RuntimeInv
<1> QED  BY <1>1, <1>2, <1>3, <1>4, <1>5 DEF Next, Ended

(***************************************************************************)
(* Every reachable state of the executor over table_runtime.c satisfies    *)
(* the inductive invariant: locks, registry and tables as their steps      *)
(* require, whatever the number of threads.                                *)
(***************************************************************************)
THEOREM RuntimeCorrect == Spec => []RuntimeInv
BY InitInv, NextInv, PTL DEF Spec

(***************************************************************************)
(* However many threads race to create a table under however many          *)
(* spellings, table_runtime_acquire_entry registers one entry for it.      *)
(***************************************************************************)
THEOREM OneEntryPerTableHolds == Spec => []OneEntryPerTable
<1>1. RuntimeInv => OneEntryPerTable
  BY DEF RuntimeInv, RegistryInv
<1> QED  BY <1>1, RuntimeCorrect, PTL

(***************************************************************************)
(* table_insert_row never stores a row outside the allocated array.        *)
(***************************************************************************)
THEOREM StoreWithinCapacityHolds == Spec => []StoreWithinCapacity
<1>1. RuntimeInv => StoreWithinCapacity
  <2> SUFFICES ASSUME RuntimeInv, NEW t \in Thread, pc[t] = "store"
               PROVE  rowCount[entry[t]] < capacity[entry[t]]
    BY DEF StoreWithinCapacity
  <2>1. entry[t] \in TableName
    BY DEF RuntimeInv, TypeOK, RegistryInv, HasEntry
  <2>2. At(entry[t], {"store", "index", "commit"})
    BY DEF At
  <2> QED  BY <2>1, <2>2 DEF RuntimeInv, RowsInv
<1> QED  BY <1>1, RuntimeCorrect, PTL

(***************************************************************************)
(* table_runtime_cleanup frees no entry that a thread still uses.          *)
(***************************************************************************)
THEOREM NoUseAfterFreeHolds == Spec => []NoUseAfterFree
<1>1. RuntimeInv => NoUseAfterFree
  <2> SUFFICES ASSUME RuntimeInv PROVE NoUseAfterFree
    OBVIOUS
  <2>1. \A t \in Thread : entry[t] # NULL => entry[t] \in heap
    BY DEF RuntimeInv, TypeOK, RegistryInv
  <2>2. ASSUME NEW e \in TableName, e \notin heap
        PROVE  writer[e] = NULL /\ readers[e] = {}
    <3>1. \A t \in Thread : entry[t] # e
      BY <2>1, <2>2, StatementsAssumption DEF RuntimeInv, TypeOK
    <3> QED  BY <3>1 DEF RuntimeInv, TypeOK, LockInv
  <2> QED  BY <2>1, <2>2 DEF NoUseAfterFree
<1> QED  BY <1>1, RuntimeCorrect, PTL

\* Under the read lock no INSERT is half done: the table and its index are whole.
LEMMA ReaderSeesWhole ==
  ASSUME RuntimeInv, NEW t \in Thread, pc[t] \in ReadSteps
  PROVE  /\ entry[t] \in TableName
         /\ RowsWhole(entry[t])
         /\ IndexWhole(entry[t])
<1> DEFINE e == entry[t]
<1>1. e \in TableName
  BY DEF RuntimeInv, TypeOK, RegistryInv, HasEntry
<1>2. t \in readers[e]
  BY <1>1 DEF RuntimeInv, LockInv, ReadHeld
<1>3. \A u \in Thread : entry[u] = e => pc[u] \notin WriteSteps
  BY <1>1, <1>2, TableRuntimeAssumption DEF RuntimeInv, LockInv, WriteHeld
<1>4. ~At(e, {"index", "commit"}) /\ ~At(e, {"commit"})
  BY <1>3 DEF At
<1>5. RowsWhole(e)
  BY <1>1, <1>4 DEF RuntimeInv, RowsInv, RowsWhole
<1>6. IndexWhole(e)
  BY <1>1, <1>4 DEF RuntimeInv, IndexInv, IndexWhole
<1> QED  BY <1>1, <1>5, <1>6

(***************************************************************************)
(* A SELECT always works on a table whose rows, count and next id agree    *)
(* and whose index leads to committed rows only, each at its slot: to all  *)
(* of them, or to all but those a failed split lost (executor.c:383-411,   *)
(* bptree.c:239).                                                          *)
(***************************************************************************)
THEOREM ReadersSeeWholeTableHolds == Spec => []ReadersSeeWholeTable
<1>1. RuntimeInv => ReadersSeeWholeTable
  BY ReaderSeesWhole DEF ReadersSeeWholeTable
<1> QED  BY <1>1, RuntimeCorrect, PTL

-------------------------------------------------------------------------------
\* What a step never does

\* Only the slot after the committed rows is ever written.
LEMMA CommittedStep ==
  ASSUME RuntimeInv, [Next]_vars, NEW e \in heap \cap heap'
  PROVE  /\ rowCount'[e] >= rowCount[e]
         /\ \A i \in Slot : i < rowCount[e] => slots'[e][i] = slots[e][i]
<1>1. /\ e \in TableName /\ rowCount \in [TableName -> 0..MaxId] /\ MaxId \in Nat
      /\ slots \in [TableName -> [Slot -> Row \cup {NULL}]]
  BY StatementsAssumption DEF RuntimeInv, TypeOK
<1>2. CASE UNCHANGED <<rowCount, slots>>
  BY <1>1, <1>2
<1>3. ASSUME NEW t \in Thread, StoreRow(t) \/ IndexRow(t)
      PROVE  /\ rowCount'[e] >= rowCount[e]
             /\ \A i \in Slot : i < rowCount[e] => slots'[e][i] = slots[e][i]
  <2>1. PICK r : slots' = slots \/ slots' = [slots EXCEPT ![entry[t]][rowCount[entry[t]]] = r]
    BY <1>3 DEF StoreRow, IndexRow
  <2>2. rowCount' = rowCount
    BY <1>3 DEF StoreRow, IndexRow
  <2>3. ASSUME NEW i \in Slot, i < rowCount[e] PROVE slots'[e][i] = slots[e][i]
    <3>1. i # rowCount[e]
      BY <1>1, <2>3
    <3>2. CASE e = entry[t]
      <4>1. slots'[e] = slots[e] \/ slots'[e] = [slots[e] EXCEPT ![rowCount[e]] = r]
        BY <1>1, <2>1, <3>2
      <4> QED  BY <1>1, <3>1, <4>1
    <3>3. CASE e # entry[t]
      BY <1>1, <2>1, <3>3
    <3> QED  BY <3>2, <3>3
  <2> QED  BY <1>1, <2>2, <2>3
<1>4. ASSUME NEW t \in Thread, CommitRow(t)
      PROVE  /\ rowCount'[e] >= rowCount[e]
             /\ \A i \in Slot : i < rowCount[e] => slots'[e][i] = slots[e][i]
  BY <1>1, <1>4 DEF CommitRow
<1>5. ASSUME NEW f \in TableName, DestroyEntry(f)
      PROVE  /\ rowCount'[e] >= rowCount[e]
             /\ \A i \in Slot : i < rowCount[e] => slots'[e][i] = slots[e][i]
  <2>1. e # f
    BY <1>5 DEF DestroyEntry
  <2> QED  BY <1>1, <1>5, <2>1 DEF DestroyEntry
<1>6. ASSUME NEW t \in Thread, Begin(t) \/ Step(t), ~StoreRow(t), ~IndexRow(t), ~CommitRow(t)
      PROVE  UNCHANGED <<rowCount, slots>>
  BY <1>6 DEF Step, Begin, Dispatch, LockRegistry, FindEntry, CreateEntry, AcquireWrite, AcquireRead,
     CheckSchema, Reserve, CheckLoaded, Collect, CopyRows, Release, Return
<1>7. CASE Stop \/ DetachRegistry \/ CleanupDone \/ Ended \/ UNCHANGED vars
  BY <1>2, <1>7 DEF Stop, DetachRegistry, CleanupDone, Ended
<1> QED  BY <1>2, <1>3, <1>4, <1>5, <1>6, <1>7 DEF Next

\* The registry grows by the table an INSERT names, and shrinks at the end.
LEMMA RegistryStep ==
  ASSUME RuntimeInv, [Next]_vars, NEW e \in registry' \ registry
  PROVE  \E t \in Thread : regLock = t /\ IsInsert(t) /\ Fold[stmt[t].name] = Fold[e]
<1>1. e \in registry' /\ registry' # registry /\ registry' # {}
  OBVIOUS
<1>2. PICK t \in Thread : CreateEntry(t)
  <2>1. ASSUME NEW u \in Thread, Begin(u) \/ Step(u), ~CreateEntry(u)
        PROVE  registry' = registry
    BY <2>1 DEF Step, Begin, Dispatch, LockRegistry, FindEntry, AcquireWrite, AcquireRead,
       CheckSchema, Reserve, StoreRow, IndexRow, CommitRow, CheckLoaded, Collect, CopyRows,
       Release, Return
  <2>2. ASSUME Stop \/ DetachRegistry \/ (\E f \in TableName : DestroyEntry(f)) \/ CleanupDone
                 \/ Ended \/ UNCHANGED vars
        PROVE  registry' = registry \/ registry' = {}
    BY <2>2 DEF Stop, DetachRegistry, DestroyEntry, CleanupDone, Ended
  <2> QED  BY <1>1, <2>1, <2>2 DEF Next
<1>3. e = stmt[t].name
  BY <1>2 DEF CreateEntry
<1> QED  BY <1>2, <1>3 DEF RuntimeInv, StatementInv, MutexInv, CreateEntry

(***************************************************************************)
(* Whatever later inserts do or fail to do, a committed row stays what and *)
(* where it is until its table is freed (table_runtime.c:437-486).         *)
(***************************************************************************)
THEOREM CommittedRowsStableHolds == Spec => CommittedRowsStable
<1>1. RuntimeInv /\ [Next]_vars =>
        [\A e \in heap \cap heap' :
           /\ rowCount'[e] >= rowCount[e]
           /\ \A i \in Slot : i < rowCount[e] => slots'[e][i] = slots[e][i]]_vars
  BY CommittedStep
<1> QED  BY <1>1, RuntimeCorrect, PTL DEF Spec, CommittedRowsStable

(***************************************************************************)
(* Whatever is read, only an INSERT adds an entry to the registry, for the *)
(* table it names and under the registry mutex (table_runtime.c:378-385).  *)
(***************************************************************************)
THEOREM OnlyInsertsGrowRegistryHolds == Spec => OnlyInsertsGrowRegistry
<1>1. RuntimeInv /\ [Next]_vars =>
        [\A e \in registry' \ registry :
           \E t \in Thread : regLock = t /\ IsInsert(t) /\ Fold[stmt[t].name] = Fold[e]]_vars
  BY RegistryStep
<1> QED  BY <1>1, RuntimeCorrect, PTL DEF Spec, OnlyInsertsGrowRegistry
===============================================================================
