--------------------------- MODULE TableStoreProofs ---------------------------
(***************************************************************************)
(* The executor over table_runtime.c implements TableStore: every step of  *)
(* a thread is one atomic step of its statement or none, for every number  *)
(* of threads, tables and rows, and wherever an allocation fails.          *)
(***************************************************************************)
EXTENDS TableRuntimeProofs, SequenceTheorems

USE DEF Goto, Decide, IsInsert, vars, lockVars, tableVars, threadVars, Slot, Id,
        WriteSteps, ReadSteps, Steps

-------------------------------------------------------------------------------
\* What the threads know of the tables they work on

\* The slots of entry e that a WHERE clause selects, however they are found:
\* by id, those whose key the index still has.
Selected(e, w) ==
  { i \in Slot : /\ i < rowCount[e]
                 /\ Matches(w, slots[e][i])
                 /\ w.kind = "id" => index[e][i + 1] # NULL }

(***************************************************************************)
(* A statement has a result once it took effect, works on an entry of the  *)
(* table it names, and what it checked or stored earlier is still so at    *)
(* the step that relies on it.                                             *)
(***************************************************************************)
ProgressInv(t) ==
  LET e == entry[t]
      s == stmt[t]
  IN /\ result[t] = NULL <=> pc[t] \notin {"release", "return"}
     /\ HasEntry(t) => Fold[e] = Fold[s.name]
     /\ pc[t] \in {"registry", "find", "create", "lock"} \cup WriteSteps /\ IsInsert(t)
          => s.shape \notin MentionsId
     /\ pc[t] \in {"reserve", "store", "index", "commit"} => schema[e] = s.shape
     /\ pc[t] \in {"index", "commit"} =>
          slots[e][rowCount[e]] = [id |-> nextId[e], val |-> s.val]
     /\ pc[t] \in {"collect", "copy"} => schema[e] # NULL /\ s.where.kind # "bad_projection"
     /\ pc[t] = "copy" =>
          /\ hits[t] = Selected(e, s.where)
          /\ s.where.kind = "unknown_column" => rowCount[e] = 0

\* An entry that is not allocated, or was just allocated, is empty.
FreshInv == \A e \in TableName : e \notin heap => schema[e] = NULL /\ rowCount[e] = 0

StoreInv == FreshInv /\ \A t \in Thread : ProgressInv(t)

-------------------------------------------------------------------------------
\* What the other threads see of a step

\* No step of a thread changes where another stands, nor the table the other
\* holds a lock of.
LEMMA OthersUndisturbed ==
  ASSUME RuntimeInv, NEW t \in Thread, Begin(t) \/ Step(t), NEW u \in Thread \ {t}
  PROVE  /\ pc'[u] = pc[u] /\ stmt'[u] = stmt[u] /\ entry'[u] = entry[u]
         /\ hits'[u] = hits[u] /\ result'[u] = result[u]
         /\ pc[u] \in WriteSteps \cup ReadSteps =>
              /\ schema'[entry[u]] = schema[entry[u]]
              /\ slots'[entry[u]] = slots[entry[u]]
              /\ rowCount'[entry[u]] = rowCount[entry[u]]
              /\ nextId'[entry[u]] = nextId[entry[u]]
              /\ index'[entry[u]] = index[entry[u]]
<1>1. /\ pc \in [Thread -> Steps] /\ stmt \in [Thread -> Workload \cup {NULL}]
      /\ entry \in [Thread -> TableName \cup {NULL}] /\ hits \in [Thread -> SUBSET Slot]
      /\ result \in [Thread -> QueryResult \cup {NULL}]
      /\ schema \in [TableName -> Shape \cup {NULL}]
      /\ slots \in [TableName -> [Slot -> Row \cup {NULL}]]
      /\ rowCount \in [TableName -> 0..MaxId] /\ nextId \in [TableName -> 1..(MaxId + 1)]
      /\ index \in [TableName -> [Id -> Slot \cup {NULL}]]
  BY DEF RuntimeInv, TypeOK
<1> HIDE DEF WriteSteps, ReadSteps, Steps, Slot, Id
<1>2. pc'[u] = pc[u] /\ stmt'[u] = stmt[u] /\ entry'[u] = entry[u]
      /\ hits'[u] = hits[u] /\ result'[u] = result[u]
  BY <1>1 DEF Step, Begin, Dispatch, LockRegistry, FindEntry, CreateEntry, AcquireWrite,
     AcquireRead, CheckSchema, Reserve, StoreRow, IndexRow, CommitRow, CheckLoaded, Collect,
     CopyRows, Release, Return
<1>3. pc[t] \notin WriteSteps => UNCHANGED <<schema, slots, rowCount, nextId, index>>
  BY DEF WriteSteps, Step, Begin, Dispatch, LockRegistry, FindEntry, CreateEntry, AcquireWrite,
     AcquireRead, CheckSchema, Reserve, StoreRow, IndexRow, CommitRow, CheckLoaded, Collect,
     CopyRows, Release, Return
<1>4. ASSUME pc[t] \in WriteSteps, NEW e \in TableName \ {entry[t]}
      PROVE  /\ schema'[e] = schema[e] /\ slots'[e] = slots[e]
             /\ rowCount'[e] = rowCount[e] /\ nextId'[e] = nextId[e] /\ index'[e] = index[e]
  BY <1>1, <1>4 DEF WriteSteps, Step, Begin, Dispatch, LockRegistry, FindEntry, CreateEntry,
     AcquireWrite, AcquireRead, CheckSchema, Reserve, StoreRow, IndexRow, CommitRow, CheckLoaded,
     Collect, CopyRows, Release, Return
<1>5. ASSUME pc[t] \in WriteSteps, pc[u] \in WriteSteps \cup ReadSteps
      PROVE  entry[u] \in TableName \ {entry[t]}
  <2>1. entry[u] \in TableName
    BY <1>1, <1>5 DEF RuntimeInv, TypeOK, RegistryInv, HasEntry
  <2>2. entry[u] # entry[t]
    BY <1>5, WriterAlone DEF WriteHeld, ReadHeld
  <2> QED  BY <2>1, <2>2
<1> QED  BY <1>2, <1>3, <1>4, <1>5

\* So what another thread knows stays true.
LEMMA OthersProgress ==
  ASSUME RuntimeInv, NEW t \in Thread, Begin(t) \/ Step(t), NEW u \in Thread \ {t}, ProgressInv(u)
  PROVE  ProgressInv(u)'
<1>1. /\ pc'[u] = pc[u] /\ stmt'[u] = stmt[u] /\ entry'[u] = entry[u]
      /\ hits'[u] = hits[u] /\ result'[u] = result[u]
      /\ pc[u] \in WriteSteps \cup ReadSteps =>
           /\ schema'[entry[u]] = schema[entry[u]]
           /\ slots'[entry[u]] = slots[entry[u]]
           /\ rowCount'[entry[u]] = rowCount[entry[u]]
           /\ nextId'[entry[u]] = nextId[entry[u]]
           /\ index'[entry[u]] = index[entry[u]]
  BY OthersUndisturbed
<1>2. pc[u] \in ReadSteps => \A w : Selected(entry[u], w)' = Selected(entry[u], w)
  BY <1>1 DEF Selected
<1> HIDE DEF Slot
<1> QED  BY <1>1, <1>2 DEF ProgressInv, HasEntry

-------------------------------------------------------------------------------
\* What is known of the tables is kept by every step

\* The WHERE clause of a SELECT and the parts of an INSERT.
LEMMA StatementParts ==
  ASSUME RuntimeInv, NEW t \in Thread, stmt[t] # NULL
  PROVE  /\ stmt[t].op \in {"insert", "select", "delete"}
         /\ stmt[t].name \in TableName
         /\ IsInsert(t) => stmt[t].shape \in Shape /\ stmt[t].val \in Value
         /\ stmt[t].op = "select" => stmt[t].where \in Where
<1>1. stmt[t] \in Statement
  BY StatementsAssumption DEF RuntimeInv, TypeOK
<1> QED  BY <1>1 DEF Statement, InsertStatement, SelectStatement, DeleteStatement

\* The index, when it is used, leads to the slots the scan would find.
LEMMA CollectedIsSelected ==
  ASSUME RuntimeInv, NEW t \in Thread, pc[t] \in ReadSteps, NEW w \in Where
  PROVE  (IF UsesIndex(entry[t], w) THEN IndexLookup(entry[t], w.id) ELSE LinearScan(entry[t], w))
           = Selected(entry[t], w)
<1> DEFINE e == entry[t]
           n == rowCount[e]
<1>1. e \in TableName /\ RowsWhole(e) /\ IndexWhole(e)
  BY ReaderSeesWhole
<1>2. n \in 0..MaxId /\ MaxId \in Nat
  BY <1>1, StatementsAssumption DEF RuntimeInv, TypeOK
<1>3. \A i \in Slot : i < n => slots[e][i] # NULL /\ slots[e][i].id = i + 1
  BY <1>1 DEF RowsWhole
<1>4. \A i \in Id : IF i <= n THEN index[e][i] = i - 1 \/ (i > 1 /\ index[e][i] = NULL)
                              ELSE index[e][i] = NULL
  BY <1>1 DEF IndexWhole
<1>5. \A i \in Id : i - 1 # NULL
  BY StatementsAssumption
<1>6. CASE ~UsesIndex(e, w)
  <2>1. CASE w.kind # "id"
    BY <1>3, <1>6, <2>1 DEF LinearScan, Selected
  <2>2. CASE w.kind = "id"
    <3>1. n = 0
      BY <1>2, <1>4, <1>5, <1>6, <2>2 DEF UsesIndex
    <3> QED  BY <1>6, <3>1 DEF LinearScan, Selected
  <2> QED  BY <2>1, <2>2
<1>7. CASE UsesIndex(e, w)
  <2>1. w.kind = "id" /\ w.id \in Nat
    BY <1>7 DEF UsesIndex, Where
  <2>2. Selected(e, w) = { i \in Slot : i < n /\ i + 1 = w.id /\ index[e][i + 1] # NULL }
    BY <1>3, <2>1 DEF Selected, Matches
  <2>3. CASE w.id \in Id /\ w.id <= n /\ index[e][w.id] # NULL
    <3>1. IndexLookup(e, w.id) = {w.id - 1}
      BY <1>4, <1>5, <2>3 DEF IndexLookup
    <3>2. Selected(e, w) = {w.id - 1}
      BY <1>2, <2>1, <2>2, <2>3
    <3> QED  BY <1>7, <3>1, <3>2
  <2>4. CASE ~(w.id \in Id /\ w.id <= n /\ index[e][w.id] # NULL)
    <3>1. IndexLookup(e, w.id) = {}
      BY <1>4, <2>4 DEF IndexLookup
    <3>2. Selected(e, w) = {}
      BY <1>2, <2>1, <2>2, <2>4
    <3> QED  BY <1>7, <3>1, <3>2
  <2> QED  BY <2>3, <2>4
<1> QED  BY <1>6, <1>7

\* The steps before a lock is taken, and the end of a statement.
LEMMA EntryProgress ==
  ASSUME RuntimeInv, NEW t \in Thread, ProgressInv(t),
         \/ Begin(t) \/ Dispatch(t) \/ LockRegistry(t) \/ FindEntry(t) \/ CreateEntry(t)
         \/ AcquireWrite(t) \/ AcquireRead(t) \/ Release(t) \/ Return(t)
  PROVE  ProgressInv(t)'
<1>1. /\ pc \in [Thread -> Steps] /\ stmt \in [Thread -> Workload \cup {NULL}]
      /\ entry \in [Thread -> TableName \cup {NULL}]
      /\ result \in [Thread -> QueryResult \cup {NULL}]
  BY DEF RuntimeInv, TypeOK
<1>2. NotFound # NULL /\ Failed # NULL /\ NULL \notin Workload
  BY StatementsAssumption, ResultTypes
<1>3. CASE Begin(t) \/ Dispatch(t) \/ LockRegistry(t)
  BY <1>1, <1>2, <1>3 DEF ProgressInv, HasEntry, Begin, Dispatch, LockRegistry
<1>4. CASE FindEntry(t) \/ CreateEntry(t)
  <2>1. stmt[t].name \in TableName /\ pc[t] \in {"find", "create"}
    BY <1>4, StatementParts DEF RuntimeInv, StatementInv, FindEntry, CreateEntry
  <2>2. UNCHANGED stmt /\ pc'[t] \in {"lock", "return", "create"}
    BY <1>1, <1>4 DEF FindEntry, CreateEntry
  <2>3. result'[t] = NULL <=> pc'[t] # "return"
    BY <1>1, <1>2, <1>4 DEF ProgressInv, FindEntry, CreateEntry
  <2>4. pc'[t] = "lock" => Fold[entry'[t]] = Fold[stmt[t].name]
    BY <1>1, <1>4 DEF FindEntry, CreateEntry, Entries
  <2> QED  BY <2>1, <2>2, <2>3, <2>4 DEF ProgressInv, HasEntry
<1>5. CASE AcquireWrite(t) \/ AcquireRead(t)
  BY <1>1, <1>5 DEF ProgressInv, HasEntry, AcquireWrite, AcquireRead
<1>6. CASE Release(t) \/ Return(t)
  BY <1>1, <1>6 DEF ProgressInv, HasEntry, Release, Return
<1> QED  BY <1>3, <1>4, <1>5, <1>6

\* The steps of an INSERT.
LEMMA InsertProgress ==
  ASSUME RuntimeInv, RuntimeInv', NEW t \in Thread, ProgressInv(t),
         CheckSchema(t) \/ Reserve(t) \/ StoreRow(t) \/ IndexRow(t) \/ CommitRow(t)
  PROVE  ProgressInv(t)'
<1> DEFINE e == entry[t]
<1>1. /\ pc \in [Thread -> Steps] /\ e \in TableName
      /\ result \in [Thread -> QueryResult \cup {NULL}]
      /\ schema \in [TableName -> Shape \cup {NULL}]
      /\ slots \in [TableName -> [Slot -> Row \cup {NULL}]]
      /\ rowCount \in [TableName -> 0..MaxId] /\ nextId \in [TableName -> 1..(MaxId + 1)]
  BY WriterAlone DEF RuntimeInv, TypeOK, WriteHeld, CheckSchema, Reserve, StoreRow, IndexRow,
     CommitRow
<1>2. Inserted # NULL /\ Failed # NULL
  BY StatementsAssumption, ResultTypes
<1>3. IsInsert(t) /\ HasEntry(t) /\ UNCHANGED <<stmt, entry>>
  BY DEF RuntimeInv, StatementInv, HasEntry, CheckSchema, Reserve, StoreRow, IndexRow, CommitRow
<1>4. CASE CheckSchema(t)
  BY <1>1, <1>2, <1>3, <1>4 DEF ProgressInv, HasEntry, CheckSchema
<1>5. CASE Reserve(t)
  BY <1>1, <1>2, <1>3, <1>5 DEF ProgressInv, HasEntry, Reserve
<1>6. CASE StoreRow(t)
  <2>1. nextId[e] = rowCount[e] + 1 /\ MaxId \in Nat
    BY <1>1, StatementsAssumption DEF RuntimeInv, RowsInv
  <2>2. pc'[t] = "index" => slots'[e][rowCount[e]] = [id |-> nextId[e], val |-> stmt[t].val]
    <3>1. SUFFICES ASSUME pc'[t] = "index"
                   PROVE  slots'[e][rowCount[e]] = [id |-> nextId[e], val |-> stmt[t].val]
      OBVIOUS
    <3>2. /\ nextId[e] <= MaxId
          /\ slots' = [slots EXCEPT ![e][rowCount[e]] = [id |-> nextId[e], val |-> stmt[t].val]]
      BY <1>1, <1>6, <3>1 DEF StoreRow
    <3>3. rowCount[e] \in Slot
      BY <1>1, <2>1, <3>2
    <3> QED  BY <1>1, <3>2, <3>3
  <2>3. UNCHANGED <<schema, rowCount, nextId>> /\ pc'[t] \in {"index", "release"}
        /\ (result'[t] = NULL <=> pc'[t] # "release")
    BY <1>1, <1>2, <1>6 DEF ProgressInv, StoreRow
  <2> QED  BY <1>3, <1>6, <2>2, <2>3 DEF ProgressInv, HasEntry, StoreRow
<1>7. CASE IndexRow(t)
  BY <1>1, <1>2, <1>3, <1>7 DEF ProgressInv, HasEntry, IndexRow
<1>8. CASE CommitRow(t)
  BY <1>1, <1>2, <1>3, <1>8 DEF ProgressInv, HasEntry, CommitRow
<1> QED  BY <1>4, <1>5, <1>6, <1>7, <1>8

\* The steps of a SELECT.
LEMMA SelectProgress ==
  ASSUME RuntimeInv, NEW t \in Thread, ProgressInv(t),
         CheckLoaded(t) \/ Collect(t) \/ CopyRows(t)
  PROVE  ProgressInv(t)'
<1> DEFINE e == entry[t]
           w == stmt[t].where
<1>1. /\ pc \in [Thread -> Steps] /\ hits \in [Thread -> SUBSET Slot]
      /\ result \in [Thread -> QueryResult \cup {NULL}]
  BY DEF RuntimeInv, TypeOK
<1>2. NotFound # NULL /\ Failed # NULL
  BY StatementsAssumption, ResultTypes
<1>3. ~IsInsert(t) /\ HasEntry(t) /\ UNCHANGED <<tableVars, stmt, entry>>
      /\ pc[t] \in ReadSteps /\ w \in Where
  BY StatementParts DEF RuntimeInv, StatementInv, HasEntry, CheckLoaded, Collect, CopyRows
<1>4. CASE CheckLoaded(t)
  BY <1>1, <1>2, <1>3, <1>4 DEF ProgressInv, HasEntry, CheckLoaded
<1>5. CASE Collect(t)
  <2>1. Selected(e, w)' = Selected(e, w)
    BY <1>3 DEF Selected
  <2>2. pc'[t] = "copy" => hits'[t] = Selected(e, w) /\ (w.kind = "unknown_column" => rowCount[e] = 0)
    BY <1>1, <1>3, <1>5, CollectedIsSelected DEF Collect
  <2>3. pc'[t] \in {"copy", "release"} /\ (result'[t] = NULL <=> pc'[t] = "copy")
    BY <1>1, <1>2, <1>5 DEF ProgressInv, Collect
  <2> HIDE DEF Slot
  <2>4. pc[t] = "collect"
    BY <1>5 DEF Collect
  <2> QED  BY <1>3, <2>1, <2>2, <2>3, <2>4 DEF ProgressInv, HasEntry
<1>6. CASE CopyRows(t)
  <2>1. \A i \in hits[t] : slots[e][i] \in Row \cup {NULL}
    <3>1. hits[t] \in SUBSET Slot /\ slots[e] \in [Slot -> Row \cup {NULL}]
      BY <1>1, <1>3 DEF RuntimeInv, TypeOK, RegistryInv
    <3> HIDE DEF Slot
    <3> QED  BY <3>1
  <2>2. PICK r \in QueryResult : result' = [result EXCEPT ![t] = r]
    <3>1. CASE \A i \in hits[t] : slots[e][i] # NULL
      <4>1. { slots[e][i] : i \in hits[t] } \in SUBSET Row
        BY <2>1, <3>1
      <4> QED  BY <1>6, <4>1, ResultTypes DEF CopyRows
    <3>2. CASE ~ \A i \in hits[t] : slots[e][i] # NULL
      BY <1>6, <3>2, ResultTypes DEF CopyRows
    <3> QED  BY <3>1, <3>2
  <2>3. pc'[t] = "release" /\ result'[t] # NULL
    BY <1>1, <1>6, <2>2, StatementsAssumption DEF CopyRows
  <2> QED  BY <1>3, <1>6, <2>3 DEF ProgressInv, HasEntry, CopyRows
<1> QED  BY <1>4, <1>5, <1>6

\* Every step of a thread keeps what it knows.
LEMMA OwnProgress ==
  ASSUME RuntimeInv, RuntimeInv', NEW t \in Thread, ProgressInv(t), Begin(t) \/ Step(t)
  PROVE  ProgressInv(t)'
BY EntryProgress, InsertProgress, SelectProgress DEF Step

\* A table is written only while its entry is registered, and emptied when it
\* is freed.
LEMMA FreshKept ==
  ASSUME RuntimeInv, FreshInv, [Next]_vars
  PROVE  FreshInv'
<1>1. /\ schema \in [TableName -> Shape \cup {NULL}] /\ rowCount \in [TableName -> 0..MaxId]
  BY DEF RuntimeInv, TypeOK
<1>2. CASE UNCHANGED <<schema, rowCount>> /\ heap \subseteq heap'
  BY <1>2 DEF FreshInv
<1>3. ASSUME NEW t \in Thread, CheckSchema(t) \/ CommitRow(t) PROVE FreshInv'
  <2>1. entry[t] \in heap
    BY <1>3 DEF RuntimeInv, TypeOK, RegistryInv, HasEntry, CheckSchema, CommitRow
  <2> QED  BY <1>1, <1>3, <2>1 DEF FreshInv, CheckSchema, CommitRow
<1>4. ASSUME NEW t \in Thread, Begin(t) \/ Step(t), ~CheckSchema(t), ~CommitRow(t)
      PROVE  UNCHANGED <<schema, rowCount>> /\ heap \subseteq heap'
  BY <1>4 DEF Step, Begin, Dispatch, LockRegistry, FindEntry, CreateEntry, AcquireWrite, AcquireRead,
     Reserve, StoreRow, IndexRow, CheckLoaded, Collect, CopyRows, Release, Return
<1>5. ASSUME NEW e \in TableName, DestroyEntry(e) PROVE FreshInv'
  BY <1>1, <1>5 DEF FreshInv, DestroyEntry
<1>6. CASE Stop \/ DetachRegistry \/ CleanupDone \/ Ended \/ UNCHANGED vars
  BY <1>2, <1>6 DEF Stop, DetachRegistry, CleanupDone, Ended
<1> QED  BY <1>2, <1>3, <1>4, <1>5, <1>6 DEF Next

\* Every step keeps what the refinement needs.
LEMMA StoreStep ==
  ASSUME RuntimeInv, RuntimeInv', StoreInv, [Next]_vars
  PROVE  StoreInv'
<1>1. FreshInv'
  BY FreshKept DEF StoreInv
<1>2. ASSUME NEW t \in Thread, Begin(t) \/ Step(t) PROVE \A u \in Thread : ProgressInv(u)'
  <2>1. \A u \in Thread \ {t} : ProgressInv(u)'
    BY <1>2, OthersProgress DEF StoreInv
  <2>2. ProgressInv(t)'
    BY <1>2, OwnProgress DEF StoreInv
  <2> QED  BY <2>1, <2>2
<1>3. CASE Stop \/ DetachRegistry \/ CleanupDone \/ Ended \/ UNCHANGED vars
  <2>1. UNCHANGED <<tableVars, threadVars>>
    BY <1>3 DEF Stop, DetachRegistry, CleanupDone, Ended
  <2>2. \A e, w : Selected(e, w)' = Selected(e, w)
    BY <2>1 DEF Selected
  <2> HIDE DEF Slot
  <2>3. \A u \in Thread : ProgressInv(u)'
    BY <2>1, <2>2 DEF StoreInv, ProgressInv, HasEntry
  <2> QED  BY <1>1, <2>3 DEF StoreInv
<1>4. ASSUME NEW e \in TableName, DestroyEntry(e) PROVE \A u \in Thread : ProgressInv(u)'
  <2>1. \A u \in Thread : pc[u] = "idle" /\ UNCHANGED threadVars
    BY <1>4 DEF RuntimeInv, RegistryInv, DestroyEntry
  <2> QED  BY <2>1 DEF StoreInv, ProgressInv, HasEntry
<1> QED  BY <1>1, <1>2, <1>3, <1>4 DEF Next, StoreInv

\* It holds at the start.
LEMMA StoreBegins == Init => StoreInv
BY DEF Init, StoreInv, FreshInv, ProgressInv, HasEntry

-------------------------------------------------------------------------------
\* The tables as TableStore sees them

USE DEF Store!storeVars

\* One entry at most stands for a table, so the choice of EntryOf is none.
LEMMA OneChosen ==
  ASSUME NEW R, NEW e \in R, \A f \in R : Fold[f] = Fold[e] => f = e
  PROVE  (CHOOSE f \in R : Fold[f] = Fold[e]) = e
OBVIOUS

LEMMA EntryChosen ==
  ASSUME OneEntryPerTable, NEW e \in registry
  PROVE  Registered(Fold[e]) /\ EntryOf(Fold[e]) = e
BY OneChosen DEF OneEntryPerTable, Registered, EntryOf

LEMMA EntryChosenNext ==
  ASSUME OneEntryPerTable', NEW e \in registry'
  PROVE  Registered(Fold[e])' /\ EntryOf(Fold[e])' = e
<1>1. \A f \in registry' : Fold[f] = Fold[e] => f = e
  BY DEF OneEntryPerTable
<1>2. (CHOOSE f \in registry' : Fold[f] = Fold[e]) = e
  BY <1>1, OneChosen
<1> QED  BY <1>2 DEF Registered, EntryOf

\* A table whose schema, committed rows and keys stay is the same table; an
\* entry that is new and empty stands for a table that is not there yet.
LEMMA TableKept ==
  ASSUME OneEntryPerTable, OneEntryPerTable', NEW k,
         \A e \in registry : Fold[e] = k =>
           /\ e \in registry'
           /\ schema'[e] = schema[e] /\ rowCount'[e] = rowCount[e]
           /\ \A i \in 1..rowCount[e] :
                slots'[e][i - 1] = slots[e][i - 1] /\ index'[e][i] = index[e][i],
         \A e \in registry' \ registry : Fold[e] = k => schema'[e] = NULL /\ rowCount'[e] = 0
  PROVE  /\ TableSchema(k)' = TableSchema(k) /\ TableRows(k)' = TableRows(k)
         /\ TableLost(k)' = TableLost(k)
<1>1. CASE Registered(k)
  <2>1. PICK e \in registry : Fold[e] = k
    BY <1>1 DEF Registered
  <2>2. EntryOf(k) = e /\ Registered(k)' /\ EntryOf(k)' = e
    BY <2>1, EntryChosen, EntryChosenNext
  <2>3. TableSchema(k)' = TableSchema(k)
    BY <1>1, <2>1, <2>2 DEF TableSchema
  <2>4. TableRows(k) = [i \in 1..rowCount[e] |-> slots[e][i - 1]]
    BY <1>1, <2>2 DEF TableRows
  <2>5. TableRows(k)' = [i \in 1..rowCount'[e] |-> slots'[e][i - 1]]
    BY <2>2 DEF TableRows
  <2>6. TableLost(k) = { i \in 1..rowCount[e] : index[e][i] = NULL }
    BY <1>1, <2>2 DEF TableLost
  <2>7. TableLost(k)' = { i \in 1..rowCount'[e] : index'[e][i] = NULL }
    BY <2>2 DEF TableLost
  <2> QED  BY <2>1, <2>3, <2>4, <2>5, <2>6, <2>7
<1>2. CASE ~Registered(k)
  <2>1. TableSchema(k) = NULL /\ TableRows(k) = <<>> /\ TableLost(k) = {}
    BY <1>2 DEF TableSchema, TableRows, TableLost
  <2>2. CASE Registered(k)'
    <3>1. PICK e \in registry' : Fold[e] = k
      BY <2>2 DEF Registered
    <3>2. EntryOf(k)' = e
      BY <3>1, EntryChosenNext
    <3>3. schema'[e] = NULL /\ rowCount'[e] = 0
      BY <1>2, <3>1 DEF Registered
    <3>4. TableRows(k)' = [i \in 1..0 |-> slots'[e][i - 1]]
      BY <2>2, <3>2, <3>3 DEF TableRows
    <3>5. TableLost(k)' = {}
      BY <2>2, <3>2, <3>3 DEF TableLost
    <3> QED  BY <2>1, <2>2, <3>2, <3>3, <3>4, <3>5 DEF TableSchema
  <2>3. CASE ~Registered(k)'
    BY <2>1, <2>3 DEF TableSchema, TableRows, TableLost
  <2> QED  BY <2>2, <2>3
<1> QED  BY <1>1, <1>2

\* The table a thread works on, seen from both sides.
LEMMA TableSeen ==
  ASSUME RuntimeInv, NEW t \in Thread, ProgressInv(t), HasEntry(t)
  PROVE  LET e == entry[t]
             k == Fold[stmt[t].name]
         IN  /\ stmt[t] # NULL /\ k \in Table
             /\ e \in registry /\ e \in TableName /\ Fold[e] = k
             /\ \A f \in registry : Fold[f] = k => f = e
             /\ TableSchema(k) = schema[e]
             /\ TableRows(k) = [i \in 1..rowCount[e] |-> slots[e][i - 1]]
             /\ TableRows(k) \in Seq(Row) /\ Len(TableRows(k)) = rowCount[e]
             /\ TableLost(k) = { i \in 1..rowCount[e] : index[e][i] = NULL }
             /\ { TableRows(k)[i] : i \in 1..Len(TableRows(k)) }
                  = { slots[e][i] : i \in {j \in Slot : j < rowCount[e]} }
<1> DEFINE e == entry[t]
           k == Fold[stmt[t].name]
<1>1. e \in registry /\ e \in TableName /\ Fold[e] = k /\ stmt[t] # NULL
  BY DEF RuntimeInv, TypeOK, RegistryInv, StatementInv, HasEntry, ProgressInv
<1>2. k \in Table
  BY <1>1 DEF Table
<1>3. \A f \in registry : Fold[f] = k => f = e
  BY <1>1 DEF RuntimeInv, RegistryInv, OneEntryPerTable
<1>4. Registered(k) /\ EntryOf(k) = e
  BY <1>1, EntryChosen DEF RuntimeInv, RegistryInv
<1>5. /\ rowCount[e] \in 0..MaxId /\ MaxId \in Nat
      /\ \A i \in Slot : i < rowCount[e] => slots[e][i] \in Row
  BY <1>1, StatementsAssumption DEF RuntimeInv, TypeOK, RowsInv
<1>6. TableSchema(k) = schema[e] /\ TableRows(k) = [i \in 1..rowCount[e] |-> slots[e][i - 1]]
      /\ TableLost(k) = { i \in 1..rowCount[e] : index[e][i] = NULL }
  BY <1>4 DEF TableSchema, TableRows, TableLost
<1>7. \A i \in 1..rowCount[e] : i - 1 \in Slot /\ i - 1 < rowCount[e]
  BY <1>5
<1>8. TableRows(k) \in Seq(Row) /\ Len(TableRows(k)) = rowCount[e]
  <2>1. TableRows(k) \in [1..rowCount[e] -> Row]
    BY <1>5, <1>6, <1>7
  <2> QED  BY <1>5, <2>1
<1>9. { TableRows(k)[i] : i \in 1..Len(TableRows(k)) }
        = { slots[e][i] : i \in {j \in Slot : j < rowCount[e]} }
  <2>1. \A j \in Slot : j < rowCount[e] => j + 1 \in 1..rowCount[e] /\ (j + 1) - 1 = j
    BY <1>5
  <2>2. \A i \in 1..rowCount[e] : TableRows(k)[i] = slots[e][i - 1]
    BY <1>6
  <2> HIDE DEF Slot, e, k
  <2>3. \A j \in Slot : j < rowCount[e] => \E i \in 1..rowCount[e] : TableRows(k)[i] = slots[e][j]
    BY <2>1, <2>2
  <2>4. \A i \in 1..rowCount[e] : \E j \in Slot : j < rowCount[e] /\ TableRows(k)[i] = slots[e][j]
    BY <1>7, <2>2
  <2> DEFINE Seen == { TableRows(k)[i] : i \in 1..rowCount[e] }
             Kept == { slots[e][i] : i \in {j \in Slot : j < rowCount[e]} }
  <2>5. \A r : r \in Seen <=> r \in Kept
    BY <2>3, <2>4
  <2>6. Seen = Kept
    <3> HIDE DEF Seen, Kept
    <3> QED  BY <2>5
  <2> QED  BY <1>8, <2>6
<1> QED  BY <1>1, <1>2, <1>3, <1>6, <1>8, <1>9

\* Both modules mean the same results.
LEMMA SameResults ==
  /\ Store!Inserted = Inserted /\ Store!Failed = Failed /\ Store!NotFound = NotFound
  /\ \A R : Store!Rows(R) = Rows(R)
  /\ \A w, r : Store!Matches(w, r) <=> Matches(w, r)
BY DEF Store!Inserted, Inserted, Store!Failed, Failed, Store!NotFound, NotFound, Store!Rows, Rows,
       Store!Matches, Matches

\* A sequence is the function of its places.
LEMMA SeqIsFunction ==
  ASSUME NEW S, NEW s \in Seq(S), NEW m, Len(s) = m
  PROVE  s = [i \in 1..m |-> s[i]]
OBVIOUS

\* The committed rows of every table but f keep their keys in the index.
KeysKept(f) == \A e \in registry \ {f} : \A i \in 1..rowCount[e] : index'[e][i] = index[e][i]

\* Only loading a schema, counting a row and losing keys change the tables as
\* seen from outside.
LEMMA RowsUnseen ==
  ASSUME RuntimeInv, RuntimeInv', FreshInv, NEW t \in Thread, Begin(t) \/ Step(t),
         UNCHANGED <<schema, rowCount>>, NEW f, KeysKept(f),
         NEW k, f \notin registry \/ Fold[f] # k
  PROVE  /\ TableSchema(k)' = TableSchema(k) /\ TableRows(k)' = TableRows(k)
         /\ TableLost(k)' = TableLost(k)
<1>1. OneEntryPerTable /\ OneEntryPerTable' /\ heap \subseteq TableName /\ registry \subseteq heap
  BY DEF RuntimeInv, RegistryInv, TypeOK
<1>2. /\ registry \subseteq registry' /\ heap \subseteq heap'
      /\ \A e \in registry' \ registry : e \in TableName /\ e \notin heap
  <2>1. CASE CreateEntry(t)
    <3>1. stmt[t].name \in TableName /\ registry = heap
      BY <2>1, StatementParts DEF RuntimeInv, TypeOK, StatementInv, RegistryInv, CreateEntry
    <3> QED  BY <2>1, <3>1 DEF CreateEntry
  <2>2. CASE ~CreateEntry(t)
    <3>1. UNCHANGED <<registry, heap>>
      BY <2>2 DEF Step, Begin, Dispatch, LockRegistry, FindEntry, AcquireWrite, AcquireRead,
         CheckSchema, Reserve, StoreRow, IndexRow, CommitRow, CheckLoaded, Collect, CopyRows,
         Release, Return
    <3> QED  BY <3>1
  <2> QED  BY <2>1, <2>2
<1>3. \A e \in registry' \ registry : schema'[e] = NULL /\ rowCount'[e] = 0
  BY <1>2 DEF FreshInv
<1>4. ASSUME NEW e \in registry, NEW i \in 1..rowCount[e] PROVE slots'[e][i - 1] = slots[e][i - 1]
  <2>1. e \in heap \cap heap' /\ e \in TableName
    BY <1>1, <1>2
  <2>2. rowCount[e] \in 0..MaxId /\ MaxId \in Nat
    BY <2>1, StatementsAssumption DEF RuntimeInv, TypeOK
  <2>3. i - 1 \in Slot /\ i - 1 < rowCount[e]
    BY <2>2
  <2>4. [Next]_vars
    BY DEF Next
  <2> HIDE DEF Slot
  <2> QED  BY <2>1, <2>3, <2>4, CommittedStep
<1>5. \A e \in registry : Fold[e] = k =>
        /\ e \in registry'
        /\ schema'[e] = schema[e] /\ rowCount'[e] = rowCount[e]
        /\ \A i \in 1..rowCount[e] : slots'[e][i - 1] = slots[e][i - 1] /\ index'[e][i] = index[e][i]
  BY <1>2, <1>4 DEF KeysKept
<1> QED  BY <1>1, <1>3, <1>5, TableKept

\* The tables are the same seen from outside when no key is lost.
Unseen ==
  \A k : /\ TableSchema(k)' = TableSchema(k) /\ TableRows(k)' = TableRows(k)
         /\ TableLost(k)' = TableLost(k)

LEMMA TablesUnseen ==
  ASSUME RuntimeInv, RuntimeInv', FreshInv, NEW t \in Thread, Begin(t) \/ Step(t),
         UNCHANGED <<schema, rowCount>>, KeysKept(NULL)
  PROVE  Unseen
<1>1. NULL \notin registry
  BY StatementsAssumption DEF RuntimeInv, RegistryInv, TypeOK
<1> QED  BY <1>1, RowsUnseen DEF Unseen

-------------------------------------------------------------------------------
\* Every step is a step of TableStore or none

\* What a thread's step has to be, seen from outside.
Implements == [Store!Next]_Store!storeVars

\* A step that changes neither the tables seen from outside nor a statement or
\* its result is none.
LEMMA UnseenStep ==
  ASSUME RuntimeInv, RuntimeInv', FreshInv, NEW t \in Thread, Step(t),
         UNCHANGED <<schema, rowCount, stmt, result>>, KeysKept(NULL)
  PROVE  Implements
<1>1. Unseen
  BY TablesUnseen
<1> QED  BY <1>1 DEF Implements, Unseen

\* A statement begins and returns.
LEMMA BeginReturnImplements ==
  ASSUME RuntimeInv, RuntimeInv', StoreInv, NEW t \in Thread, Begin(t) \/ Return(t)
  PROVE  Implements
<1>1. UNCHANGED <<schema, rowCount, index>>
  BY DEF Begin, Return
<1>2. Unseen
  BY <1>1, TablesUnseen DEF StoreInv, Step, KeysKept
<1>3. CASE Begin(t)
  <2>1. stmt[t] = NULL
    BY <1>3 DEF RuntimeInv, StatementInv, Begin
  <2>2. Store!Begin(t)
    BY <1>2, <1>3, <2>1 DEF Begin, Store!Begin, Unseen
  <2> QED  BY <2>2 DEF Implements, Store!Next
<1>4. CASE Return(t)
  <2>1. result[t] # NULL
    BY <1>4 DEF StoreInv, ProgressInv, Return
  <2>2. Store!Return(t)
    BY <1>2, <1>4, <2>1 DEF Return, Store!Return, Unseen
  <2> QED  BY <2>2 DEF Implements, Store!Next
<1> QED  BY <1>3, <1>4

\* An INSERT is refused for a reason its caller can name.
LEMMA RefusalImplements ==
  ASSUME RuntimeInv, RuntimeInv', StoreInv, NEW t \in Thread, Step(t),
         UNCHANGED <<schema, rowCount, stmt>>, KeysKept(NULL),
         stmt[t] # NULL, IsInsert(t), result[t] = NULL,
         result' = [result EXCEPT ![t] = Failed],
         LET k == Fold[stmt[t].name]
         IN  \/ stmt[t].shape \in MentionsId
             \/ TableSchema(k) = NULL /\ stmt[t].shape \in TooWide
             \/ TableSchema(k) # NULL /\ stmt[t].shape # TableSchema(k)
             \/ Len(TableRows(k)) = MaxId
             \/ AllocMayFail
  PROVE  Implements
<1>1. Unseen
  BY TablesUnseen DEF StoreInv
<1>2. Fold[stmt[t].name] \in Table
  BY StatementParts DEF Table
<1>3. Store!RefuseInsert(t)
  BY <1>1, <1>2, SameResults DEF Store!RefuseInsert, Store!Pending, Store!Target, Unseen
<1> QED  BY <1>3 DEF Implements, Store!Next

\* A SELECT returns what it found.
LEMMA QueryImplements ==
  ASSUME RuntimeInv, RuntimeInv', StoreInv, NEW t \in Thread, Step(t),
         UNCHANGED <<schema, rowCount, stmt>>, KeysKept(NULL),
         stmt[t] # NULL, stmt[t].op = "select", result[t] = NULL,
         LET k == Fold[stmt[t].name]
             w == stmt[t].where
             R == { TableRows(k)[i] : i \in 1..Len(TableRows(k)) }
             L == TableLost(k)
         IN  \/ /\ TableSchema(k) = NULL
                /\ result' = [result EXCEPT ![t] = NotFound]
             \/ /\ TableSchema(k) # NULL
                /\ w.kind # "bad_projection"
                /\ w.kind = "unknown_column" => R = {}
                /\ result' = [result EXCEPT ![t] =
                     Rows({r \in R : Matches(w, r) /\ (w.kind = "id" => r.id \notin L)})]
             \/ /\ TableSchema(k) # NULL
                /\ \/ w.kind = "bad_projection"
                   \/ w.kind = "unknown_column" /\ R # {}
                   \/ AllocMayFail
                /\ result' = [result EXCEPT ![t] = Failed]
  PROVE  Implements
<1>1. Unseen
  BY TablesUnseen DEF StoreInv
<1>2. Fold[stmt[t].name] \in Table
  BY StatementParts DEF Table
<1> DEFINE k == Fold[stmt[t].name]
           w == stmt[t].where
           R == { TableRows(k)[i] : i \in 1..Len(TableRows(k)) }
           L == TableLost(k)
           S == [j \in Table |-> TableSchema(j)]
           Q == [j \in Table |-> TableRows(j)]
           M == [j \in Table |-> TableLost(j)]
           Found == { Q[k][i] : i \in 1..Len(Q[k]) }
<1>3. Q[k] = TableRows(k) /\ S[k] = TableSchema(k) /\ M[k] = L /\ UNCHANGED <<S, Q, M, stmt>>
  BY <1>1, <1>2 DEF Unseen
<1>4. Store!Rows({r \in R : Store!Matches(w, r) /\ (w.kind = "id" => r.id \notin L)})
        = Rows({r \in R : Matches(w, r) /\ (w.kind = "id" => r.id \notin L)})
  <2>1. {r \in R : Store!Matches(w, r) /\ (w.kind = "id" => r.id \notin L)}
          = {r \in R : Matches(w, r) /\ (w.kind = "id" => r.id \notin L)}
    <3> HIDE DEF R, w, L
    <3> QED  BY SameResults
  <2> HIDE DEF R, w, L
  <2> QED  BY <2>1, SameResults
<1>5. Store!NotFound = NotFound /\ Store!Failed = Failed
  BY SameResults
<1>6. Found = R /\ S[k] = TableSchema(k) /\ M[k] = L /\ UNCHANGED <<S, Q, M, stmt>>
  <2>1. Q[k] = TableRows(k) /\ S[k] = TableSchema(k) /\ M[k] = L /\ UNCHANGED <<S, Q, M, stmt>>
    BY <1>3
  <2>2. Found = R
    <3> HIDE DEF Q, k
    <3> QED  BY <2>1
  <2> QED  BY <2>1, <2>2
<1>7. Store!Query(t) <=>
        /\ Store!Pending(t, "select")
        /\ \/ S[k] = NULL /\ result' = [result EXCEPT ![t] = Store!NotFound]
           \/ /\ S[k] # NULL
              /\ w.kind # "bad_projection"
              /\ w.kind = "unknown_column" => Found = {}
              /\ result' = [result EXCEPT ![t] =
                   Store!Rows({r \in Found : Store!Matches(w, r) /\ (w.kind = "id" => r.id \notin M[k])})]
           \/ /\ S[k] # NULL
              /\ \/ w.kind = "bad_projection"
                 \/ w.kind = "unknown_column" /\ Found # {}
                 \/ AllocMayFail
              /\ result' = [result EXCEPT ![t] = Store!Failed]
        /\ UNCHANGED <<S, Q, M, stmt>>
  BY Zenon DEF Store!Query, Store!Target
<1>8. Store!Rows({r \in Found : Store!Matches(w, r) /\ (w.kind = "id" => r.id \notin M[k])})
        = Rows({r \in R : Matches(w, r) /\ (w.kind = "id" => r.id \notin L)})
  <2> HIDE DEF Found, R, w, L, M, k
  <2> QED  BY <1>4, <1>6
<1>9. \/ /\ TableSchema(k) = NULL
         /\ result' = [result EXCEPT ![t] = NotFound]
      \/ /\ TableSchema(k) # NULL
         /\ w.kind # "bad_projection"
         /\ w.kind = "unknown_column" => R = {}
         /\ result' = [result EXCEPT ![t] =
              Rows({r \in R : Matches(w, r) /\ (w.kind = "id" => r.id \notin L)})]
      \/ /\ TableSchema(k) # NULL
         /\ \/ w.kind = "bad_projection"
            \/ w.kind = "unknown_column" /\ R # {}
            \/ AllocMayFail
         /\ result' = [result EXCEPT ![t] = Failed]
  BY Zenon
<1>10. Store!Pending(t, "select")
  BY DEF Store!Pending
<1>11. Store!Query(t)
  <2> HIDE DEF S, Q, M, Found, R, L, k, w
  <2> QED  BY <1>5, <1>6, <1>7, <1>8, <1>9, <1>10
<1> QED  BY <1>11 DEF Implements, Store!Next

\* The steps before a lock is taken.
LEMMA EntryStepsImplement ==
  ASSUME RuntimeInv, RuntimeInv', StoreInv, NEW t \in Thread,
         \/ Dispatch(t) \/ LockRegistry(t) \/ FindEntry(t) \/ CreateEntry(t)
         \/ AcquireWrite(t) \/ AcquireRead(t) \/ Release(t)
  PROVE  Implements
<1>1. FreshInv /\ ProgressInv(t) /\ Step(t) /\ UNCHANGED <<schema, rowCount, stmt>>
      /\ KeysKept(NULL)
  BY DEF StoreInv, Step, Dispatch, LockRegistry, FindEntry, CreateEntry, AcquireWrite,
     AcquireRead, Release, KeysKept
<1>2. CASE UNCHANGED result
  BY <1>1, <1>2, UnseenStep
<1>3. stmt[t] # NULL
  BY DEF RuntimeInv, StatementInv, Dispatch, LockRegistry, FindEntry, CreateEntry,
     AcquireWrite, AcquireRead, Release
<1>4. CASE Dispatch(t) /\ result' # result
  <2>1. result[t] = NULL /\ result' = [result EXCEPT ![t] = Failed]
        /\ (stmt[t].op = "delete" \/ (IsInsert(t) /\ stmt[t].shape \in MentionsId))
    BY <1>1, <1>4 DEF ProgressInv, Dispatch
  <2>2. CASE stmt[t].op = "delete"
    <3>1. Unseen
      BY <1>1, <1>4, TablesUnseen DEF Dispatch
    <3>2. Store!RefuseDelete(t)
      BY <1>1, <1>3, <2>1, <2>2, <3>1, SameResults DEF Store!RefuseDelete, Store!Pending, Unseen
    <3> QED  BY <3>2 DEF Implements, Store!Next
  <2>3. CASE IsInsert(t) /\ stmt[t].shape \in MentionsId
    BY <1>1, <1>3, <2>1, <2>3, RefusalImplements
  <2> QED  BY <2>1, <2>2, <2>3
<1>5. CASE FindEntry(t) /\ result' # result
  <2>1. result[t] = NULL /\ result' = [result EXCEPT ![t] = NotFound]
        /\ Entries(stmt[t].name) = {} /\ stmt[t].op = "select"
    BY <1>1, <1>5 DEF RuntimeInv, StatementInv, ProgressInv, FindEntry
  <2>2. TableSchema(Fold[stmt[t].name]) = NULL
    BY <2>1 DEF Entries, TableSchema, Registered
  <2> QED  BY <1>1, <1>3, <2>1, <2>2, QueryImplements
<1>6. CASE CreateEntry(t) /\ result' # result
  <2>1. result[t] = NULL /\ result' = [result EXCEPT ![t] = Failed] /\ IsInsert(t) /\ AllocMayFail
    BY <1>1, <1>6 DEF RuntimeInv, StatementInv, ProgressInv, CreateEntry
  <2> QED  BY <1>1, <1>3, <2>1, RefusalImplements
<1> QED  BY <1>2, <1>4, <1>5, <1>6 DEF LockRegistry, AcquireWrite, AcquireRead, Release

\* A schema is loaded, or the one that is there decides.
LEMMA CheckSchemaImplements ==
  ASSUME RuntimeInv, RuntimeInv', StoreInv, NEW t \in Thread, CheckSchema(t)
  PROVE  Implements
<1> DEFINE e == entry[t]
<1>0. PICK k : k = Fold[stmt[t].name]
  OBVIOUS
<1>1. /\ FreshInv /\ ProgressInv(t) /\ Step(t) /\ HasEntry(t) /\ IsInsert(t)
      /\ result[t] = NULL /\ stmt[t].shape \notin MentionsId
      /\ UNCHANGED <<registry, rowCount, slots, index, stmt>> /\ KeysKept(NULL)
      /\ schema \in [TableName -> Shape \cup {NULL}]
  BY DEF RuntimeInv, TypeOK, StatementInv, StoreInv, ProgressInv, HasEntry, Step, CheckSchema,
     KeysKept
<1>2. /\ stmt[t] # NULL /\ k \in Table /\ e \in registry /\ e \in TableName /\ Fold[e] = k
      /\ TableSchema(k) = schema[e] /\ \A f \in registry : Fold[f] = k => f = e
  BY <1>0, <1>1, TableSeen
<1>3. CASE UNCHANGED <<schema, result>>
  BY <1>1, <1>3, UnseenStep
<1>4. CASE result' # result
  BY <1>0, <1>1, <1>2, <1>4, RefusalImplements DEF CheckSchema
<1>5. CASE schema' # schema
  <2>1. /\ schema[e] = NULL /\ stmt[t].shape \notin TooWide /\ UNCHANGED result
        /\ schema' = [schema EXCEPT ![e] = stmt[t].shape]
    BY <1>5 DEF CheckSchema
  <2>2. OneEntryPerTable /\ OneEntryPerTable'
    BY DEF RuntimeInv, RegistryInv
  <2>3. \A j : j # k => /\ TableSchema(j)' = TableSchema(j) /\ TableRows(j)' = TableRows(j)
                        /\ TableLost(j)' = TableLost(j)
    BY <1>1, <1>2, <2>1, <2>2, TableKept
  <2>4. Registered(k) /\ Registered(k)' /\ EntryOf(k) = e /\ EntryOf(k)' = e
    BY <1>1, <1>2, <2>2, EntryChosen, EntryChosenNext
  <2>5. TableSchema(k)' = stmt[t].shape /\ TableRows(k)' = TableRows(k) /\ TableLost(k)' = TableLost(k)
    BY <1>1, <1>2, <2>1, <2>4 DEF TableSchema, TableRows, TableLost
  <2>6. [j \in Table |-> TableSchema(j)]'
          = [[j \in Table |-> TableSchema(j)] EXCEPT ![k] = stmt[t].shape]
    BY <1>2, <2>3, <2>5
  <2>7. UNCHANGED <<[j \in Table |-> TableRows(j)], [j \in Table |-> TableLost(j)]>>
    <3>1. \A j : TableRows(j)' = TableRows(j) /\ TableLost(j)' = TableLost(j)
      BY <2>3, <2>5
    <3> QED  BY <3>1
  <2>8. Store!DefineSchema(t)
    BY <1>0, <1>1, <1>2, <2>1, <2>6, <2>7 DEF Store!DefineSchema, Store!Pending, Store!Target
  <2> QED  BY <2>8 DEF Implements, Store!Next
<1> QED  BY <1>3, <1>4, <1>5

\* A failed insert into the index that loses keys is seen as such.
LEMMA LossImplements ==
  ASSUME RuntimeInv, RuntimeInv', StoreInv, NEW t \in Thread, IndexRow(t), NEW cut \in Id,
         SplitMayFail, AllocMayFail, result' = [result EXCEPT ![t] = Failed],
         index' = [index EXCEPT ![entry[t]] =
                     [i \in Id |-> IF i <= cut THEN index[entry[t]][i] ELSE NULL]]
  PROVE  Implements
<1> DEFINE e == entry[t]
           n == rowCount[e]
<1>0. PICK k : k = Fold[stmt[t].name]
  OBVIOUS
<1>1. /\ FreshInv /\ ProgressInv(t) /\ Step(t) /\ HasEntry(t) /\ IsInsert(t)
      /\ result[t] = NULL /\ UNCHANGED <<registry, schema, rowCount, stmt>>
      /\ index \in [TableName -> [Id -> Slot \cup {NULL}]]
  BY DEF RuntimeInv, TypeOK, StatementInv, StoreInv, ProgressInv, HasEntry, Step, IndexRow
<1>2. /\ stmt[t] # NULL /\ k \in Table /\ e \in registry /\ e \in TableName /\ Fold[e] = k
      /\ Len(TableRows(k)) = n
      /\ TableLost(k) = { i \in 1..n : index[e][i] = NULL }
      /\ \A f \in registry : Fold[f] = k => f = e
  BY <1>0, <1>1, TableSeen
<1>3. n \in 0..MaxId /\ MaxId \in Nat
  BY <1>2, StatementsAssumption DEF RuntimeInv, TypeOK
<1>4. KeysKept(e)
  <2>1. \A f \in registry \ {e} : f \in TableName
    BY DEF RuntimeInv, RegistryInv, TypeOK
  <2> HIDE DEF e, Id, Slot
  <2> QED  BY <1>1, <2>1 DEF KeysKept, e
<1>5. \A j : j # k => /\ TableSchema(j)' = TableSchema(j) /\ TableRows(j)' = TableRows(j)
                      /\ TableLost(j)' = TableLost(j)
  BY <1>1, <1>2, <1>4, RowsUnseen
<1>6. OneEntryPerTable /\ OneEntryPerTable'
  BY DEF RuntimeInv, RegistryInv
<1>7. Registered(k) /\ Registered(k)' /\ EntryOf(k) = e /\ EntryOf(k)' = e
  BY <1>1, <1>2, <1>6, EntryChosen, EntryChosenNext
<1>8. TableSchema(k)' = TableSchema(k)
  BY <1>1, <1>7 DEF TableSchema
<1>9. TableRows(k)' = TableRows(k)
  <2>1. \A i \in 1..n : slots'[e][i - 1] = slots[e][i - 1]
    <3>1. \A i \in 1..n : i - 1 \in Slot /\ i - 1 < n
      BY <1>3
    <3>2. e \in heap \cap heap'
      BY <1>2 DEF RuntimeInv, RegistryInv, TypeOK, IndexRow
    <3>3. [Next]_vars
      BY <1>1 DEF Next
    <3> HIDE DEF Slot
    <3> QED  BY <3>1, <3>2, <3>3, CommittedStep
  <2> QED  BY <1>1, <1>7, <2>1 DEF TableRows
<1>10. TableLost(k)' = TableLost(k) \cup { i \in Id : cut < i /\ i <= n }
  <2>1. TableLost(k)' = { i \in 1..n : index'[e][i] = NULL }
    BY <1>1, <1>7 DEF TableLost
  <2>2. \A i \in Id : index'[e][i] = IF i <= cut THEN index[e][i] ELSE NULL
    BY <1>1, <1>2
  <2>3. \A i : i \in 1..n <=> i \in Id /\ i <= n
    BY <1>3
  <2>4. \A i \in Id : i <= cut <=> ~(cut < i)
    BY <1>3
  <2> HIDE DEF e, n, Id
  <2> QED  BY <1>2, <2>1, <2>2, <2>3, <2>4
<1>11. UNCHANGED <<[j \in Table |-> TableSchema(j)], [j \in Table |-> TableRows(j)]>>
  <2>1. \A j : TableSchema(j)' = TableSchema(j) /\ TableRows(j)' = TableRows(j)
    BY <1>5, <1>8, <1>9
  <2> QED  BY <2>1
<1> DEFINE Q == [j \in Table |-> TableRows(j)]
           S == [j \in Table |-> TableSchema(j)]
           M == [j \in Table |-> TableLost(j)]
<1>12. M' = [M EXCEPT ![k] = @ \cup { i \in Store!Id : cut < i /\ i <= Len(Q[k]) }]
  <2>1. Store!Id = Id /\ Len(Q[k]) = n /\ M[k] = TableLost(k)
    BY <1>2 DEF Store!Id
  <2> DEFINE Gone == { i \in Id : cut < i /\ i <= n }
  <2>2. Gone = { i \in Store!Id : cut < i /\ i <= Len(Q[k]) }
    BY <2>1
  <2>3. \A j \in Table : TableLost(j)' = IF j = k THEN TableLost(k) \cup Gone ELSE TableLost(j)
    <3> HIDE DEF Id, n
    <3> QED  BY <1>5, <1>10
  <2>4. M' = [M EXCEPT ![k] = @ \cup Gone]
    <3> HIDE DEF Gone
    <3> QED  BY <1>2, <2>3
  <2> QED  BY <2>2, <2>4
<1> DEFINE Lost(j) == \E c \in Store!Id :
             M' = [M EXCEPT ![j] = @ \cup { i \in Store!Id : c < i /\ i <= Len(Q[j]) }]
<1>13. Store!LoseIds(t) <=>
         /\ Store!Pending(t, "insert")
         /\ SplitMayFail /\ AllocMayFail
         /\ Lost(Fold[stmt[t].name])
         /\ result' = [result EXCEPT ![t] = Store!Failed]
         /\ UNCHANGED <<S, Q, stmt>>
  BY Zenon DEF Store!LoseIds, Store!Target
<1>14. Store!Pending(t, "insert") /\ cut \in Store!Id /\ Store!Failed = Failed
  BY <1>1, <1>2, SameResults DEF Store!Pending, Store!Id
<1>15. Store!LoseIds(t)
  <2>1. Lost(k)
    <3> HIDE DEF Q, S, M, Id
    <3> QED  BY <1>12, <1>14
  <2> HIDE DEF Lost, Q, S, M, Id
  <2> QED  BY <1>0, <1>1, <1>11, <1>13, <1>14, <2>1 DEF Q, S
<1> QED  BY <1>15 DEF Implements, Store!Next

\* No row is stored before it is counted; an INSERT that fails on the way
\* leaves the rows as they were.
LEMMA RowStepsImplement ==
  ASSUME RuntimeInv, RuntimeInv', StoreInv, NEW t \in Thread,
         Reserve(t) \/ StoreRow(t) \/ IndexRow(t)
  PROVE  Implements
<1> DEFINE e == entry[t]
           k == Fold[stmt[t].name]
<1>1. /\ FreshInv /\ ProgressInv(t) /\ Step(t) /\ HasEntry(t) /\ IsInsert(t)
      /\ result[t] = NULL /\ UNCHANGED <<schema, rowCount, stmt>>
  BY DEF RuntimeInv, StatementInv, StoreInv, ProgressInv, HasEntry, Step, Reserve, StoreRow,
     IndexRow
<1>2. /\ stmt[t] # NULL /\ e \in TableName /\ Len(TableRows(k)) = rowCount[e]
  BY <1>1, TableSeen
<1>3. CASE UNCHANGED result
  <2>1. KeysKept(NULL)
    <3>1. CASE IndexRow(t)
      <4>1. /\ rowCount[e] \in 0..MaxId /\ MaxId \in Nat /\ nextId[e] = rowCount[e] + 1
            /\ index \in [TableName -> [Id -> Slot \cup {NULL}]] /\ registry \subseteq TableName
        BY <1>2, StatementsAssumption DEF RuntimeInv, TypeOK, RowsInv, RegistryInv
      <4>2. index' = [index EXCEPT ![e][nextId[e]] = rowCount[e]]
        <5>1. result[t] # Failed
          BY <1>1, ResultTypes, StatementsAssumption
        <5> QED  BY <1>3, <3>1, <5>1 DEF RuntimeInv, TypeOK, IndexRow
      <4>3. ASSUME NEW f \in registry, NEW i \in 1..rowCount[f] PROVE index'[f][i] = index[f][i]
        <5>1. f = e => i # nextId[e]
          BY <4>1
        <5>2. index'[f] = IF f = e THEN [index[f] EXCEPT ![nextId[e]] = rowCount[e]] ELSE index[f]
          BY <4>1, <4>2
        <5>3. i \in Id
          BY <4>1 DEF RuntimeInv, TypeOK
        <5> QED  BY <4>1, <5>1, <5>2, <5>3
      <4> QED  BY <4>3 DEF KeysKept
    <3> QED  BY <3>1 DEF KeysKept, Reserve, StoreRow
  <2> QED  BY <1>1, <1>3, <2>1, UnseenStep
<1>4. CASE IndexRow(t) /\ result' # result /\ index' # index
  <2>1. AllocMayFail
    <3>1. rowCount[e] < MaxId /\ nextId[e] = rowCount[e] + 1 /\ rowCount[e] \in 0..MaxId
      BY <1>2, <1>4 DEF RuntimeInv, TypeOK, RowsInv, At, IndexRow
    <3>2. ~At(e, {"commit"})
      BY <1>1, <1>2, <1>4, WriterAlone DEF At, HasEntry, WriteHeld, ReadHeld, IndexRow
    <3>3. index[e][nextId[e]] = NULL
      BY <1>2, <3>1, <3>2, StatementsAssumption DEF RuntimeInv, IndexInv
    <3> QED  BY <1>4, <3>3 DEF IndexRow
  <2>2. PICK ix \in IndexAfterFailure(index[e]) :
          index' = [index EXCEPT ![e] = ix] /\ result' = [result EXCEPT ![t] = Failed]
    BY <1>4 DEF IndexRow
  <2>3. ix # index[e]
    BY <1>4, <2>2 DEF RuntimeInv, TypeOK
  <2>4. PICK cut \in Id : SplitMayFail /\ ix = [i \in Id |-> IF i <= cut THEN index[e][i] ELSE NULL]
    BY <2>2, <2>3 DEF IndexAfterFailure
  <2> QED  BY <1>4, <2>1, <2>2, <2>4, LossImplements
<1>5. CASE result' # result /\ UNCHANGED index
  <2>1. result' = [result EXCEPT ![t] = Failed] /\ KeysKept(NULL)
    BY <1>5 DEF Reserve, StoreRow, IndexRow, KeysKept
  <2>2. Len(TableRows(k)) = MaxId \/ AllocMayFail
    <3>1. CASE Reserve(t)
      BY <1>5, <3>1 DEF Reserve
    <3>2. CASE StoreRow(t)
      BY <1>2, <1>5, <3>2, StatementsAssumption DEF RuntimeInv, TypeOK, RowsInv, StoreRow
    <3>3. CASE IndexRow(t)
      <4>1. rowCount[e] < MaxId /\ nextId[e] = rowCount[e] + 1 /\ rowCount[e] \in 0..MaxId
        BY <1>2, <3>3 DEF RuntimeInv, TypeOK, RowsInv, At, IndexRow
      <4>2. ~At(e, {"commit"})
        BY <1>1, <1>2, <3>3, WriterAlone DEF At, HasEntry, WriteHeld, ReadHeld, IndexRow
      <4>3. index[e][nextId[e]] = NULL
        BY <1>2, <4>1, <4>2, StatementsAssumption DEF RuntimeInv, IndexInv
      <4> QED  BY <1>5, <3>3, <4>3 DEF IndexRow
    <3> QED  BY <3>1, <3>2, <3>3
  <2> QED  BY <1>1, <1>2, <2>1, <2>2, RefusalImplements
<1> QED  BY <1>3, <1>4, <1>5 DEF Reserve, StoreRow

\* Counting the row is the moment the INSERT takes effect.
LEMMA CommitImplements ==
  ASSUME RuntimeInv, RuntimeInv', StoreInv, NEW t \in Thread, CommitRow(t)
  PROVE  Implements
<1> DEFINE e == entry[t]
           n == rowCount[e]
           row == slots[e][n]
<1>0. PICK k : k = Fold[stmt[t].name]
  OBVIOUS
<1>1. /\ ProgressInv(t) /\ HasEntry(t) /\ IsInsert(t) /\ result[t] = NULL
      /\ schema[e] = stmt[t].shape /\ row = [id |-> nextId[e], val |-> stmt[t].val]
      /\ UNCHANGED <<registry, schema, slots, index, stmt>>
      /\ rowCount' = [rowCount EXCEPT ![e] = @ + 1]
      /\ result' = [result EXCEPT ![t] = Inserted]
  BY DEF RuntimeInv, TypeOK, StatementInv, StoreInv, ProgressInv, HasEntry, CommitRow
<1>2. /\ stmt[t] # NULL /\ k \in Table /\ e \in registry /\ e \in TableName /\ Fold[e] = k
      /\ TableSchema(k) = schema[e] /\ \A f \in registry : Fold[f] = k => f = e
      /\ TableRows(k) = [i \in 1..n |-> slots[e][i - 1]]
      /\ TableRows(k) \in Seq(Row) /\ Len(TableRows(k)) = n
      /\ TableLost(k) = { i \in 1..n : index[e][i] = NULL }
  BY <1>0, <1>1, TableSeen
<1>3. /\ n \in 0..MaxId /\ MaxId \in Nat /\ rowCount \in [TableName -> 0..MaxId]
      /\ n < MaxId /\ nextId[e] = n + 1
  BY <1>2, StatementsAssumption DEF RuntimeInv, TypeOK, RowsInv, At, CommitRow
<1>4. OneEntryPerTable /\ OneEntryPerTable'
  BY DEF RuntimeInv, RegistryInv
<1>5. \A j : j # k => /\ TableSchema(j)' = TableSchema(j) /\ TableRows(j)' = TableRows(j)
                      /\ TableLost(j)' = TableLost(j)
  BY <1>1, <1>2, <1>3, <1>4, TableKept
<1>6. Registered(k) /\ Registered(k)' /\ EntryOf(k) = e /\ EntryOf(k)' = e
  BY <1>1, <1>2, <1>4, EntryChosen, EntryChosenNext
<1>7. TableSchema(k)' = TableSchema(k)
  BY <1>1, <1>2, <1>6 DEF TableSchema
<1>8. TableRows(k)' = [i \in 1..(n + 1) |-> slots[e][i - 1]]
  BY <1>1, <1>2, <1>3, <1>6 DEF TableRows
<1>9. [i \in 1..(n + 1) |-> slots[e][i - 1]] = Append([i \in 1..n |-> slots[e][i - 1]], row)
  <2>1. Append([i \in 1..n |-> slots[e][i - 1]], row)
          = [i \in 1..(n + 1) |-> IF i = n + 1 THEN row ELSE slots[e][i - 1]]
    <3> DEFINE q == [i \in 1..n |-> slots[e][i - 1]]
    <3>1. q \in Seq(Row) /\ Len(q) = n
      BY <1>2
    <3>2. row \in Row
      BY <1>1, <1>2, <1>3, StatementParts DEF Row
    <3>3. /\ Append(q, row) \in Seq(Row) /\ Len(Append(q, row)) = n + 1
          /\ \A i \in 1..n : Append(q, row)[i] = q[i]
          /\ Append(q, row)[n + 1] = row
      <4> HIDE DEF q, row, n
      <4> QED  BY <3>1, <3>2, AppendProperties
    <3>4. \A i \in 1..n : q[i] = slots[e][i - 1]
      OBVIOUS
    <3>5. \A i \in 1..(n + 1) : i = n + 1 \/ i \in 1..n
      <4>1. n \in Nat
        BY <1>3
      <4> HIDE DEF n
      <4> QED  BY <4>1
    <3>6. Append(q, row) = [i \in 1..(n + 1) |-> Append(q, row)[i]]
      <4> HIDE DEF q, row, n
      <4> QED  BY <3>3, SeqIsFunction
    <3>7. [i \in 1..(n + 1) |-> Append(q, row)[i]]
            = [i \in 1..(n + 1) |-> IF i = n + 1 THEN row ELSE slots[e][i - 1]]
      <4> HIDE DEF q, row, n
      <4> QED  BY <3>3, <3>4, <3>5
    <3> QED  BY <3>6, <3>7
  <2>2. \A i \in 1..(n + 1) : (IF i = n + 1 THEN row ELSE slots[e][i - 1]) = slots[e][i - 1]
    BY <1>3
  <2> QED  BY <2>1, <2>2
<1>10. row = [id |-> Len(TableRows(k)) + 1, val |-> stmt[t].val] /\ n + 1 \in Id
  BY <1>1, <1>2, <1>3
<1>11. UNCHANGED <<[j \in Table |-> TableSchema(j)], [j \in Table |-> TableLost(j)]>>
  <2>1. TableLost(k)' = { i \in 1..(n + 1) : index[e][i] = NULL }
    BY <1>1, <1>2, <1>3, <1>6 DEF TableLost
  <2>2. index[e][n + 1] # NULL
    <3>1. At(e, {"commit"})
      BY DEF At, CommitRow
    <3>2. index[e][n + 1] = (n + 1) - 1
      BY <1>2, <1>3, <3>1 DEF RuntimeInv, IndexInv
    <3> QED  BY <1>3, <3>2, StatementsAssumption
  <2>3. TableLost(k)' = TableLost(k)
    <3>1. \A i : i \in 1..(n + 1) <=> i \in 1..n \/ i = n + 1
      BY <1>3
    <3> HIDE DEF e, n
    <3> QED  BY <1>2, <2>1, <2>2, <3>1
  <2>4. \A j : TableSchema(j)' = TableSchema(j) /\ TableLost(j)' = TableLost(j)
    BY <1>5, <1>7, <2>3
  <2> QED  BY <2>4
<1>12. [j \in Table |-> TableRows(j)]'
         = [[j \in Table |-> TableRows(j)] EXCEPT ![k] = Append(TableRows(k), row)]
  <2>1. TableRows(k)' = Append(TableRows(k), row)
    BY <1>2, <1>8, <1>9
  <2> HIDE DEF row
  <2> QED  BY <1>2, <1>5, <2>1
<1>13. Store!AppendRow(t)
  <2> DEFINE Q == [j \in Table |-> TableRows(j)]
             S == [j \in Table |-> TableSchema(j)]
             M == [j \in Table |-> TableLost(j)]
             r == [id |-> Len(Q[k]) + 1, val |-> stmt[t].val]
  <2>1. Q[k] = TableRows(k) /\ S[k] = TableSchema(k) /\ r = row /\ r.id \in Store!Id
    BY <1>2, <1>3, <1>10 DEF Store!Id
  <2>2. Q' = [Q EXCEPT ![k] = Append(@, r)]
    BY <1>2, <1>12, <2>1
  <2>3. result' = [result EXCEPT ![t] = Store!Inserted]
    BY <1>1, SameResults
  <2>4. Store!Pending(t, "insert") /\ S[k] = stmt[t].shape /\ UNCHANGED <<S, M, stmt>>
    BY <1>1, <1>2, <1>11, <2>1 DEF Store!Pending
  <2>5. Store!AppendRow(t) <=>
          /\ Store!Pending(t, "insert")
          /\ S[k] = stmt[t].shape
          /\ r.id \in Store!Id
          /\ Q' = [Q EXCEPT ![k] = Append(@, r)]
          /\ result' = [result EXCEPT ![t] = Store!Inserted]
          /\ UNCHANGED <<S, M, stmt>>
    BY <1>0, Zenon DEF Store!AppendRow, Store!Target
  <2> HIDE DEF Q, S, M, r
  <2> QED  BY <2>1, <2>2, <2>3, <2>4, <2>5
<1> QED  BY <1>13 DEF Implements, Store!Next

\* A SELECT takes effect where it decides, under its read lock.
LEMMA SelectStepsImplement ==
  ASSUME RuntimeInv, RuntimeInv', StoreInv, NEW t \in Thread,
         CheckLoaded(t) \/ Collect(t) \/ CopyRows(t)
  PROVE  Implements
<1> DEFINE e == entry[t]
           k == Fold[stmt[t].name]
           w == stmt[t].where
           R == { TableRows(k)[i] : i \in 1..Len(TableRows(k)) }
<1>1. /\ FreshInv /\ ProgressInv(t) /\ Step(t) /\ HasEntry(t) /\ stmt[t].op = "select"
      /\ result[t] = NULL /\ pc[t] \in ReadSteps /\ UNCHANGED <<schema, rowCount, stmt>>
      /\ KeysKept(NULL)
  BY DEF RuntimeInv, StatementInv, StoreInv, ProgressInv, HasEntry, Step, CheckLoaded, Collect,
     CopyRows, KeysKept
<1>2. /\ stmt[t] # NULL /\ e \in TableName /\ TableSchema(k) = schema[e]
      /\ TableLost(k) = { i \in 1..rowCount[e] : index[e][i] = NULL }
      /\ R = { slots[e][i] : i \in {j \in Slot : j < rowCount[e]} }
  BY <1>1, TableSeen
<1>3. rowCount[e] \in 0..MaxId /\ MaxId \in Nat
  BY <1>2, StatementsAssumption DEF RuntimeInv, TypeOK
<1>4. CASE UNCHANGED result
  BY <1>1, <1>4, UnseenStep
<1>5. CASE CheckLoaded(t) /\ result' # result
  <2> HIDE DEF R
  <2>1. \/ TableSchema(k) = NULL /\ result' = [result EXCEPT ![t] = NotFound]
        \/ /\ TableSchema(k) # NULL /\ w.kind = "bad_projection"
           /\ result' = [result EXCEPT ![t] = Failed]
    BY <1>2, <1>5 DEF CheckLoaded
  <2> QED  BY <1>1, <1>2, <2>1, QueryImplements
<1>6. CASE Collect(t) /\ result' # result
  <2>1. /\ TableSchema(k) # NULL /\ result' = [result EXCEPT ![t] = Failed]
        /\ (w.kind = "unknown_column" /\ rowCount[e] > 0) \/ AllocMayFail
    BY <1>1, <1>2, <1>6 DEF ProgressInv, Collect
  <2>2. rowCount[e] > 0 => R # {}
    <3>1. SUFFICES ASSUME rowCount[e] > 0 PROVE slots[e][0] \in R
      OBVIOUS
    <3>2. 0 \in Slot /\ 0 < rowCount[e]
      BY <1>3, <3>1
    <3> HIDE DEF Slot, R
    <3> QED  BY <1>2, <3>2
  <2> QED  BY <1>1, <1>2, <2>1, <2>2, QueryImplements
<1>7. CASE CopyRows(t) /\ result' # result
  <2>1. /\ TableSchema(k) # NULL /\ w.kind # "bad_projection" /\ hits[t] = Selected(e, w)
        /\ w.kind = "unknown_column" => rowCount[e] = 0
    BY <1>1, <1>2, <1>7 DEF ProgressInv, CopyRows
  <2>2. \A i \in Slot : i < rowCount[e] => slots[e][i] # NULL /\ slots[e][i].id = i + 1
    BY <1>1, ReaderSeesWhole DEF RowsWhole
  <2> DEFINE L == TableLost(k)
             Copied == { slots[e][i] : i \in hits[t] }
             Asked  == { r \in R : Matches(w, r) /\ (w.kind = "id" => r.id \notin L) }
  <2>3. Copied = Asked
    <3>1. \A i \in Slot : i < rowCount[e] => (slots[e][i].id \notin L <=> index[e][i + 1] # NULL)
      <4>1. \A i \in Slot : i < rowCount[e] => i + 1 \in 1..rowCount[e]
        BY <1>3
      <4> HIDE DEF Slot, e, k
      <4> QED  BY <1>2, <2>2, <4>1
    <3> DEFINE Hit(i) == /\ i < rowCount[e] /\ Matches(w, slots[e][i])
                         /\ w.kind = "id" => index[e][i + 1] # NULL
    <3>2. \A r : r \in Copied <=> \E i \in Slot : Hit(i) /\ r = slots[e][i]
      <4> HIDE DEF Slot, R
      <4> QED  BY <2>1 DEF Selected
    <3>3. \A r : r \in Asked <=> \E i \in Slot : Hit(i) /\ r = slots[e][i]
      <4> HIDE DEF Slot, R, L, w
      <4> QED  BY <1>2, <3>1
    <3> HIDE DEF Slot, Copied, Asked, Hit
    <3> QED  BY <3>2, <3>3
  <2>4. w.kind = "unknown_column" => R = {}
    <3>1. rowCount[e] = 0 => {j \in Slot : j < rowCount[e]} = {}
      BY <1>3
    <3> HIDE DEF Slot, R
    <3> QED  BY <1>2, <2>1, <3>1
  <2>5. \/ result' = [result EXCEPT ![t] = Rows(Copied)]
        \/ AllocMayFail /\ result' = [result EXCEPT ![t] = Failed]
    <3>1. \A i \in hits[t] : i < rowCount[e] /\ slots[e][i] # NULL
      BY <2>1, <2>2 DEF Selected
    <3> QED  BY <1>7, <3>1 DEF CopyRows
  <2>6. \/ result' = [result EXCEPT ![t] = Rows(Asked)]
        \/ AllocMayFail /\ result' = [result EXCEPT ![t] = Failed]
    <3> HIDE DEF Copied, Asked
    <3> QED  BY <2>3, <2>5
  <2> QED  BY <1>1, <1>2, <2>1, <2>4, <2>6, QueryImplements
<1> QED  BY <1>4, <1>5, <1>6, <1>7

\* No thread runs when the tables are detached, and what was detached is not
\* seen any more.
LEMMA ShutdownImplements ==
  ASSUME RuntimeInv, StoreInv,
         Stop \/ DetachRegistry \/ (\E e \in TableName : DestroyEntry(e)) \/ CleanupDone
         \/ Ended \/ UNCHANGED vars
  PROVE  Implements
<1>1. CASE Stop \/ CleanupDone \/ Ended \/ UNCHANGED vars
  <2>1. UNCHANGED <<registry, tableVars, stmt, result>>
    BY <1>1 DEF Stop, CleanupDone, Ended
  <2>2. Unseen
    BY <2>1 DEF Unseen, TableSchema, TableRows, TableLost, EntryOf, Registered
  <2> QED  BY <2>1, <2>2 DEF Implements, Unseen
<1>2. CASE DetachRegistry
  <2>1. \A t \in Thread : stmt[t] = NULL
    BY <1>2 DEF RuntimeInv, StatementInv, DetachRegistry
  <2>2. \A k : TableSchema(k)' = NULL /\ TableRows(k)' = <<>> /\ TableLost(k)' = {}
    BY <1>2 DEF TableSchema, TableRows, TableLost, Registered, DetachRegistry
  <2>3. Store!Forget
    BY <1>2, <2>1, <2>2 DEF Store!Forget, DetachRegistry, Table, Store!Table
  <2> QED  BY <2>3 DEF Implements, Store!Next
<1>3. CASE \E e \in TableName : DestroyEntry(e)
  <2>1. registry = {} /\ registry' = {} /\ UNCHANGED <<stmt, result>>
    BY <1>3 DEF RuntimeInv, RegistryInv, DestroyEntry
  <2>2. \A k : /\ TableSchema(k)' = NULL /\ TableRows(k)' = <<>> /\ TableLost(k)' = {}
               /\ TableSchema(k) = NULL /\ TableRows(k) = <<>> /\ TableLost(k) = {}
    BY <2>1 DEF TableSchema, TableRows, TableLost, Registered
  <2> QED  BY <2>1, <2>2 DEF Implements
<1> QED  BY <1>1, <1>2, <1>3

\* Every step.
LEMMA StepImplements ==
  ASSUME RuntimeInv, RuntimeInv', StoreInv, [Next]_vars
  PROVE  Implements
<1>1. ASSUME NEW t \in Thread, Begin(t) \/ Step(t) PROVE Implements
  BY <1>1, BeginReturnImplements, EntryStepsImplement, CheckSchemaImplements, RowStepsImplement,
     CommitImplements, SelectStepsImplement DEF Step
<1> QED  BY <1>1, ShutdownImplements DEF Next

\* There are no tables at the start.
LEMMA InitImplements == Init => Store!Init
<1> SUFFICES ASSUME Init PROVE Store!Init
  OBVIOUS
<1>1. \A k : TableSchema(k) = NULL /\ TableRows(k) = <<>> /\ TableLost(k) = {}
  BY DEF Init, TableSchema, TableRows, TableLost, Registered
<1> QED  BY <1>1 DEF Init, Store!Init, Table, Store!Table

(***************************************************************************)
(* engine_execute_sql is atomic: whatever the threads interleave, each     *)
(* statement takes effect at one instant, an INSERT when table_insert_row  *)
(* counts its row and a SELECT when it reads under the read lock           *)
(* (table_runtime.c:408-489, executor.c:317-441).  What an insert into the *)
(* id index that fails after it split a node costs is part of the promise: *)
(* the newest rows may be missing from lookups by id, and from nothing     *)
(* else (bptree.c:239).                                                    *)
(***************************************************************************)
THEOREM StatementsAtomicHolds == Spec => StatementsAtomic
<1>1. Spec => []RuntimeInv
  BY RuntimeCorrect
<1>2. RuntimeInv /\ RuntimeInv' /\ StoreInv /\ [Next]_vars => StoreInv'
  BY StoreStep
<1>3. RuntimeInv /\ RuntimeInv' /\ StoreInv /\ [Next]_vars => Implements
  BY StepImplements
<1> HIDE DEF Store!storeVars
<1> QED
  BY <1>1, <1>2, <1>3, StoreBegins, InitImplements, PTL
     DEF Spec, StatementsAtomic, Store!Spec, Implements
===============================================================================
