# A TLA+ development of the Jungle DB API server

The repository is a small in-memory DBMS in C99 behind one HTTP endpoint,
`POST /query`: an accept loop, a bounded request queue, eight worker threads, a
registry of tables with a readers-writer lock each, a B+ tree from ids to rows,
and an older storage layer of CSV files under `data/`. A command line reads the same
SQL from a file or a terminal. These modules model its concurrent and stateful
parts and the texts they exchange, TLC checks them on small instances, and TLAPS
proves for every instance what does not concern texts: the
invariants of the table runtime, the request queue, the server, the B+ tree, the CSV
storage and one connection, and that the executor implements an atomic store, the ring
a bounded FIFO, the B+ tree an index from ids to rows, and the storage a history of whole
statements as long as no two DELETEs write the same temporary file.

File and line references are to the C sources in `src/` of the repository.

## 1. The system

| Part | State it keeps | Operations | Correct when |
|---|---|---|---|
| Request queue (`server.c` 31-167) | ring `items`, `head`, `tail`, `count`, `shutting_down`, a mutex, a condition variable | push (refuses when full), pop (waits), shutdown (broadcast) | FIFO, nothing lost or duplicated, no lost wakeup, drained before the workers leave |
| Server (`server.c` 61-72, 905-1054, `main.c` 345-369) | `server_stop_requested`, `server_listen_fd`, the open descriptors, the threads | start, accept loop, signal handler, close, join, cleanup | each descriptor has one holder; a signal at any step ends the process; tables are freed when no worker uses them |
| HTTP request reading (`server.c` 483-637) | buffer, length, header end, content length | recv until the request is whole, too large or broken | the answer does not depend on how TCP cut the bytes |
| JSON body, routes, answers (`server.c` 261-306, 639-901) | the text of the statement | read strings, find the field `sql`, choose the status code | the engine gets the whole statement or none, and a refusal means that nothing was stored |
| Engine (`engine.c`) | none | tokenize, parse, execute; shutdown | a text is one statement or an error |
| Tokenizer, parser | none | text to tokens to a statement | exactly the sentences of the language are accepted, and nothing of them is lost |
| Executor (`executor.c`) | none; holds a table's lock during a statement | INSERT, SELECT (scan or id index), DELETE (refused) | each statement takes effect at one instant |
| Table runtime (`table_runtime.c`) | registry list and mutex; per table: rwlock, columns, rows, capacity, `next_id`, index | acquire for insert / for read, insert a row, scan, release, cleanup | one entry per name whatever its case, rows and index agree, committed rows stay, failures leave no trace |
| B+ tree (`bptree.c`) | nodes, parent pointers, leaf list | search, insert with splits, free | search finds exactly the inserted keys |
| CSV storage (`storage.c`) | `data/<t>.csv`, `data/<t>.tmp`, flock | insert, delete (copy and rename), load, read at an offset | the file changes by whole statements, also when a process is killed, unless two DELETEs share the temporary file |
| CSV text (`storage.c` 83-757) | the bytes of the file | write and parse a row, next id, primary key, load, delete | rows are read back unaltered or refused, ids differ |
| CSV index (`index.c`) | a hash from spellings, a sorted array of values, both to offsets | build, query | a query finds what a scan finds (called by nothing) |
| Command line (`main.c`) | the REPL's text buffer, the file's status | cut text into statements, execute them, hear `exit` | file and terminal execute the same statements |
| Query results, utilities, benchmark | none of their own | - | - |

How they interact. The main thread accepts a connection and pushes its
descriptor; a worker pops it, reads one request, calls `engine_execute_sql`,
answers and closes. The executor acquires a table: it takes the registry mutex,
finds (or, for INSERT only, creates) the entry, **releases the mutex and then**
takes the table's rwlock; it calls the B+ tree under that lock. SIGINT and
SIGTERM run a handler that sets a flag and closes the listener; the main thread
leaves its loop, shuts the queue down, joins the workers and calls
`engine_shutdown`, which frees the tables without any lock. The command line calls
the same `engine_execute_sql` from one thread. `storage.c` talks to
other processes only, through the file system and flock.

What is hard here: the window between the registry mutex and the rwlock; an
INSERT that updates row, index, count and next id one after another and may fail
between; a SELECT that finds an entry an INSERT has registered but not loaded;
one signal per push with workers that overtake each other; a signal handler that
races the main thread for the listener; shutdown with clients still queued;
a descriptor number that is reused as soon as it is closed; an allocation that
fails when a split has half happened; flock on an inode that rename has replaced; a
temporary file whose one name two DELETEs share;
quotes that the statement splitter, the tokenizer, the JSON reader and the CSV
reader each count in their own way; a comparison of values that is no order.
`PROJECT.json` lists them by line.

## 2. Modules

| Module | Models | Extends / instantiates |
|---|---|---|
| `Statements` | the statements, rows and results all layers share | |
| `TableStore` | **abstract**: a store where a statement takes effect at one instant | `Statements` |
| `TableRuntime` | `table_runtime.c` and `executor.c`, thread by thread | `Statements`; refines `TableStore` |
| `TableRuntimeProofs` | theorems about `TableRuntime` | `TableRuntime`, `TLAPS` |
| `TableStoreProofs` | `TableRuntime` refines `TableStore` | `TableRuntimeProofs` |
| `BoundedQueue` | **abstract**: a FIFO of bounded length that can be closed | |
| `RequestQueue` | the ring and its condition variable | refines `BoundedQueue` |
| `RequestQueueProofs` | theorems about `RequestQueue` | `RequestQueue`, `TLAPS` |
| `Server` | accept loop, workers, signal handler, shutdown, descriptors | `RequestQueue`; implements its environment |
| `ServerProofs` | theorems about `Server` and its queue | `Server`, `RequestQueueProofs` |
| `IdIndex` | **abstract**: a map from ids to slots, with what a failed insert may do | |
| `BPTree` | `bptree.c`, one action per function | refines `IdIndex` |
| `BPTreeProofs` | theorems about `BPTree` | `BPTree`, `Induction` |
| `FileRows` | the rows of a CSV file, and those a DELETE leaves | |
| `TableFile` | **abstract**: the versions of a table file, which change by whole statements | `FileRows` |
| `Storage` | `storage.c` by several processes | `FileRows`; refines `TableFile` |
| `Induction` | induction over the naturals, in a form the provers can use | `TLAPS` |
| `StorageProofs` | theorems about `Storage` | `Storage`, `Induction` |
| `HttpRequest` | `server_read_http_request` | |
| `JsonSql` | the JSON strings of `server.c` | |
| `QueryEndpoint` | `server_handle_client`, from the first byte to the answer | `HttpRequest`, `JsonSql` |
| `QueryEndpointProofs` | theorems about `HttpRequest` and `QueryEndpoint` | `QueryEndpoint`, `TLAPS` |
| `SqlTokens` | `tokenizer.c` and the text functions of `utils.c` | |
| `SqlParser` | `parser.c` and the first half of `engine_execute_sql` | `SqlTokens` |
| `CommandLine` | file mode and REPL of `main.c` | `SqlParser` |
| `CsvText` | writing, parsing and comparing in `storage.c` and `utils.c` | |
| `CsvIndex` | `index.c` | `CsvText` |
| `CsvTable` | INSERT and DELETE on the text of one file | `CsvIndex` |
| `MC...` | instances for TLC: workloads, spellings, symmetry | |

Definitions named with `\* Mutant` above them are deliberate errors, used to
check that each property can be broken; no specification uses them.

### How state and actions correspond to the code

**TableRuntime.** A variable per field of `TableRuntime` (`schema`, `slots`,
`rowCount`, `capacity`, `nextId`, `index`), the rwlock as `writer` and `readers`,
the registry list as a set, and per thread its statement, program counter, entry
and result. An action is a critical section or an update of shared data after
which another thread may run: `LockRegistry`, `FindEntry`, `CreateEntry`,
`AcquireWrite` / `AcquireRead`, then for INSERT `CheckSchema`, `Reserve`,
`StoreRow`, `IndexRow`, `CommitRow`, for SELECT `CheckLoaded`, `IndexLookup` or
`LinearScan`, `CopyRows`, and `Release`. Every calloc may fail. Table names have a spelling and
a folded form; a schema is a column list of which the model asks whether it is
the same, names `id`, or is too wide; cells are one value per row. `MaxId`
stands for INT_MAX: the insert after it fails. A failed insert into the index leaves it
as it was or, where `SplitMayFail`, without the keys behind some key, as
`FailureLosesNewest` of `BPTree` has it. `TableStore` keeps these ids in `lost`:
a lookup by id does not find them, a scan does.

**RequestQueue and Server.** push, pop and shutdown are one action each, since
the mutex covers them; `pthread_cond_wait` is a set of sleepers, a signal wakes
any one of them or none if all are awake, and a sleeper may wake spuriously.
`Server` adds the steps of the main thread (`CheckStop`, `CallAccept`,
`TestListener`, `CloseListener`, `ForgetListener`, ...), the handler between any
two of them, partial thread creation, failing accept, and a table of open
descriptors in which accept takes the lowest free number. The handler runs on the
main thread: the workers may get the signal too, which does not change what the
handler does but would leave accept blocked until the closed listener is noticed.
This is the one assumption on the platform made there.

**BPTree.** A node is a record of sequences. `SplitLeaf` and `SplitInternal` go
up the tree as steps of one call, with an allocation that may fail at each.

**Storage.** An inode is a position in `file`, so a process that waits for
flock keeps the inode it opened. An INSERT opens, locks, prepares its row in the
stdio buffer and flushes it; a DELETE writes the temporary file and renames it.
A process may be killed between any two steps, fopen, flock or rename may fail, a
disk may fill; a flush that fails is not made good by the later fclose.
Byte offsets are positions of rows. `MaxId` stands for LLONG_MAX; the id after it
wraps around, which is undefined in C and what the build does, as the Makefile asks for no
optimisation.

An old version of the file lives on while a process has it open, so `TableFile`
keeps all versions and says which one an INSERT or a DELETE is made from.

Two DELETEs on two versions hold two locks and yet share `data/<t>.tmp`. `draft` is the
inode a DELETE has opened there; `CreateTemp` empties it under the other,
`FlushTemp` writes over what the other wrote, also after the other has
renamed it to the table, and `RenameTemp` takes whatever the path names by then. What is left
of two contents depends on the lengths of their lines, so `Overwritten` is a
set: the new one, it with rows of the old one behind it, or pieces no
reader accepts. `shared` remembers which inodes two DELETEs may have written;
`TableFile` calls these versions `collided` and promises nothing of them, but that nothing
else is written in this way.

**HttpRequest and QueryEndpoint.** While a request is read, only the number of
its bytes, the place of the blank line and the Content-Length header count; recv
returns any piece. `QueryEndpoint` joins to each request its first line and the
symbols of its body, and goes on through the checks of `server_handle_client` in
their order: request line, method, path, empty body, JSON, engine, answer. The
engine is any of its four kinds of result here; the answer may be lost.

**SqlTokens, SqlParser, CommandLine.** A text is a sequence of symbols: a run of
letters is one symbol (a keyword or a name), every other symbol is a character.
Tokens, lists and clauses are recursive functions that say where they stop
reading, as the index of the C functions does. `CommandLine` has one action per
turn of the loops of `main.c`: a statement of the file or its end; a line, an
exit, the end of input or a statement of the buffer.

**CsvText, CsvIndex, CsvTable.** A file is a sequence of characters and an offset
a position in it. `CsvTable` executes one statement after the other and lets one
write be cut anywhere, by a kill or a full disk; `stored` is what must be read
back. Frequent statements weigh less in the bound on their number (`Weight`), so that more of them
can follow each other. Concurrency is `Storage`'s, which leaves the text out in its turn.

## 3. What is checked

| Run | Instance | Shows |
|---|---|---|
| `TableRuntime_contention` | 3 threads, 1 table, 2 ids, initial capacity 1 | `ReadersSeeWholeTable`, `CommittedRowsStable`; `StatementsAtomic`: refinement of `TableStore` |
| `TableRuntime_stop` | 2 threads, 2 tables one of which has 2 spellings, 3 ids, splits may fail | `RuntimeInv` (the invariant of the proofs, from which also follow `StoreWithinCapacity` and `NoUseAfterFree`), `OneEntryPerTable`, `OnlyInsertsGrowRegistry`, `StopFreesEverything`; `StatementsAtomic` with ids lost to the index |
| `RequestQueue_ring` | 3 workers, ring of 2, 4 descriptors | no lost wakeup, `RingIsFifo`: refinement of `BoundedQueue`, `EveryRequestTaken`, `EveryWorkerLeaves` |
| `Server_serving` | 5 clients, 2 workers, queue of 1, 4 descriptors | `OneHolderPerConnection`, `OnlySignalEndsServing`, and that the server uses the queue as `RequestQueue` assumes |
| `Server_stopping` | 3 clients, 2 workers, failing startup | `CleanupAlone`, `SignalEndsServer`, `FailureEndsServer`, `EveryClientServed` |
| `BPTree_anyorder` | 5 keys in every order, then 6 ascending, nodes of 2 keys, two failing callocs | search tree, parent pointers, room in the nodes, `IndexPromise`: refinement of `IdIndex`, `FailureLosesNewest`: what `TableRuntime` assumes of a failed insert |
| `BPTree_lostkeys` | one failing calloc | *violation*, see findings |
| `Storage_processes` | 3 processes, 4 calls, overlapping DELETEs, a kill, a failing call, a full disk | `FileHistory`: refinement of `TableFile`; `OffsetsFindTheirRows`, `DeletesMeetAcrossVersions` |
| `Storage_lostinsert` | an INSERT and a DELETE | *violation*, see findings |
| `QueryEndpoint_requests` | buffer of 26 symbols, every length around it, objects of up to 2 members, bodies cut anywhere | `PiecesDoNotMatter`, `WholeStatementOrNone`, `RefusalMeansNothingStored` |
| `CommandLine_texts` | every text of up to 6 symbols, short texts behind 12 spaces, 6 statements with any symbol missing, added or replaced | `SameStatements`, `ExitBetweenStatements`, `CutsAgreeWithTokens`, `ParserKnowsLanguage`, `FailureReported` |
| `CsvTable_text` | 3 statements out of 24, or 5 out of 4, lines of 8 characters, 2 columns, integers up to 12, one cut write | `RowsReadBack`, `IdsDiffer`, `UnreadableKeepsItsRows`, `IndexAgreesWithScan` |

Bounds, and why they are enough. Two ids with an initial capacity of one make
the array double once and reach the last id; three threads give a writer, a
waiting writer and a reader. A ring of two cells wraps around within three
requests, and four descriptors overfill it. A queue of one with five clients
meets every combination of a busy worker, a full queue and a refused client.
Nodes of two keys split at both levels with 11 keys; the code splits 31 keys the
same way, at the position `count / 2`. A third row whose INSERT fails in a split takes the
key of the second out of the index. Four calls are enough
to create a file, load it, change it and read at the old offset, to give out the last id and
the one behind it, or for three DELETEs, two of which meet at the temporary file. Three statements of
every kind insert, delete and insert again; four of the frequent ones cut a header, so that the table has
no id column, make a row of a line end and append behind it. Lengths
around the size of the buffer hold every relative order of blank line, end of body,
end of buffer and end of input. Six symbols are enough for two statements with a
literal in one of them, or a literal over two lines with a quote doubled in it; the
long line is what fgets returns in two parts. With two columns and lists of up to three
items a list is too short, full and too long. A line of eight characters is passed
by a row with two quotes; integers up to twelve have numbers of two digits, a
number whose text sorts before a smaller one's, and an id at the limit. Symmetry (threads, clients, processes) is used in safety runs only.

Fairness. `TableRuntime`, `RequestQueue` and `Server` assume weak fairness of
every thread's steps: a thread that can run is scheduled, and a lock that
stays free is obtained. Weak fairness does not promise an INSERT the
write lock while SELECTs overlap for ever, and the code does not either (the
default rwlock prefers readers); the liveness properties therefore begin at the
shutdown, after which no new statement starts. `recv` has no timeout: `Server`
also assumes that a client whose connection was accepted speaks or hangs up, and that the
`send` of its answer returns (`server.c:416` waits without a limit while a client does not
read); without either, eight clients stop the server and its shutdown. Clients need
not connect and nobody needs to send the signal.

## 4. What is proved

Every theorem is for all values of the constants that satisfy the assumption of its
module (`TableRuntimeAssumption`, `RequestQueueAssumption`, `ServerAssumption`,
`StorageAssumption`, ... and those of the modules below it); TLC
evaluates these assumptions in every run. Hypotheses beyond them are named here.

| Module | Theorems | Inductive invariant |
|---|---|---|
| `TableRuntimeProofs` | `RuntimeCorrect`, `OneEntryPerTableHolds`, `StoreWithinCapacityHolds`, `NoUseAfterFreeHolds`, `ReadersSeeWholeTableHolds`, `CommittedRowsStableHolds`, `OnlyInsertsGrowRegistryHolds` | `RuntimeInv` |
| `TableStoreProofs` | `StatementsAtomicHolds`: `TableRuntime` refines `TableStore` | `StoreInv` |
| `RequestQueueProofs` | `QueueCorrect`, `NoSleepingOnWorkHolds`, `NobodySleepsInShutdownHolds`, `RingIsFifoHolds`: the ring refines `BoundedQueue` | `QueueInv` |
| `ServerProofs` | `ServerCorrect`, `OneHolderPerConnectionHolds`, `UsesQueueProperlyHolds`, `ServerQueueIsFifo`, `CleanupAloneHolds`, `OnlySignalEndsServingHolds` | `ServerInv` |
| `BPTreeProofs` | `TreeInvHolds`, `TypeCorrect`, `SplitNodeIsChildHolds`, `SearchTreeHolds` | `BPTreeInv` |
| `BPTreeProofs` | `IndexPromiseHolds`: refinement of `IdIndex` | `CallInv` on `BPTreeInv` |
| `BPTreeProofs` | `FailureLosesNewestHolds` | `NewestInv` on both |
| `StorageProofs` | `StorageCorrect`, `OffsetsFindTheirRowsHolds`, `DeletesMeetAcrossVersionsHolds`, `FileHistoryHolds`: `Storage` refines `TableFile` | `StorageInv` |
| `StorageProofs` | `NextAutoIdIsNew` | none: induction over the rows |
| `QueryEndpointProofs` | `EndpointCorrect`, `PiecesDoNotMatterHolds`, `RefusalMeansNothingStoredHolds` | `EndpointInv` |

One hypothesis goes beyond the assumptions. `OnlySignalEndsServingHolds` assumes
`LastFd > Capacity + Cardinality(Worker)`: with fewer descriptors than
the queue, the workers, the listener and the accept loop hold together, accept
fails for want of one and the server stops.

**Table runtime.** None of the properties is inductive. `OneEntryPerTable` needs
to know that a thread about to create an entry holds the registry mutex since it
found none (`MutexInv`, `RegistryInv`); `NoUseAfterFree` needs that a thread past
the lookup keeps a registered entry and that cleanup starts with all threads
idle; the properties of rows need that the thread at a write step is the only one
in the table (`LockInv`) and what exactly it has half done: `RowsInv` says which
slots are filled, one more while an INSERT is between storing and committing,
and `IndexInv` the same of the keys, of which a failed split may have taken some but
misplaced none. There is one lemma per action, and lemmas for
what a lone writer may change (`WriterStands`, `WriterMoves`) and for steps that
leave all tables alone (`TablesKept`, `RegistryKept`). The two action properties
follow from the same invariant, one action at a time.

**Table store.** A statement takes effect at its commit if it is an INSERT, where
the copied rows are complete if it is a SELECT, and where it fails otherwise; all
other steps must be stutters of the store, whose table is `TableSchema` and
`TableRows`. A statement that has not taken effect yet must still be able to: `StoreInv`
adds to `RuntimeInv` that what a thread has read so far is what the entry holds
(`ProgressInv`) and that an entry nobody has loaded is empty (`FreshInv`). An INSERT
that fails takes effect at `IndexRow` if it failed there, since what it takes out of the index
is then gone for every later lookup (`LossImplements`); `RowsUnseen` shows that a
lookup through the index finds exactly the rows whose ids are not `TableLost`.

**Queue.** `NoSleepingOnWork` compares the number of requests
with the number of workers in `server_queue_pop`, so it needs that a worker that
enters or is signalled was not counted there already: nobody is popping and
asleep at once, and neither while handling a request (`WorkerInv`). With that a
push adds one request and one popping worker, a pop takes one of each, and a
worker goes to sleep only at an empty queue. For the refinement, `RingInv` says
that `tail` lies `count` places after `head`, so that (`CellAt`) the cell a push
writes to is none of the waiting ones while the queue is not full; `PushAppends`
and `PopTakesOldest` show that the waiting descriptors, read off around the end
of the array, change as `Append` and `Tail` say. `LeftInv` says that a worker
that was sent away asks for nothing any more.

**Server.** A descriptor may be held by the queue, by a worker, by the accept loop
or by the listener; `ServerInv` says who holds which at each program counter of the main
thread and of the handler, so that a number that accept reuses is held by nobody.
`UsesQueueProperlyHolds` shows that every step keeps to the calls `RequestQueue`
assumes of its environment, and `ServerQueueIsFifo` draws the conclusion: the
theorems of the queue hold in the running server.

**B+ tree.** The invariant speaks of all nodes calloc has handed out, linked or lost,
so it needs no notion of reachability. `TreeInv` asks for two functions: `height`, by
which every child is one lower than its parent, and `below`, the keys a subtree may
hold, which every separator divides. A key on its way down widens `below` along the
way of the search (`KeyOnTheWay`); a split divides it. While a split goes up,
`SplitInv` says that the upper half is in no node but has the height, the parent and
the keys to stand right of the lower one; `ParentGrown` concludes that the parent
with both halves would be a correct node, were there room, and this is what
`bptree_insert_into_internal` keeps and `bptree_split_internal` cuts in two. The
nodes a failed call leaves behind stay correct nodes that nothing points to. What a
search finds is defined by recursion down the tree; that it ends in a leaf, and what
the levels and subtrees of `SearchTree` are, is shown by induction over the height.
`BPTreeInv` says that `height` and `below` exist, which TLC cannot
evaluate; the run checks the three properties that follow from it.

For the refinement of `IdIndex`, `CallInv` says what a search would find were the split
that goes up linked already: it would go right at the lower half if its key is not
below that of the split (`Turned`). `SplitLeafFound` shows that the halves of a leaf
announce the old keys and the new one, `SplitInternalFound` that splitting the parent
leaves every such way as it was, and the two actions that link the split
that real searches then go the announced ways. When the split is never linked,
the keys lost are those that go down to its lower half and should have turned; two ways to one
node have between them those of all keys in between (`WayBetween`), so they are an interval, as `IdIndex` says.
That only the newest keys go (`FailureLosesNewest`) needs two facts of `NewestInv` more: no
separator is larger than all keys inserted, since the key that goes up from a leaf is
never its last; and the search for the new key passes the lower half of the split. A
new key above all others is then in the interval, and with it all that was found behind.

**Storage.** Between making its row and writing it a process relies on a file
that others may have open: `InsertInv` and `DeleteInv` say that what waits in the
buffer still fits the file it was made from, `CallInv` and `ExclusionInv` that
the flock it holds keeps the others from it. So `FlushInsert` maps to `InsertRow` of the
inode it opened, which need not be the current one, and `RenameTemp` to
`DeleteRows`, or to `LoseTable` if the disk was full. All this is said of inodes outside
`shared`; whatever two DELETEs may both write is inside: a DELETE that meets another
writes an inode of `shared` (`ExclusionInv`), and one whose inode is shared finds at most
a shared one to rename (`DeleteInv`). Such a rename maps to `Collide`, a write
into a version it has made to `Overwrite`, and a DELETE from rows that were overwritten
since it read them to `DeleteOverwritten`. `LoadedInv` says that loaded rows stay
the first rows of their inode. A process that does not move keeps its part
(`OthersKeep`), so each action has to be shown for one process only (`OneSteps`). That
the next automatic id is a long long and, unless LLONG_MAX is taken, new
(`NextAutoIdIsNew`), and that a DELETE copies rows
(`WithoutIsPart`) are shown by induction over the length of the file. The library's
induction theorems take a predicate as a parameter, which the provers cannot
instantiate; `Induction` restates them about sets.

**One connection.** `ReadInv` relates the bytes received to what the loop has
found out: the blank line has not been noticed unless it has arrived, and the
request is not read to its end while a byte of it is missing. `Outcome` then follows from the
request alone. `EndpointInv` adds where an answer can come from once the engine has been called.

Only model-checked: liveness (the prover does not treat fairness and ENABLED);
`WholeStatementOrNone`, the command line and the
text of CSV files, whose recursive functions over texts would each need an
induction of their own.

The `TypeOK` of `RequestQueue`, `Server`, `QueryEndpoint`, `CommandLine` and
`CsvTable` say what values the variables take; their other invariants are the ones
the runs check.

## 5. Findings

- **A failed allocation during a split loses committed keys** (`bptree.c:239`,
  run `BPTree_lostkeys`). The upper half of a leaf has moved to a new node when
  the parent cannot be split; nothing links the new node, so ids inserted with
  success are no longer found by `WHERE id = n`, while a scan still shows the
  rows. `tests/test_bptree.c:112` says "all inserted keys should remain
  searchable". `BPTree_anyorder` bounds the damage: only the newest keys go.
- **An INSERT into a CSV table may be lost though it reported success**
  (`storage.c:949`, run `Storage_lostinsert`). It waits for flock on an inode
  that a DELETE then replaces with rename, and appends to a file without a name.
  `storage.h:15-16` promises a row in the table's CSV file.

Seen while modelling, without a run of their own:

- File mode: the comment of `main_run_file_mode` (`main.c:138-141`) says that it returns SUCCESS
  unless reading the file or allocating memory fails. The code returns FAILURE also after a
  failed statement (`main.c:186`) and when text is left behind the last semicolon (`main.c:174`), and
  `main` makes this the exit status. `FailureReported` states what the code does; it is
  the comment that is wrong.
- Storage: two DELETEs may write one temporary file (`storage.c:840`): their locks are on two
  inodes once a third DELETE has replaced the table, and `data/<t>.tmp` has one name. The bytes of
  the two may mix in the table (`Overwritten`), a table can be emptied and written after the rename
  that published it, and the DELETE whose rename comes second finds no file and returns FAILURE
  though the table may be what it wrote (`storage.h:20-23` promises FAILURE for a DELETE that failed).
- Storage: a DELETE on a full disk replaces the table with an empty file and
  reports success (`storage.c:892`); a refused INSERT followed by a DELETE leaves a
  table that takes no INSERT (`storage.c:849`); a value with a line end, or a row
  longer than 16383 bytes, is accepted and makes the table unreadable for every
  later statement; after an INSERT that was cut, the row of the next one
  continues the torn line; the ids `1` and `01` are both accepted, and the id
  after LLONG_MAX wraps around (`storage.c:507`).
- Index: numbers and other texts mixed are not ordered by `utils_compare_values`
  (9 < 10 < 1a < 9), so qsort and the binary search have no order to rely on;
  equality through the hash distinguishes `01` from `1`, a scan does not.
- REPL: a blank line counts as the beginning of a statement, so `exit` is
  no longer heard (`main.c:270`) and an end of input is reported as an incomplete
  statement; what follows a statement on its line is trimmed (`main.c:234`), so
  that its last word and the first of the next line become one word, and a text
  value loses the line end.
- SQL: `SELECT *, x` is refused while `SELECT x, *` parses; a lone `!` is an
  operator that matches no row (`table_runtime.c:191-214`); an integer literal
  outside 64 bits can be inserted, after which every WHERE on its column fails
  (`table_runtime.c:222`).
- HTTP: a Content-Length without a value is answered differently depending on
  packet boundaries (`server.c:556`); every `\uXXXX` becomes a question mark, and
  `\b` and `\f` the letters b and f; a string of 64 bytes or more before the
  field `sql` is answered with 413; a field `sql` of a nested object is found too;
  a Content-Length that cuts the body behind the statement does not stop it.
- README.md:3 and README.md:13 speak of CSV files under `data/`, while the server
  keeps its tables in memory only.

## 6. Not modelled

The text of messages, and of answers beyond their escaped strings. Failing
allocations in the tokenizer, the command line, the CSV reader and the index: each
ends the call with an error before anything is stored. In `Storage`, an INSERT whose
write is cut, which `CsvTable` has: `FlushInsert` is one write or, on a full disk, none. The six
comparisons of `table_runtime.c:191-231` and the error of one that fails: `Statements.Matches`
knows equality, as cells are one value per row. The overflow of the doubled capacity
(`table_runtime.c:345`), far beyond the memory there is. A `send` that never returns
(`server.c:416`): `Server.ExecuteStatement` takes an answer for sent or lost. The
second close of the listener, whose number is outside `Fd`. NUL bytes in a
script, the dispatch on the arguments and the printing of tables in `main.c`, and
the width of characters on a terminal. TCP beyond hang-up, the kernel's
backlog and the Docker setup are external. Benchmark, scripts and load tests
measure the program; a query result is allocated and freed by its owner.

## 7. Plan

Done, in this order: `Statements`, `TableStore`, `TableRuntime` and its proofs;
`RequestQueue` and its proofs, `Server`; `BPTree`; `Storage`; `HttpRequest`; `SqlTokens`,
`SqlParser`, `CommandLine`; `JsonSql`, `QueryEndpoint`; `CsvText`, `CsvIndex`,
`CsvTable`; overlapping DELETEs in `Storage` and `TableFile`, then two of them in one
temporary file; ids lost to a failed split in `TableStore`.

The proofs followed: the table runtime and the queue, then the server, the refinement of
`TableStore`, one connection, the storage with its refinement of `TableFile`, the
search tree, its refinement of `IdIndex` and what a failure loses.

Next:

1. `WholeStatementOrNone` and the texts, by `Induction`.
2. Columns and their value kinds in `TableRuntime`, for comparisons that fail.
3. The bytes of the temporary file in `Storage`, to narrow `Overwritten`.
