# Verification of cxx_lab

cxx_lab is a collection of C++ experiments, one directory each. Several of them are small systems of
their own: a request executor over a blocking queue, a B+-tree table, a snapshot holder with background
garbage collection, a TPC-C driver on a thread pool, a dataflow pipeline, an asynchronous gRPC server.
This directory holds TLA+ models of those systems, the TLC runs that check them on small instances, and
TLAPS proofs of the properties that hold for every value of the constants.

`PROJECT.json` is the index: every component, every run with its properties, the source lines each
definition stands for, the hazards the properties are about, and the theorems.

## 1. Inventory

| Part | State | Operations | Interacts with | What is hard |
|---|---|---|---|---|
| `rocksdb_lab/BlockingQueue` (copied in `duckdb_lab`) | queue, capacity, two condition variables | Put, Take, Front, Back, SetCapacity | any threads | wake-ups, SetCapacity without lock |
| `rocksdb_lab/executor`, `requests` | request queue, workers, `stopped_`; per request `done_`, `status_` | Submit (async, sync), Execute, WorkingThread, Stop | BlockingQueue; request handlers | Put with `mtx_` held, shutdown order, completion signal without its mutex |
| `db_lab` table, nodes, pager | pages in memory and file, page count | Open, Insert, split, Find, scan, Close | file | splits in place, separators, failing writes |
| `new_meta_lab` | active snapshots, min/max id, reference counts, Store | Add, GetSnapshot, ScopedResource, BackgroundGC, NotifyDone | background thread | non-atomic counts, lock given up inside Add |
| `duckdb_lab/ThreadPool` | task queue, stop | enqueue, worker loop, destructor | clients | one condition variable for all, shutdown |
| `duckdb_lab` TPC-C (driver, Task, Runner, Collector, factory) | idle drivers, open transactions, metrics | Task::Run, Do*, Use/Release, Record/Summary, NextContext | ThreadPool, DuckDB | rollback paths, concurrent transactions, metrics |
| `duckdb_lab/Utils` SafeIDGenerator | last timestamp | GetNextIDNumber(s) | any threads, clock | clock read before the lock |
| `rocksdb_lab/rocksdb_impl`, `database`, `index` | tables, segments, id mappings in RocksDB and in DBCache | Init, CreateTable, AddDoc(s), GetDoc(s), LoadField | executor, RocksDB | cache against store, crash between write and cache, segment rollover, index entries |
| `rocksdb_lab`, `leveldb_lab` documents and fields | field values, limits, schema, its bytes | add fields, Build, serialize, read back | rocksdb_impl | ids and counts of one byte, two `fixed_` flags |
| `ck_lab` Port, ISink | a shared word of pointer and flags per port pair | Push, Pull, SetNeeded, Finish, Close | connected ports | lock-free flag protocol |
| `ck_lab` Pipe, Pipeline, Graph | processors, unconnected ports, edges | AddSource, AddTransform, AddSink, MergePipes, graph building | ports | bookkeeping of ports, checks that are not evaluated |
| `ck_lab/HierarchyGuard` | entries with counter and mutex | constructor, destructor | threads | two mutexes, erasing an entry |
| `grpc_lab` | call objects on completion queues | OnCreate, OnProcess, OnFinish; client call, loop, Stop | gRPC | life cycle, failed events |
| `tracing_lab` | configuration, spans | Load, Get, interceptor | gRPC, tracer | spans of overlapping calls |
| `asio_lab` | timers and a pool; a connection's outbox | Reschedule, Enqueue, worker loop; Write, WriteImpl, WriteHandler | asio | notify_one with two kinds of sleepers; failed writes |
| `rocksdb_service` | RocksDB, DBCache, the id of an answer | Init, CreateTable, gRPC handler | RocksDB, gRPC threads | text read back as bytes, concurrent CreateTable, crashes |
| generated messages (`db.pb`, `demo.pb`, `config.pb`) | fields, sub-messages, unknown fields | clear, merge, copy, swap, parse, serialize, release | the services | ownership, sizes of negative numbers |
| generated scanners (`yacc_lab`, `llvm-lab`) | buffers, stack of buffers, start condition | yylex, refill, restart, switch, push, pop, scan a string | stdio | a lexeme across the end of a buffer, backing up |
| others (`kafka_lab`, `home_lab`, `faiss_lab`, `ns_lab`, small demos) | see `PROJECT.json` | | | library demonstrations |

For each modelled part the properties that make it correct are in section 3; the ways in which it can go
wrong that a test would hardly reach are the `hazards` of `PROJECT.json`, each at its line.

## 2. Plan

Order: what other parts rest on first, then the parts with the most concurrency, then the sequential ones.

1. BlockingQueue and its abstract channel; RequestExecutor on top of it. Done.
2. BTreeTable; Snapshots. Done.
3. ThreadPool, with proofs. Done.
4. TPC-C on the pool: tasks, drivers and metrics; the transactions over a multi-version database. Done.
5. rocksdb_impl with crashes, and the map of documents it implements; documents and fields. Done.
6. ck_lab: port protocol, pipes and graph, HierarchyGuard. Done.
7. grpc_lab, tracing_lab, asio_lab, rocksdb_service; the generated messages and scanners. Done.
8. Proofs: the queue and its channel, the pool; the executor's shutdown, the snapshot holder, the TPC-C tasks,
   metrics, orders and accounts, ports, guards, the echo server's pool and outbox, the table service, fields and the owners of sub-messages, the
   document store, the asynchronous and the traced calls, pipes, documents and the B+-tree table. Done. What is left is in section 4, with the reason.

Which module builds on which: `RequestExecutor` and `TpccTasks` use the queue and the pool through the behaviour
that `BlockingQueue` and `ThreadPool` are shown to have; `AsyncCalls` and `TracedCalls` send the messages of
`DemoMessages`; `BlockingQueue` implements `FifoChannel`, `DocStore` implements `DocMap`. Parts that share nothing
are put in one MC module and take turns: `MCTpcc`, `MCComponents` and `MCStructures` choose in the initial
state which part moves (`part`), and the others stay as they start, so a run of them has the sum of
the states of its parts and not their product.

## 3. Modules, runs, and what they show

### BlockingQueue, FifoChannel

`BlockingQueue` models `BlockingQueue.{h,inl}`. A wait predicate and the code after it run under the mutex,
so a step is "predicate false, sleep" or "predicate true, operate and notify". SetCapacity has no lock and
no notification. `FifoChannel` is what a queue between threads promises; the queue implements it
(`ImplementsChannel`). Run `blocking_queue`: 2 producers, 2 consumers, 1 thread calling Front/Back, capacity
1 changing to 2 and an attempt at 0, 3 items. These are the smallest numbers at which two threads of each
kind can be asleep at once and a producer can sleep while capacity grows. Checked: no lost wake-up on either side
(`WakeupsKept`), conservation and order by refinement, every Put returns. Fairness: weak fairness of each
thread's step inside a call; consumers loop, as WorkingThread does.

### RequestExecutor

`RequestExecutor` models `executor.{h,cpp}` and `requests.{h,cpp}` over the queue of the previous section
(its proved behaviour used as atomic Put and Take that block). Callers submit asynchronous or synchronous requests, workers
execute, Stop posts one null request per worker and joins. Run `executor`: 3 requests, one of them synchronous, 2
workers with room for one request each, 2 calls of Stop; when Stop may overlap with calls (`LateModes`),
2 of the requests. 39584 states. `StopDrains`: what was put before Stop's null requests has been executed when Stop
returns, nothing is left to hang in a destructor, and a Put that blocks with `mtx_` held has a worker to make
room. `ExecutedAndStopped`: accepted requests are executed and Stop returns. Run
`executor_lost_wakeup` (an expected violation): a synchronous caller can sleep through the completion
because `Done()` does not take the waiter's mutex. The model also has that `WaitToFinish()` returns OK for a
request that failed. Fairness: weak, for callers, workers and Stop inside their calls.

### BTreeTable

`BTreeTable` models `table.h`, `node.h` and `pager.h` of db_lab. A page is a record, a row is its key; keys are
distinct. Cell capacities are small constants (leaves of 2, internal pages of 3 instead of 13 and 510) so that splits, a
full root and a full internal page all happen. `new (page) LeafPage()` is taken to leave the bytes of the page alone, as
the unoptimised build does. The binary searches are written as rounds that halve a window, and the redistribution loop of a split as
rounds that move one cell. Run `btree`: 7 keys, 7 pages, one failing write at Close, reopening; 131299 states. With
inserts in ascending order (every key above the separators of the root) scans, look-ups and separators are right (`AscendingSound`); in any order no row
is overwritten and no descent loops (`RowsKept`). Run `btree_separators` (expected violation): splitting another leaf
than the last leaves a wrong separator. Not modelled: duplicate keys, read errors, a crash in the middle of Close.

### Snapshots

`Snapshots` models SnapshotsHolder with reference counts as plain integers: a decrement is a read, a write
and a test. Commit i and collection i are loaded, referenced and released together and share a counter; the Store and
the holders' caches are sets of ids. Run `snapshots` has two settings: one user thread, as in main(), that keeps one
version, and two users whose Adds overlap and who keep two; 3 ids and 3 Adds, 116867 states. `SnapshotsSound`: the
limits index active snapshots and a snapshot is released once, and with one user nothing active or held is
deleted and an Add finds its commit. `EvictedIsDeleted`: with one user evicted snapshots are deleted in the end. `MaxRefs` (2)
bounds the count at which a reference is taken, because lost decrements make counts grow without bound. Fairness: every
thread inside a call proceeds and the background thread loops (its wait has a 100 ms timeout).

### ThreadPool

`ThreadPool` models `ThreadPool.h`: clients, workers, and the owner that runs the destructor at any time.
notify_all is a step of its own after the locked block. Run `thread_pool`: 2 clients, 2 workers, 3 tasks,
room for one, so that clients and workers sleep on the same condition variable; 116379 states. `NoLostWakeup`, `TasksKept`
(order of acceptance, nothing dropped by the destructor, bounded queue) and `CallsReturn` are checked. Fairness: weak, for every
thread inside the pool's code. A caller still inside enqueue when the destructor has returned would touch freed
memory; that is the caller's error and is outside the model.

### TpccTasks

`TpccTasks` models main(), the choice of contexts in TpccFactory, Task::Run, the Runner and the Collector.
The pool is a bounded first-in first-out queue that is drained before its destructor returns, which is what
`ThreadPool` is shown to be. Of a transaction it keeps the course: the statements succeed, one fails, an exception is thrown, the
COMMIT fails; a connection knows whether it is in a transaction. Run `tpcc` (400512 states with the
next part): 2 workers with 2 drivers, 3 tasks (so that one waits for a driver or a worker), room for one task, 2 warehouses. It shows that drivers are never
shared and go back outside of a transaction (`DriversSound`), that the summary counts exactly what was committed
(`SummaryCorrect`), and that main() returns (`MainReturns`), with two exceptions that the properties name. When a COMMIT fails, the transaction is over and
the rollback in the handler of Task::Run throws, so that the driver is lost and the task has no entry. And
the factory draws the other warehouse of a remote payment between `wh_start_` and `wh_start_`, a loop
without end when the home warehouse is the first. Payments are recorded with the deliveries
(`MetricOf`), so the PAYMENT row of the summary is always empty. Fairness: main and every worker proceed.

### TpccDriver

`TpccDriver` models the five Do functions and the statements they send. DuckDB is external: snapshot reads, an
error for a write-write conflict, and errors for any other reason at any statement. The database is a record of
columns, an open transaction has its view, the cells it wrote and the cells committed since it began. Reads come with
the next statement that writes, because a view does not change under its transaction. Run `tpcc`: 3
transactions of any type at once, one warehouse, 2 districts, one customer each, one loaded order per district; 3 are needed
for a delivery to race with a new order and a payment. The invariants are the benchmark's consistency
conditions on the committed database: order ids dense and unique, NEW_ORDER exactly the undelivered orders (`OrdersSound`),
W_YTD and D_YTD the amounts that the history has for the warehouse and for the district, and a customer's row what the payments
of the history and the deliveries make of it, each once and one after the other (`AccountsBalanced`). The code does not keep exact
balances: a payment computes in `float`, the statement has six significant digits of the result, and a delivery cuts the sum to an `int`. `FloatOf`,
`SixDigits` and `IntOf` stand for these conversions; the run takes coarse ones (a float of four bits, one digit, multiples of ten), so that
amounts of 3 and 25 are really rounded and the order of payments and deliveries shows in the result. `HISTORY` and the sums of warehouse and district add `h_amount`, which has at
most six digits, as it is. The row carries as history the payments and deliveries it has seen. Order lines and stock are
left out: `MockItemIDS` returns no item (its loop condition is the wrong way round), so the loops over items do not
run and the sum a delivery bills is NULL for such an order. With more than one warehouse `AccountsBalanced`
does not hold: a remote payment reads one customer and writes another.

### DocStore, DocMap

`DocStore` models `rocksdb_impl.cpp` with DBCache over RocksDB (external: a batch is written as a whole or fails, and a
written batch survives the end of the process). Every access to the cache is a step, because DBCache locks each one by
itself, and so is each document of the loop of AddDocs, which reads the database (`Build`). Run `doc_store`: 2 threads, 2 tables, segments of 2 documents, batches of one and two documents, one of them with a
uid twice, negative values, failing writes, a crash between any two steps and Init afterwards. `Disciplined` keeps callers
from overlapping in CreateTable and in one table: two CreateTable calls at once do take the same id, and
AddDoc reads and writes the offset of its table in separate steps. `StoreSound`: the cache agrees with the store and
no two documents share an address; `ReadsComplete`: what GetDocs and LoadField find.
GetDocs finds every live document in the range of a filter (with non-negative bounds, since a negative long sorts behind the others in an index key) unless as many index entries as the limit of the
filter, stale ones counted, come before it. LoadField compares a `char` of the key with the id, so that it never finds ids from 128 on, and
loads the first byte of a value only; below 128 it finds every document. The run has the ids 1 and 128, limits 1 and 20 (more than there are entries), and longs of 3 bits with
a byte of one. Ids end at 254, because GetDoc does not read the last one; `ImplementsDocMap`: the
refinement. Run `doc_store_index` (expected violation): an update in the same segment leaves the index entry of the old
value, and after the document moved GetDocs asserts on it.

### Documents, DocFields, AdvancedDocs

`Documents` models `doc.cpp`: fields of a schema by type and name, ids given by Build in the order of names, the bytes of a
schema with counts and sizes of one byte, a document checked against its schema. `DocFields` models the limits of `fields.h` (its two
base classes have a `fixed_` each), `AdvancedDocs` the locked maps of `advanced_doc.h` with threads that add and
replace fields and read the schema back. All in run `structures`; a byte has 2 bits there, so that three fields reach its limit, and one name
is too long for its size (`NameSizes`, `AdvSizes`). No code checks the number of fields or the size of a name (a TODO in `doc.cpp` asks for it): `SchemaSound` says that a schema
survives its bytes if both fit, `AdvMapsAgree` what holds when they do not. In the run `AdvNames` has more names than there are ids, and so ids
wrap; bytes read out of step are `Garbled`. `AdvBound` keeps a change of types and two threads with a field to add apart from the wrapping. `DocBound` and `AdvOrder` use that values, and two of the names, are interchangeable.

### Ports, Pipes, HierarchyGuard

`Ports` models `Port.h`: a producer checks CanPush and pushes, a consumer checks and pulls, each call on the word is one
step. `SetFlags` negates its mask with `!`, which clears every other flag, and starts from an uninitialized `expected`,
modelled as both outcomes. An assertion that fails is a state from which nothing moves (`aborted`). Those of Pull can fail, because
the flags it relies on are cleared; the one of Push cannot (`PortSound`). `Pipes` models
Pipe, Pipeline and Graph: 4 processors, a join and a split, three pipes and two pipelines. `STATUS_CHECK(func)` does not
evaluate `func`, so AddSink adds nothing and a pipe it completes stays unconnected, of which no property speaks. MergePipes copies ports and processors and leaves the pipes it was
given with the caller (only an empty one is dropped, and if it is the last the loop goes on from an iterator past the end: `dead`), so that pipes share processors. `PipesSound` asks nothing of a pipe that was merged, and once a caller goes on with one
(`misused`) it asks only for the number of streams and the graph. `PipeBound` ends a behaviour after such a step or a graph and allows two pipes with ports of their own beside a merged one. `HierarchyGuard`: 3 threads, 2 ids, 2 guards each.

### AsyncCalls, TracedCalls

`AsyncCalls` has the client's main and loop threads, the server's thread and gRPC between them, which may fail a call at
any time: 2 calls, 3 CallData. `TracedCalls` has 2 clients and a server with any of 7 configuration files. A call
the client gives up goes on at the server.

### TimerPool, Outbox

`TimerPool` models Server, TimerContext and Pool of `asio_lab/main.cpp`: 2 workers, 2 timers, room for 2. notify_one
wakes any sleeper. That a wake-up reaches the wrong one is harmless as long as the queue has room for as many handlers as
there are workers, the module's assumption, which the code's 8 and 4 satisfy. `Outbox` models Connection: 2 threads, 3
messages each, failing writes. After a failed write the outbox stalls; `OutboxSound` asks for a write under way only before that.
main() returns before the blocks that use these classes, so they are compiled and not run at this commit.

### TableService

The service of `rocksdb_service`: 2 threads of the gRPC server, 4 names, 4 calls, 4 starts with crashes between them. CreateTable
stores the next id as decimal text and Init reads the bytes at that place as a number (`ReadAs`): the first bytes of a longer text, and for a shorter one
the text, its NUL and whatever is behind. So a process starts from an id that has little to do with the stored one, and two processes can give the same
id: the run reaches such tables (texts in base 2, bytes of 4 values, 3 bytes instead of 8). `TablesRecorded` says what survives this: answered tables are stored with their segment,
and, unless calls overlap, ids and answers differ within a process. It makes no claim across processes, where the comment "The next Table ID to be allocated" of the stored value does
not hold. `era` and `made` are history. `TablesBound`: names are interchangeable and come in order; calls that overlap have at most 3 calls and 3 starts.

### WireFormat, DbMessages, DemoMessages, DemoObjects

The generated message classes, translated at the level of fields: which field is set from which number and wire type,
what is merged, written and measured, and who owns a sub-message. int32 has 2 bits, int64 has 4 and a byte of a varint carries 2
bits in the runs, so that negative numbers and lengths of two bytes happen. Strings are short sequences of bytes. The two copies of
`demo.pb.*` (grpc_lab, tracing_lab) are the same text and one model; `map` points into both.

### FlexScanner

The scanners generated for `yacc_lab/example6.l` and `llvm-lab/tokens.l`: the skeleton of flex, which is the same in both
(`map` names each function in one of them), and the rules of each. Buffers of 1 and 2 characters, so that lexemes cross their end; a
terminal, which delivers any part of a line at a time, and a file. The automaton's tables are modelled by the language they accept.
`TextKept`: no character is lost or doubled by refills, growth and switches; `LongestToken`: the token is the longest text a rule accepts,
however reading cut up the input. The inputs have the start condition `expect` and the long word of example6, from which the scanner has to back up when it does not end as the rule says, and NULs,
which look like the end of the buffer until their place is compared with it. A buffer of no character (`yy_scan_bytes` of an empty string, then `yyrestart`) is outside the runs. `yylex_destroy` destroys the top buffer only, because it clears the top before it pops,
although its comment says "destroying each element"; the leak is in the model and no property is about it.

Runs `components` (132470 states) and `structures` (665435 states) check the last seven sections. Fairness is assumed in
`components` only: weak, for the threads of HierarchyGuard, for client, server and gRPC deliveries in AsyncCalls, for the
main thread and the workers of TimerPool. Not assumed: that a mutex goes to who waited longest, that calls fail,
that timers expire. CHECK_DEADLOCK is off where a program ends.


## 4. Proofs

`SeqLemmas` holds the facts about sequences the proofs share, and induction. The library states induction for an operator, which the
provers cannot instantiate; `SetInduction` states it for a set, from the well-foundedness of `<`, and
`RecursionOnInterval` gives the function that a step defines on `0 .. n`, so that what a recursive function of the model computes can be proved.

`RocksLabProofs`, first part, the blocking queue (any threads, items, capacities; assumptions: the three kinds of threads are disjoint,
the initial capacity is positive). `WakeupsKept` is not inductive alone: a thread
asleep must be known to be inside a blocking call of its kind, so `IInv` is `TypeOK`, `Roles` and the
wake-up invariant. `Conservation` is inductive over `TypeOK` and carries the refinement: each step of the
queue is a Send, a Receive or a stutter of `FifoChannel`.
Second part, the documents of `doc.cpp` (any names and values; assumptions: a name is a number in the order of the strings, there is a
primary key, types are among 1 .. 4). `SchemaOK` says of a schema or a document that names and fields lead to each other and that the ids are those of
Build; `DocInv` adds that what was made of a schema (bytes, copies, a document) was made after Build, which nothing undoes, that a document has its primary
key first, and that Build left it with as many fields as the schema. `SchemaSafe` needs `ReadBack`, an induction over the fields of
the bytes, for schemas whose count and names fit a byte (`SizesFit`); `DocSafe` needs that Serialize visits every field once (`FieldsVisited`) and puts each under an id of its own (`Serialized`,
an induction over what it visits), and that as many names among those of the schema are all of them. Ids and counts have `ByteBits` bits: both properties
speak only of schemas with no more fields than that, and with more the ids do collide. Third part, `advanced_doc.h` (any threads, types, names and sizes, any number of ids).
`AdvInv`: the two maps of names have the same names, and while there are no more fields than ids positions, ids and names determine each other (`NamesOK`, which also says what is left of it
after an id has wrapped), what a thread has looked up stays in the schema until it adds
it, and a schema read back has the ids of the schema (`SameIds`); `Rebuilt` is the induction over the bytes.

`PoolTableProofs`, first part, the thread pool (any clients, workers, tasks and size; assumptions: the kinds are disjoint, at least one worker,
size positive). `IInv` adds to the types where each kind of thread may be (`Roles`) and that a worker leaves
only a stopped and empty pool (`Shutdown`). `NoLostWakeup` is inductive over it, because whoever makes a
predicate true is then at its notify_all. `Accounted` (a started task has run or is in a worker's hands)
with `StartedInOrder` gives `DestroyedAfterRun`; `PoolKeepsTasks` puts them together with the bound of the queue into
`TasksKept`, the invariant the run checks. Second part, `TableSafe`, the B+-tree table (any keys, any capacity of a leaf from two cells
on, any capacity of an internal page, any bounds on pages and failing writes): with ascending keys `AscendingSound` holds in every state the table can be read in.
`TableInv` has two halves. `Stored` says where a page is: in memory, or in the file, and after the destructor all of them in the file; so
Close, the destructor, Open and a select leave what is read of each page (`View`) alone, also when a write fails. `Tree` says what
the pages hold: some order `ord` of the pages 1 .. n+1 is the children of the root, a chain of leaves along `next_leaf`, each with ascending keys all above those
of the leaf before, separators equal to the largest keys of their leaves, and the rows their union. The lemmas go from the
code up: what a binary search returns among ascending keys (`HalvingEnds`, `InternalFound`, `LeafFound`: n rounds close the window), what the redistribution
loop leaves on the two pages although it overwrites the cells it reads (`SplitLeafSplits`, by induction over its rounds), that a search and a shift keep the
order (`MergedAscends`), then one lemma for each of the three ways an insertion ends. In `ChildSplitKeeps` the separator that DoInsertAndSplit writes
first, the largest key of the *parent*, lands one past the last key, because an ascending key always splits the rightmost leaf, and InsertInternal overwrites it
with the right one; for other orders it does not, which is what `btree_separators` shows.

`PipelineProofs`, first part, `ExecutorSafe` (any requests, stopping threads, `Parallel` and capacity, both positive; callers and stoppers are different
threads). `StopDrains` speaks of the moment `Stop()` returns, so `ExecInv` follows a request from `Put` to `Done`: who holds
`mtx_` (`Locks`), that an accepted request is in its executor's queue or in the worker's hands (`Placed`), that it is
ahead of every null request (`Nulls`), what a `Stop()` has joined so far (`Ends`), and, when no call races with it, that each
executor it has posted to ends on that one null request (`Alone`). Second part, `PipesSafe` (any finite set of processors with
any numbers of ports, any pointers): `PipesInv` says that a port is in one connection, that a pipe has no more outputs than its `max_parallel_streams_`, and, unless a caller has gone on with a
merged pipe, that a pipe lists open outputs of its own processors, once each, and that no two pipes of which none was merged share a processor. So the outputs that AddTransform connects are in no other such pipe, and those AsFromConnect
connects are in none. What the constructor of a pipe and AddTransform collect is an induction over the ports (`UnconnectedFacts`) and over
the processors (`OpenOutputsFacts`); `GraphMirrored` finds a connection at both its nodes.

`SnapshotsProofs` (any users, ids, settings and bounds; assumptions: `GC` is not a user, users and ids are finitely many, ids and
`num_versions_` are positive). The first half is for any number of users: the limits are the ends of `active_` (`Ends`), and a
snapshot has one place (`OnePlace`), of which `ReleasedOnce` counts the members. The second half is for one user w beside the
background thread. The count of a snapshot is decremented in three unlocked steps by two threads, and a decrement may be lost; so
"the count is the number of references" is false and the invariant is weaker. `Ascending(w)`: ids are added upwards and
evicted from below, so an id in use has one snapshot. `Counted(w)`: a snapshot that is active or waits for the background thread counts
at least 1, at least 2 while w holds it, and a decrement that is half done has read as much; once the background thread has it, w's
hold still keeps it above 0, whichever write comes last. `Kept(w)`: hence the `UnRefTest` that finds 0 never deletes what is active, held or being
added. `SnapInv` was checked by TLC on three settings before it was proved.

`TpccProofs` (any finite sets of workers and as many drivers, at least one; any number of tasks). `TasksInv` gives every task (`Jobs`) and every
driver (`Lent`) one place, says when a connection is in a transaction and when a task has an outcome (`Outcomes`), and equates three
pairs of counts (`Sums`): drivers lost and handlers that threw, entries of the Collector and tasks recorded, commits counted and
tasks committed. `SummaryCorrect` is the last two of these when `main()` is at its end; `DriversSound` also needs that a list without
duplicates has one position for a driver. `OrdersSafe` is about the transactions (any connections, warehouses, districts and
customers; assumptions: warehouse 1 exists, districts are numbered from 1, there is a customer, a loaded row is not named like an
inserted one). `OrdersSound` speaks of the committed database only, and `DriverInv` says what a transaction must know of it when it
commits. `Isolated`: a written cell has one writer, who has overlooked no commit of it, and what a transaction neither wrote nor overlooked it
sees as it is. `NewOrderSound`, `DeliverySound`, `OtherSound`: which cells a transaction of each type has written at each
statement and what is in them; a new order that has incremented `D_NEXT_O_ID` knows the committed value until it commits, and
a delivery has deleted a NEW_ORDER row exactly where it has set a carrier. `Ledger`: keys are unique, a NEW_ORDER
row and its order are paired, and a transaction that has not committed has no row. The step that needs all of it is the commit:
the others' knowledge survives because the cells it rests on are theirs. TLC checked `DriverInv` before it was proved.
`YtdSafe` and `AccountsSafe` are about the money and stand on `DriverInv`. `YtdInv`: a payment has written exactly the cells of the statements behind it, and
in its view the sums of its warehouse and district are the committed ones and its amount, which stays so because a written cell cannot be
committed by another; that nothing is lost then is one payment more in `HISTORY` against one amount more in the sums. No bound on the
number of transactions is needed: those that have paid are always finitely many. `CustomerInv`: the row a payment
writes back is the committed row with one entry more, the payment, and the row a delivery has written is the committed row with entries for
the orders in `Credited`, those whose carrier it has set except the one it is at; every one of them was undelivered, so
that no order has two entries. The amounts follow the entries whatever `FloatOf`, `SixDigits` and `IntOf` compute; nothing is assumed of them. `YtdSafe` holds for any warehouses; `AccountsSafe` has the hypothesis `OneWarehouse` (the default scale
factor), without which it is false.

`ComponentProofs` has seven parts that share nothing.
- `PortSafe`: what `CanPush` found out stays true until the push, because only `Push` sets the flag; a Data has one place.
- `GuardSafe` (finitely many threads): an entry counts its users and belongs to the one inside, an equality of a counter and a
  cardinality that each step moves by one.
- `PoolSafe` (finitely many workers, a queue with room for as many handlers): `PoolAwake` is not inductive. While the main thread
  sleeps, fewer workers sleep than there are handlers queued; that is what makes the last sleeper woken the main thread.
- `OutboxSafe` (any threads and calls of `Write`): `OutboxSound` is inductive with the types. The lemmas say what posting to the
  strand and taking from it does to the messages that wait there, with the one WriteHandler among them left out.
- `TablesSafe` (any names, threads and starts, any radix and sizes of bytes and longs; assumption: fewer calls than there are ids). A start may read any id.
  From there a process counts: the table it makes after k others has the id `Nth(first, k)`, past the largest id again from 0, and k is too small to come
  round (`NthDiffers`). `InTurn` says so of every table with what `made` recorded of it, `TidIsNext` of `tid_` between calls; nothing relates the tables of two processes.
- `AsyncSafe` (any number of calls, one CallData address more than there are calls). `AsyncInv`: exactly one CallData waits for a request,
  every other one serves a call, no two the same, and holds that call's question; a tag of one that has not answered
  means that it has been given a request. The step that needs it is OnProcess, which must find room for the next CallData: all live
  ones serve different calls then (`FreeCallData`, the pigeonhole principle). `CarriedAssumption` says that the number a call asks for survives
  the two messages, which are written and parsed by folds; TLC evaluates it on the run's numbers and `MessagesSurvive` checks it more widely.
- `TraceSafe` (any clients and configuration files). `TracedInv`: every span belongs to one call. A `Get` span is the server span of a call and has
  the call's context as its parent, no two calls share a span of either kind, and what a client makes below its own span has ended when it is
  recorded. Spans are only added and ended (`Later`), so a call that does not move keeps its part of the trace
  (`CallStays`). `GetTypeAssumption` is about the messages, as above.

`StructureProofs`: `FieldSafe` (limits are integers, those of a length are not negative), one step per call of a field; and
`MessagesSafe` (the null pointer is no address). `OwnInv`: responses and caller point to live sub-messages, each to its
own, and every live one is pointed to; with the last part a double deletion would be a pointer to a dead one.
`StoreSafe` and `ReadsSafe` are about the document store (any threads, tables, fields, batches, segment size and width of a long; crashes,
restarts and failing writes at any step; assumptions: a long has at least one bit, and the marks `Deleted` and `None` are no stored
value and no name). Their hypothesis `Disciplined` is the one the callers must keep: no two overlap in CreateTable or in AddDocs on one table.
Both follow from `StoreInv`. `DbOK` says what every database on disk is like, so also what Init finds after a crash: ids are below
the stored next id and differ, nothing is stored for an id not given out, every uid has an address of its own, below the next one, with
each field's value and the index entry of that value. A batch is judged before it is written: `BatchOK` says that it touches only its
table's keys, and of those only addresses not yet given out or of documents it replaces, and that the counters it stores are those of the
call; `NewBatchOK` shows that one more document keeps this (it may be new, move from an earlier segment, stay in its place, or be in the batch
already), and `WrittenTable` that such a batch leaves a sound table. `CacheInv`, `CreateInv` and `AddInv` say what the cache and each thread
know at each step: the cache may be behind only for a table whose writer is between its write and its updates. Keys of
different tables differ (`OwnKeysApart`), so a write leaves what the others have read true (`BatchFrame`, `TableFrame`).
`ReadsSafe` then says that the index entry of a live document is there and, if the loop reaches it, found. TLC checked `StoreInv` before it was proved. Two lemmas are about recovery: `IteratorFacts` (what a scan of a prefix finds) and `RecoveredFacts`.

Only model-checked, and why:
- liveness under fairness (`ExecutedAndStopped`, `EvictedIsDeleted`, `TimersRun` and the like), which the prover does not reach;
- what folds and recursive functions compute for every input, an induction over data: `WireRoundTrip`,
  `MessagesSurvive`, `LongestToken` and `TextKept`;
- `RowsKept`, the B+-tree with keys in any order: separators are then wrong (`btree_separators`), and where a key or a child goes depends on
  which wrong one the search meets; no invariant for every capacity is known;
- the refinement of `DocMap`: that the steps of a batch add up to the batch is an induction over its documents.

## 5. Not modelled

The parts marked `not_modelled` in `PROJECT.json`, each with its reason: demonstrations of libraries without a state of
their own (faiss, kafka, namespaces, boost, folly), shells and mains, printing. Of the parts marked `partly` the component note
says what is missing; the larger ones are the LALR parser of `y.tab.c` and the automaton tables of the scanners, which are
data; the gRPC stubs, arenas, descriptors and reflection of the generated code; order lines and stock in
TPC-C, which no order has; and the sink's states in ck_lab, behind a null pointer. External code (RocksDB, DuckDB, gRPC, the
protobuf library, asio, the tracer, the C++ runtime) appears only as the behaviour the modelled code relies on.
