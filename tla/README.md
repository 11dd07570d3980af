# DBStream: a TLA+ verification project

DBStream copies the change log of a database (MySQL) into a local store of
*blocks*, ordered by log position, and lets consumers read that store as a
stream. This directory holds TLA+ models of the path of a change from the server's log to
the block files and to a reader, with its threads, failures and restarts, the TLC
configurations that check them, and TLAPS proofs. Paths below are relative to the repository.

Conventions: a definition keeps the name of the function it models; an operator
`f_Something` whose comment begins with "Mutant" is a deliberately wrong variant of `f`
that shows a property can fail; `PROJECT.json` maps every definition to its lines.

## 1. Inventory

### The life of a record

    mysqlDataSource --insert--> database (m_current: appendingBlock)
                                   | block full / flushLogs / stop
                                   v
                      m_unflushedBlocks: ringFixedQueue
                                   | pop
                                   v
                      flush threads (threadPool) --writeToFile--> block files
                                   |                                  | load()
                                   v                                  v
                      m_blocks: appendingBlock replaced by solidBlock
                                   ^
    consumers: databaseIterator, index iterators, getRecord (page cache)

One writer thread, up to `m_maxFlushThread` flush threads, and any number of consumer
threads share `m_blocks`, the links `prev`/`next` between blocks, the blocks' record
counts and flags, and the pages of the solid blocks. Nothing but block files survives
the process.

### Components

| component | state | operations | hard behaviour | what makes it correct |
|---|---|---|---|---|
| `util/ringFixedQueue.h` | array, `head`, relaxed atomic `end` | push (one thread), pop (many) | compare-and-swap on a slot number; full/empty boundary; time-outs | every element once, in order |
| `thread/threadPool.h` | slot states, thread count, `m_quitLock` | createNewThread, run, wrap, join, quitIfThreadMoreThan | threads leave and are replaced concurrently; joins | count exact, one thread stays while there is work |
| `database/database.cpp`, writer | `m_current`, `m_recordId`, `m_status` | insert, allocMemForRecord, flushLogs, createNewBlock, finishAppendingBlock, stop | full queue, failing hand-over, stop against late threads | no block lost or flushed twice; stop drains |
| `database/database.cpp`, flush | queue, links under `m_flushLock`, `m_blocks` | flushThread, flush | neighbours flushed at the same time, I/O errors, idle limit | chain of blocks stays intact |
| block files (`solidBlock.cpp`, `block.cpp`, `load`, `checkpoint`) | files, `.tmp` files | writeToFile, loadFromFile, load, checkpoint | crash at any step, files finished out of order | ordered, complete, immutable files; restart works and resumes at the right place |
| `appendingBlock` | records, count, flags | append, iterators, toSolidBlock | read by consumers without a lock while it grows | a reader sees every record once |
| `databaseIterator.cpp`, `iterator.h` | position, status, flags | next, seek by time, checkpoint or record id | roll-over under the reader | keys increase, nothing skipped |
| page cache (`page.h`, `ref.h`, `solidBlock::getPage`) | reference count, buffer, LRU list | use, unuse, own, share, loadPage, fullGc | one count for sharing and for ownership | data present while used, one loader |
| indexes (`appendingIndex`, `solidIndex`, `kWaySortIterator.h`) | sorted keys, heap | find, seek, next | merge over blocks of which one still grows | same answer as one sorted index |
| redo log | redo file per block | writeRedo, finishRedo, recoveryFromRedo, pickRedo | crash between redo and block file | nothing acknowledged is lost |
| `util/pageTable.h` | two-level table of pointers | get, set, update, erase | concurrent creation of a level | no entry lost |
| `store/schedule.cpp`, `thread/cond.h` | ready list, waiting jobs | worker, process, wakeUp | lost wake-ups, quitting workers | every ready job runs |
| spin locks (`qspinlock`, `mcsSpinlock`) | lock words, queues | lock, unlock | memory order | mutual exclusion |
| lists (`dualLinkList.h`, `nonBlockStack.h`) | linked nodes | insert, erase, push, pop | lock order, ABA | no node lost |
| memory pools (`memory/`) | free lists, ring buffer, buddy tree | alloc, free | concurrent free | no memory handed out twice |
| `dataSource/mysqlDataSource`, `DBStream.cpp` | position, parser state, output queue | start, readThread, syncRead, asyncRead, parse, stop; main loop, signal handler | reconnect and resume; two threads; stop against a full queue | no event lost or repeated; stopping ends |
| search by time (`mysqlBinlogReader.cpp`) | bounds of a binary search | seekBinlogByTimestamp | files without commits, equal times | no later commit lost |
| `meta/` | tables by time and by id | put, get, processDDL | schema changes against readers | the version valid at an offset |
| `replicator/` | buckets of transactions by row | commit order | dependencies between transactions | conflicting rows in order |
| `cluster/`, `memKvDatabase/` | log files; row versions | built as libraries, no user in the program | | |
| parsers, shell, net, auth, crypt, lz4, sparsepp, util | | sequential code, I/O or third-party code | | |

`PROJECT.json` lists all components with their status, and under `hazards` the places
in this code that tests would hardly reach.

## 2. Plan

Written, in this order:

1. `RingFixedQueue` refining `FifoQueue`.
2. `FlushPipeline`: writer, queue (as the FIFO channel of 1), pool and flush threads.
3. `BlockReader`: a consumer against the writer.
4. `BlockStore`: block files across crashes; abstracts 2 to "how many blocks are
   being written".
5. `PageCache`: one page and its readers.
6. `MysqlSource`: from the server's log to insert(), with reconnects, the queue between the
   two threads, signals and restarts; `BinlogSeek` (start at a time) and `MetaCatalog`
   (table definitions by log offset) beside it.
7. `IteratorSeek`: the seeks of a consumer while the database grows.
8. `RedoLog`: the redo file of a block across failures and crashes.
9. `QSpinlock` and `RingBuffer`: the lock and the memory the parts above share.
10. Proofs: `RingFixedQueue_proofs`, `FlushPipeline_proofs`, `BlockStore_proofs`, `BlockReader_proofs`, `IteratorSeek_proofs` and
   `RingBuffer_proofs` beside the module each is about; `Parts_proofs` about `QSpinlock`, `PageCache` and `RedoLog`;
   `Source_proofs` about `MysqlSource`, `BinlogSeek` and `MetaCatalog`. Every safety property that a passing run checks is a theorem.

`MCMysqlSource` and `MCParts` put small independent components side by side: a behaviour
chooses one part in its first state and runs only that one.

Next:

* *Model*: later blocks of the redo log; descending reads across blocks; the k-way merge;
  `clusterLogFile`, row versions of `memKvDatabase` and the bucket order of `replicator`, none of
  which the program uses so far.

## 3. The models

**Build assumption.** `CMakeLists.txt` sets the build type Debug (`-g`, no optimisation,
assertions on) for x86. Plain shared variables are therefore accessed in program order
and stores become visible in that order. Under optimisation `head` of the ring, which is a
plain `int` read in a wait loop, could be cached; that is outside these models.

### RingFixedQueue, FifoQueue (`src/util/ringFixedQueue.h`)

State: the slots, `head`, `end`, and for each consumer its local `e` and `v`. Every access
to shared memory is one action: push tests for room, stores, publishes; pop loads `end`,
tests for emptiness, reads the slot, and swaps. The n-th element pushed is the number n.
`seenAt`, `popped`, `pushed`, `out` are history variables; `lapped(p)` says that the ring
went round once since consumer p loaded `end`, and `lappedTake` that such a consumer's
compare-and-swap succeeded (the slot number is right again, the element is not).

### FlushPipeline (`src/database/database.cpp`, `src/thread/threadPool.h`)

The writer and each pool slot's thread have a program counter with one step per access to
shared state: `createNewBlock` (link, then hand over), `finishAppendingBlock` (push, else
createNewThread), `stop` (finish, push, set status, join one slot after the other),
`flushThread` (pop, idle rounds, quitIfThreadMoreThan, the extra pop of the last thread),
`flush` (write, copy the links, relink, update the table) and `wrap` (release `m_quitLock`,
JOIN_ABLE, decrement). The two objects of a block, appending and solid, are distinct, so the
links can really go wrong. The queue is the FIFO channel that the ring implements for one
consumer: the lapping of `ring_lapped` is not repeated here.

### BlockReader (`src/database/appendingBlock.h`, `databaseIterator.cpp`, `database.cpp`)

Appends and roll-overs by the writer; `next()` in its separate reads: the count, then
the finished flag, then `next` of the block. `m_flag` is a set of bits because the flags
overlap. `delivered` is the history of what the consumer was given. A seek has put the
reader on the first record; filters and the solid form of a block are left out.

### BlockStore (`src/database/database.cpp`, `solidBlock.cpp`, `block.cpp`)

The writer as above; blocks being written pass through written and synced to their
name (rename). `crash` may come between any two steps and keeps only named files; one
that was named before it was synced would lose its contents. `load` walks the files as
the code does: a broken header or a `m_prevBlockID` that is not the file before makes it give
up on the block; otherwise the first new identifiers and the resume point are computed.
Record r carries the log offset of its *event*, and several rows share one
(`RowsPerEvent`). The redo log is off, its default.

### PageCache (`src/database/page.h`, `solidBlock.h`, `src/util/ref.h`)

One page with its count and buffer, and readers that fetch it, read, and release it,
one step per access to shared memory. The page was either flushed in this life (data in memory) or found in
a file at the start (no data, and a list pointer that the former process left in the file).
`pageRaced` records that a use() or unuse() changed the count while it was negative, that is,
while a reader owned the page.

### MysqlSource (`src/dataSource/mysqlDataSource/`, `src/util/arrayQueue.h`, `src/DBStream.cpp`)

The server's log is a constant, a sequence of files of events. `reader` is the position that
mysqlBinlogReader has noted, `conn` what the server sends next; the connection may be lost before any
event, and the reader asks again from its position; an error of another kind ends the reading (`serverError`), and so do rows that
the parser cannot read (`parseFails`). The events a server makes up for a new dump (rotate, format)
carry no position. `parser` has the table map and the rows of the event at hand. With
`async` a reading thread pushes into arrayQueue, whose cell and position are written in two
steps, and the main thread pops in two; without it the main thread reads itself. The main loop inserts,
begins and commits; `signal` interrupts it in sigHandler, which stops the source and joins. `restart` is
the end or crash of the process at any point: the store keeps some first part of what was inserted (what
BlockStore shows of one flush thread) and the source resumes at the offset of the last kept record. `load` goes on with the transaction id
behind the `m_maxTxnId` of the last block, which commit() sets while the block is `m_current`: `commits` and `loaded` say what it can
be (`maxTxnIds`), and `loaded.back` that it was below the id of the last record.

### BinlogSeek (`mysqlBinlogReader::seekBinlogByTimestamp`)

The binary search over the log files with its probe of each file's first commit, files that
have none, and the scan of the chosen file that notes the offset of the last begin. Logs have
commit times in order, as a server's group commit writes them (`ServerLog`); those of the run have two or three
files, with a hole in their numbering in some. `PassedOver` names the commits that the search may leave out.

### MetaCatalog (`src/meta/metaDataCollection.cpp`, `metaTimeline.h`)

Timelines of databases and tables, `put` and `get`, and processDDL for create, drop, rename and alter.
`truth` is what the server had after each statement. start() goes to a place of the log first and then loads the schema the server has by
that time: `Beginnings` pairs what the server had there with what is loaded. A table is `astray` from the start when the two differ for it, and otherwise
from the statement on that the catalog does not follow; createTable and alterTable may fail (`ok`).

### IteratorSeek (`src/database/databaseIterator.cpp`, `solidBlock.cpp`, `appendingBlock.h`)

The binary searches over blocks and inside a block, each round one step, and the walk by time, while the
writer appends, rolls over and flushes and while blocks of files are not loaded yet. The times of events need not grow with their offsets (`TimeOf`). `held` counts the uses of each
block the seek has taken. Reads outside the array in an appending block give any value or end the process.

### RedoLog (`src/database/appendingBlock.h`, `database.cpp`)

The redo file of the first block of a process: opened, written, finished, removed, replayed.
Every operation on a file may fail, the process may die before each one and inside a write.

### QSpinlock (`src/thread/qspinlock.h`, `qspinlock.cpp`)

The lock word with its locked byte, pending bit and tail, and a node for each thread. Every atomic access is
one action.

### RingBuffer (`src/memory/ringBuffer.h`)

The ring of nodes that holds the parsed records; one thread allocates, one frees. A chunk's size word is written
after the memory is claimed, in a step of its own; `bufRaced` records that freeMem read such a word before
it was written.

## 4. The runs

| run | checks | instance | states |
|---|---|---|---|
| `ring_spmc` | TypeOK, OccupancyExact, PendingIntact, InOrderUnlessLapped, EventuallyDelivered | 4 slots, 2 consumers, 6 pushes | 65 543 |
| `ring_fifo` | ImplementsFifo | 4 slots, 1 consumer, 7 pushes | 348 |
| `ring_lapped` | *violated*: ExactlyOnce | 2 slots, 2 consumers, 4 pushes | |
| `flush_pool` | OnePlace, NoneLost, ChainIntact, CountExact, StopDrainsAlone, StopReturns, HandOverReturns, EventuallyFlushed | 3 slots, at most 1 or 2 threads, queue of 1, 3 blocks, I/O errors, with and without idle limit | 197 383 |
| `flush_drain` | *violated*: StopDrains | 2 threads, 3 blocks | |
| `reader_order` | KeysIncrease, CatchesUp | 5 records, 4 blocks, ascending and descending | 38 235 |
| `reader_complete` | *violated*: ReadsEveryRecord | 3 records, 3 blocks | |
| `store_crash` | StoredInOrder, IdsDisjoint, NothingSkipped, LoadsWhatOneThreadWrote, FilesImmutable | 5 records, 2 rows per event, 4 blocks, 2 threads, 2 crashes | 101 467 |
| `store_hole` | *violated*: LoadSucceeds | 4 records, 4 blocks, 2 threads, 1 crash | |
| `source` | StoredFollowsLog, TransactionsApart, RowsFindTableMap, StopEnds, AllStored (MysqlSource); SeekLosesNone (BinlogSeek); DefinitionAtOffset (MetaCatalog) | log of 2 files, queue of 2, 2 lost connections, 2 restarts; logs of 2 or 3 files, 3 times; 2 databases with 2 tables, 3 statements, 5 pairs of schemas at the start | 430 009 |
| `parts` | LockExclusive, QueuedGetsLock (QSpinlock); CountCoversUsers, KeepsData, WaitEnds (PageCache); LiveKept, DiesOfBacklog, AllReclaimed (RingBuffer); SeekNearest, SeekMissesNone, UsesReturned (IteratorSeek); RedoHoldsRun (RedoLog) | 3 threads; 3 readers, 4 calls of getPage; 4 nodes of 3 words, 6 chunks; 3 blocks, 3 records; 2 records, 1 failing finishRedo | 470 919 |
| `redo_replay` | *violated*: FlushedKept | 2 records | |

### What they show

* **Ring.** Two consumers get every element once and in order, the one free slot keeps full and
  empty apart, and nothing is overwritten, *until* a consumer is preempted between
  loading `end` and its compare-and-swap for a whole round of the ring. Then it delivers an
  old element (`ring_lapped`): the comment "thread safe,multi thread can pop" does not
  hold. With one consumer the ring is a FIFO channel, liveness included.
* **Flush.** No interleaving of writer, flush threads, errors and time-outs loses a block,
  flushes it twice, breaks the chain of links or miscounts the threads, and neither a full
  queue nor stop() waits for ever. stop() drains the queue with one thread; with two, both can
  leave at the same time, each counting on the other, because wrap() releases `m_quitLock` before it
  decrements the count (`flush_drain`). The idle limit of the only thread leads to
  flush(nullptr) (`flushNull`); StopDrainsAlone and EventuallyFlushed are stated for
  behaviours without it (`idles`).
* **Readers.** Keys grow although every roll-over of insert() burns an identifier, no block is left out
  and nothing inside a block is left out between two records
  delivered. At the end of a block a reader may miss the last records or be
  given one that does not exist yet (`reader_complete`).
* **Crashes.** Files stay in order, without duplicates, with disjoint identifiers, and are never
  replaced, also with two threads that finish out of order or fail. While one
  flush thread ran at a time, every set of files loads, and all that is missing below the newest
  record are rows of an event that a crash cut in two (they share the offset at which the
  source resumes). With two threads a hole can be left, and load() does not move the files behind it
  aside as its comment says but aborts in `~solidBlock` (`store_hole`). When the hole is at the beginning,
  load() accepts the files and the first block is silently missing, which is why NothingSkipped is stated for
  one thread.
* **Source.** Through lost connections, rotation of the log, the two threads and restarts the store gets the
  records of the log once and in order, the map that rows meet is the last one of the log before them, and stopping
  ends. What it does not survive is in the model and excepted by name: a restart
  between a table map and its rows finds no map and dies in an assertion, at every
  start again (`BinlogEventParser.cpp:442`), and so do the rows of a statement with the maps of several tables before them, of which the parser
  keeps the last; rows of different transactions share no id until a restart finds a last block that was flushed inside a
  transaction: its `m_maxTxnId` is 0 or that of an earlier one, and ids in use are given again (`database.cpp:917`); a refused dump is reported as READ_OK and the next read uses a null connection; a signal
  while the thread runs makes sigHandler join it, and the second join in main throws (`DBStream.cpp:29`), before
  the store is stopped.
* **Start at a time.** Reading begins outside a transaction and before everything that is not older, except that commits of
  exactly the wanted time may be left out when a later file, which is not the last, begins with that time: the search stops there
  and does not look at the end of the file before (`mysqlBinlogReader.cpp:626`).
* **Table definitions.** Every offset, old ones too, sees the definition of its time through drops, renames and
  databases made again, for every table that is not astray. A table is astray from the start when its definition or its database was changed between
  the place where reading begins and the load of the definitions, which every restart after a DDL statement may bring; later when the catalog fails to
  follow a CREATE or ALTER, by a RENAME of several tables that swaps or chains names (it is refused), by a CREATE TABLE IF
  NOT EXISTS of a table that exists (it replaces the definition), and by a statement together with a table that is astray.
* **Seeks.** A seek by log offset or record id that ends in a solid block is on the nearest record; one by time ends on the first record on
  the right side, of which a later one may be nearer, since times need not grow. A key that lay inside a searchable block
  when the seek began is found, however the database grows. Outside this promise: a key between the ranges
  of two blocks is not found; a seek by time looks only into the first block, from the oldest on, that begins
  early enough and dies on one that is not loaded (`databaseIterator.cpp:25-35`); inside an appending block the search
  reads outside the array (`appendingBlock.h:552`) and a descending seek follows the null filter (`:451`). Seeks by log offset
  give back their uses; those by record id and time leak them (`databaseIterator.cpp:182-203`, `:28`).
* **Redo.** `m_redoFd` starts as 0, which is a valid handle, so the records of the first block go to
  the standard input until finishRedo fails once and a redo file is opened. From its first record on the file then has every acknowledged record once and in
  order, whatever fails or is torn (RedoHoldsRun). At a start the test for the block file is the wrong way round (`database.cpp:648`): a redo file
  without block file is removed, one beside a block file is replayed; a file cut short behind its creation counts as an ended block without
  records and is written over the block file (`redo_replay`). The end mark is written with 8 bytes and looked for with 4, so it is never
  recognised.
* **Pages.** Until a use() or unuse() meets an owned page, the count is above the number of users,
  one reader loads, the data stays and waiters go on. Above, not equal: use() from zero counts
  twice, so a page is never put into the LRU list and fullGc never frees one. Once
  a reader does meet an owned page (two readers on a page that is being loaded suffice), the count may fall
  below the number of users and a page may be taken away under a reader; TLC explores
  these states too, but there is no promise to check in them.
* **Lock.** One owner at a time, and a thread in the queue gets the lock in the end, although others come past it
  as pending threads.
* **Record memory.** Chunks in use stay apart and inside their node, and what is freed is reclaimed, until freeMem reads
  the size word of a chunk that alloc has claimed and not yet marked (`ringBuffer.h:91`). With three free nodes the head pointer stays locked;
  alloc then dies, never before there were four nodes.

### Bounds

The ring's behaviour depends on positions modulo its size: 6 or 7 pushes go round four slots almost twice,
which is what lapping needs. Three blocks give every flush a
predecessor and a successor, a queue of one is full after one block, and a pool with one slot more
than threads makes createNewThread choose. Two crashes let the second life's blocks meet those of a third; two rows
per event are the least that can be cut in two. Three readers allow an owner, a waiter and a
third one that meets the page owned; four calls let one of them come back, and `UseTries` is the code's own 10.

The log of `source` has a transaction with two statements, one of two rows, a DDL statement, a transaction with two maps before two events of rows, and a
change of file: the least in which a reconnect or restart can fall into each kind of gap. A second restart meets a block that the first left inside a transaction. The log
has no rollback event, at which the process ends (`copyRecord`); the proofs cover it. A queue of two
cells (`Volumn` must be a power of 2) is full and goes round. Two lost connections allow one while the
answer to another is being read. Times 1 to 3 over commits at 1 to 3 let files share a time, begin with the wanted one or end with it. Two databases with two tables and three statements allow a swap, a chain
and a database made again; at the start the schema that is loaded is that of the log position, or has a table altered, a table renamed, a database dropped or a
database added.

Three threads on the lock give an owner, a pending thread and a queued one, and a queue of two once the pending
thread went through. Four nodes of three words are the fewest in which the backlog of DiesOfBacklog can build up. Offsets {1, 3} and keys {0, 2, 3}
ask before, between and at records, the later event has the earlier time; three blocks are the least binary search with a middle.

`MaxPush`, `MaxBlocks`, `MaxRecords`, `MaxCrashes`, `MaxGets`, `MaxLost`, `MaxRestarts`, `MaxStatements`, `MaxAllocs`, `MaxRedoRecords`, `MaxFinishFails`,
`MaxSeekBlocks` and `MaxSeekRecords` are bounds of exploration only and appear in guards.

Deadlock checking is off where the model ends because a bound is used up, or the process is dead.

### Fairness

Weak fairness of each thread that is inside an operation, as the operating system's scheduler
gives it: flush threads loop (`flushThread`), the writer finishes what it began but
need not insert or stop; consumers of the ring poll (`flushThread` calls pop again); a reader polls
next() again after BLOCKED, as the iterators' users do; a thread that is in the slow path of the lock or owns it goes on, but
none has to ask for it; the reading thread and the main thread of the source loop. A reconnect is assumed
to succeed when it is neither refused nor given up after its 31 tries; a server's heartbeat wakes a reader that
waits for events. No fairness is assumed of the environment (inserts, crashes, errors, signals, lost
connections), and no strong fairness anywhere.

## 5. Proofs

A run checks one small instance; the theorems below hold for every value of the constants that the
named ASSUME of the module allows. These say that sizes and bounds are numbers of a sensible range and that a
"none" value is not an ordinary one; for the source they also say what a server writes: the rows of a statement come behind the map of
their table, other maps in between or not, and behind the begin of their transaction, with no commit in between, in the same file (`BinLogAssumption`), and no
file begins before a commit of an earlier one (`BinlogSeekAssumption`). `RingBufferAssumption` lets a chunk fit into a node (see section 6). TLC evaluates them in the
runs.

| module | theorem | property |
|---|---|---|
| `RingFixedQueue_proofs` | TypeCorrect, OccupancyTheorem, PendingTheorem, DeliveryTheorem | TypeOK, OccupancyExact, PendingIntact, InOrderUnlessLapped |
| | FifoUntilLapped, OneConsumerFifo | the steps of the ring are steps of `FifoQueue` |
| `FlushPipeline_proofs` | PipelineTypeCorrect, CountTheorem, OnePlaceTheorem, NoneLostTheorem, ChainTheorem, StopTheorem | TypeOK, CountExact, OnePlace, NoneLost, ChainIntact, StopDrainsAlone |
| `BlockStore_proofs` | StoreTypeCorrect, OrderTheorem, IdsTheorem, ImmutableTheorem, LoadTheorem, SkipTheorem | TypeOK, StoredInOrder, IdsDisjoint, FilesImmutable, LoadsWhatOneThreadWrote, NothingSkipped |
| `BlockReader_proofs` | ReaderTypeCorrect, KeysTheorem | TypeOK, KeysIncrease |
| `IteratorSeek_proofs` | UsesTheorem, NearestTheorem, MissesTheorem | UsesReturned, SeekNearest, SeekMissesNone |
| `RingBuffer_proofs` | BufInvTheorem, LiveTheorem, BacklogTheorem, ReclaimedTheorem | the invariant, LiveKept, DiesOfBacklog, AllReclaimed |
| `Parts_proofs` | LockTypeCorrect, LockExclusion | LockTypeOK, LockExclusive |
| | PageTypeCorrect, CountTheorem, DataTheorem | PageTypeOK, CountCoversUsers, KeepsData |
| | RedoRunTheorem | RedoHoldsRun |
| `Source_proofs` | FollowsTheorem, ApartTheorem, TableMapTheorem | StoredFollowsLog, TransactionsApart, RowsFindTableMap |
| | BinlogSeekTheorem | SeekLosesNone |
| | DefinitionTheorem | DefinitionAtOffset |

### The ring

`RingFixedQueue_proofs` proves for *every* ring size, every set of consumers and every number of
pushes (assuming only that the size is a positive and the bound a natural number):

* `TypeCorrect`: `Spec => []TypeOK`;
* `OccupancyTheorem`, `PendingTheorem`, `DeliveryTheorem`: the three safety invariants of `ring_spmc`.

The three are not inductive: that a compare-and-swap delivers the right element depends
on what the consumer read earlier. `RingInv` adds what each thread knows between its steps:
`PushKnows` (the slot after `head` is not `end` once the test passed; the slot to be published
holds the right element) and `PopKnows` (a consumer that is not lapped is as far behind
as its copy of `end` says, it saw a non-empty ring, and if no pop came in between, `v` is the element that is due).
The arithmetic of the ring is in six lemmas about `distance` and `nextSlot`; the step
lemma has one case per action; a lapped take ends the obligation (`LappedStays`).

`FifoUntilLapped` maps the ring to `FifoQueue` step by step: Init to Init, and every step that does not leave
`lappedTake` set to a step of the channel or a stutter, for any set of consumers. `OneConsumerFifo` adds `LoneKnows`
(between load and swap nobody else moved `end`, so a lone consumer is never lapped) and drops the exception: this is the safety half of
ImplementsFifo. Its fairness half stays with TLC.

### The spin lock

`Parts_proofs` proves of `QSpinlock`, for *every* set of threads, finite or not (assuming only that
`NoThread` is not one of them):

* `LockExclusion`: `LockSpec => []LockExclusive`, mutual exclusion, which `parts` checks for three threads;
* `LockTypeCorrect`: `LockSpec => []LockTypeOK`. The addition of clearPendingSetLocked
  never carries into another field of the word.

Exclusion is not inductive. The head of the queue stores the locked byte whatever the rest of the word says (claimQueued),
which is right only if no pending thread is about to take the lock; a thread becomes pending only when the word has
no tail; and that the word has a tail while somebody is queued follows from the order of the queue. `LockInv` is made of `WordOK` (who owns,
who is pending, what the word says of it, and that a claiming head and a pending thread that will take the lock exclude each other),
`NodeOK` (a node that enters the queue is clean) and `QueueOK`: there are places f to l such that the head stands
at f, the tail at l, and each thread is linked to the one a place before it or about to be. The places are an existential inside the
invariant, so the model needs no history variable: xchgTail extends them by l + 1, handOver drops f. `HeadFacts` draws from the order what the word
needs: one head, a tail while there is a head, and nobody else queued when the tail is the head. `WordStep` and
`QueueStep` have one case per action. `LockInv` was checked with TLC for three threads before it was proved.

### The flush pipeline

For every pool size, thread limit, queue length and number of blocks, with and without failures and the idle limit.
CountExact and OnePlace rest on `Base`: `Pool` (the count against the slots' states, including a thread between its end and
its decrement), `Caller` and `Held` (who is where with which block) and `Placed` (nothing that the writer still holds is queued,
held or flushed). OnePlace alone is not inductive, since a block given back by finishAppendingBlock is handed over again: `Placed` says that it is then nowhere else.

NoneLost and ChainIntact are promises until the first failure. ChainIntact speaks of blocks at rest; its
strengthening `Linked` says for *every* moment which of the two objects of a block its neighbours point to (`rep`: the solid one from
relink on), and `Copied` that the copies of the links which a flush thread took under the lock are still right when it redirects the neighbours, although those may
be replaced meanwhile. StopDrainsAlone needs `Alone`: with one thread that does not idle out, a thread that leaves has seen the
database stop and the queue empty, and there is a thread until then.

### The block files

For any number of records, rows per event, flush threads, crashes and restarts. The invariant `StoreInv` is about
the `view`, every block the process knows of, in memory if it is there and otherwise in its file: the view is in
the order of the source (`Ordered`) and its identifiers grow (`Numbered`), with `next` and `recordId` above all of it. A rename
leaves the view as it is, a crash restricts it to the files, and load begins behind its greatest block (found with
well-founded induction on the block numbers). `Memory` and `Pending` relate memory, queue, threads and files;
`Durable` says that a named file is synced, which is why a crash cannot change one (FilesImmutable).

LoadsWhatOneThreadWrote and NothingSkipped need `SoloInv` too: with one thread at a time the files have no hole and the
queue holds what comes next in order (`Alone`, `Covered`), every record below a stored one is stored or a row of an event at
which the source resumed (`NoneSkipped`), and the source has passed none that is neither stored nor in memory (`NonePassed`).

### The reader, the page, the redo file

* `BlockReader_proofs`: that keys grow across blocks depends on the writer: `IdsGrow` (a block ends before its successor's
  first identifier) and `Chain` (a finished block has records); `Place` and `Trail` tie the last record delivered to where
  the reader stands.
* The page (`Parts_proofs`): as long as nobody met an owned page the count is *exactly* one above the number of users, or zero without any (`Counted`), its
  sign says whether there is an owner, and there is one at most (`Owned`). `NoLastUser` is the reason why fullGc never frees a
  page: no unuse ever comes to the last user. Any finite set of readers.
* The redo file (`Parts_proofs`): `Contents` adds why no record is written twice after a failure: one that is in the file and
  was not acknowledged is the one being synced (`InDoubt`) or has failed the database, so no other follows it. `Handle` ties the file to the handle and the step.

### The seek

For every set of log offsets and keys and any number of blocks and records. UsesReturned: `Holding` says how many uses the seek has at each step. To show that a use is given back the proof needs
`Position` (every round is on a block that exists, the search inside a solid block on a record that exists: an index
below zero would end the seek without giving the block back) and `Blocks` (a block that is not appending is not the last, and
only the last may be empty).

SeekNearest, for log offsets and record ids, and SeekMissesNone, for times too, are in `FoundInv`, on top of these. `Recorded` says that offsets grow from record to record and from block to block and that
the bounds of a block are those of its records, except while append has stored the new maximum and not yet the record.
`InBlock` is the search inside a solid block: what is below `lo` is below the key, what is above `hi` above it. `Promise` follows the block that
held the key when the seek began: it is between `lo` and `hi` of the search over blocks, and then the one that is opened. That the writer does not spoil
any of it is one fact, `Grown`: a step keeps the records and the first identifier of every block, and none becomes appending again.

### The record memory

For every size of node, set of chunk sizes, finite set of nodes and number of calls, until freeMem reads a size word too early (`bufRaced`). The code keeps no
list of chunks and the nodes are linked into one ring or more, so the invariant names the order itself: `Shaped` says that there is a numbering U of the
nodes from the tail to the head and a numbering C of the chunks from the oldest to the newest, such that the used nodes are a path
and the others empty (`Linked`), the chunks lie in that order without a gap (`Ordered`, `Gapless`), their size words are written and the
first ones freed (`Written`), nodes behind the head say that they are used up (`Left`), and `live` is the rest (`Handed`). A step of alloc extends U or C at
the end, one of freeMem drops their beginning. `Counted` bounds the nodes there are by the most there ever were; with it a locked head and a
death of alloc need four (DiesOfBacklog). AllReclaimed follows as an empty C leaves one used node with `begin = end`.

### The source

* *The table map.* `ReadOK`: while the connection is up the server sends from where the reader has noted (`ConnOK`), the event at hand is the one before that
  position or was made up (`EvtOK`), the parser is in the reader's file or a rotate event is yet to tell it (`FileOK`), and the
  map the parser holds is the last one in the log for the rows that come before the next one is sent, unless a restart emptied it (`MapOK`).
* *The stream.* The queue from tail to head followed by what the parser has not handed on is the *flow* (`flowOf`). `FlowOK` says of the store, the flow and
  the position the log is parsed up to: both are in the order of the log and the store comes first (`Sorted`); a record that the parser has passed and that
  is not in the flow is in the store, or behind a stored row of its own event and a restart took place (`Complete`, `Cut`); a begin that is
  through has taken its id, so rows stored before it have a smaller one, and records with one id lie behind the same begins (`Begun`; until `loaded.back`). `HandsOK` is what the two threads know between the two steps of a push or a pop. A
  parsed event extends the flow, a push moves an item inside it, a pop gives its first item to the store, and a reading thread that ends, or a restart, drops
  a part of it. That a reconnect repeats nothing is in `parsedTo`: the position without the event that is still unparsed.
  ApartTheorem adds the log: between a row and the begin before it there is no commit (`RowBegin`), so stored rows with one id lie in the same transaction. At a restart
  `LoadedMax` bounds what load() finds by the id of the last record that is kept.
* *The search by time.* `Search`: outside the bounds lie only files that were looked at, and the last probe was just outside. `EarlierOld`: no commit of
  a file before the chosen one is asked for, but those that `PassedOver` names. `Scan`: all that the scan has passed is older, and `beginOff` is at its last begin.
* *The table definitions.* `LinesOK`: all versions have offsets of earlier statements, so that a `put` at `now` is the last of its timeline and
  answers no earlier offset differently; a database version that is not made yet has no tables. `DbsOK` and DefinitionAtOffset itself say that the
  newest versions are what the server has, for tables that are not astray. Nothing is assumed of what is loaded at the start.

The invariant of the stream was checked with TLC, with queues of 2 and 4 cells and up to two restarts, before it was proved.

### Only model-checked

The liveness properties (EventuallyDelivered, StopReturns, HandOverReturns, EventuallyFlushed, CatchesUp, StopEnds, AllStored, QueuedGetsLock, WaitEnds) and the fairness
half of ImplementsFifo: fairness and ENABLED are out of the prover's reach. Nothing in the project needs induction over
data: what looks like it (the smallest file, the greatest block, the last version) is drawn from the well-founded order of the numbers.

## 6. Not modelled

* **Redo files of later blocks** and the recovery of several of them: the first block shows what the
  descriptor 0 and the inverted test do; a later block may find 0 closed or reused.
* **Records larger than a block** make insert() recurse without end; the models take a record to fit into an empty block.
* **fullGc and the LRU list**: unreachable for pages whose count covers their users.
* **purge**: its thread has no caller and its loop never runs. `pageTable` is used through single pointer exchanges; what is not
  atomic in it is its erase, which only purge calls.
* **schedule and cond**: the program creates no job.
* Filters of iterators, descending next() across blocks, index iterators and the k-way merge (no user in the program); contents and
  compression of pages.
* The two streams of a store share directory and file prefix by default; one database is modelled.
* Local binary log files, the tree of table ids, columns, character sets and indexes of the meta data, the remote client.
* Buffer pools and `buddySystem`: thread-local caches over one locked list. `mcsSpinlock` is the queue of `qspinlock` alone.
* `cluster`, `memKvDatabase` and `replicator` are not part of the program's path from source to store.
* Parsing, formatting, network, SQL and third-party code: sequential or input and output. They are most of the
  repository's lines (lz4, sparsepp, dtoa, the SQL grammar, the shell).

Paths of modelled functions that are left out, and why no property rests on them:

* A failing writeToFile deletes the solid block, whose destructor asserts in the Debug build; `FlushPipeline` and `BlockStore` go on with
  BM_FAILED instead (as a build without assertions does) and so check more behaviours than there are: what is left on disk is what a crash leaves there.
* insert()'s exits for a record that cannot be appended (`database.cpp:163-180`) fail the database like a hand-over that fails, which is in the
  model; threadPool::run's second test of the limit never fails behind createNewThread's first one, since only the writer adds threads.
* load() moves the files to `.bak` from the first one whose header it cannot read (`database.cpp:839-848`); no synced file is
  unreadable in `BlockStore`, where files are lost only by a crash before the sync, and then have no name.
* ringBuffer makes a node of its own size for a chunk that is larger than a node (`ringBuffer.h:104`), and the parser may ask for one
  (`BinlogEventParser.cpp:459`); `RingBuffer` has chunks that fit.
* Index and character set statements, and DDL that the SQL parser does not understand: `MetaCatalog` has the statements that make, change or remove a table or a database.

Assumptions about the environment: the times of a server's commits and DDL statements do not decrease from file to file (a DDL event carries the time at which its
statement began, so a long ALTER at the head of a file may break this for BinlogSeek); the signal reaches the main thread and not while it
is in stop(); seekBinlogByCheckpoint finds the file and position on the server or gets no connection at all. Where the file was purged it says READ_OK with a
connection that dumps nothing (`mysqlBinlogReader.cpp:398-417`, `:461`); when that times out the reader asks for a log without a name, which a server takes for its first.

Seen while modelling, outside the properties: `ITER_FLAG_DESC` contains the bit of `ITER_FLAG_WAIT` (`src/database/iterator.h:15`); the
array of 2048 rows of an event has no bound check (`BinlogEventParser.cpp:471`); the reading thread is started before
`m_parser->init` (`mysqlDataSource.cpp:240`); a path of the reader leaves `m_currFileID` as it was (`mysqlBinlogReader.cpp:729`); createIndex and dropIndex are
always refused (`metaDataCollection.cpp:689`); alterDatabase changes the version in place (`metaDataCollection.cpp:380`).
