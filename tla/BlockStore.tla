----------------------------- MODULE BlockStore -----------------------------
(***************************************************************************)
(* The block files of a database across crashes and restarts: the writer    *)
(* (database::insert, flushLogs, createNewBlock, stop), the flush threads   *)
(* (flush, solidBlock::writeToFile), and what a restart makes of the files  *)
(* it finds (load, block::loadFromFile, checkpoint).                        *)
(*                                                                         *)
(* The redo log is off, its default (initConfig), so a crash loses every    *)
(* record that is not in a block file.  The source is the stream of row     *)
(* records that dataSource/ cuts out of the binary log: record r carries    *)
(* the log offset of the event it is a row of, the position behind that     *)
(* event, and a restart resumes at the checkpoint (mysqlDataSource::start). *)
(* The threads' life cycle and the capacity of the queue are in             *)
(* FlushPipeline; here they are a number of blocks being written at a time. *)
(***************************************************************************)
EXTENDS Integers, Sequences, FiniteSets

CONSTANTS
    MaxRecords,    \* bound on the records the source holds
    RowsPerEvent,  \* row records that share one log offset
    MaxBlocks,     \* bound on block identifiers
    BlockCapacity, \* records after which a block is full for sure
    FlushThreads,  \* flush threads that may run at a time
    MaxCrashes     \* bound on crashes

ASSUME StoreAssumption ==
    /\ MaxRecords \in Nat \ {0}
    /\ RowsPerEvent \in Nat \ {0}
    /\ MaxBlocks \in Nat \ {0}
    /\ BlockCapacity \in Nat \ {0}
    /\ FlushThreads \in Nat \ {0}
    /\ MaxCrashes \in Nat

Records == 1 .. MaxRecords
Blocks == 1 .. MaxBlocks

VARIABLES
    phase,     \* "down" without a process, "aborted" in load(), else m_status;
               \* "stopFailed" is BM_FAILED after stop()
    dir,       \* whether the log directory exists
    files,     \* block identifier -> its file; identifiers without one are absent
    mem,       \* block identifier -> appending block in memory
    current,   \* identifier of m_current
    recordId,  \* m_recordId
    queue,     \* m_unflushedBlocks
    threads,   \* flush threads that have not left flushThread()
    writing,   \* blocks a flush thread writes: block identifier -> state of the .tmp file
    next,      \* next record the source delivers
    crashes,   \* history: number of crashes
    parallel,  \* history: two flush threads ran at a time
    resumed    \* history: checkpoints at which the source was resumed

procVars == <<mem, current, recordId, queue, threads, writing>>
vars == <<phase, dir, files, procVars, next, crashes, parallel, resumed>>

\* createMysqlRecordOffset: rows of one event carry the same log offset
logOffset(r) == ((r - 1) \div RowsPerEvent) + 1

\* The fields of the block header that load() and checkpoint() use; the
\* records stand for m_recordCount, m_minLogOffset and m_maxLogOffset.
newBlock(prevId, startId) == [prev |-> prevId, minId |-> startId, recs |-> <<>>]

nextId(b) == b.minId + Len(b.recs)

last(s) == s[Len(s)]

\* A function with b added or replaced, and with b taken out
put(f, b, x) == [c \in DOMAIN f \cup {b} |-> IF c = b THEN x ELSE f[c]]
drop(f, b) == [c \in DOMAIN f \ {b} |-> f[c]]

Empty == [c \in {} |-> 0]

Init ==
    /\ phase = "down"
    /\ dir \in BOOLEAN
    /\ files = Empty
    /\ mem = Empty
    /\ current = 0
    /\ recordId = 0
    /\ queue = <<>>
    /\ threads = 0
    /\ writing = Empty
    /\ next = 1
    /\ crashes = 0
    /\ parallel = FALSE
    /\ resumed = {}

-----------------------------------------------------------------------------
(* The writer                                                              *)

\* append: copyRecord gives the record the identifier minId + count
append(m, b, r) == [m EXCEPT ![b].recs = Append(@, r)]

\* Mutant: the new block starts where m_current started.
createNewBlock_StaleId(m, startId) ==
    put(m, current + 1, newBlock(current, m[current].minId))

\* createNewBlock: the new block behind m_current
createNewBlock(m, startId) ==
    put(m, current + 1, newBlock(current, startId))

\* insert, the record fits
insert ==
    /\ phase = "running"
    /\ next \in Records
    /\ Len(mem[current].recs) < BlockCapacity
    /\ mem' = append(mem, current, next)
    /\ recordId' = recordId + 1
    /\ next' = next + 1
    /\ UNCHANGED <<phase, dir, files, current, queue, threads, writing, crashes, parallel,
                   resumed>>

\* insert, B_FULL: m_recordId was taken once already when the new block is
\* created, and is taken again by the insert into it.  Records differ in size,
\* so any block that has records may be full.
insertFull ==
    /\ phase = "running"
    /\ next \in Records
    /\ mem[current].recs # <<>>
    /\ current < MaxBlocks
    /\ mem' = append(createNewBlock(mem, recordId + 1), current + 1, next)
    /\ current' = current + 1
    /\ queue' = Append(queue, current)
    /\ recordId' = recordId + 2
    /\ next' = next + 1
    /\ UNCHANGED <<phase, dir, files, threads, writing, crashes, parallel, resumed>>

\* flushLogs does not look at m_status
flushLogs ==
    /\ phase \in {"running", "failed"}
    /\ mem[current].recs # <<>>
    /\ current < MaxBlocks
    /\ mem' = createNewBlock(mem, recordId)
    /\ current' = current + 1
    /\ queue' = Append(queue, current)
    /\ UNCHANGED <<phase, dir, files, recordId, threads, writing, next, crashes, parallel,
                   resumed>>

\* stop: a block without records is not handed over.  BM_FAILED is overwritten.
stop ==
    /\ phase \in {"running", "failed"}
    /\ phase' = "stopping"
    /\ queue' = IF mem[current].recs # <<>> THEN Append(queue, current) ELSE queue
    /\ UNCHANGED <<dir, files, mem, current, recordId, threads, writing, next,
                   crashes, parallel, resumed>>

\* finishAppendingBlock: the queue has no room, so createNewThread starts
\* another flush thread.
createNewThread ==
    /\ phase = "running"
    /\ queue # <<>>
    /\ threads < FlushThreads
    /\ threads' = threads + 1
    /\ parallel' = (parallel \/ threads' > 1)
    /\ UNCHANGED <<phase, dir, files, mem, current, recordId, queue, writing,
                   next, crashes, resumed>>

-----------------------------------------------------------------------------
(* A flush thread                                                          *)

idle == threads - Cardinality(DOMAIN writing)

\* Mutant: the newest block is taken first.
writeTmp_Newest ==
    /\ queue # <<>>
    /\ idle > 0
    /\ writing' = put(writing, last(queue), "written")
    /\ queue' = SubSeq(queue, 1, Len(queue) - 1)
    /\ UNCHANGED <<phase, dir, files, mem, current, recordId, threads, next,
                   crashes, parallel, resumed>>

\* pop, toSolidBlock, and writeToFile up to the last write into the .tmp file.
\* A thread that was in pop when another one failed still takes a block.
writeTmp ==
    /\ queue # <<>>
    /\ idle > 0
    /\ writing' = put(writing, Head(queue), "written")
    /\ queue' = Tail(queue)
    /\ UNCHANGED <<phase, dir, files, mem, current, recordId, threads, next,
                   crashes, parallel, resumed>>

\* writeToFile: fsync of the .tmp file
syncTmp(b) ==
    /\ writing[b] = "written"
    /\ writing' = [writing EXCEPT ![b] = "synced"]
    /\ UNCHANGED <<phase, dir, files, mem, current, recordId, queue, threads,
                   next, crashes, parallel, resumed>>

fileOf(b, isSynced) ==
    [prev |-> mem[b].prev, minId |-> mem[b].minId, recs |-> mem[b].recs,
     synced |-> isSynced]

failed == phase \in {"failed", "stopFailed"}

\* The test of the loop in flushThread: a thread leaves when m_status is
\* BM_FAILED.
threadsAfter == IF failed THEN threads - 1 ELSE threads

\* Mutant: the file gets its name before it is synced.
renameTmp_Unsynced(b) ==
    /\ writing[b] = "written"
    /\ files' = put(files, b, fileOf(b, FALSE))
    /\ writing' = drop(writing, b)
    /\ threads' = threadsAfter
    /\ UNCHANGED <<phase, dir, mem, current, recordId, queue, next, crashes, parallel,
                   resumed>>

\* writeToFile: rename of the .tmp file, which replaces a file of that name
renameTmp(b) ==
    /\ writing[b] = "synced"
    /\ files' = put(files, b, fileOf(b, TRUE))
    /\ writing' = drop(writing, b)
    /\ threads' = threadsAfter
    /\ UNCHANGED <<phase, dir, mem, current, recordId, queue, next, crashes, parallel,
                   resumed>>

\* A write, the fsync or the rename fails: the thread sets BM_FAILED and leaves,
\* and the block stays behind.
flushFails(b) ==
    /\ phase' = IF phase \in {"stopping", "stopFailed"} THEN "stopFailed" ELSE "failed"
    /\ writing' = drop(writing, b)
    /\ threads' = threads - 1
    /\ UNCHANGED <<dir, files, mem, current, recordId, queue, next, crashes, parallel,
                   resumed>>

\* An idle thread comes out of pop without a block and finds BM_FAILED.
threadLeaves ==
    /\ failed
    /\ idle > 0
    /\ threads' = threads - 1
    /\ UNCHANGED <<phase, dir, files, mem, current, recordId, queue, writing,
                   next, crashes, parallel, resumed>>

-----------------------------------------------------------------------------
(* Crash and restart                                                       *)

\* The process ends, after stop() or in the middle of anything.  Memory and
\* what was not synced are gone; a .tmp file is left but load() ignores it.
crash ==
    /\ phase \in {"running", "stopping", "failed", "stopFailed"}
    /\ crashes < MaxCrashes
    /\ crashes' = crashes + 1
    /\ phase' = "down"
    /\ files' = [b \in DOMAIN files |->
                   IF files[b].synced THEN files[b]
                   ELSE [files[b] EXCEPT !.recs = <<>>]]
    /\ mem' = Empty
    /\ current' = 0
    /\ recordId' = 0
    /\ queue' = <<>>
    /\ threads' = 0
    /\ writing' = Empty
    /\ UNCHANGED <<dir, next, parallel, resumed>>

\* block::loadFromFile, loadBlockInfo: the header is there and its crc is right
intact(b) == files[b].recs # <<>>

adjacent(a, b) == a < b /\ ~ \E c \in DOMAIN files : a < c /\ c < b

\* The walk over the files in the order of their identifiers meets no broken
\* header and no block whose m_prevBlockID is not the block before it.
walkSucceeds ==
    /\ \A b \in DOMAIN files : intact(b)
    /\ \A a, b \in DOMAIN files : adjacent(a, b) => files[b].prev = a

\* m_lastBlockId after the walk
lastBlockId ==
    IF files = Empty THEN 0
    ELSE CHOOSE b \in DOMAIN files : \A c \in DOMAIN files : c <= b

\* m_recordId after the walk: an empty directory starts at 1, a new one at the
\* value of the constructor
firstRecordId ==
    IF files # Empty THEN nextId(files[lastBlockId])
    ELSE IF dir THEN 1 ELSE 0

\* Mutant: the checkpoint is the first record of the last block.
checkpoint_MinOffset ==
    IF files = Empty THEN 0 ELSE logOffset(files[lastBlockId].recs[1])

\* database::checkpoint after load(): the current block is empty, so it is the
\* highest offset of the block before it; the start of the log without one
checkpoint ==
    IF files = Empty THEN 0 ELSE logOffset(last(files[lastBlockId].recs))

\* Mutant: the identifier of the last block is used again.
currentId_Reused == IF lastBlockId = 0 THEN 1 ELSE lastBlockId

\* load, CREATE_CURRENT: identifier of the first block of this life
currentId == lastBlockId + 1

\* load(), start(), and mysqlDataSource::start(), which seeks behind the event
\* of the checkpoint
load ==
    /\ phase = "down"
    /\ walkSucceeds
    /\ currentId <= MaxBlocks
    /\ phase' = "running"
    /\ dir' = TRUE
    /\ current' = currentId
    /\ recordId' = firstRecordId
    /\ mem' = put(Empty, currentId, newBlock(lastBlockId, firstRecordId))
    /\ next' = checkpoint * RowsPerEvent + 1
    /\ resumed' = resumed \cup {checkpoint}
    /\ threads' = 1
    /\ UNCHANGED <<files, queue, writing, crashes, parallel>>

\* load() gives up on a block and deletes the object it made of its header:
\* without redo files pickRedo() finds nothing, and a header holds no
\* m_prevBlockID but its own identifier less one, so the branch for leftovers of
\* a compaction is never taken.
\* ~solidBlock asserts BLOCK_FLAG_FLUSHED, which no header on disk has (it is
\* set after the header is written), so the process ends there, before any
\* file is renamed to .bak.
loadAborts ==
    /\ phase = "down"
    /\ ~walkSucceeds
    /\ phase' = "aborted"
    /\ UNCHANGED <<dir, files, procVars, next, crashes, parallel, resumed>>

Next ==
    \/ insert \/ insertFull \/ flushLogs \/ createNewThread \/ stop
    \/ writeTmp
    \/ \E b \in DOMAIN writing : syncTmp(b) \/ renameTmp(b) \/ flushFails(b)
    \/ threadLeaves
    \/ crash \/ load \/ loadAborts

Spec == Init /\ [][Next]_vars

-----------------------------------------------------------------------------
(* Properties                                                              *)

BlockContents == [prev : 0 .. MaxBlocks, minId : Nat, recs : Seq(Records)]

TypeOK ==
    /\ phase \in {"down", "running", "failed", "stopping", "stopFailed", "aborted"}
    /\ dir \in BOOLEAN
    /\ DOMAIN files \subseteq Blocks
    /\ \A b \in DOMAIN files :
         files[b] \in [prev : 0 .. MaxBlocks, minId : Nat, recs : Seq(Records),
                       synced : BOOLEAN]
    /\ DOMAIN mem \subseteq Blocks
    /\ \A b \in DOMAIN mem : mem[b] \in BlockContents
    /\ current \in 0 .. MaxBlocks
    /\ recordId \in Nat
    /\ queue \in Seq(Blocks)
    /\ threads \in 0 .. FlushThreads
    /\ DOMAIN writing \subseteq DOMAIN mem
    /\ \A b \in DOMAIN writing : writing[b] \in {"written", "synced"}
    /\ next \in 1 .. MaxRecords + RowsPerEvent
    /\ crashes \in 0 .. MaxCrashes
    /\ parallel \in BOOLEAN
    /\ resumed \subseteq Nat

\* Read in the order of the block identifiers, the files hold the records in
\* the order of the source and none of them twice, whatever crashes and
\* restarts there were.  databaseCheckpointIterator::seek searches the blocks
\* by log offset and relies on it.
StoredInOrder ==
    \A a, b \in DOMAIN files :
        \A i \in 1 .. Len(files[a].recs), j \in 1 .. Len(files[b].recs) :
            (a < b \/ (a = b /\ i < j)) => files[a].recs[i] < files[b].recs[j]

\* Record identifiers handed out before and after a restart do not collide:
\* every block starts behind the last record of the blocks before it.
IdsDisjoint ==
    \A a, b \in DOMAIN files : a < b => nextId(files[a]) <= files[b].minId

\* Record r is in a block file.
stored(r) ==
    \E b \in DOMAIN files :
        \E i \in 1 .. Len(files[b].recs) : files[b].recs[i] = r

\* While one flush thread ran at a time, nothing below the newest stored record
\* is missing, except rows of an event a crash cut in two and at which the
\* source was resumed.
NothingSkipped ==
    ~parallel =>
        \A b \in DOMAIN files : \A r \in 1 .. last(files[b].recs) :
            \/ stored(r)
            \/ /\ logOffset(r) \in resumed
               /\ \E q \in 1 .. r : logOffset(q) = logOffset(r) /\ stored(q)

\* While one flush thread ran at a time, load() copes with every set of files a
\* crash or an I/O error can leave.
LoadsWhatOneThreadWrote == phase = "aborted" => parallel

\* load() never ends the process: blocks it cannot use are moved aside.
LoadSucceeds == phase # "aborted"

\* A block file that has its name is never replaced, changed or removed.
FilesImmutable ==
    [][\A b \in DOMAIN files : b \in DOMAIN files' /\ files'[b] = files[b]]_vars

=============================================================================
