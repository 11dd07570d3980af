---------------------------- MODULE FlushPipeline ----------------------------
(***************************************************************************)
(* How a block gets from memory to disk: the writer of database/database.cpp *)
(* (insert, allocMemForRecord, flushLogs, createNewBlock,                   *)
(* finishAppendingBlock, stop), the queue of unflushed blocks, the flush    *)
(* threads (flushThread, flush) and the pool they live in                   *)
(* (thread/threadPool.h).                                                   *)
(*                                                                         *)
(* The queue is the FIFO channel that RingFixedQueue implements.  A block   *)
(* with identifier b exists as an appending block <<"app", b>> and, once    *)
(* flushed, as a solid block <<"sol", b>>; `table' is m_blocks.  Records    *)
(* are abstracted to whether the current block has any, sizes and I/O       *)
(* errors to choices.                                                       *)
(***************************************************************************)
EXTENDS Integers, Sequences, FiniteSets

CONSTANTS
    PoolSize,       \* m_maxThreads: slots of the pool
    MaxThreads,     \* highest m_currentMaxThreads explored
    QueueCapacity,  \* blocks m_unflushedBlocks can hold
    MaxBlocks,      \* bound on the number of blocks explored
    MayIdleOut,     \* whether a thread may reach 1000 idle rounds
    MayFail         \* whether writing a block file may fail

ASSUME PipelineAssumption ==
    /\ PoolSize \in Nat
    /\ MaxThreads \in 1 .. PoolSize
    /\ QueueCapacity \in Nat \ {0}
    /\ MaxBlocks \in Nat \ {0}
    /\ MayIdleOut \in BOOLEAN
    /\ MayFail \in BOOLEAN

Blocks == 1 .. MaxBlocks
Slots == 1 .. PoolSize
Nil == <<"nil", 0>>
app(b) == <<"app", b>>
sol(b) == <<"sol", b>>
Objects == ({"app", "sol"} \X Blocks) \cup {Nil}

VARIABLES
    status,      \* m_status
    current,     \* identifier of m_current
    hasRecords,  \* m_current->m_recordCount > 0
    finished,    \* blocks with BLOCK_FLAG_FINISHED
    flushed,     \* blocks with BLOCK_FLAG_FLUSHED
    onDisk,      \* blocks whose file has been written
    table,       \* m_blocks: "none", "app", "sol" or "freed" for a dangling entry
    next, prev,  \* links between block objects
    queue,       \* m_unflushedBlocks
    writerPc,    \* where the writer stands
    caller,      \* operation that is rolling the current block over
    joining,     \* slot whose thread the writer joins
    slotStatus,  \* m_threadStatus
    threadCount, \* m_currentThreadCount
    quitLock,    \* slot holding m_quitLock, 0 when free
    flushLock,   \* slot holding m_flushLock, 0 when free
    pc,          \* where the thread of each slot stands, "none" without one
    held,        \* block the thread of each slot works on, 0 for nullptr
    failed,      \* history: some operation failed
    limit,       \* m_currentMaxThreads: threads that may run at a time
    idles        \* whether a thread may reach its idle limit; both never change

blockVars == <<current, hasRecords, finished, table, next, prev>>
diskVars == <<flushed, onDisk>>
writerVars == <<writerPc, caller, joining>>
poolVars == <<slotStatus, threadCount>>
threadVars == <<pc, held>>
vars == <<status, blockVars, diskVars, queue, writerVars, poolVars, quitLock,
          flushLock, threadVars, failed>>

\* m_status >= BM_STOPPING
leaving == status \in {"STOPPING", "FAILED"}

\* After start(): one block, one flush thread.
Init ==
    /\ status = "RUNNING"
    /\ current = 1
    /\ hasRecords = FALSE
    /\ finished = {}
    /\ flushed = {}
    /\ onDisk = {}
    /\ table = [b \in Blocks |-> IF b = 1 THEN "app" ELSE "none"]
    /\ next = [o \in Objects |-> Nil]
    /\ prev = [o \in Objects |-> Nil]
    /\ queue = <<>>
    /\ writerPc = "idle"
    /\ caller = "insert"
    /\ joining = 0
    /\ slotStatus = [t \in Slots |-> IF t = 1 THEN "RUNNING" ELSE "IDLE"]
    /\ threadCount = 1
    /\ quitLock = 0
    /\ flushLock = 0
    /\ pc = [t \in Slots |-> IF t = 1 THEN "loop" ELSE "none"]
    /\ held = [t \in Slots |-> 0]
    /\ failed = FALSE
    /\ limit \in 1 .. MaxThreads
    /\ idles \in {FALSE, MayIdleOut}

-----------------------------------------------------------------------------
(* The writer                                                              *)

\* insert, B_OK
appendRecord ==
    /\ writerPc = "idle"
    /\ status = "RUNNING"
    /\ hasRecords' = TRUE
    /\ UNCHANGED <<status, current, finished, table, next, prev, diskVars, queue,
                   writerVars, poolVars, quitLock, flushLock, threadVars,
                   failed>>

\* createNewBlock up to finishAppendingBlock(tmp): the new block is linked and
\* becomes m_current before the old one is handed to the flush threads.
\* m_blocks.set does not replace an entry that exists.
linkNewBlock(nb) ==
    /\ table' = [table EXCEPT ![nb] = IF @ = "none" THEN "app" ELSE @]
    /\ next' = [next EXCEPT ![app(current)] = app(nb), ![app(nb)] = Nil]
    /\ prev' = [prev EXCEPT ![app(nb)] = app(current)]
    /\ current' = nb
    /\ hasRecords' = FALSE

\* The current block is full (insert, allocMemForRecord) or flushLogs is
\* called.  insert alone looks at m_status first.  A record is taken to fit in
\* an empty block, so a block that is full has records.
rollOver(by) ==
    /\ writerPc = "idle"
    /\ by = "insert" => status = "RUNNING"
    /\ hasRecords
    /\ current < MaxBlocks
    /\ finished' = finished \cup {current}
    /\ linkNewBlock(current + 1)
    /\ caller' = by
    /\ writerPc' = "finishRedo"
    /\ UNCHANGED <<status, diskVars, queue, joining, poolVars, quitLock,
                   flushLock, threadVars, failed>>

\* Block handed over by finishAppendingBlock: the predecessor of m_current
\* when rolling over, m_current itself in stop().  It was never handed over
\* before, so the test of BLOCK_FLAG_FLUSHED does not stop it.
handedOver == IF caller = "stop" THEN current ELSE current - 1

afterPush == IF caller = "stop" THEN "setStopping" ELSE "idle"

\* finishAppendingBlock: the redo file gets its end mark
finishRedo ==
    /\ writerPc = "finishRedo"
    /\ writerPc' = "push"
    /\ UNCHANGED <<status, blockVars, diskVars, queue, caller, joining, poolVars,
                   quitLock, flushLock, threadVars, failed>>

\* finishAppendingBlock fails.  createNewBlock then goes back to the old block
\* and deletes the new one, which stays in m_blocks and in the old block's
\* next; insert sets BM_FAILED, flushLogs and allocMemForRecord leave m_status
\* alone, stop ignores the failure.
abandonBlock ==
    /\ IF caller = "stop"
         THEN UNCHANGED blockVars
         ELSE /\ current' = current - 1
              /\ hasRecords' = TRUE
              /\ table' = [table EXCEPT ![current] = "freed"]
              /\ UNCHANGED <<finished, next, prev>>
    /\ status' = IF caller = "insert" THEN "FAILED" ELSE status
    /\ failed' = TRUE
    /\ writerPc' = afterPush
    /\ UNCHANGED <<diskVars, queue, caller, joining, poolVars, quitLock,
                   flushLock, threadVars>>

finishRedoFails ==
    /\ MayFail
    /\ writerPc = "finishRedo"
    /\ abandonBlock

\* Mutant: the result of push is ignored.
pushBlock_Ignored ==
    /\ writerPc = "push"
    /\ queue' = IF Len(queue) < QueueCapacity THEN Append(queue, handedOver) ELSE queue
    /\ writerPc' = afterPush
    /\ UNCHANGED <<status, blockVars, diskVars, caller, joining, poolVars,
                   quitLock, flushLock, threadVars, failed>>

\* m_unflushedBlocks.push succeeds
pushBlock ==
    /\ writerPc = "push"
    /\ Len(queue) < QueueCapacity
    /\ queue' = Append(queue, handedOver)
    /\ writerPc' = afterPush
    /\ UNCHANGED <<status, blockVars, diskVars, caller, joining, poolVars,
                   quitLock, flushLock, threadVars, failed>>

\* push timed out and the database is no longer running
giveUpPush ==
    /\ writerPc = "push"
    /\ Len(queue) = QueueCapacity
    /\ status # "RUNNING"
    /\ abandonBlock

startThread(t) ==
    /\ slotStatus' = [slotStatus EXCEPT ![t] = "RUNNING"]
    /\ threadCount' = threadCount + 1
    /\ pc' = [pc EXCEPT ![t] = "loop"]
    /\ held' = [held EXCEPT ![t] = 0]

\* push timed out and the database is running: createNewThread takes the first
\* slot that is idle or whose thread can be joined, if the pool has room.
\* Only the writer calls it, so the second test of the count never fails.
usable(t) == slotStatus[t] \in {"IDLE", "JOIN_ABLE"}

\* Mutant: the limit is off by one.
createNewThread_OneMore ==
    /\ writerPc = "push"
    /\ Len(queue) = QueueCapacity
    /\ status = "RUNNING"
    /\ threadCount <= limit
    /\ \E t \in Slots : slotStatus[t] = "IDLE" /\ startThread(t)
    /\ UNCHANGED <<status, blockVars, diskVars, queue, writerVars, quitLock,
                   flushLock, failed>>

\* Mutant: slots of ended threads are never used again.
createNewThread_IdleOnly ==
    /\ writerPc = "push"
    /\ Len(queue) = QueueCapacity
    /\ status = "RUNNING"
    /\ threadCount < limit
    /\ \E t \in Slots : slotStatus[t] = "IDLE" /\ startThread(t)
    /\ UNCHANGED <<status, blockVars, diskVars, queue, writerVars, quitLock,
                   flushLock, failed>>

createNewThread ==
    /\ writerPc = "push"
    /\ Len(queue) = QueueCapacity
    /\ status = "RUNNING"
    /\ threadCount < limit
    /\ \E t \in Slots :
        /\ usable(t)
        /\ \A u \in Slots : u < t => ~usable(u)
        /\ \/ /\ slotStatus[t] = "IDLE"
              /\ startThread(t)
              /\ UNCHANGED writerVars
           \/ /\ slotStatus[t] = "JOIN_ABLE"
              /\ slotStatus' = [slotStatus EXCEPT ![t] = "DO_JOIN"]
              /\ writerPc' = "joinSlot"
              /\ joining' = t
              /\ UNCHANGED <<threadCount, threadVars, caller>>
    /\ UNCHANGED <<status, blockVars, diskVars, queue, quitLock, flushLock,
                   failed>>

\* m_threads[i].join() returned: the slot is idle and run(i) uses it.
joinSlotDone ==
    /\ writerPc = "joinSlot"
    /\ pc[joining] = "dead"
    /\ startThread(joining)
    /\ writerPc' = "push"
    /\ UNCHANGED <<status, blockVars, diskVars, queue, caller, joining, quitLock,
                   flushLock, failed>>

\* stop(): a block with records is finished and handed over first.
stop ==
    /\ writerPc = "idle"
    /\ caller' = "stop"
    /\ IF hasRecords
         THEN /\ finished' = finished \cup {current}
              /\ writerPc' = "finishRedo"
         ELSE /\ writerPc' = "setStopping"
              /\ UNCHANGED finished
    /\ UNCHANGED <<status, current, hasRecords, table, next, prev, diskVars,
                   queue, joining, poolVars, quitLock, flushLock, threadVars,
                   failed>>

setStopping ==
    /\ writerPc = "setStopping"
    /\ status' = "STOPPING"
    /\ writerPc' = "joinAll"
    /\ joining' = 1
    /\ UNCHANGED <<blockVars, diskVars, queue, caller, poolVars, quitLock,
                   flushLock, threadVars, failed>>

\* m_threadPool.join(), one slot after the other
joinAll ==
    /\ writerPc = "joinAll"
    /\ slotStatus[joining] # "IDLE" => pc[joining] = "dead"
    /\ slotStatus' = [slotStatus EXCEPT ![joining] = "IDLE"]
    /\ pc' = [pc EXCEPT ![joining] = "none"]
    /\ IF joining = PoolSize
         THEN writerPc' = "stopped" /\ UNCHANGED joining
         ELSE joining' = joining + 1 /\ UNCHANGED writerPc
    /\ UNCHANGED <<status, blockVars, diskVars, queue, caller, threadCount,
                   quitLock, flushLock, held, failed>>

Writer ==
    \/ appendRecord
    \/ \E by \in {"insert", "alloc", "flushLogs"} : rollOver(by)
    \/ finishRedo \/ finishRedoFails
    \/ pushBlock \/ giveUpPush \/ createNewThread \/ joinSlotDone
    \/ stop \/ setStopping \/ joinAll

-----------------------------------------------------------------------------
(* A flush thread                                                          *)

goto(t, where) == pc' = [pc EXCEPT ![t] = where]

\* while (m_status == BM_RUNNING || m_status == BM_STOPPING); block = nullptr
flushLoop(t) ==
    /\ pc[t] = "loop"
    /\ goto(t, IF status \in {"RUNNING", "STOPPING"} THEN "pop" ELSE "wrap")
    /\ held' = [held EXCEPT ![t] = 0]
    /\ UNCHANGED <<status, blockVars, diskVars, queue, writerVars, poolVars,
                   quitLock, flushLock, failed>>

\* Mutant: the element is read but not removed.
popBlock_Peek(t) ==
    /\ pc[t] \in {"pop", "popLast"}
    /\ queue # <<>>
    /\ held' = [held EXCEPT ![t] = Head(queue)]
    /\ goto(t, "write")
    /\ UNCHANGED <<status, blockVars, diskVars, queue, writerVars, poolVars,
                   quitLock, flushLock, failed>>

\* pop(block, 1000), and pop(block, 100) of the last thread
popBlock(t) ==
    /\ pc[t] \in {"pop", "popLast"}
    /\ queue # <<>>
    /\ held' = [held EXCEPT ![t] = Head(queue)]
    /\ queue' = Tail(queue)
    /\ goto(t, "write")
    /\ UNCHANGED <<status, blockVars, diskVars, writerVars, poolVars, quitLock,
                   flushLock, failed>>

popTimeout(t) ==
    /\ pc[t] \in {"pop", "popLast"}
    /\ queue = <<>>
    /\ goto(t, IF pc[t] = "pop" THEN "idle" ELSE "wrap")
    /\ UNCHANGED <<status, blockVars, diskVars, queue, writerVars, poolVars,
                   quitLock, flushLock, held, failed>>

\* m_status >= BM_STOPPING || ++idleRound > 1000
idleRound(t) ==
    /\ pc[t] = "idle"
    /\ \/ leaving /\ goto(t, "quit")
       \/ ~leaving /\ idles /\ goto(t, "quit")
       \/ ~leaving /\ goto(t, "loop")
    /\ UNCHANGED <<status, blockVars, diskVars, queue, writerVars, poolVars,
                   quitLock, flushLock, held, failed>>

\* Mutant: >= instead of >.
quitIfThreadMoreThan_OrEqual(t) ==
    /\ pc[t] = "quit"
    /\ quitLock = 0
    /\ quitLock' = t
    /\ goto(t, "wrap")
    /\ UNCHANGED <<status, blockVars, diskVars, queue, writerVars, poolVars,
                   flushLock, held, failed>>

\* threadPool::quitIfThreadMoreThan(1): a thread that may quit keeps the lock
\* until wrap() releases it.
quitIfThreadMoreThan(t) ==
    /\ pc[t] = "quit"
    /\ quitLock = 0
    /\ IF threadCount > 1
         THEN quitLock' = t /\ goto(t, "wrap")
         ELSE UNCHANGED quitLock /\ goto(t, "last")
    /\ UNCHANGED <<status, blockVars, diskVars, queue, writerVars, poolVars,
                   flushLock, held, failed>>

\* Mutant: the last thread leaves without another look at the queue.
lastThread_NoPop(t) ==
    /\ pc[t] = "last"
    /\ goto(t, IF leaving THEN "wrap" ELSE "write")
    /\ UNCHANGED <<status, blockVars, diskVars, queue, writerVars, poolVars,
                   quitLock, flushLock, held, failed>>

\* "this is the last flush thread": it pops once more when the database stops;
\* otherwise it falls through to flush(nullptr).
lastThread(t) ==
    /\ pc[t] = "last"
    /\ goto(t, IF leaving THEN "popLast" ELSE "write")
    /\ UNCHANGED <<status, blockVars, diskVars, queue, writerVars, poolVars,
                   quitLock, flushLock, held, failed>>

\* flush(nullptr) dereferences the null pointer: the process dies.
flushNull(t) ==
    /\ pc[t] = "write"
    /\ held[t] = 0
    /\ pc' = [u \in Slots |-> "none"]
    /\ writerPc' = "killed"
    /\ threadCount' = 0
    /\ failed' = TRUE
    /\ UNCHANGED <<status, blockVars, diskVars, queue, caller, joining,
                   slotStatus, quitLock, flushLock, held>>

\* toSolidBlock and writeToFile succeed
writeBlock(t) ==
    /\ pc[t] = "write"
    /\ held[t] # 0
    /\ onDisk' = onDisk \cup {held[t]}
    /\ goto(t, "copyLinks")
    /\ UNCHANGED <<status, blockVars, flushed, queue, writerVars, poolVars,
                   quitLock, flushLock, held, failed>>

\* toSolidBlock or writeToFile fails: flush returns -1 and the thread ends
writeFails(t) ==
    /\ MayFail
    /\ pc[t] = "write"
    /\ held[t] # 0
    /\ status' = "FAILED"
    /\ failed' = TRUE
    /\ goto(t, "wrap")
    /\ UNCHANGED <<blockVars, diskVars, queue, writerVars, poolVars, quitLock,
                   flushLock, held>>

\* Mutant: the links are copied without the lock.
copyLinks_Unlocked(t) ==
    LET b == held[t] IN
    /\ pc[t] = "copyLinks"
    /\ flushLock' = t
    /\ next' = [next EXCEPT ![sol(b)] = next[app(b)]]
    /\ prev' = [prev EXCEPT ![sol(b)] = prev[app(b)]]
    /\ goto(t, "relink")
    /\ UNCHANGED <<status, current, hasRecords, finished, table, diskVars, queue,
                   writerVars, poolVars, quitLock, held, failed>>

\* m_flushLock.lock(); the solid block takes over both links of the block
copyLinks(t) ==
    LET b == held[t] IN
    /\ pc[t] = "copyLinks"
    /\ flushLock = 0
    /\ flushLock' = t
    /\ next' = [next EXCEPT ![sol(b)] = next[app(b)]]
    /\ prev' = [prev EXCEPT ![sol(b)] = prev[app(b)]]
    /\ goto(t, "relink")
    /\ UNCHANGED <<status, current, hasRecords, finished, table, diskVars, queue,
                   writerVars, poolVars, quitLock, held, failed>>

\* the neighbours point to the solid block; m_flushLock.unlock()
relink(t) ==
    LET b == held[t] IN
    /\ pc[t] = "relink"
    /\ next' = IF prev[app(b)] = Nil THEN next
               ELSE [next EXCEPT ![prev[app(b)]] = sol(b)]
    /\ prev' = IF next[app(b)] = Nil THEN prev
               ELSE [prev EXCEPT ![next[app(b)]] = sol(b)]
    /\ flushLock' = 0
    /\ goto(t, "update")
    /\ UNCHANGED <<status, current, hasRecords, finished, table, diskVars, queue,
                   writerVars, poolVars, quitLock, held, failed>>

\* the redo file is removed, m_blocks.update, BLOCK_FLAG_FLUSHED, unuse
updateTable(t) ==
    /\ pc[t] = "update"
    /\ table' = [table EXCEPT ![held[t]] = "sol"]
    /\ flushed' = flushed \cup {held[t]}
    /\ goto(t, "loop")
    /\ UNCHANGED <<status, current, hasRecords, finished, next, prev, onDisk,
                   queue, writerVars, poolVars, quitLock, flushLock, held,
                   failed>>

\* Mutant: the thread leaves with m_quitLock locked.
releaseQuitLock_Kept(t) ==
    /\ pc[t] = "wrap"
    /\ goto(t, "ending")
    /\ UNCHANGED <<status, blockVars, diskVars, queue, writerVars, poolVars,
                   quitLock, flushLock, held, failed>>

\* threadPool::wrap after the delegate returned, one step per shared access
releaseQuitLock(t) ==
    /\ pc[t] = "wrap"
    /\ quitLock' = IF quitLock = t THEN 0 ELSE quitLock
    /\ goto(t, "ending")
    /\ UNCHANGED <<status, blockVars, diskVars, queue, writerVars, poolVars,
                   flushLock, held, failed>>

setJoinable(t) ==
    /\ pc[t] = "ending"
    /\ slotStatus' = [slotStatus EXCEPT ![t] = "JOIN_ABLE"]
    /\ goto(t, "uncount")
    /\ UNCHANGED <<status, blockVars, diskVars, queue, writerVars, threadCount,
                   quitLock, flushLock, held, failed>>

uncount(t) ==
    /\ pc[t] = "uncount"
    /\ threadCount' = threadCount - 1
    /\ goto(t, "dead")
    /\ UNCHANGED <<status, blockVars, diskVars, queue, writerVars, slotStatus,
                   quitLock, flushLock, held, failed>>

flushThread(t) ==
    \/ flushLoop(t) \/ popBlock(t) \/ popTimeout(t) \/ idleRound(t)
    \/ quitIfThreadMoreThan(t) \/ lastThread(t)
    \/ flushNull(t) \/ writeBlock(t) \/ writeFails(t)
    \/ copyLinks(t) \/ relink(t) \/ updateTable(t)
    \/ releaseQuitLock(t) \/ setJoinable(t) \/ uncount(t)

\* stop() has returned, or the process is dead.
ended == writerPc \in {"stopped", "killed"} /\ UNCHANGED vars

Next ==
    /\ Writer \/ (\E t \in Slots : flushThread(t)) \/ ended
    /\ UNCHANGED <<limit, idles>>

Spec == Init /\ [][Next]_<<vars, limit, idles>>

\* The operating system runs every thread that can run; the writer finishes
\* what it has started but need not insert, flush or stop.
FairSpec ==
    /\ Spec
    /\ WF_vars(finishRedo \/ pushBlock \/ giveUpPush \/ createNewThread
               \/ joinSlotDone \/ setStopping \/ joinAll)
    /\ \A t \in Slots : WF_vars(flushThread(t))

-----------------------------------------------------------------------------
(* Properties                                                              *)

Threads == {t \in Slots : pc[t] \notin {"none", "dead"}}

TypeOK ==
    /\ status \in {"RUNNING", "STOPPING", "FAILED"}
    /\ current \in Blocks
    /\ hasRecords \in BOOLEAN
    /\ finished \subseteq Blocks
    /\ flushed \subseteq Blocks
    /\ onDisk \subseteq Blocks
    /\ table \in [Blocks -> {"none", "app", "sol", "freed"}]
    /\ next \in [Objects -> Objects]
    /\ prev \in [Objects -> Objects]
    /\ queue \in Seq(Blocks)
    /\ writerPc \in {"idle", "finishRedo", "push", "joinSlot", "setStopping",
                     "joinAll", "stopped", "killed"}
    /\ caller \in {"insert", "alloc", "flushLogs", "stop"}
    /\ joining \in Slots \cup {0}
    /\ slotStatus \in [Slots -> {"IDLE", "RUNNING", "JOIN_ABLE", "DO_JOIN"}]
    /\ threadCount \in Nat
    /\ quitLock \in Slots \cup {0}
    /\ flushLock \in Slots \cup {0}
    /\ pc \in [Slots -> {"none", "loop", "pop", "idle", "quit", "last",
                         "popLast", "write", "copyLinks", "relink", "update",
                         "wrap", "ending", "uncount", "dead"}]
    /\ held \in [Slots -> Blocks \cup {0}]
    /\ failed \in BOOLEAN
    /\ limit \in 1 .. MaxThreads
    /\ idles \in BOOLEAN

\* flush() is running for block b in thread t.
flushing(t, b) ==
    held[t] = b /\ pc[t] \in {"write", "copyLinks", "relink", "update"}

\* The writer has passed b to the flush threads.
handedToFlush(b) ==
    \/ b < current /\ ~(caller # "stop" /\ b = handedOver
                        /\ writerPc \in {"finishRedo", "push", "joinSlot"})
    \/ b = current /\ b \in finished /\ writerPc \in {"setStopping", "joinAll", "stopped"}

\* No block is flushed by two threads, queued twice or flushed again after its
\* file is complete (finishAppendingBlock, flushThread, flush).
OnePlace ==
    /\ \A i, j \in DOMAIN queue : queue[i] = queue[j] => i = j
    /\ \A t, u \in Slots : \A b \in Blocks :
           flushing(t, b) /\ flushing(u, b) => t = u
    /\ \A b \in Blocks :
           /\ b \in flushed => \A t \in Slots : ~flushing(t, b)
           /\ \A i \in DOMAIN queue : queue[i] = b =>
                 b \notin flushed /\ \A t \in Slots : ~flushing(t, b)

\* Unless an I/O error was reported, a block that was handed over is on disk
\* or on its way there: in the queue or in the hands of a flush thread
\* (createNewBlock, finishAppendingBlock and flushThread lose none).
NoneLost ==
    failed \/ \A b \in Blocks : handedToFlush(b) =>
        \/ b \in flushed /\ b \in onDisk /\ table[b] = "sol"
        \/ \E i \in DOMAIN queue : queue[i] = b
        \/ \E t \in Slots : flushing(t, b)

\* A link is being moved from an appending block to its solid block.
moving(b) == \E t \in Slots : held[t] = b /\ pc[t] \in {"relink", "update"}

\* Iterators walk the blocks by their links: the object m_blocks holds for a
\* block and the one for its successor point to each other, whatever order the
\* flush threads replace them in, except while flush() is replacing one of the
\* two (flush lines 522-529 under m_flushLock, against createNewBlock).
ChainIntact ==
    failed \/ \A b \in 1 .. (current - 1) :
        ~moving(b) /\ ~moving(b + 1) =>
            /\ next[<<table[b], b>>] = <<table[b + 1], b + 1>>
            /\ prev[<<table[b + 1], b + 1>>] = <<table[b], b>>

\* m_currentThreadCount, which quitIfThreadMoreThan and createNewThread decide
\* on, is exactly the number of threads that run, and never above the limit.
CountExact == threadCount = Cardinality(Threads) /\ threadCount <= limit

\* When stop() returns, every finished block is on disk.
StopDrains ==
    writerPc = "stopped" /\ ~failed =>
        queue = <<>> /\ finished \subseteq flushed

\* With one flush thread stop() returns only when the queue is drained.
StopDrainsAlone == limit = 1 /\ ~idles => StopDrains

\* With one flush thread a block handed over while no error occurs is flushed.
EventuallyFlushed ==
    \A b \in Blocks :
        limit = 1 /\ ~idles /\ handedToFlush(b) ~> (b \in flushed \/ failed)

\* stop() returns: no join, lock or queue makes the threads wait for each other.
StopReturns == (caller = "stop") ~> (writerPc \in {"stopped", "killed"})

\* Whatever is rolled over by a running database gets into the queue: a full
\* queue is drained by the threads that exist or by a new one.
HandOverReturns == (writerPc = "push") ~> (writerPc \in {"idle", "setStopping", "killed"})
=============================================================================
