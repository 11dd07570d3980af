------------------------ MODULE FlushPipeline_proofs ------------------------
(***************************************************************************)
(* From memory to disk, for any size of the pool, limit of threads,         *)
(* capacity of the queue and number of blocks: the blocks get there one     *)
(* time each and none is lost, m_currentThreadCount is exact, the links     *)
(* between the blocks survive their replacement, and stop() with one flush  *)
(* thread drains the queue.                                                 *)
(*                                                                         *)
(* `handed' is the number of blocks the writer has passed on: whatever is   *)
(* queued, in the hands of a thread or flushed is not above it (Placed),    *)
(* so that the next block handed over is nowhere yet.                       *)
(***************************************************************************)
EXTENDS FlushPipeline, FiniteSetTheorems, TLAPS

HandingPcs == {"finishRedo", "push", "joinSlot"}
WriterPcs == HandingPcs \cup {"idle", "setStopping", "joinAll", "stopped", "killed"}
FlushPcs == {"write", "copyLinks", "relink", "update"}
ThreadPcs == FlushPcs \cup {"loop", "pop", "idle", "quit", "last", "popLast", "wrap",
                            "ending", "uncount"}
SlotPcs == ThreadPcs \cup {"none", "dead"}

Pool ==
    /\ \A t \in Slots : slotStatus[t] = "IDLE" => pc[t] = "none"
    /\ writerPc \in {"joinSlot", "joinAll"} => joining # 0
    /\ writerPc = "joinSlot" => threadCount < limit
    /\ CountExact

Caller ==
    /\ writerPc = "idle" => caller # "stop"
    /\ writerPc \in {"setStopping", "joinAll", "stopped"} => caller = "stop"
    /\ writerPc \in HandingPcs /\ caller # "stop" => current > 1

Held ==
    \A t \in Slots :
        /\ pc[t] \in {"pop", "idle", "quit", "last", "popLast"} => held[t] = 0
        /\ pc[t] \in {"copyLinks", "relink", "update"} => held[t] # 0

handed ==
    IF writerPc \in HandingPcs THEN handedOver - 1
    ELSE IF caller = "stop" THEN current ELSE current - 1

Placed ==
    /\ \A i \in DOMAIN queue : queue[i] <= handed
    /\ \A t \in Slots : pc[t] \in FlushPcs => held[t] <= handed
    /\ \A b \in flushed : b <= handed

Base == TypeOK /\ Pool /\ Caller /\ Held /\ Placed /\ OnePlace

\* While no operation has failed: what the flags of a block and its entry in
\* m_blocks say.
Flags ==
    /\ flushed \subseteq onDisk
    /\ \A t \in Slots : pc[t] \in {"copyLinks", "relink", "update"} => held[t] \in onDisk
    /\ \A b \in finished : b <= current
    /\ caller # "stop" => current \notin finished
    /\ \A b \in Blocks :
          table[b] = IF b > current THEN "none" ELSE IF b \in flushed THEN "sol" ELSE "app"

\* The object that stands for block b: flush() has redirected the neighbours to
\* the solid block or not.
relinked(b) == b \in flushed \/ \E t \in Slots : held[t] = b /\ pc[t] = "update"

rep(b) == IF relinked(b) THEN sol(b) ELSE app(b)

Linked ==
    /\ \A b \in 1 .. current - 1 : next[rep(b)] = rep(b + 1) /\ prev[rep(b + 1)] = rep(b)
    /\ prev[rep(1)] = Nil
    /\ next[rep(current)] = Nil

\* Under m_flushLock the solid block has the links of the block it replaces.
Copied ==
    \A t \in Slots : pc[t] = "relink" =>
        /\ flushLock = t
        /\ next[sol(held[t])] = next[app(held[t])]
        /\ prev[sol(held[t])] = prev[app(held[t])]

Smooth == Flags /\ NoneLost /\ Linked /\ Copied

Stopping ==
    /\ status = "FAILED" => failed
    /\ status = "STOPPING" => writerPc \in {"joinAll", "stopped"} \/ failed
    /\ writerPc = "joinAll" => \A t \in Slots : t < joining => pc[t] = "none"
    /\ writerPc = "stopped" => \A t \in Slots : pc[t] = "none"

\* One flush thread: it leaves when the database stops and the queue is empty.
Alone ==
    /\ \A t \in Slots : pc[t] \in {"quit", "last", "popLast"} => status = "STOPPING"
    /\ \A t \in Slots : pc[t] \in {"wrap", "ending", "uncount", "dead"} =>
          status = "STOPPING" /\ queue = <<>>
    /\ \/ \E t \in Slots : pc[t] # "none"
       \/ status = "STOPPING" /\ queue = <<>>

PipelineInv ==
    /\ Base
    /\ Stopping
    /\ ~failed => Smooth
    /\ ~failed /\ limit = 1 /\ ~idles => Alone

-----------------------------------------------------------------------------
\* The objects of different blocks, and the two of one block, are different.
LEMMA ObjectsApart ==
    /\ Nil \in Objects
    /\ \A b \in Blocks :
          /\ app(b) \in Objects /\ sol(b) \in Objects
          /\ app(b) # Nil /\ sol(b) # Nil
    /\ \A b, c \in Blocks :
          /\ app(b) # sol(c)
          /\ app(b) = app(c) => b = c
          /\ sol(b) = sol(c) => b = c
<1>1. "app" # "sol" /\ "app" # "nil" /\ "sol" # "nil"
  OBVIOUS
<1> QED
  BY <1>1 DEF Objects, app, sol, Nil

\* A set of slots is finite.
LEMMA SlotsFinite ==
    ASSUME NEW S \in SUBSET Slots
    PROVE  IsFiniteSet(S) /\ Cardinality(S) \in Nat
<1>1. IsFiniteSet(Slots)
  BY FS_Interval, PipelineAssumption DEF Slots
<1> QED
  BY <1>1, FS_Subset, FS_CardinalityType

\* How the number of running threads changes when the thread of slot t moves on.
LEMMA ThreadsMove ==
    ASSUME TypeOK, NEW t \in Slots, NEW w \in SlotPcs, goto(t, w)
    PROVE  /\ pc'[t] = w
           /\ \A u \in Slots : u # t => pc'[u] = pc[u]
           /\ pc' \in [Slots -> SlotPcs]
           /\ Cardinality(Threads') =
                IF (w \in ThreadPcs) = (pc[t] \in ThreadPcs) THEN Cardinality(Threads)
                ELSE IF w \in ThreadPcs THEN Cardinality(Threads) + 1
                ELSE Cardinality(Threads) - 1
<1>1. pc \in [Slots -> SlotPcs] /\ pc' = [pc EXCEPT ![t] = w]
  BY DEF TypeOK, goto, SlotPcs, ThreadPcs, FlushPcs
<1>2. pc'[t] = w /\ (\A u \in Slots : u # t => pc'[u] = pc[u]) /\ pc' \in [Slots -> SlotPcs]
  BY <1>1
<1>a. \A p \in SlotPcs : p \in ThreadPcs <=> p \notin {"none", "dead"}
  BY DEF SlotPcs, ThreadPcs, FlushPcs
<1>3. Threads' = IF w \in ThreadPcs THEN Threads \cup {t} ELSE Threads \ {t}
  BY <1>1, <1>2, <1>a DEF Threads
<1>4. t \in Threads <=> pc[t] \in ThreadPcs
  BY <1>1, <1>a DEF Threads
<1>5. IsFiniteSet(Threads)
  BY SlotsFinite DEF Threads
<1>6. /\ Cardinality(Threads \cup {t}) =
           IF t \in Threads THEN Cardinality(Threads) ELSE Cardinality(Threads) + 1
      /\ Cardinality(Threads \ {t}) =
           IF t \in Threads THEN Cardinality(Threads) - 1 ELSE Cardinality(Threads)
  BY <1>5, FS_AddElement, FS_RemoveElement
<1> QED
  BY <1>2, <1>3, <1>4, <1>6

\* The steps of a thread between pop and the end of wrap that only move it on.
quietStep(t) ==
    \/ flushLoop(t) \/ popBlock(t) \/ popTimeout(t) \/ idleRound(t)
    \/ quitIfThreadMoreThan(t) \/ lastThread(t)
    \/ writeBlock(t) \/ writeFails(t)
    \/ copyLinks(t) \/ relink(t) \/ updateTable(t) \/ releaseQuitLock(t)

\* A quiet step of a thread only moves its program counter.
LEMMA QuietMove ==
    ASSUME NEW t \in Slots, quietStep(t)
    PROVE  /\ \E w \in ThreadPcs : goto(t, w)
           /\ pc[t] \in ThreadPcs
           /\ UNCHANGED <<current, hasRecords, finished, writerVars, poolVars>>
<1> USE DEF ThreadPcs, FlushPcs, blockVars
<1>1. CASE flushLoop(t) \/ popBlock(t) \/ popTimeout(t) \/ idleRound(t)
  BY <1>1, Zenon DEF flushLoop, popBlock, popTimeout, idleRound
<1>2. CASE quitIfThreadMoreThan(t) \/ lastThread(t)
  BY <1>2, Zenon DEF quitIfThreadMoreThan, lastThread
<1>3. CASE writeBlock(t) \/ writeFails(t) \/ updateTable(t) \/ releaseQuitLock(t)
  BY <1>3, Zenon DEF writeBlock, writeFails, updateTable, releaseQuitLock
<1>4. CASE copyLinks(t) \/ relink(t)
  BY <1>4, Zenon DEF copyLinks, relink
<1> QED
  BY <1>1, <1>2, <1>3, <1>4 DEF quietStep

-----------------------------------------------------------------------------
(* Types                                                                   *)

\* The writer's steps keep the types.
LEMMA WriterTypes ==
    ASSUME Base, Writer, UNCHANGED <<limit, idles>>
    PROVE  TypeOK'
<1> USE PipelineAssumption
<1>a. TypeOK /\ Pool /\ Caller
  BY DEF Base
<1>1. CASE appendRecord
  <2>1. hasRecords' \in BOOLEAN
    BY <1>1 DEF appendRecord
  <2> QED
    BY <1>1, <1>a, <2>1 DEF appendRecord, TypeOK, diskVars, writerVars, poolVars, threadVars
<1>2. CASE \E by \in {"insert", "alloc", "flushLogs"} : rollOver(by)
  <2>1. PICK by \in {"insert", "alloc", "flushLogs"} : rollOver(by)
    BY <1>2
  <2>2. current \in Blocks /\ current + 1 \in Blocks
    BY <2>1, <1>a DEF rollOver, TypeOK, Blocks
  <2>3. next' \in [Objects -> Objects] /\ prev' \in [Objects -> Objects]
    BY <2>1, <2>2, <1>a, ObjectsApart DEF rollOver, linkNewBlock, TypeOK
  <2>4. table' \in [Blocks -> {"none", "app", "sol", "freed"}]
    BY <2>1, <2>2, <1>a DEF rollOver, linkNewBlock, TypeOK
  <2>5. hasRecords' \in BOOLEAN
    BY <2>1 DEF rollOver, linkNewBlock
  <2> QED
    BY <2>1, <2>2, <2>3, <2>4, <2>5, <1>a
       DEF rollOver, linkNewBlock, TypeOK, diskVars, poolVars, threadVars
<1>3. CASE finishRedo
  BY <1>3, <1>a DEF finishRedo, TypeOK, blockVars, diskVars, poolVars, threadVars
<1>4. ASSUME abandonBlock, writerPc \in HandingPcs PROVE TypeOK'
  <2>1. current' \in Blocks
    BY <1>4, <1>a DEF abandonBlock, Caller, TypeOK, Blocks, blockVars
  <2>2. table' \in [Blocks -> {"none", "app", "sol", "freed"}]
    BY <1>4, <1>a DEF abandonBlock, TypeOK, blockVars
  <2>3. hasRecords' \in BOOLEAN /\ failed' \in BOOLEAN
    BY <1>4, <1>a, Zenon DEF abandonBlock, TypeOK, blockVars
  <2>4. writerPc' \in {"idle", "setStopping"} /\ status' \in {"RUNNING", "STOPPING", "FAILED"}
    BY <1>4, <1>a DEF abandonBlock, TypeOK, afterPush
  <2>5. UNCHANGED <<finished, next, prev, diskVars, queue, caller, joining, poolVars,
                    quitLock, flushLock, threadVars>>
    BY <1>4, Zenon DEF abandonBlock, blockVars
  <2> QED
    BY <1>a, <2>1, <2>2, <2>3, <2>4, <2>5 DEF TypeOK, diskVars, poolVars, threadVars
<1>5. CASE finishRedoFails \/ giveUpPush
  BY <1>5, <1>4 DEF finishRedoFails, giveUpPush, HandingPcs
<1>6. CASE pushBlock
  <2>1. handedOver \in Blocks
    BY <1>6, <1>a DEF pushBlock, handedOver, Caller, HandingPcs, TypeOK, Blocks
  <2>2. writerPc' \in {"idle", "setStopping"}
    BY <1>6 DEF pushBlock, afterPush
  <2>3. queue' \in Seq(Blocks)
    BY <1>6, <1>a, <2>1 DEF pushBlock, TypeOK
  <2> QED
    BY <1>6, <1>a, <2>2, <2>3 DEF pushBlock, TypeOK, blockVars, diskVars, poolVars, threadVars
<1>7. CASE createNewThread
  <2>1. /\ slotStatus' \in [Slots -> {"IDLE", "RUNNING", "JOIN_ABLE", "DO_JOIN"}]
        /\ writerPc' \in {writerPc, "joinSlot"}
        /\ joining' \in Slots \cup {0}
        /\ threadCount' \in Nat
        /\ pc' \in [Slots -> SlotPcs]
        /\ held' \in [Slots -> Blocks \cup {0}]
        /\ caller' = caller
    <3>1. PICK t \in Slots :
            \/ startThread(t) /\ UNCHANGED writerVars
            \/ /\ slotStatus' = [slotStatus EXCEPT ![t] = "DO_JOIN"]
               /\ writerPc' = "joinSlot" /\ joining' = t
               /\ UNCHANGED <<threadCount, threadVars, caller>>
      BY <1>7 DEF createNewThread
    <3>2. CASE startThread(t) /\ UNCHANGED writerVars
      <4>1. /\ slotStatus' \in [Slots -> {"IDLE", "RUNNING", "JOIN_ABLE", "DO_JOIN"}]
            /\ threadCount' \in Nat
        BY <3>2, <1>a DEF startThread, TypeOK
      <4>2. /\ pc' \in [Slots -> SlotPcs] /\ held' \in [Slots -> Blocks \cup {0}]
        BY <3>2, <1>a DEF startThread, TypeOK, SlotPcs, ThreadPcs, FlushPcs
      <4>3. writerPc' = writerPc /\ joining' = joining /\ caller' = caller /\ joining \in Slots \cup {0}
        BY <3>2, <1>a DEF TypeOK, writerVars
      <4> QED BY <4>1, <4>2, <4>3
    <3>3. CASE /\ slotStatus' = [slotStatus EXCEPT ![t] = "DO_JOIN"]
               /\ writerPc' = "joinSlot" /\ joining' = t
               /\ UNCHANGED <<threadCount, threadVars, caller>>
      <4>1. slotStatus' \in [Slots -> {"IDLE", "RUNNING", "JOIN_ABLE", "DO_JOIN"}]
        BY <3>3, <1>a DEF TypeOK
      <4>2. UNCHANGED <<threadCount, pc, held, caller>>
        BY <3>3 DEF threadVars
      <4>3. /\ threadCount \in Nat /\ pc \in [Slots -> SlotPcs]
            /\ held \in [Slots -> Blocks \cup {0}]
        BY <1>a DEF TypeOK, SlotPcs, ThreadPcs, FlushPcs
      <4> QED BY <3>3, <4>1, <4>2, <4>3, Zenon
    <3> QED BY <3>1, <3>2, <3>3
  <2> QED
    BY <1>7, <1>a, <2>1 DEF createNewThread, TypeOK, blockVars, diskVars,
                            SlotPcs, ThreadPcs, FlushPcs
<1>8. CASE joinSlotDone
  <2>1. /\ slotStatus' \in [Slots -> {"IDLE", "RUNNING", "JOIN_ABLE", "DO_JOIN"}]
        /\ threadCount' \in Nat
        /\ pc' \in [Slots -> SlotPcs]
        /\ held' \in [Slots -> Blocks \cup {0}]
    <3>1. joining \in Slots
      BY <1>8, <1>a DEF joinSlotDone, Pool, TypeOK
    <3> QED
      BY <1>8, <1>a, <3>1 DEF joinSlotDone, startThread, TypeOK, SlotPcs, ThreadPcs, FlushPcs
  <2> QED
    BY <1>8, <1>a, <2>1 DEF joinSlotDone, TypeOK, blockVars, diskVars,
                            SlotPcs, ThreadPcs, FlushPcs
<1>9. CASE stop
  <2>1. writerPc' \in WriterPcs /\ finished' \subseteq Blocks
    BY <1>9, <1>a DEF stop, TypeOK, WriterPcs, HandingPcs
  <2> QED
    BY <1>9, <1>a, <2>1 DEF stop, TypeOK, diskVars, poolVars, threadVars, WriterPcs, HandingPcs
<1>10. CASE setStopping
  <2>1. 1 \in Slots
    BY DEF Slots
  <2> QED
    BY <1>10, <1>a, <2>1 DEF setStopping, TypeOK, blockVars, diskVars, poolVars, threadVars
<1>11. CASE joinAll
  <2>1. joining \in Slots
    BY <1>11, <1>a DEF joinAll, Pool, TypeOK
  <2>2. joining' \in Slots /\ writerPc' \in {"stopped", "joinAll"}
    BY <1>11, <1>a, <2>1 DEF joinAll, Slots, TypeOK
  <2> QED
    BY <1>11, <1>a, <2>1, <2>2 DEF joinAll, TypeOK, blockVars, diskVars
<1> QED
  BY <1>1, <1>2, <1>3, <1>5, <1>6, <1>7, <1>8, <1>9, <1>10, <1>11 DEF Writer

\* The flush threads' steps keep the types.
LEMMA ThreadTypes ==
    ASSUME Base, NEW t \in Slots, flushThread(t), UNCHANGED <<limit, idles>>
    PROVE  TypeOK'
<1> USE PipelineAssumption DEF goto
<1>a. TypeOK /\ Pool /\ Held
  BY DEF Base
<1>1. CASE flushLoop(t)
  BY <1>1, <1>a DEF flushLoop, TypeOK, blockVars, diskVars, writerVars, poolVars
<1>2. CASE popBlock(t)
  <2>1. Head(queue) \in Blocks /\ Tail(queue) \in Seq(Blocks)
    BY <1>2, <1>a DEF popBlock, TypeOK
  <2> QED
    BY <1>2, <1>a, <2>1 DEF popBlock, TypeOK, blockVars, diskVars, writerVars, poolVars
<1>3. CASE popTimeout(t) \/ idleRound(t) \/ lastThread(t)
  <2>1. pc' \in [Slots -> SlotPcs]
    BY <1>3, <1>a DEF popTimeout, idleRound, lastThread, TypeOK, SlotPcs, ThreadPcs, FlushPcs
  <2>2. UNCHANGED <<status, blockVars, diskVars, queue, writerVars, poolVars, quitLock,
                    flushLock, held, failed>>
    BY <1>3, Zenon DEF popTimeout, idleRound, lastThread
  <2> QED
    BY <1>a, <2>1, <2>2 DEF TypeOK, blockVars, diskVars, writerVars, poolVars,
                            SlotPcs, ThreadPcs, FlushPcs
<1>4. CASE quitIfThreadMoreThan(t) \/ releaseQuitLock(t)
  <2>1. pc' \in [Slots -> SlotPcs] /\ quitLock' \in Slots \cup {0}
    BY <1>4, <1>a DEF quitIfThreadMoreThan, releaseQuitLock, TypeOK, SlotPcs, ThreadPcs, FlushPcs
  <2>2. UNCHANGED <<status, blockVars, diskVars, queue, writerVars, poolVars,
                    flushLock, held, failed>>
    BY <1>4, Zenon DEF quitIfThreadMoreThan, releaseQuitLock
  <2> QED
    BY <1>a, <2>1, <2>2 DEF TypeOK, blockVars, diskVars, writerVars, poolVars,
                            SlotPcs, ThreadPcs, FlushPcs
<1>5. CASE flushNull(t)
  <2>1. failed' \in BOOLEAN
    BY <1>5 DEF flushNull
  <2> QED
    BY <1>5, <1>a, <2>1 DEF flushNull, TypeOK, blockVars, diskVars
<1>6. CASE writeBlock(t)
  BY <1>6, <1>a DEF writeBlock, TypeOK, blockVars, writerVars, poolVars
<1>7. CASE writeFails(t)
  <2>1. failed' \in BOOLEAN
    BY <1>7 DEF writeFails
  <2> QED
    BY <1>7, <1>a, <2>1 DEF writeFails, TypeOK, blockVars, diskVars, writerVars, poolVars
<1>8. CASE copyLinks(t) \/ relink(t)
  <2>1. held[t] \in Blocks
    BY <1>8, <1>a DEF copyLinks, relink, Held, TypeOK
  <2>2. app(held[t]) \in Objects /\ sol(held[t]) \in Objects
    BY <2>1, ObjectsApart
  <2>3. next' \in [Objects -> Objects] /\ prev' \in [Objects -> Objects]
    BY <1>8, <1>a, <2>2 DEF copyLinks, relink, TypeOK
  <2>4. pc' \in [Slots -> SlotPcs] /\ flushLock' \in Slots \cup {0}
    BY <1>8, <1>a DEF copyLinks, relink, TypeOK, SlotPcs, ThreadPcs, FlushPcs
  <2>5. UNCHANGED <<status, current, hasRecords, finished, table, diskVars, queue,
                    writerVars, poolVars, quitLock, held, failed>>
    BY <1>8, Zenon DEF copyLinks, relink
  <2> QED
    BY <1>a, <2>3, <2>4, <2>5 DEF TypeOK, diskVars, writerVars, poolVars,
                                  SlotPcs, ThreadPcs, FlushPcs
<1>9. CASE updateTable(t)
  BY <1>9, <1>a DEF updateTable, Held, TypeOK, writerVars, poolVars
<1>10. CASE setJoinable(t)
  BY <1>10, <1>a DEF setJoinable, TypeOK, blockVars, diskVars, writerVars
<1>11. CASE uncount(t)
  <2>1. t \in Threads /\ IsFiniteSet(Threads) /\ Cardinality(Threads) \in Nat
    BY <1>11, SlotsFinite DEF uncount, Threads
  <2>2. Cardinality(Threads) # 0
    BY <2>1, FS_EmptySet
  <2>3. threadCount - 1 \in Nat
    BY <1>a, <2>1, <2>2 DEF Pool, CountExact
  <2> QED
    BY <1>11, <1>a, <2>3 DEF uncount, TypeOK, blockVars, diskVars, writerVars
<1> QED
  BY <1>1, <1>2, <1>3, <1>4, <1>5, <1>6, <1>7, <1>8, <1>9, <1>10, <1>11 DEF flushThread

-----------------------------------------------------------------------------
(* The pool: IDLE slots have no thread, and the count is the number of      *)
(* threads                                                                  *)

\* createNewThread and join count as many threads as there are.
LEMMA WriterPool ==
    ASSUME Base, Writer, UNCHANGED <<limit, idles>>
    PROVE  Pool'
<1> USE PipelineAssumption
<1>a. TypeOK /\ Pool
  BY DEF Base
<1>b. threadCount \in Nat /\ limit \in Nat /\ joining \in Slots \cup {0}
      /\ Cardinality(Threads) = threadCount
  BY <1>a DEF TypeOK, Pool, CountExact
<1>1. ASSUME UNCHANGED <<slotStatus, threadCount, pc>>,
             writerPc' \notin {"joinSlot", "joinAll"}
      PROVE  Pool'
  BY <1>a, <1>1 DEF Pool, CountExact, Threads
<1>2. CASE appendRecord \/ finishRedo \/ pushBlock \/ stop
           \/ (\E by \in {"insert", "alloc", "flushLogs"} : rollOver(by))
           \/ finishRedoFails \/ giveUpPush
  <2>1. UNCHANGED <<slotStatus, threadCount, pc>>
    BY <1>2, Zenon DEF appendRecord, finishRedo, pushBlock, stop, rollOver, finishRedoFails,
                       giveUpPush, abandonBlock, poolVars, threadVars
  <2>2. writerPc' \notin {"joinSlot", "joinAll"}
    BY <1>2, <1>a DEF appendRecord, finishRedo, pushBlock, stop, rollOver, finishRedoFails,
                      giveUpPush, abandonBlock, afterPush, writerVars
  <2> QED BY <1>1, <2>1, <2>2
<1>3. ASSUME NEW t \in Slots, startThread(t), threadCount < limit, pc[t] \in {"none", "dead"},
             writerPc' = "push"
      PROVE  Pool'
  <2>1. goto(t, "loop")
    BY <1>3 DEF startThread, goto
  <2>2. Cardinality(Threads') = Cardinality(Threads) + 1
    BY <1>a, <1>3, <2>1, ThreadsMove DEF SlotPcs, ThreadPcs, FlushPcs
  <2>3. CountExact'
    BY <1>3, <1>b, <2>2 DEF CountExact, startThread
  <2>4. \A u \in Slots : slotStatus'[u] = "IDLE" => pc'[u] = "none"
    BY <1>3, <1>a DEF startThread, Pool, TypeOK
  <2> QED
    BY <1>3, <2>3, <2>4 DEF Pool
<1>4. CASE createNewThread
  <2>1. PICK t \in Slots :
          /\ usable(t)
          /\ \/ /\ slotStatus[t] = "IDLE"
                /\ startThread(t)
                /\ UNCHANGED writerVars
             \/ /\ slotStatus[t] = "JOIN_ABLE"
                /\ slotStatus' = [slotStatus EXCEPT ![t] = "DO_JOIN"]
                /\ writerPc' = "joinSlot"
                /\ joining' = t
                /\ UNCHANGED <<threadCount, threadVars, caller>>
    BY <1>4, Zenon DEF createNewThread
  <2>2. threadCount < limit /\ writerPc = "push"
    BY <1>4 DEF createNewThread
  <2>3. CASE slotStatus[t] = "IDLE" /\ startThread(t) /\ UNCHANGED writerVars
    BY <1>3, <1>a, <2>2, <2>3 DEF Pool, writerVars
  <2>4. CASE slotStatus[t] # "IDLE"
    <3>1. /\ slotStatus' = [slotStatus EXCEPT ![t] = "DO_JOIN"]
          /\ writerPc' = "joinSlot" /\ joining' = t
          /\ UNCHANGED <<threadCount, pc>>
      BY <2>1, <2>4 DEF threadVars
    <3>2. \A u \in Slots : slotStatus'[u] = "IDLE" => pc'[u] = "none"
      BY <1>a, <3>1 DEF Pool, TypeOK
    <3>3. joining' # 0
      BY <3>1 DEF Slots
    <3>4. CountExact'
      BY <1>a, <3>1 DEF Pool, CountExact, Threads
    <3> QED
      BY <1>b, <2>2, <3>1, <3>2, <3>3, <3>4 DEF Pool
  <2> QED BY <2>1, <2>3, <2>4
<1>5. CASE joinSlotDone
  BY <1>5, <1>3, <1>a, <1>b DEF joinSlotDone, Pool
<1>6. CASE setStopping
  BY <1>6, <1>a DEF setStopping, Pool, CountExact, Threads, poolVars, threadVars
<1>7. CASE joinAll
  <2>1. joining \in Slots
    BY <1>7, <1>a, <1>b DEF joinAll, Pool
  <2>2. pc[joining] \in {"none", "dead"} /\ goto(joining, "none")
    BY <1>7, <1>a, <2>1 DEF joinAll, Pool, goto
  <2>3. Cardinality(Threads') = Cardinality(Threads)
    BY <1>a, <2>1, <2>2, ThreadsMove DEF SlotPcs, ThreadPcs, FlushPcs
  <2>4. CountExact'
    BY <1>7, <1>a, <2>3 DEF joinAll, Pool, CountExact
  <2>5. \A u \in Slots : slotStatus'[u] = "IDLE" => pc'[u] = "none"
    BY <1>7, <1>a, <2>1 DEF joinAll, Pool, TypeOK
  <2>6. writerPc' # "joinSlot" /\ joining' # 0
    BY <1>7, <2>1 DEF joinAll, Slots
  <2> QED
    BY <2>4, <2>5, <2>6 DEF Pool
<1> QED
  BY <1>2, <1>4, <1>5, <1>6, <1>7 DEF Writer

\* A thread that ends is counted out once.
LEMMA ThreadPool ==
    ASSUME Base, NEW t \in Slots, flushThread(t), UNCHANGED <<limit, idles>>
    PROVE  Pool'
<1> USE PipelineAssumption
<1>a. TypeOK /\ Pool
  BY DEF Base
<1>b. /\ threadCount \in Nat /\ limit \in Nat
      /\ Cardinality(Threads) = threadCount /\ threadCount <= limit
  BY <1>a DEF TypeOK, Pool, CountExact
<1>c. slotStatus[t] # "IDLE" \/ pc[t] = "none"
  BY <1>a DEF Pool
<1>1. ASSUME NEW w \in SlotPcs, goto(t, w), pc[t] # "none",
             slotStatus' \in {slotStatus, [slotStatus EXCEPT ![t] = "JOIN_ABLE"]},
             UNCHANGED <<writerPc, joining>>,
             threadCount' <= threadCount, threadCount' \in Nat,
             Cardinality(Threads') = threadCount'
      PROVE  Pool'
  <2>1. \A u \in Slots : slotStatus'[u] = "IDLE" => pc'[u] = "none"
    <3> SUFFICES ASSUME NEW u \in Slots, slotStatus'[u] = "IDLE" PROVE pc'[u] = "none"
      OBVIOUS
    <3>1. slotStatus[u] = "IDLE" /\ u # t
      BY <1>a, <1>c, <1>1 DEF TypeOK
    <3>2. pc'[u] = pc[u]
      BY <1>a, <1>1, <3>1, ThreadsMove
    <3> QED BY <1>a, <3>1, <3>2 DEF Pool
  <2>2. threadCount' <= limit'
    BY <1>b, <1>1
  <2>3. writerPc' = "joinSlot" => threadCount' < limit'
    BY <1>a, <1>b, <1>1 DEF Pool
  <2> QED
    BY <1>a, <1>1, <2>1, <2>2, <2>3 DEF Pool, CountExact
<1>2. CASE quietStep(t)
  <2>1. PICK w \in ThreadPcs : goto(t, w)
    BY <1>2, QuietMove
  <2>2. pc[t] \in ThreadPcs /\ UNCHANGED <<writerVars, poolVars>>
    BY <1>2, QuietMove
  <2>3. w \in SlotPcs /\ pc[t] # "none"
    BY <2>1, <2>2 DEF SlotPcs, ThreadPcs, FlushPcs
  <2>4. Cardinality(Threads') = Cardinality(Threads)
    BY <1>a, <2>1, <2>2, <2>3, ThreadsMove
  <2> QED
    BY <1>1, <1>b, <2>1, <2>2, <2>3, <2>4 DEF writerVars, poolVars
<1>3. CASE setJoinable(t)
  <2>1. /\ pc[t] = "ending" /\ goto(t, "uncount")
        /\ slotStatus' = [slotStatus EXCEPT ![t] = "JOIN_ABLE"]
        /\ UNCHANGED <<threadCount, writerPc, joining>>
    BY <1>3 DEF setJoinable, writerVars
  <2>2. Cardinality(Threads') = Cardinality(Threads)
    BY <1>a, <2>1, ThreadsMove DEF SlotPcs, ThreadPcs, FlushPcs
  <2> QED
    BY <1>1, <1>b, <2>1, <2>2 DEF SlotPcs, ThreadPcs, FlushPcs
<1>4. CASE uncount(t)
  <2>1. /\ pc[t] = "uncount" /\ goto(t, "dead")
        /\ threadCount' = threadCount - 1
        /\ UNCHANGED <<slotStatus, writerPc, joining>>
    BY <1>4 DEF uncount, writerVars
  <2>2. Cardinality(Threads') = Cardinality(Threads) - 1
    BY <1>a, <2>1, ThreadsMove DEF SlotPcs, ThreadPcs, FlushPcs
  <2>3. Cardinality(Threads') \in Nat
    BY <1>4, ThreadTypes, SlotsFinite DEF Threads
  <2> QED
    BY <1>1, <1>b, <2>1, <2>2, <2>3 DEF SlotPcs
<1>5. CASE flushNull(t)
  <2>1. \A u \in Slots : pc'[u] = "none"
    BY <1>5 DEF flushNull
  <2>2. Threads' = {}
    BY <2>1 DEF Threads
  <2>3. CountExact'
    BY <1>5, <1>b, <2>2, FS_EmptySet DEF flushNull, CountExact
  <2>4. writerPc' = "killed"
    BY <1>5 DEF flushNull
  <2> QED
    BY <2>1, <2>3, <2>4 DEF Pool
<1> QED
  BY <1>2, <1>3, <1>4, <1>5 DEF flushThread, quietStep

-----------------------------------------------------------------------------
(* The caller of finishAppendingBlock, the block a thread holds             *)

\* Every step keeps who called for the hand-over: stop, or the writer with an earlier block.
LEMMA CallerStep ==
    ASSUME Base, Writer \/ (\E t \in Slots : flushThread(t)), UNCHANGED <<limit, idles>>
    PROVE  Caller'
<1> USE PipelineAssumption DEF HandingPcs
<1>a. TypeOK /\ Caller
  BY DEF Base
<1>1. CASE \E t \in Slots : flushThread(t)
  <2>1. PICK t \in Slots : flushThread(t)
    BY <1>1
  <2>2. CASE flushNull(t)
    BY <2>2 DEF flushNull, Caller
  <2>3. CASE quietStep(t)
    BY <1>a, <2>3, QuietMove DEF Caller, writerVars
  <2>4. CASE setJoinable(t) \/ uncount(t)
    BY <1>a, <2>4 DEF setJoinable, uncount, Caller, writerVars, blockVars
  <2> QED BY <2>1, <2>2, <2>3, <2>4 DEF flushThread, quietStep
<1>2. CASE Writer
  <2>1. CASE appendRecord \/ finishRedo \/ joinSlotDone
    BY <1>a, <2>1 DEF appendRecord, finishRedo, joinSlotDone, Caller, blockVars, writerVars
  <2>2. CASE \E by \in {"insert", "alloc", "flushLogs"} : rollOver(by)
    BY <1>a, <2>2 DEF rollOver, linkNewBlock, Caller, TypeOK, Blocks
  <2>3. CASE finishRedoFails \/ giveUpPush \/ pushBlock
    <3>1. /\ writerPc' = IF caller = "stop" THEN "setStopping" ELSE "idle"
          /\ caller' = caller
      BY <2>3, Zenon DEF finishRedoFails, giveUpPush, pushBlock, abandonBlock, afterPush
    <3> QED
      BY <3>1 DEF Caller
  <2>4. CASE createNewThread
    <3>1. /\ writerPc = "push" /\ writerPc' \in {"push", "joinSlot"}
          /\ caller' = caller /\ current' = current
      BY <2>4 DEF createNewThread, writerVars, blockVars
    <3> QED
      BY <1>a, <3>1 DEF Caller
  <2>5. CASE stop \/ setStopping \/ joinAll
    <3>1. /\ writerPc' \in {"finishRedo", "setStopping", "joinAll", "stopped"}
          /\ caller' = "stop"
      BY <1>a, <2>5 DEF stop, setStopping, joinAll, Caller
    <3> QED
      BY <3>1 DEF Caller
  <2> QED BY <1>2, <2>1, <2>2, <2>3, <2>4, <2>5 DEF Writer
<1> QED BY <1>1, <1>2

\* A thread holds no block until it has popped one, and one while it sets the links.
LEMMA HeldStep ==
    ASSUME Base, Writer \/ (\E t \in Slots : flushThread(t)), UNCHANGED <<limit, idles>>
    PROVE  Held'
<1> USE PipelineAssumption
<1>a. TypeOK /\ Held /\ pc \in [Slots -> SlotPcs] /\ held \in [Slots -> Blocks \cup {0}]
  BY DEF Base, TypeOK, SlotPcs, ThreadPcs, FlushPcs
<1>1. ASSUME NEW t \in Slots, NEW w, NEW h, pc' = [pc EXCEPT ![t] = w],
             held' = [held EXCEPT ![t] = h],
             w \in {"pop", "idle", "quit", "last", "popLast"} => h = 0,
             w \in {"copyLinks", "relink", "update"} => h # 0
      PROVE  Held'
  BY <1>a, <1>1 DEF Held
<1>2. ASSUME NEW t \in Slots, NEW w, goto(t, w), held' = held,
             w \in {"pop", "idle", "quit", "last", "popLast"} => held[t] = 0,
             w \in {"copyLinks", "relink", "update"} => held[t] # 0
      PROVE  Held'
  BY <1>a, <1>2 DEF Held, goto
<1>3. CASE Writer
  <2>1. CASE appendRecord \/ finishRedo \/ pushBlock \/ stop \/ setStopping
             \/ (\E by \in {"insert", "alloc", "flushLogs"} : rollOver(by))
             \/ finishRedoFails \/ giveUpPush
    <3>1. UNCHANGED threadVars
      BY <2>1, Zenon DEF appendRecord, finishRedo, pushBlock, stop, setStopping, rollOver,
                         finishRedoFails, giveUpPush, abandonBlock
    <3> QED
      BY <1>a, <3>1 DEF Held, threadVars
  <2>2. CASE createNewThread
    <3>1. UNCHANGED threadVars \/ \E t \in Slots : startThread(t)
      BY <2>2, Zenon DEF createNewThread, threadVars
    <3> QED
      BY <1>a, <1>1, <3>1 DEF Held, threadVars, startThread
  <2>3. CASE joinSlotDone
    BY <1>1, <2>3 DEF joinSlotDone, startThread, Base, Pool, TypeOK
  <2>4. CASE joinAll
    <3>1. joining \in Slots
      BY <2>4 DEF joinAll, Base, Pool, TypeOK
    <3> QED
      BY <1>2, <2>4, <3>1 DEF joinAll, goto
  <2> QED BY <1>3, <2>1, <2>2, <2>3, <2>4 DEF Writer
<1>4. ASSUME NEW t \in Slots, flushThread(t) PROVE Held'
  <2>1. CASE flushLoop(t)
    BY <1>1, <2>1 DEF flushLoop, goto
  <2>2. CASE popBlock(t)
    BY <1>1, <2>2 DEF popBlock, goto
  <2>3. CASE popTimeout(t)
    BY <1>2, <1>a, <2>3 DEF popTimeout, Held
  <2>4. CASE idleRound(t)
    BY <1>2, <1>a, <2>4 DEF idleRound, Held
  <2>5. CASE quitIfThreadMoreThan(t)
    BY <1>2, <1>a, <2>5 DEF quitIfThreadMoreThan, Held
  <2>6. CASE lastThread(t)
    BY <1>2, <1>a, <2>6 DEF lastThread, Held
  <2>7. CASE flushNull(t)
    BY <2>7 DEF flushNull, Held
  <2>8. CASE writeBlock(t) \/ writeFails(t)
    BY <1>2, <2>8 DEF writeBlock, writeFails
  <2>9. CASE copyLinks(t) \/ relink(t)
    BY <1>2, <1>a, <2>9 DEF copyLinks, relink, Held
  <2>10. CASE updateTable(t) \/ releaseQuitLock(t) \/ setJoinable(t) \/ uncount(t)
    BY <1>2, <2>10 DEF updateTable, releaseQuitLock, setJoinable, uncount
  <2> QED
    BY <1>4, <2>1, <2>2, <2>3, <2>4, <2>5, <2>6, <2>7, <2>8, <2>9, <2>10 DEF flushThread
<1> QED BY <1>3, <1>4

-----------------------------------------------------------------------------
(* A block is in one place                                                  *)

\* handed counts blocks.
LEMMA HandedType ==
    ASSUME TypeOK, Caller
    PROVE  handed \in Nat /\ current \in Nat /\ handed <= current
BY PipelineAssumption DEF handed, handedOver, HandingPcs, Caller, TypeOK, Blocks

\* What the writer has handed over stays handed over: rollOver and abandonBlock
\* move the current block and leave the count alone.
LEMMA HandedGrows ==
    ASSUME TypeOK, Caller, Writer
    PROVE  /\ handed' >= handed
           /\ pushBlock => handed' = handedOver /\ handedOver = handed + 1
                           /\ handedOver \in Blocks
<1> USE DEF handed, handedOver, HandingPcs
<1>a. current \in Nat
  BY PipelineAssumption DEF TypeOK, Blocks
<1>b. pushBlock => handedOver \in Blocks
  BY PipelineAssumption DEF pushBlock, Caller, TypeOK, Blocks
<1>1. CASE pushBlock
  <2>1. /\ writerPc = "push" /\ UNCHANGED <<caller, current>>
        /\ writerPc' = IF caller = "stop" THEN "setStopping" ELSE "idle"
    BY <1>1 DEF pushBlock, blockVars, afterPush
  <2> QED BY <1>1, <1>a, <1>b, <2>1
<1>2. CASE finishRedoFails \/ giveUpPush
  <2>1. abandonBlock /\ writerPc \in HandingPcs
    BY <1>2 DEF finishRedoFails, giveUpPush
  <2>a. ~pushBlock
    <3>1. CASE finishRedoFails
      BY <3>1 DEF finishRedoFails, pushBlock
    <3>2. CASE giveUpPush
      <4>1. Len(queue) \in Nat /\ QueueCapacity \in Nat
        BY PipelineAssumption DEF TypeOK
      <4>2. Len(queue) = QueueCapacity
        BY <3>2 DEF giveUpPush
      <4> QED BY <4>1, <4>2 DEF pushBlock
    <3> QED BY <1>2, <3>1, <3>2
  <2>2. CASE caller = "stop"
    <3>1. writerPc' = "setStopping" /\ caller' = "stop" /\ current' = current
      BY <2>1, <2>2 DEF abandonBlock, afterPush, blockVars
    <3> QED BY <1>a, <2>a, <2>1, <2>2, <3>1
  <2>3. CASE caller # "stop"
    <3>1. writerPc' = "idle" /\ caller' # "stop" /\ current' = current - 1
      BY <2>1, <2>3 DEF abandonBlock, afterPush
    <3> QED BY <1>a, <2>a, <2>1, <2>3, <3>1
  <2> QED BY <2>2, <2>3
<1>3. CASE \E by \in {"insert", "alloc", "flushLogs"} : rollOver(by)
  BY <1>3, <1>a DEF rollOver, linkNewBlock, Caller, pushBlock
<1>4. CASE appendRecord \/ finishRedo \/ joinSlotDone
  BY <1>4, <1>a DEF appendRecord, finishRedo, joinSlotDone, pushBlock, writerVars, blockVars
<1>5. CASE createNewThread
  <2>1. /\ writerPc = "push" /\ writerPc' \in {"push", "joinSlot"}
        /\ UNCHANGED <<caller, current, queue>>
    BY <1>5 DEF createNewThread, writerVars, blockVars
  <2>2. handed' = handed
    BY <2>1
  <2>3. ~pushBlock
    BY <2>1 DEF pushBlock, afterPush
  <2> QED BY <1>a, <2>2, <2>3
<1>6. CASE stop
  BY <1>6, <1>a DEF stop, Caller, pushBlock
<1>7. CASE setStopping \/ joinAll
  BY <1>7, <1>a DEF setStopping, joinAll, Caller, pushBlock, blockVars
<1> QED
  BY <1>1, <1>2, <1>3, <1>4, <1>5, <1>6, <1>7 DEF Writer

\* A step that gives no thread a block, queues none and flushes none.
LEMMA SamePlaces ==
    ASSUME Base, UNCHANGED <<queue, flushed>>, handed' \in Nat, handed' >= handed,
           \A u \in Slots : pc'[u] \in FlushPcs =>
               held'[u] = 0 \/ (pc[u] \in FlushPcs /\ held'[u] = held[u])
    PROVE  Placed' /\ OnePlace'
<1>a. handed \in Nat /\ queue \in Seq(Blocks) /\ flushed \subseteq Blocks
      /\ held \in [Slots -> Blocks \cup {0}] /\ 0 \notin Blocks
      /\ \A b \in Blocks : b \in Nat
  BY HandedType, PipelineAssumption DEF Base, TypeOK, Blocks
<1>b. \A i \in DOMAIN queue : queue[i] \in Blocks
  BY <1>a
<1>1. Placed'
  <2>1. \A i \in DOMAIN queue : queue[i] <= handed'
    BY <1>a, <1>b DEF Base, Placed
  <2>2. \A u \in Slots : pc'[u] \in FlushPcs => held'[u] <= handed'
    <3> SUFFICES ASSUME NEW u \in Slots, pc'[u] \in FlushPcs, held'[u] # 0
                 PROVE  held'[u] <= handed'
      OBVIOUS
    <3>1. held'[u] = held[u] /\ held[u] <= handed
      BY DEF Base, Placed
    <3>2. held[u] \in Nat
      BY <1>a
    <3> QED BY <1>a, <3>1, <3>2
  <2>3. \A b \in flushed : b <= handed'
    BY <1>a DEF Base, Placed
  <2> QED BY <2>1, <2>2, <2>3 DEF Placed
<1>2. \A u \in Slots : \A b \in Blocks : flushing(u, b)' => flushing(u, b)
  BY <1>a DEF flushing, FlushPcs
<1>3. OnePlace'
  BY <1>2 DEF Base, OnePlace
<1> QED BY <1>1, <1>3

\* The writer puts a block into one place only.
LEMMA WriterPlaces ==
    ASSUME Base, Writer, UNCHANGED <<limit, idles>>
    PROVE  Placed' /\ OnePlace'
<1>a. TypeOK /\ Pool /\ Caller /\ Held /\ Placed /\ OnePlace
  BY DEF Base
<1>b. TypeOK' /\ Caller'
  BY WriterTypes, CallerStep
<1>c. handed \in Nat /\ handed' \in Nat /\ \A b \in Blocks : b \in Nat
  <2>1. handed \in Nat
    BY <1>a, HandedType
  <2>2. handed' \in Nat
    <3>1. \A c \in Blocks : c \in Nat /\ c - 1 \in Nat /\ (c > 1 => (c - 1) - 1 \in Nat)
      BY PipelineAssumption DEF Blocks
    <3>2. current' \in Blocks
      BY <1>b DEF TypeOK
    <3>3. writerPc' \in HandingPcs /\ caller' # "stop" => current' > 1
      BY <1>b, Zenon DEF Caller, HandingPcs
    <3>4. \/ handed' = current'
          \/ handed' = current' - 1
          \/ handed' = (current' - 1) - 1 /\ current' > 1
      BY <3>3, Zenon DEF handed, handedOver, HandingPcs
    <3> QED BY <3>1, <3>2, <3>4, Zenon
  <2> QED BY <2>1, <2>2 DEF Blocks
<1>1. CASE pushBlock
  <2>1. /\ queue' = Append(queue, handedOver)
        /\ UNCHANGED <<flushed, pc, held>>
    BY <1>1 DEF pushBlock, diskVars, threadVars
  <2>2. handed' = handedOver /\ handedOver = handed + 1 /\ handedOver \in Blocks
    BY <1>a, <1>1, HandedGrows
  <2>3. queue \in Seq(Blocks) /\ handedOver \in Nat
    BY <1>a, <1>c, <2>2 DEF TypeOK
  <2>4. /\ DOMAIN queue = 1 .. Len(queue) /\ Len(queue) \in Nat
        /\ DOMAIN queue' = 1 .. Len(queue) + 1
        /\ \A i \in DOMAIN queue : queue'[i] = queue[i] /\ queue[i] \in Nat
        /\ queue'[Len(queue) + 1] = handedOver
    <3>1. \A i \in 1 .. Len(queue) : queue[i] \in Blocks
      BY <2>3
    <3>2. DOMAIN queue = 1 .. Len(queue) /\ Len(queue) \in Nat
      BY <2>3
    <3>3. queue' \in Seq(Blocks) /\ Len(queue') = Len(queue) + 1
      BY <2>1, <2>2, <2>3
    <3>4. DOMAIN queue' = 1 .. Len(queue) + 1
      BY <3>3
    <3>5. \A i \in 1 .. Len(queue) : queue'[i] = queue[i]
      BY <2>1, <2>2, <2>3
    <3>6. queue'[Len(queue) + 1] = handedOver
      BY <2>1, <2>2, <2>3
    <3> QED
      BY <3>1, <3>2, <3>4, <3>5, <3>6, <1>c
  <2>5. \A i \in DOMAIN queue' : i \in DOMAIN queue \/ i = Len(queue) + 1
    BY <2>4
  <2>6. \A i \in DOMAIN queue : queue[i] # handedOver
    BY <1>a, <1>c, <2>2, <2>4 DEF Placed
  <2>7. handedOver \notin flushed
    BY <1>a, <1>c, <2>2 DEF Placed, TypeOK
  <2>8. \A t \in Slots : ~flushing(t, handedOver)
    <3> SUFFICES ASSUME NEW t \in Slots, flushing(t, handedOver) PROVE FALSE
      OBVIOUS
    <3>1. held[t] = handedOver /\ pc[t] \in FlushPcs
      BY DEF flushing, FlushPcs
    <3>2. handedOver <= handed
      BY <1>a, <3>1 DEF Placed
    <3> QED BY <1>c, <2>2, <3>2
  <2>9. Placed'
    <3>1. \A i \in DOMAIN queue' : queue'[i] <= handed'
      BY <1>a, <1>c, <2>2, <2>4, <2>5 DEF Placed
    <3>2. \A t \in Slots : pc'[t] \in FlushPcs => held'[t] <= handed'
      <4> SUFFICES ASSUME NEW t \in Slots, pc[t] \in FlushPcs PROVE held[t] <= handed'
        BY <2>1
      <4>1. held[t] <= handed
        BY <1>a DEF Placed
      <4>2. held[t] \in Nat
        BY <1>a, <1>c DEF TypeOK
      <4> QED BY <1>c, <2>2, <4>1, <4>2
    <3>3. \A b \in flushed' : b <= handed'
      BY <1>a, <1>c, <2>1, <2>2 DEF Placed, TypeOK
    <3> QED BY <3>1, <3>2, <3>3 DEF Placed
  <2>10. OnePlace'
    <3>1. \A i, j \in DOMAIN queue' : queue'[i] = queue'[j] => i = j
      BY <1>a, <2>4, <2>5, <2>6 DEF OnePlace
    <3>2. \A t \in Slots : \A b \in Blocks : flushing(t, b)' = flushing(t, b)
      BY <2>1 DEF flushing
    <3>3. \A b \in Blocks : \A i \in DOMAIN queue' : queue'[i] = b =>
             b \notin flushed /\ \A t \in Slots : ~flushing(t, b)
      BY <1>a, <2>4, <2>5, <2>7, <2>8 DEF OnePlace
    <3> QED
      BY <1>a, <2>1, <3>1, <3>2, <3>3 DEF OnePlace
  <2> QED BY <2>9, <2>10
<1>2. CASE ~pushBlock
  <2>1. handed' >= handed
    BY <1>2, <1>a, HandedGrows
  <2>2. UNCHANGED <<queue, flushed>>
    BY <1>2, Zenon DEF Writer, appendRecord, rollOver, finishRedo, finishRedoFails, giveUpPush,
       abandonBlock, createNewThread, joinSlotDone, stop, setStopping, joinAll, diskVars
  <2>3. \A u \in Slots : pc'[u] \in FlushPcs => pc[u] \in FlushPcs /\ held'[u] = held[u]
    <3>1. ASSUME NEW t \in Slots, startThread(t)
          PROVE  \A u \in Slots : pc'[u] \in FlushPcs => pc[u] \in FlushPcs /\ held'[u] = held[u]
      BY <1>a, <3>1 DEF startThread, FlushPcs, TypeOK
    <3>2. CASE UNCHANGED threadVars
      BY <3>2 DEF threadVars
    <3>3. CASE createNewThread
      <4>1. UNCHANGED threadVars \/ \E t \in Slots : startThread(t)
        BY <3>3, Zenon DEF createNewThread, threadVars
      <4> QED BY <3>1, <3>2, <4>1
    <3>4. CASE joinSlotDone
      BY <1>a, <3>1, <3>4 DEF joinSlotDone, Pool, TypeOK
    <3>5. CASE joinAll
      BY <1>a, <3>5 DEF joinAll, FlushPcs, TypeOK
    <3>6. \/ UNCHANGED threadVars \/ createNewThread \/ joinSlotDone \/ joinAll
      BY <1>2, Zenon DEF Writer, appendRecord, rollOver, finishRedo, finishRedoFails, giveUpPush,
         abandonBlock, stop, setStopping
    <3> QED BY <3>2, <3>3, <3>4, <3>5, <3>6
  <2> QED BY <1>c, <2>1, <2>2, <2>3, SamePlaces
<1> QED BY <1>1, <1>2

\* A thread takes a block from the queue to its hands and from there into a file.
LEMMA ThreadPlaces ==
    ASSUME Base, NEW t \in Slots, flushThread(t), UNCHANGED <<limit, idles>>
    PROVE  Placed' /\ OnePlace'
<1>a. TypeOK /\ Pool /\ Caller /\ Held /\ Placed /\ OnePlace
  BY DEF Base
<1>c. handed \in Nat /\ current \in Nat /\ handed <= current /\ \A b \in Blocks : b \in Nat
  BY <1>a, HandedType DEF Blocks
<1>d. /\ pc \in [Slots -> SlotPcs] /\ held \in [Slots -> Blocks \cup {0}]
      /\ queue \in Seq(Blocks) /\ flushed \subseteq Blocks /\ 0 \notin Blocks
  BY <1>a DEF TypeOK, SlotPcs, ThreadPcs, FlushPcs, Blocks
<1>e. ASSUME UNCHANGED <<current, writerPc, caller>> PROVE handed' = handed
  BY <1>e DEF handed, handedOver, HandingPcs
<1>1. CASE popBlock(t)
  <2>1. /\ queue # <<>> /\ queue' = Tail(queue)
        /\ held' = [held EXCEPT ![t] = Head(queue)]
        /\ pc' = [pc EXCEPT ![t] = "write"]
        /\ pc[t] \notin FlushPcs
        /\ UNCHANGED <<flushed, current, writerPc, caller>>
    BY <1>1 DEF popBlock, goto, diskVars, blockVars, writerVars, FlushPcs
  <2>2. /\ Len(queue) \in Nat /\ Len(queue) >= 1 /\ DOMAIN queue = 1 .. Len(queue)
        /\ Head(queue) = queue[1] /\ Head(queue) \in Blocks
        /\ DOMAIN queue' = 1 .. Len(queue) - 1
    BY <1>d, <2>1
  <2>3. \A i \in DOMAIN queue' : queue'[i] = queue[i + 1] /\ i + 1 \in DOMAIN queue /\ 1 # i + 1
    BY <1>d, <2>1, <2>2
  <2>4. /\ pc'[t] = "write" /\ held'[t] = queue[1]
        /\ \A u \in Slots : u # t => pc'[u] = pc[u] /\ held'[u] = held[u]
    BY <1>d, <2>1, <2>2
  <2>5. 1 \in DOMAIN queue
    BY <2>2
  <2>6. handed' = handed
    BY <1>e, <2>1
  <2>7. Placed'
    BY <1>a, <2>1, <2>3, <2>4, <2>5, <2>6 DEF Placed
  <2>8. \A u \in Slots : \A b \in Blocks :
           flushing(u, b)' <=> (u = t /\ b = queue[1]) \/ (u # t /\ flushing(u, b))
    BY <2>4 DEF flushing
  <2>9. \A u \in Slots : ~flushing(u, queue[1])
    BY <1>a, <2>2, <2>5 DEF OnePlace
  <2>10. queue[1] \notin flushed
    BY <1>a, <2>2, <2>5 DEF OnePlace
  <2>11. \A i, j \in DOMAIN queue' : queue'[i] = queue'[j] => i = j
    <3> SUFFICES ASSUME NEW i \in DOMAIN queue', NEW j \in DOMAIN queue',
                        queue'[i] = queue'[j]
                 PROVE  i = j
      OBVIOUS
    <3>1. i + 1 = j + 1
      BY <1>a, <2>3 DEF OnePlace
    <3> QED BY <2>2, <3>1
  <2>12. \A i \in DOMAIN queue' : queue'[i] # queue[1]
    BY <1>a, <2>3, <2>5 DEF OnePlace
  <2>13. \A u, v \in Slots : \A b \in Blocks : flushing(u, b)' /\ flushing(v, b)' => u = v
    BY <1>a, <2>8, <2>9 DEF OnePlace
  <2>14. \A b \in Blocks : b \in flushed' => \A u \in Slots : ~flushing(u, b)'
    BY <1>a, <2>1, <2>8, <2>10 DEF OnePlace
  <2>15. \A b \in Blocks : \A i \in DOMAIN queue' : queue'[i] = b =>
            b \notin flushed' /\ \A u \in Slots : ~flushing(u, b)'
    BY <1>a, <2>1, <2>3, <2>8, <2>12 DEF OnePlace
  <2>16. OnePlace'
    BY <2>11, <2>13, <2>14, <2>15 DEF OnePlace
  <2> QED BY <2>7, <2>16
<1>2. CASE updateTable(t)
  <2>1. /\ pc[t] = "update" /\ pc' = [pc EXCEPT ![t] = "loop"]
        /\ flushed' = flushed \cup {held[t]}
        /\ UNCHANGED <<held, queue, current, writerPc, caller>>
    BY <1>2 DEF updateTable, goto, writerVars
  <2>2. /\ pc'[t] \notin FlushPcs /\ pc[t] \in FlushPcs
        /\ \A u \in Slots : u # t => pc'[u] = pc[u]
    BY <1>d, <2>1 DEF FlushPcs
  <2>3. held[t] \in Blocks /\ flushing(t, held[t])
    BY <1>a, <1>d, <2>1 DEF Held, flushing
  <2>4. handed' = handed
    BY <1>e, <2>1
  <2>5. Placed'
    BY <1>a, <2>1, <2>2, <2>4 DEF Placed
  <2>6. \A u \in Slots : \A b \in Blocks : flushing(u, b)' <=> u # t /\ flushing(u, b)
    BY <2>1, <2>2 DEF flushing, FlushPcs
  <2>7. \A u \in Slots : flushing(u, held[t]) => u = t
    BY <1>a, <2>3 DEF OnePlace
  <2>8. \A i \in DOMAIN queue : queue[i] # held[t]
    BY <1>a, <2>3 DEF OnePlace
  <2>9. OnePlace'
    BY <1>a, <2>1, <2>6, <2>7, <2>8 DEF OnePlace
  <2> QED BY <2>5, <2>9
<1>3. CASE flushNull(t)
  <2>1. /\ \A u \in Slots : pc'[u] \notin FlushPcs
        /\ UNCHANGED <<queue, flushed, current, caller>> /\ writerPc' = "killed"
    BY <1>3 DEF flushNull, FlushPcs, blockVars, diskVars
  <2>2. handed' \in Nat /\ handed' >= handed
    <3>1. current >= 1
      BY <1>a, PipelineAssumption DEF TypeOK, Blocks
    <3>2. handed' = IF caller = "stop" THEN current ELSE current - 1
      BY <2>1 DEF handed, HandingPcs
    <3>3. handed <= IF caller = "stop" THEN current ELSE current - 1
      BY <1>c DEF handed, handedOver
    <3> QED BY <1>c, <3>1, <3>2, <3>3
  <2> QED BY <2>1, <2>2, SamePlaces
<1>4. ASSUME NEW w, goto(t, w), UNCHANGED <<queue, flushed, current, writerPc, caller, held>>,
             w \in FlushPcs => held[t] = 0 \/ pc[t] \in FlushPcs
      PROVE  Placed' /\ OnePlace'
  <2>1. \A u \in Slots : pc'[u] \in FlushPcs =>
               held'[u] = 0 \/ (pc[u] \in FlushPcs /\ held'[u] = held[u])
    BY <1>4, <1>d DEF goto
  <2>2. handed' = handed
    BY <1>e, <1>4
  <2> QED BY <1>4, <1>c, <2>1, <2>2, SamePlaces
<1>5. CASE flushLoop(t)
  <2>1. \A u \in Slots : pc'[u] \in FlushPcs => pc[u] \in FlushPcs /\ held'[u] = held[u]
    BY <1>5, <1>d DEF flushLoop, goto, FlushPcs
  <2>2. UNCHANGED <<queue, flushed, current, writerPc, caller>>
    BY <1>5 DEF flushLoop, diskVars, blockVars, writerVars
  <2>3. handed' = handed
    BY <1>e, <2>2
  <2> QED BY <1>c, <2>1, <2>2, <2>3, SamePlaces
<1>6. CASE popTimeout(t) \/ idleRound(t) \/ quitIfThreadMoreThan(t) \/ releaseQuitLock(t)
           \/ setJoinable(t) \/ uncount(t) \/ writeFails(t)
  <2>1. /\ \E w \in {"idle", "wrap", "quit", "loop", "last", "ending", "uncount", "dead"} :
              goto(t, w)
        /\ UNCHANGED <<queue, flushed, current, writerPc, caller, held>>
    BY <1>6, Zenon DEF popTimeout, idleRound, quitIfThreadMoreThan, releaseQuitLock, setJoinable,
       uncount, writeFails, diskVars, blockVars, writerVars
  <2> QED
    BY <1>4, <2>1 DEF FlushPcs
<1>7. CASE lastThread(t)
  <2>1. /\ \E w : goto(t, w)
        /\ held[t] = 0
        /\ UNCHANGED <<queue, flushed, current, writerPc, caller, held>>
    BY <1>7, <1>a DEF lastThread, Held, diskVars, blockVars, writerVars
  <2> QED
    BY <1>4, <2>1
<1>8. CASE writeBlock(t) \/ copyLinks(t) \/ relink(t)
  <2>1. /\ \E w : goto(t, w)
        /\ pc[t] \in FlushPcs
        /\ UNCHANGED <<queue, flushed, current, writerPc, caller, held>>
    BY <1>8, Zenon DEF writeBlock, copyLinks, relink, FlushPcs, diskVars, blockVars, writerVars
  <2> QED
    BY <1>4, <2>1
<1> QED
  BY <1>1, <1>2, <1>3, <1>5, <1>6, <1>7, <1>8 DEF flushThread

-----------------------------------------------------------------------------
\* After start() there is one thread, and no block has been handed over.
LEMMA BaseInit == Init => Base
<1> SUFFICES ASSUME Init PROVE Base
  OBVIOUS
<1> USE PipelineAssumption DEF Init
<1>a. 1 \in Blocks /\ 1 \in Slots /\ 0 \notin Slots
  BY DEF Blocks, Slots
<1>1. TypeOK
  <2>1. idles \in BOOLEAN /\ hasRecords \in BOOLEAN /\ failed \in BOOLEAN
    OBVIOUS
  <2>2. next \in [Objects -> Objects] /\ prev \in [Objects -> Objects]
    BY ObjectsApart
  <2>3. queue \in Seq(Blocks)
    OBVIOUS
  <2> QED
    BY <1>a, <2>1, <2>2, <2>3 DEF TypeOK
<1>2. Pool
  <2>1. Threads = {1}
    BY <1>a DEF Threads
  <2>2. Cardinality({1}) = 1
    BY FS_Singleton
  <2>3. CountExact
    BY <2>1, <2>2 DEF CountExact
  <2> QED
    BY <2>3 DEF Pool
<1>3. Caller /\ Held
  BY DEF Caller, Held, HandingPcs
<1>4. Placed /\ OnePlace
  BY DEF Placed, OnePlace, flushing, FlushPcs
<1> QED
  BY <1>1, <1>2, <1>3, <1>4 DEF Base

\* Every step of the writer and of the threads keeps what all others rest on.
LEMMA BaseStep == Base /\ [Next]_<<vars, limit, idles>> => Base'
<1> SUFFICES ASSUME Base, [Next]_<<vars, limit, idles>> PROVE Base'
  OBVIOUS
<1>1. CASE Writer /\ UNCHANGED <<limit, idles>>
  BY <1>1, WriterTypes, WriterPool, CallerStep, HeldStep, WriterPlaces DEF Base
<1>2. ASSUME NEW t \in Slots, flushThread(t), UNCHANGED <<limit, idles>>
      PROVE  Base'
  BY <1>2, ThreadTypes, ThreadPool, CallerStep, HeldStep, ThreadPlaces DEF Base
<1>3. CASE UNCHANGED <<vars, limit, idles>>
  BY <1>3 DEF vars, blockVars, diskVars, writerVars, poolVars, threadVars, Base, TypeOK, Pool,
     CountExact, Threads, Caller, Held, Placed, handed, handedOver, OnePlace, flushing
<1> QED
  BY <1>1, <1>2, <1>3 DEF Next, ended

-----------------------------------------------------------------------------
(* While nothing fails                                                      *)

\* Which steps of the writer are left when no operation fails, and what they do
\* to the threads: none that works on a block is touched.
calmWriter ==
    \/ appendRecord \/ finishRedo \/ createNewThread \/ joinSlotDone
    \/ setStopping \/ joinAll

\* A writer's step without failure changes neither what the threads hold nor, but by push,
\* the queue.
LEMMA WriterCalm ==
    ASSUME Base, Writer, ~failed'
    PROVE  /\ ~failed
           /\ \/ calmWriter \/ pushBlock \/ stop
              \/ \E by \in {"insert", "alloc", "flushLogs"} : rollOver(by)
           /\ \A u \in Slots : pc[u] \in FlushPcs => pc'[u] = pc[u] /\ held'[u] = held[u]
           /\ \A u \in Slots : pc'[u] \in FlushPcs => pc'[u] = pc[u] /\ held'[u] = held[u]
           /\ ~pushBlock => queue' = queue
           /\ UNCHANGED <<flushed, onDisk, flushLock>>
<1>a. TypeOK /\ Pool
  BY DEF Base
<1>b. pc \in [Slots -> SlotPcs] /\ held \in [Slots -> Blocks \cup {0}]
  BY <1>a DEF TypeOK, SlotPcs, ThreadPcs, FlushPcs
<1>1. ~finishRedoFails /\ ~giveUpPush
  BY Zenon DEF finishRedoFails, giveUpPush, abandonBlock
<1>2. ~failed
  BY <1>1, Zenon DEF Writer, appendRecord, rollOver, finishRedo, pushBlock, createNewThread,
     joinSlotDone, stop, setStopping, joinAll
<1>3. \/ calmWriter \/ pushBlock \/ stop
      \/ \E by \in {"insert", "alloc", "flushLogs"} : rollOver(by)
  BY <1>1, Zenon DEF Writer, calmWriter
<1>4. UNCHANGED <<flushed, onDisk, flushLock>> /\ (~pushBlock => queue' = queue)
  BY <1>1, Zenon DEF Writer, appendRecord, rollOver, finishRedo, pushBlock, createNewThread,
     joinSlotDone, stop, setStopping, joinAll, diskVars
<1> DEFINE SameWork ==
        /\ \A u \in Slots : pc[u] \in FlushPcs => pc'[u] = pc[u] /\ held'[u] = held[u]
        /\ \A u \in Slots : pc'[u] \in FlushPcs => pc'[u] = pc[u] /\ held'[u] = held[u]
<1>5. ASSUME NEW t \in Slots, startThread(t), pc[t] \in {"none", "dead"}
      PROVE  SameWork
  <2>1. /\ pc'[t] = "loop"
        /\ \A u \in Slots : u # t => pc'[u] = pc[u] /\ held'[u] = held[u]
    BY <1>5, <1>b DEF startThread
  <2> QED BY <1>5, <2>1 DEF FlushPcs
<1>6. SameWork
  <2>1. CASE UNCHANGED threadVars
    BY <2>1 DEF threadVars
  <2>2. CASE createNewThread
    <3>1. \/ UNCHANGED threadVars
          \/ \E t \in Slots : startThread(t) /\ slotStatus[t] = "IDLE"
      BY <2>2, Zenon DEF createNewThread, threadVars
    <3> QED BY <1>5, <1>a, <2>1, <3>1 DEF Pool
  <2>3. CASE joinSlotDone
    BY <1>5, <1>a, <2>3 DEF joinSlotDone, Pool, TypeOK
  <2>4. CASE joinAll
    <3>1. joining \in Slots /\ pc[joining] \in {"none", "dead"}
      BY <1>a, <2>4 DEF joinAll, Pool, TypeOK
    <3>2. /\ pc'[joining] = "none" /\ held' = held
          /\ \A u \in Slots : u # joining => pc'[u] = pc[u]
      BY <1>b, <2>4, <3>1 DEF joinAll
    <3> QED BY <3>1, <3>2 DEF FlushPcs
  <2>5. UNCHANGED threadVars \/ createNewThread \/ joinSlotDone \/ joinAll
    BY <1>3, Zenon DEF calmWriter, appendRecord, finishRedo, setStopping, pushBlock, stop, rollOver
  <2> QED BY <2>1, <2>2, <2>3, <2>4, <2>5
<1> QED BY <1>2, <1>3, <1>4, <1>6

\* The same for a thread: its own slot alone changes.
LEMMA ThreadCalm ==
    ASSUME Base, NEW t \in Slots, flushThread(t), ~failed'
    PROVE  /\ ~failed
           /\ pc[t] \in ThreadPcs /\ \E w \in SlotPcs \ {"none"} : pc'[t] = w
           /\ \A u \in Slots : u # t => pc'[u] = pc[u] /\ held'[u] = held[u]
           /\ UNCHANGED <<status, current, hasRecords, finished, writerVars>>
           /\ \/ quietStep(t) /\ ~writeFails(t)
              \/ setJoinable(t) \/ uncount(t)
<1>a. pc \in [Slots -> SlotPcs] /\ held \in [Slots -> Blocks \cup {0}]
  BY DEF Base, TypeOK, SlotPcs, ThreadPcs, FlushPcs
<1>1. ~flushNull(t) /\ ~writeFails(t)
  BY Zenon DEF flushNull, writeFails
<1>2. (quietStep(t) /\ ~writeFails(t)) \/ setJoinable(t) \/ uncount(t)
  BY <1>1, Zenon DEF flushThread, quietStep
<1>3. UNCHANGED <<failed, status>>
  <2>1. CASE flushLoop(t) \/ popBlock(t) \/ popTimeout(t) \/ idleRound(t)
             \/ quitIfThreadMoreThan(t) \/ lastThread(t) \/ releaseQuitLock(t)
    BY <2>1, Zenon DEF flushLoop, popBlock, popTimeout, idleRound, quitIfThreadMoreThan,
       lastThread, releaseQuitLock
  <2>2. CASE writeBlock(t) \/ copyLinks(t) \/ relink(t) \/ updateTable(t)
             \/ setJoinable(t) \/ uncount(t)
    BY <2>2, Zenon DEF writeBlock, copyLinks, relink, updateTable, setJoinable, uncount
  <2> QED BY <1>1, <2>1, <2>2 DEF flushThread
<1>4. held' = held \/ \E h : held' = [held EXCEPT ![t] = h]
  BY <1>1, Zenon DEF flushThread, flushLoop, popBlock, popTimeout, idleRound,
     quitIfThreadMoreThan, lastThread, writeBlock, copyLinks, relink, updateTable,
     releaseQuitLock, setJoinable, uncount
<1>5. CASE quietStep(t)
  <2>1. PICK w \in ThreadPcs : goto(t, w)
    BY <1>5, QuietMove
  <2>2. pc'[t] = w /\ (\A u \in Slots : u # t => pc'[u] = pc[u]) /\ w \in SlotPcs \ {"none"}
    BY <1>a, <2>1 DEF goto, SlotPcs, ThreadPcs, FlushPcs
  <2>3. pc[t] \in ThreadPcs /\ UNCHANGED <<current, hasRecords, finished, writerVars>>
    BY <1>5, QuietMove
  <2> QED BY <1>a, <1>2, <1>3, <1>4, <2>2, <2>3
<1>6. CASE setJoinable(t) \/ uncount(t)
  <2>1. /\ pc[t] \in {"ending", "uncount"}
        /\ \E w \in {"uncount", "dead"} : pc' = [pc EXCEPT ![t] = w]
        /\ UNCHANGED <<current, hasRecords, finished, writerVars>>
    BY <1>6, Zenon DEF setJoinable, uncount, goto, blockVars
  <2>2. PICK w \in {"uncount", "dead"} : pc' = [pc EXCEPT ![t] = w]
    BY <2>1
  <2>3. pc'[t] = w /\ (\A u \in Slots : u # t => pc'[u] = pc[u]) /\ w \in SlotPcs \ {"none"}
    BY <1>a, <2>2 DEF SlotPcs, ThreadPcs, FlushPcs
  <2>4. pc[t] \in ThreadPcs
    BY <2>1 DEF ThreadPcs
  <2> QED BY <1>a, <1>2, <1>3, <1>4, <2>1, <2>3, <2>4
<1> QED BY <1>2, <1>5, <1>6

\* The writer's step keeps the flags of the blocks as the smooth course has them.
LEMMA WriterFlags ==
    ASSUME Base, Base', Smooth, Writer, ~failed'
    PROVE  Flags'
<1>a. TypeOK /\ Caller /\ Placed /\ Flags
  BY DEF Base, Smooth
<1>b. /\ current \in Nat /\ current \in Blocks /\ handed \in Nat /\ handed <= current
      /\ \A b \in Blocks : b \in Nat
      /\ table \in [Blocks -> {"none", "app", "sol", "freed"}] /\ finished \subseteq Blocks
      /\ flushed \subseteq Blocks
  BY <1>a, HandedType DEF TypeOK, Blocks
<1>c. /\ \A u \in Slots : pc'[u] \in FlushPcs => pc'[u] = pc[u] /\ held'[u] = held[u]
      /\ UNCHANGED <<flushed, onDisk>>
  BY WriterCalm
<1>1. /\ flushed' \subseteq onDisk'
      /\ \A u \in Slots : pc'[u] \in {"copyLinks", "relink", "update"} => held'[u] \in onDisk'
  BY <1>a, <1>c DEF Flags, FlushPcs
<1>2. CASE calmWriter \/ pushBlock
  <2>1. UNCHANGED <<finished, current, caller, table>>
    BY <1>2, Zenon DEF calmWriter, appendRecord, finishRedo, createNewThread, joinSlotDone,
       setStopping, joinAll, pushBlock, blockVars, writerVars
  <2> QED
    BY <1>a, <1>c, <1>1, <2>1 DEF Flags
<1>3. CASE stop
  <2>1. /\ finished' \in {finished, finished \cup {current}}
        /\ caller' = "stop" /\ UNCHANGED <<current, table>>
    BY <1>3 DEF stop
  <2> QED
    BY <1>a, <1>b, <1>c, <1>1, <2>1 DEF Flags
<1>4. ASSUME NEW by \in {"insert", "alloc", "flushLogs"}, rollOver(by) PROVE Flags'
  <2>1. /\ current < MaxBlocks /\ current' = current + 1
        /\ finished' = finished \cup {current}
        /\ table' = [table EXCEPT ![current + 1] = IF @ = "none" THEN "app" ELSE @]
    BY <1>4 DEF rollOver, linkNewBlock
  <2>2. current + 1 \in Blocks /\ current + 1 \notin flushed
    BY <1>a, <1>b, <2>1, PipelineAssumption DEF Placed, Blocks
  <2>3. /\ \A b \in finished' : b <= current'
        /\ current' \notin finished'
    BY <1>a, <1>b, <2>1 DEF Flags
  <2>4. table[current + 1] = "none" /\ table'[current + 1] = "app"
    BY <1>a, <1>b, <2>1, <2>2 DEF Flags
  <2>5. \A b \in Blocks : b # current + 1 => table'[b] = table[b]
    BY <1>b, <2>1
  <2>6. \A b \in Blocks : table'[b] = IF b > current' THEN "none"
                                      ELSE IF b \in flushed' THEN "sol" ELSE "app"
    BY <1>a, <1>b, <1>c, <2>1, <2>2, <2>4, <2>5 DEF Flags
  <2> QED
    BY <1>1, <2>3, <2>6 DEF Flags
<1> QED BY <1>2, <1>3, <1>4, WriterCalm

\* A thread's step keeps the flags of the blocks as the smooth course has them.
LEMMA ThreadFlags ==
    ASSUME Base, Base', Smooth, NEW t \in Slots, flushThread(t), ~failed'
    PROVE  Flags'
<1>a. TypeOK /\ Caller /\ Placed /\ Flags /\ Held
  BY DEF Base, Smooth
<1>b. /\ current \in Nat /\ handed \in Nat /\ handed <= current
      /\ \A b \in Blocks : b \in Nat
      /\ table \in [Blocks -> {"none", "app", "sol", "freed"}]
      /\ flushed \subseteq Blocks /\ pc \in [Slots -> SlotPcs]
      /\ held \in [Slots -> Blocks \cup {0}]
  BY <1>a, HandedType DEF TypeOK, Blocks, SlotPcs, ThreadPcs, FlushPcs
<1>c. /\ \A u \in Slots : u # t => pc'[u] = pc[u] /\ held'[u] = held[u]
      /\ UNCHANGED <<current, finished, caller>>
  BY ThreadCalm DEF writerVars
<1>1. ASSUME UNCHANGED <<flushed, table>>, onDisk \subseteq onDisk',
             pc'[t] \in {"copyLinks", "relink", "update"} => held'[t] \in onDisk'
      PROVE  Flags'
  <2>1. \A u \in Slots : pc'[u] \in {"copyLinks", "relink", "update"} => held'[u] \in onDisk'
    BY <1>a, <1>c, <1>1 DEF Flags
  <2> QED
    BY <1>a, <1>c, <1>1, <2>1 DEF Flags
<1>2. CASE updateTable(t)
  <2>1. /\ pc[t] = "update" /\ pc' = [pc EXCEPT ![t] = "loop"]
        /\ table' = [table EXCEPT ![held[t]] = "sol"]
        /\ flushed' = flushed \cup {held[t]} /\ onDisk' = onDisk
    BY <1>2 DEF updateTable, goto
  <2>2. held[t] \in Blocks /\ held[t] <= current /\ held[t] \in onDisk
    <3>1. held[t] \in Blocks /\ held[t] <= handed /\ held[t] \in onDisk
      BY <1>a, <1>b, <2>1 DEF Held, Flags, Placed, FlushPcs
    <3> QED BY <1>b, <3>1
  <2>3. pc'[t] = "loop"
    BY <1>b, <2>1
  <2>4. \A u \in Slots : pc'[u] \in {"copyLinks", "relink", "update"} => held'[u] \in onDisk'
    BY <1>a, <1>c, <2>1, <2>3 DEF Flags
  <2>5. table'[held[t]] = "sol" /\ \A b \in Blocks : b # held[t] => table'[b] = table[b]
    BY <1>b, <2>1, <2>2
  <2>6. \A b \in Blocks : table'[b] = IF b > current' THEN "none"
                                      ELSE IF b \in flushed' THEN "sol" ELSE "app"
    BY <1>a, <1>b, <1>c, <2>1, <2>2, <2>5 DEF Flags
  <2>7. flushed' \subseteq onDisk'
    BY <1>a, <2>1, <2>2 DEF Flags
  <2> QED
    BY <1>a, <1>c, <2>4, <2>6, <2>7 DEF Flags
<1>3. CASE writeBlock(t)
  <2>1. onDisk' = onDisk \cup {held[t]} /\ held' = held /\ UNCHANGED <<flushed, table>>
    BY <1>3 DEF writeBlock, blockVars
  <2> QED BY <1>1, <2>1
<1>4. CASE copyLinks(t) \/ relink(t)
  <2>1. pc[t] \in {"copyLinks", "relink"} /\ UNCHANGED <<held, flushed, table, onDisk>>
    BY <1>4, Zenon DEF copyLinks, relink, diskVars
  <2> QED BY <1>1, <1>a, <2>1 DEF Flags
<1>5. CASE flushLoop(t) \/ popBlock(t) \/ popTimeout(t) \/ idleRound(t)
           \/ quitIfThreadMoreThan(t) \/ lastThread(t) \/ releaseQuitLock(t)
           \/ setJoinable(t) \/ uncount(t)
  <2>1. /\ UNCHANGED <<flushed, table, onDisk>>
        /\ \E w \in {"loop", "pop", "wrap", "write", "idle", "quit", "last", "popLast", "ending",
                     "uncount", "dead"} : goto(t, w)
    BY <1>5, Zenon DEF flushLoop, popBlock, popTimeout, idleRound, quitIfThreadMoreThan,
       lastThread, releaseQuitLock, setJoinable, uncount, diskVars, blockVars
  <2>2. pc'[t] \notin {"copyLinks", "relink", "update"}
    BY <1>b, <2>1 DEF goto
  <2> QED BY <1>1, <2>1, <2>2
<1> QED
  BY <1>2, <1>3, <1>4, <1>5, ThreadCalm DEF quietStep


\* A block that was handed over stays on its way: pushBlock, popBlock and
\* updateTable each put it in its next place before it is out of the last.
LEMMA WriterLosesNone ==
    ASSUME Base, Base', Smooth, Writer, ~failed'
    PROVE  NoneLost'
<1>a. TypeOK /\ Caller /\ Flags /\ NoneLost /\ ~failed
  BY WriterCalm DEF Base, Smooth
<1>b. /\ current \in Nat /\ current \in Blocks /\ queue \in Seq(Blocks)
      /\ \A b \in Blocks : b \in Nat
      /\ table \in [Blocks -> {"none", "app", "sol", "freed"}]
  BY <1>a, HandedType DEF TypeOK, Blocks
<1>c. /\ \A u \in Slots : pc[u] \in FlushPcs => pc'[u] = pc[u] /\ held'[u] = held[u]
      /\ UNCHANGED <<flushed, onDisk>>
  BY WriterCalm
<1>1. \A u \in Slots : \A b \in Blocks : flushing(u, b) => flushing(u, b)'
  BY <1>c DEF flushing, FlushPcs
<1>2. ASSUME NEW b \in Blocks, handedToFlush(b), table[b] = "sol" => table'[b] = "sol",
             queue' = queue
      PROVE  \/ b \in flushed' /\ b \in onDisk' /\ table'[b] = "sol"
             \/ \E i \in DOMAIN queue' : queue'[i] = b
             \/ \E t \in Slots : flushing(t, b)'
  BY <1>a, <1>c, <1>1, <1>2 DEF NoneLost
<1>3. CASE calmWriter
  <2>1. UNCHANGED <<finished, current, caller, table, queue>>
    BY <1>3, Zenon DEF calmWriter, appendRecord, finishRedo, createNewThread, joinSlotDone,
       setStopping, joinAll, blockVars, writerVars
  <2>2. /\ writerPc \in HandingPcs <=> writerPc' \in HandingPcs
        /\ writerPc \in {"setStopping", "joinAll", "stopped"} <=>
           writerPc' \in {"setStopping", "joinAll", "stopped"}
    BY <1>3 DEF calmWriter, appendRecord, finishRedo, createNewThread, joinSlotDone,
       setStopping, joinAll, writerVars, HandingPcs
  <2>3. \A b \in Blocks : handedToFlush(b)' => handedToFlush(b)
    BY <2>1, <2>2 DEF handedToFlush, handedOver, HandingPcs
  <2> QED
    BY <1>2, <2>1, <2>3 DEF NoneLost
<1>4. CASE stop
  <2>1. /\ writerPc = "idle" /\ caller' = "stop" /\ UNCHANGED <<current, table, queue>>
        /\ writerPc' = "setStopping" => finished' = finished
        /\ writerPc' \in {"setStopping", "finishRedo"}
    BY <1>4 DEF stop
  <2>2. current \notin finished
    BY <1>a, <2>1 DEF Flags, Caller
  <2>3. \A b \in Blocks : handedToFlush(b)' => handedToFlush(b)
    BY <2>1, <2>2 DEF handedToFlush
  <2> QED
    BY <1>2, <2>1, <2>3 DEF NoneLost
<1>5. ASSUME NEW by \in {"insert", "alloc", "flushLogs"}, rollOver(by) PROVE NoneLost'
  <2>1. /\ writerPc = "idle" /\ writerPc' = "finishRedo" /\ caller' # "stop"
        /\ current' = current + 1 /\ queue' = queue /\ current < MaxBlocks
        /\ table' = [table EXCEPT ![current + 1] = IF @ = "none" THEN "app" ELSE @]
    BY <1>5 DEF rollOver, linkNewBlock
  <2>2. handedOver' = current
    BY <1>b, <2>1 DEF handedOver
  <2>3. \A b \in Blocks : handedToFlush(b)' => handedToFlush(b)
    BY <1>b, <2>1, <2>2 DEF handedToFlush
  <2>4. \A b \in Blocks : table[b] = "sol" => table'[b] = "sol"
    BY <1>b, <2>1
  <2> QED
    BY <1>2, <2>1, <2>3, <2>4 DEF NoneLost
<1>6. CASE pushBlock
  <2>1. /\ writerPc = "push" /\ queue' = Append(queue, handedOver)
        /\ UNCHANGED <<table, current, caller, finished>>
        /\ writerPc' = IF caller = "stop" THEN "setStopping" ELSE "idle"
    BY <1>6 DEF pushBlock, blockVars, afterPush
  <2>2. handedOver \in Blocks
    BY <1>a, <1>6, HandedGrows
  <2>3. \A b \in Blocks : handedToFlush(b)' => handedToFlush(b) \/ b = handedOver
    BY <2>1 DEF handedToFlush, handedOver
  <2>4. /\ Len(queue) + 1 \in DOMAIN queue' /\ queue'[Len(queue) + 1] = handedOver
        /\ \A i \in DOMAIN queue : i \in DOMAIN queue' /\ queue'[i] = queue[i]
    BY <1>b, <2>1, <2>2
  <2>5. ASSUME NEW b \in Blocks, handedToFlush(b)'
        PROVE  \/ b \in flushed' /\ b \in onDisk' /\ table'[b] = "sol"
               \/ \E i \in DOMAIN queue' : queue'[i] = b
               \/ \E t \in Slots : flushing(t, b)'
    <3>1. CASE b = handedOver
      BY <2>4, <3>1
    <3>2. CASE handedToFlush(b)
      BY <1>a, <1>c, <1>1, <2>1, <2>4, <3>2 DEF NoneLost
    <3> QED BY <2>3, <2>5, <3>1, <3>2
  <2> QED BY <2>5 DEF NoneLost
<1> QED BY <1>3, <1>4, <1>5, <1>6, WriterCalm

\* While nothing fails, a thread loses no block.
LEMMA ThreadLosesNone ==
    ASSUME Base, Base', Smooth, NEW t \in Slots, flushThread(t), ~failed'
    PROVE  NoneLost'
<1>a. TypeOK /\ Held /\ Flags /\ NoneLost /\ ~failed
  BY ThreadCalm DEF Base, Smooth
<1>b. /\ queue \in Seq(Blocks) /\ pc \in [Slots -> SlotPcs]
      /\ held \in [Slots -> Blocks \cup {0}]
      /\ table \in [Blocks -> {"none", "app", "sol", "freed"}]
  BY <1>a DEF TypeOK, SlotPcs, ThreadPcs, FlushPcs
<1>c. /\ \A u \in Slots : u # t => pc'[u] = pc[u] /\ held'[u] = held[u]
      /\ UNCHANGED <<current, finished, caller, writerPc>>
  BY ThreadCalm DEF writerVars
<1>d. \A b \in Blocks : handedToFlush(b)' = handedToFlush(b)
  BY <1>c DEF handedToFlush, handedOver
<1>e. \A u \in Slots : \A b \in Blocks : u # t /\ flushing(u, b) => flushing(u, b)'
  BY <1>c DEF flushing
<1>1. CASE popBlock(t)
  <2>1. /\ queue # <<>> /\ queue' = Tail(queue)
        /\ held' = [held EXCEPT ![t] = Head(queue)]
        /\ pc' = [pc EXCEPT ![t] = "write"]
        /\ pc[t] \notin FlushPcs
        /\ UNCHANGED <<flushed, onDisk, table>>
    BY <1>1 DEF popBlock, goto, diskVars, blockVars, FlushPcs
  <2>2. /\ Len(queue) \in Nat /\ DOMAIN queue = 1 .. Len(queue)
        /\ Head(queue) = queue[1]
        /\ DOMAIN queue' = 1 .. Len(queue) - 1
    BY <1>b, <2>1
  <2>3. \A i \in DOMAIN queue : i = 1 \/ (i - 1 \in DOMAIN queue' /\ queue'[i - 1] = queue[i])
    BY <1>b, <2>1, <2>2
  <2>4. \A b \in Blocks : b = queue[1] => flushing(t, b)'
    BY <1>b, <2>1, <2>2 DEF flushing
  <2>5. \A u \in Slots : \A b \in Blocks : flushing(u, b) => flushing(u, b)'
    BY <1>e, <2>1 DEF flushing, FlushPcs
  <2> QED
    BY <1>a, <1>d, <2>1, <2>3, <2>4, <2>5 DEF NoneLost
<1>2. CASE updateTable(t)
  <2>1. /\ pc[t] = "update" /\ table' = [table EXCEPT ![held[t]] = "sol"]
        /\ flushed' = flushed \cup {held[t]} /\ UNCHANGED <<onDisk, queue>>
    BY <1>2 DEF updateTable
  <2>2. held[t] \in Blocks /\ held[t] \in onDisk
    BY <1>a, <1>b, <2>1 DEF Held, Flags
  <2>3. table'[held[t]] = "sol" /\ \A b \in Blocks : b # held[t] => table'[b] = table[b]
    BY <1>b, <2>1, <2>2
  <2>4. \A b \in Blocks : flushing(t, b) => b = held[t]
    BY DEF flushing
  <2> QED
    BY <1>a, <1>d, <1>e, <2>1, <2>2, <2>3, <2>4 DEF NoneLost
<1>3. ASSUME UNCHANGED <<flushed, table, queue>>, onDisk \subseteq onDisk',
             pc[t] \in FlushPcs => pc'[t] \in FlushPcs /\ held'[t] = held[t]
      PROVE  NoneLost'
  <2>1. \A u \in Slots : \A b \in Blocks : flushing(u, b) => flushing(u, b)'
    BY <1>e, <1>3 DEF flushing, FlushPcs
  <2> QED
    BY <1>a, <1>d, <1>3, <2>1 DEF NoneLost
<1>4. CASE writeBlock(t) \/ copyLinks(t) \/ relink(t)
  <2>1. /\ \E w \in FlushPcs : goto(t, w)
        /\ UNCHANGED <<flushed, table, queue, held>> /\ onDisk \subseteq onDisk'
    BY <1>4, Zenon DEF writeBlock, copyLinks, relink, FlushPcs, diskVars, blockVars
  <2>2. pc'[t] \in FlushPcs
    BY <1>b, <2>1 DEF goto
  <2> QED BY <1>3, <2>1, <2>2
<1>5. CASE flushLoop(t) \/ popTimeout(t) \/ idleRound(t) \/ quitIfThreadMoreThan(t)
           \/ lastThread(t) \/ releaseQuitLock(t) \/ setJoinable(t) \/ uncount(t)
  <2>1. /\ UNCHANGED <<flushed, table, onDisk, queue>>
        /\ pc[t] \in {"loop", "pop", "popLast", "idle", "quit", "last", "wrap", "ending", "uncount"}
    BY <1>5, Zenon DEF flushLoop, popTimeout, idleRound, quitIfThreadMoreThan,
       lastThread, releaseQuitLock, setJoinable, uncount, diskVars, blockVars
  <2>2. pc[t] \notin FlushPcs
    BY <2>1 DEF FlushPcs
  <2> QED BY <1>3, <2>1, <2>2
<1> QED
  BY <1>1, <1>2, <1>4, <1>5, ThreadCalm DEF quietStep

-----------------------------------------------------------------------------
(* The links between blocks                                                 *)

\* The objects that stand for blocks are the objects of these blocks.
LEMMA RepObjects ==
    /\ \A b \in Blocks : rep(b) \in Objects /\ rep(b) # Nil
    /\ \A b, c \in Blocks :
          /\ rep(b) = rep(c) => b = c
          /\ rep(b) = sol(c) => b = c /\ relinked(b)
          /\ rep(b) = app(c) => b = c /\ ~relinked(b)
BY ObjectsApart DEF rep

\* A step that redirects no link.
LEMMA SameChain ==
    ASSUME TypeOK, Linked, Copied, UNCHANGED <<next, prev, current, flushLock>>,
           \A b \in Blocks : relinked(b)' = relinked(b),
           \A u \in Slots : pc'[u] = "relink" => pc[u] = "relink" /\ held'[u] = held[u]
    PROVE  Linked' /\ Copied'
<1>1. \A b \in Blocks : rep(b)' = rep(b)
  BY DEF rep
<1>2. 1 \in Blocks /\ current \in Blocks
      /\ \A b \in 1 .. current - 1 : b \in Blocks /\ b + 1 \in Blocks
  BY PipelineAssumption DEF TypeOK, Blocks
<1>3. Linked'
  BY <1>1, <1>2 DEF Linked
<1>4. Copied'
  BY DEF Copied
<1> QED BY <1>3, <1>4

\* createNewBlock extends the links by one block.
LEMMA WriterChain ==
    ASSUME Base, Base', Smooth, Writer, ~failed'
    PROVE  Linked' /\ Copied'
<1>a. TypeOK /\ Caller /\ Placed /\ Held /\ Flags /\ Linked /\ Copied /\ ~failed
  BY WriterCalm DEF Base, Smooth
<1>b. /\ current \in Nat /\ current \in Blocks /\ handed \in Nat /\ handed <= current
      /\ \A b \in Blocks : b \in Nat
      /\ next \in [Objects -> Objects] /\ prev \in [Objects -> Objects]
      /\ held \in [Slots -> Blocks \cup {0}]
  BY <1>a, HandedType DEF TypeOK, Blocks
<1>c. /\ \A u \in Slots : pc[u] \in FlushPcs => pc'[u] = pc[u] /\ held'[u] = held[u]
      /\ \A u \in Slots : pc'[u] \in FlushPcs => pc'[u] = pc[u] /\ held'[u] = held[u]
      /\ UNCHANGED <<flushed, flushLock>>
  BY WriterCalm
<1>d. \A b \in Blocks : relinked(b)' = relinked(b)
  BY <1>c DEF relinked, FlushPcs
<1>e. \A u \in Slots : pc'[u] = "relink" => pc[u] = "relink" /\ held'[u] = held[u]
  BY <1>c DEF FlushPcs
<1>1. CASE calmWriter \/ pushBlock \/ stop
  <2>1. UNCHANGED <<next, prev, current>>
    BY <1>1, Zenon DEF calmWriter, appendRecord, finishRedo, createNewThread, joinSlotDone,
       setStopping, joinAll, pushBlock, stop, blockVars
  <2> QED BY <1>a, <1>c, <1>d, <1>e, <2>1, SameChain
<1>2. ASSUME NEW by \in {"insert", "alloc", "flushLogs"}, rollOver(by)
      PROVE  Linked' /\ Copied'
  <2>1. /\ writerPc = "idle" /\ current < MaxBlocks /\ current' = current + 1
        /\ next' = [next EXCEPT ![app(current)] = app(current + 1), ![app(current + 1)] = Nil]
        /\ prev' = [prev EXCEPT ![app(current + 1)] = app(current)]
    BY <1>2 DEF rollOver, linkNewBlock
  <2>2. PICK nb \in Blocks : nb = current + 1
    BY <1>b, <2>1, PipelineAssumption DEF Blocks
  <2>3. nb # current /\ nb >= current /\ current >= current
    BY <1>b, <2>2
  <2>a. handed = current - 1
    BY <1>a, <2>1 DEF handed, HandingPcs, Caller
  <2>4. \A b \in Blocks : b >= current => b \notin flushed /\ \A u \in Slots :
                              pc[u] \in FlushPcs => held[u] # b
    BY <1>a, <1>b, <2>a DEF Placed
  <2>5. ~relinked(current) /\ ~relinked(nb)
    BY <1>b, <2>3, <2>4 DEF relinked, FlushPcs
  <2>6. /\ app(current) \in Objects /\ app(nb) \in Objects /\ app(nb) # app(current)
    BY <1>b, <2>3, ObjectsApart
  <2>7. /\ next'[app(current)] = app(nb) /\ next'[app(nb)] = Nil /\ prev'[app(nb)] = app(current)
        /\ \A o \in Objects : o # app(current) /\ o # app(nb) => next'[o] = next[o]
        /\ \A o \in Objects : o # app(nb) => prev'[o] = prev[o]
    BY <1>b, <2>1, <2>2, <2>6
  <2>8. \A b \in Blocks : rep(b)' = rep(b)
    BY <1>d DEF rep
  <2>9. rep(current) = app(current) /\ rep(nb) = app(nb)
    BY <2>5 DEF rep
  <2>10. \A b \in Blocks : rep(b) \in Objects /\ (b # current => rep(b) # app(current))
                                              /\ (b # nb => rep(b) # app(nb))
    BY <1>b, RepObjects
  <2>11. Linked'
    <3>1. \A b \in 1 .. current : b \in Blocks /\ b + 1 \in Blocks
      BY <1>b, <2>1, PipelineAssumption DEF Blocks
    <3>2. ASSUME NEW b \in 1 .. current
          PROVE  next'[rep(b)] = rep(b + 1) /\ prev'[rep(b + 1)] = rep(b)
      <4>1. CASE b = current
        BY <2>2, <2>7, <2>9, <4>1
      <4>2. CASE b # current
        <5>1. b \in 1 .. current - 1 /\ b # nb /\ b + 1 # nb
          BY <1>b, <2>2, <4>2
        <5>2. next'[rep(b)] = next[rep(b)] /\ prev'[rep(b + 1)] = prev[rep(b + 1)]
          BY <2>7, <2>10, <3>1, <4>2, <5>1
        <5> QED BY <1>a, <5>1, <5>2 DEF Linked
      <4> QED BY <4>1, <4>2
    <3>3. 1 .. current' - 1 = 1 .. current
      BY <1>b, <2>1
    <3>4. \A b \in 1 .. current' - 1 : (next[rep(b)] = rep(b + 1) /\ prev[rep(b + 1)] = rep(b))'
      BY <2>8, <3>1, <3>2, <3>3
    <3>5. 1 \in Blocks /\ 1 # nb
      BY <1>b, <2>2, PipelineAssumption DEF Blocks
    <3>6. prev'[rep(1)] = Nil
      BY <1>a, <2>7, <2>10, <3>5 DEF Linked
    <3>7. (prev[rep(1)] = Nil)'
      BY <2>8, <3>5, <3>6
    <3>8. ~relinked(nb)'
      BY <1>d, <2>5
    <3>9. ~relinked(current)'
      BY <2>1, <2>2, <3>8 DEF relinked
    <3>10. rep(current)' = app(nb)
      BY <2>1, <2>2, <3>9 DEF rep
    <3>11. (next[rep(current)] = Nil)'
      BY <2>7, <3>10
    <3> QED BY <3>4, <3>7, <3>11 DEF Linked
  <2>12. Copied'
    <3> SUFFICES ASSUME NEW u \in Slots, pc'[u] = "relink"
                 PROVE  /\ flushLock' = u
                        /\ next'[sol(held'[u])] = next'[app(held'[u])]
                        /\ prev'[sol(held'[u])] = prev'[app(held'[u])]
      BY DEF Copied
    <3>1. pc[u] = "relink" /\ held'[u] = held[u] /\ held[u] \in Blocks
      BY <1>a, <1>b, <1>e DEF Held
    <3>2. held[u] # current /\ held[u] # nb
      BY <1>b, <2>3, <2>4, <3>1 DEF FlushPcs
    <3>3. /\ app(held[u]) \in Objects /\ sol(held[u]) \in Objects
          /\ app(held[u]) # app(current) /\ app(held[u]) # app(nb)
          /\ sol(held[u]) # app(current) /\ sol(held[u]) # app(nb)
      BY <1>b, <2>2, <3>1, <3>2, ObjectsApart
    <3> QED BY <1>a, <1>c, <2>7, <3>1, <3>3 DEF Copied
  <2> QED BY <2>11, <2>12
<1> QED BY <1>1, <1>2, WriterCalm

\* flush copies and relinks under the lock, so that neighbours always see one another.
LEMMA ThreadChain ==
    ASSUME Base, Base', Smooth, NEW t \in Slots, flushThread(t), ~failed'
    PROVE  Linked' /\ Copied'
<1>a. TypeOK /\ Placed /\ Held /\ OnePlace /\ Linked /\ Copied /\ Caller
  BY DEF Base, Smooth
<1>b. /\ current \in Nat /\ current \in Blocks /\ handed \in Nat /\ handed <= current
      /\ \A b \in Blocks : b \in Nat
      /\ next \in [Objects -> Objects] /\ prev \in [Objects -> Objects]
      /\ held \in [Slots -> Blocks \cup {0}] /\ pc \in [Slots -> SlotPcs]
      /\ 0 \notin Slots
  BY <1>a, HandedType DEF TypeOK, Blocks, SlotPcs, ThreadPcs, FlushPcs, Slots
<1>c. /\ \A u \in Slots : u # t => pc'[u] = pc[u] /\ held'[u] = held[u]
      /\ current' = current
  BY ThreadCalm
<1>1. ASSUME UNCHANGED <<next, prev, flushLock, flushed>>,
             pc[t] \notin {"relink", "update"}, pc'[t] \notin {"relink", "update"}
      PROVE  Linked' /\ Copied'
  <2>1. \A b \in Blocks : relinked(b)' = relinked(b)
    BY <1>c, <1>1 DEF relinked
  <2>2. \A u \in Slots : pc'[u] = "relink" => pc[u] = "relink" /\ held'[u] = held[u]
    BY <1>c, <1>1
  <2> QED BY <1>a, <1>c, <1>1, <2>1, <2>2, SameChain
<1>2. CASE flushLoop(t) \/ popBlock(t) \/ popTimeout(t) \/ idleRound(t)
           \/ quitIfThreadMoreThan(t) \/ lastThread(t) \/ releaseQuitLock(t)
           \/ setJoinable(t) \/ uncount(t) \/ writeBlock(t)
  <2>1. /\ UNCHANGED <<next, prev, flushLock, flushed>>
        /\ pc[t] \notin {"relink", "update"}
    BY <1>2 DEF flushLoop, popBlock, popTimeout, idleRound, quitIfThreadMoreThan,
       lastThread, releaseQuitLock, setJoinable, uncount, writeBlock, diskVars, blockVars
  <2>2. \E w \in {"loop", "pop", "wrap", "write", "idle", "quit", "last", "popLast", "ending",
                  "uncount", "dead", "copyLinks"} : goto(t, w)
    BY <1>2, Zenon DEF flushLoop, popBlock, popTimeout, idleRound, quitIfThreadMoreThan,
       lastThread, releaseQuitLock, setJoinable, uncount, writeBlock
  <2>3. pc'[t] \notin {"relink", "update"}
    BY <1>b, <2>2 DEF goto
  <2> QED BY <1>1, <2>1, <2>3
<1>3. CASE updateTable(t)
  <2>1. /\ pc[t] = "update" /\ pc' = [pc EXCEPT ![t] = "loop"]
        /\ flushed' = flushed \cup {held[t]}
        /\ UNCHANGED <<next, prev, flushLock, held>>
    BY <1>3 DEF updateTable, goto
  <2>2. pc'[t] = "loop"
    BY <1>b, <2>1
  <2>3. \A b \in Blocks : relinked(b)' = relinked(b)
    BY <1>c, <2>1, <2>2 DEF relinked
  <2>4. \A u \in Slots : pc'[u] = "relink" => pc[u] = "relink" /\ held'[u] = held[u]
    BY <1>c, <2>1, <2>2
  <2> QED BY <1>a, <1>c, <2>1, <2>3, <2>4, SameChain
<1>4. ASSUME pc[t] \in {"copyLinks", "relink"}
      PROVE  /\ held[t] \in Blocks /\ ~relinked(held[t]) /\ held[t] <= current
  <2>1. held[t] \in Blocks /\ held[t] <= handed /\ flushing(t, held[t])
    BY <1>a, <1>b, <1>4 DEF Held, Placed, FlushPcs, flushing
  <2>2. held[t] \notin flushed
    BY <1>a, <2>1 DEF OnePlace
  <2>3. \A u \in Slots : held[u] = held[t] /\ pc[u] = "update" => u = t
    BY <1>a, <2>1 DEF OnePlace, flushing
  <2>4. pc[t] # "update"
    BY <1>4
  <2>5. ~relinked(held[t])
    BY <2>2, <2>3, <2>4, Zenon DEF relinked
  <2>6. held[t] <= current
    <3>1. held[t] \in Nat
      BY <1>b, <2>1
    <3> QED BY <1>b, <2>1, <3>1
  <2> QED BY <2>1, <2>5, <2>6
<1>5. CASE copyLinks(t)
  <2>1. /\ pc[t] = "copyLinks" /\ flushLock = 0 /\ flushLock' = t
        /\ pc' = [pc EXCEPT ![t] = "relink"]
        /\ next' = [next EXCEPT ![sol(held[t])] = next[app(held[t])]]
        /\ prev' = [prev EXCEPT ![sol(held[t])] = prev[app(held[t])]]
        /\ UNCHANGED <<held, flushed>>
    BY <1>5 DEF copyLinks, goto, diskVars
  <2>2. PICK b \in Blocks : b = held[t]
    BY <1>4, <2>1
  <2>3. ~relinked(b) /\ app(b) \in Objects /\ sol(b) \in Objects /\ app(b) # sol(b)
    BY <1>4, <2>1, <2>2, ObjectsApart
  <2>4. pc'[t] = "relink"
    BY <1>b, <2>1
  <2>5. \A c \in Blocks : relinked(c)' = relinked(c)
    BY <1>c, <2>1, <2>4 DEF relinked
  <2>6. \A c \in Blocks : rep(c)' = rep(c)
    BY <2>5 DEF rep
  <2>7. \A c \in Blocks : rep(c) \in Objects /\ rep(c) # sol(b)
    BY <2>3, RepObjects
  <2>8. \A c \in Blocks : next'[rep(c)] = next[rep(c)] /\ prev'[rep(c)] = prev[rep(c)]
    BY <1>b, <2>1, <2>2, <2>7
  <2>9. 1 \in Blocks /\ \A c \in 1 .. current - 1 : c \in Blocks /\ c + 1 \in Blocks
    BY <1>b, PipelineAssumption DEF Blocks
  <2>10. Linked'
    BY <1>a, <1>b, <1>c, <2>6, <2>8, <2>9 DEF Linked
  <2>11. /\ next'[sol(b)] = next[app(b)] /\ next'[app(b)] = next[app(b)]
         /\ prev'[sol(b)] = prev[app(b)] /\ prev'[app(b)] = prev[app(b)]
    BY <1>b, <2>1, <2>2, <2>3
  <2>12. \A u \in Slots : u # t => pc'[u] # "relink"
    BY <1>a, <1>b, <1>c, <2>1 DEF Copied
  <2>13. Copied'
    BY <2>1, <2>2, <2>11, <2>12 DEF Copied
  <2> QED BY <2>10, <2>13
<1>6. CASE relink(t)
  <2>1. /\ pc[t] = "relink" /\ pc' = [pc EXCEPT ![t] = "update"]
        /\ next' = IF prev[app(held[t])] = Nil THEN next
                   ELSE [next EXCEPT ![prev[app(held[t])]] = sol(held[t])]
        /\ prev' = IF next[app(held[t])] = Nil THEN prev
                   ELSE [prev EXCEPT ![next[app(held[t])]] = sol(held[t])]
        /\ UNCHANGED <<held, flushed>>
    BY <1>6 DEF relink, goto, diskVars
  <2>2. PICK b \in Blocks : b = held[t]
    BY <1>4, <2>1
  <2>3. /\ ~relinked(b) /\ app(b) \in Objects /\ sol(b) \in Objects /\ app(b) # sol(b)
        /\ b <= current
    BY <1>4, <2>1, <2>2, ObjectsApart
  <2>4. pc'[t] = "update"
    BY <1>b, <2>1
  <2>5. rep(b) = app(b)
    BY <2>3 DEF rep
  <2>6. \A c \in Blocks : rep(c)' = IF c = b THEN sol(b) ELSE rep(c)
    <3>1. \A c \in Blocks : relinked(c)' = (relinked(c) \/ c = b)
      BY <1>c, <2>1, <2>2, <2>4 DEF relinked
    <3> QED BY <3>1 DEF rep
  <2>7. next[sol(b)] = next[app(b)] /\ prev[sol(b)] = prev[app(b)] /\ flushLock = t
    BY <1>a, <2>1, <2>2 DEF Copied
  <2>8. \A c \in Blocks : rep(c) \in Objects /\ rep(c) # sol(b) /\ rep(c) # Nil
    BY <2>3, RepObjects
  <2>9. \A c, d \in Blocks : rep(c) = rep(d) => c = d
    BY RepObjects
  <2>10. \A c \in 1 .. current - 1 : c \in Blocks /\ c + 1 \in Blocks
    BY <1>b, PipelineAssumption DEF Blocks
  \* next' in terms of the block before b, prev' in terms of the one behind it
  <2>11. /\ \A c \in Blocks : c + 1 # b => next'[rep(c)] = next[rep(c)]
         /\ \A c \in Blocks : c + 1 = b => next'[rep(c)] = sol(b) /\ prev[app(b)] = rep(c)
         /\ next'[sol(b)] = next[app(b)]
    <3>1. CASE b = 1
      <4>1. prev[app(b)] = Nil
        BY <1>a, <2>5, <3>1 DEF Linked
      <4>2. \A c \in Blocks : c + 1 # b
        BY <3>1 DEF Blocks
      <4> QED BY <2>1, <2>2, <2>7, <4>1, <4>2
    <3>2. CASE b # 1
      <4>1. PICK a \in 1 .. current - 1 : a + 1 = b
        <5>1. b - 1 \in 1 .. current - 1 /\ (b - 1) + 1 = b
          BY <1>b, <2>3, <3>2 DEF Blocks
        <5> QED BY <5>1
      <4>2. a \in Blocks /\ prev[app(b)] = rep(a)
        BY <1>a, <2>5, <2>10, <4>1 DEF Linked
      <4>3. next' = [next EXCEPT ![rep(a)] = sol(b)]
        BY <2>1, <2>2, <2>8, <4>2
      <4>4. \A c \in Blocks : c + 1 = b => c = a
        BY <1>b, <4>1, <4>2
      <4>5. \A c \in Blocks : c # a => rep(c) # rep(a)
        BY <2>9, <4>2
      <4>6. next'[rep(a)] = sol(b) /\ next'[sol(b)] = next[sol(b)]
        BY <1>b, <2>3, <2>8, <4>2, <4>3
      <4>7. \A c \in Blocks : c # a => next'[rep(c)] = next[rep(c)]
        BY <1>b, <2>8, <4>3, <4>5
      <4> QED BY <2>7, <4>1, <4>2, <4>4, <4>6, <4>7
    <3> QED BY <3>1, <3>2
  <2>12. /\ \A c \in Blocks : c # b + 1 => prev'[rep(c)] = prev[rep(c)]
         /\ b \in 1 .. current - 1 => prev'[rep(b + 1)] = sol(b)
         /\ prev'[sol(b)] = prev[app(b)]
    <3>1. CASE b = current
      <4>1. next[app(b)] = Nil
        BY <1>a, <2>5, <3>1 DEF Linked
      <4> QED BY <1>b, <2>1, <2>2, <2>7, <3>1, <4>1
    <3>2. CASE b # current
      <4>1. b \in 1 .. current - 1
        BY <1>b, <2>3, <3>2 DEF Blocks
      <4>2. PICK a \in Blocks : a = b + 1
        BY <2>10, <4>1
      <4>3. next[app(b)] = rep(a)
        BY <1>a, <2>5, <4>1, <4>2 DEF Linked
      <4>4. prev' = [prev EXCEPT ![rep(a)] = sol(b)]
        BY <2>1, <2>2, <2>8, <4>3
      <4>5. prev'[rep(a)] = sol(b) /\ prev'[sol(b)] = prev[sol(b)]
        BY <1>b, <2>3, <2>8, <4>4
      <4>6. \A c \in Blocks : c # a => prev'[rep(c)] = prev[rep(c)]
        BY <1>b, <2>8, <2>9, <4>4
      <4> QED BY <2>7, <4>2, <4>5, <4>6
    <3> QED BY <3>1, <3>2
  <2>13. Linked'
    <3>1. ASSUME NEW c \in 1 .. current - 1
          PROVE  next'[rep(c)'] = rep(c + 1)' /\ prev'[rep(c + 1)'] = rep(c)'
      <4>0. /\ c \in Blocks /\ c + 1 \in Blocks /\ c \in Nat /\ c # c + 1
            /\ next[rep(c)] = rep(c + 1) /\ prev[rep(c + 1)] = rep(c)
        BY <1>a, <2>10 DEF Linked
      <4>1. CASE c = b
        <5>1. rep(c)' = sol(b) /\ rep(c + 1)' = rep(c + 1)
          BY <2>6, <4>0, <4>1
        <5>2. next'[sol(b)] = rep(c + 1)
          BY <2>5, <2>11, <4>0, <4>1
        <5>3. prev'[rep(c + 1)] = sol(b)
          BY <2>12, <4>1
        <5> QED BY <5>1, <5>2, <5>3
      <4>2. CASE c + 1 = b
        <5>1. rep(c)' = rep(c) /\ rep(c + 1)' = sol(b)
          BY <2>6, <4>0, <4>2
        <5>2. next'[rep(c)] = sol(b) /\ prev[app(b)] = rep(c)
          BY <2>11, <4>0, <4>2
        <5>3. prev'[sol(b)] = rep(c)
          BY <2>12, <5>2
        <5> QED BY <5>1, <5>2, <5>3
      <4>3. CASE c # b /\ c + 1 # b
        <5>1. rep(c)' = rep(c) /\ rep(c + 1)' = rep(c + 1)
          BY <2>6, <4>0, <4>3
        <5>2. c + 1 # b + 1
          BY <1>b, <4>0, <4>3
        <5> QED BY <2>11, <2>12, <4>0, <4>3, <5>1, <5>2
      <4> QED BY <4>1, <4>2, <4>3
    <3>2. (prev[rep(1)] = Nil)'
      <4>1. 1 \in Blocks /\ 1 # b + 1
        BY <1>b, PipelineAssumption DEF Blocks
      <4>2. prev[rep(1)] = Nil
        BY <1>a DEF Linked
      <4>3. CASE b = 1
        BY <2>5, <2>6, <2>12, <4>2, <4>3
      <4>4. CASE b # 1
        BY <2>6, <2>12, <4>1, <4>2, <4>4
      <4> QED BY <4>3, <4>4
    <3>3. (next[rep(current)] = Nil)'
      <4>1. next[rep(current)] = Nil /\ current + 1 # b
        BY <1>a, <1>b, <2>3 DEF Linked
      <4>2. rep(current)' = IF current = b THEN sol(b) ELSE rep(current)
        <5>1. PICK c \in Blocks : c = current
          BY <1>b
        <5>2. rep(c)' = rep(current)'
          BY <1>c, <5>1 DEF rep, relinked
        <5> QED BY <2>6, <5>1, <5>2
      <4>3. CASE current = b
        BY <2>5, <2>11, <4>1, <4>2, <4>3
      <4>4. CASE current # b
        BY <1>b, <2>11, <4>1, <4>2, <4>4
      <4> QED BY <4>3, <4>4
    <3> QED BY <1>c, <3>1, <3>2, <3>3 DEF Linked
  <2>14. Copied'
    <3>1. \A u \in Slots : pc'[u] # "relink"
      BY <1>a, <1>c, <2>4, <2>7 DEF Copied
    <3> QED BY <3>1 DEF Copied
  <2> QED BY <2>13, <2>14
<1> QED
  BY <1>2, <1>3, <1>5, <1>6, ThreadCalm DEF quietStep

-----------------------------------------------------------------------------
(* stop()                                                                   *)

\* A slot that stop has joined stays empty, since no thread is created any more.
LEMMA StoppingStep ==
    ASSUME Base, Base', Stopping, Writer \/ (\E t \in Slots : flushThread(t)),
           UNCHANGED <<limit, idles>>
    PROVE  Stopping'
<1>a. TypeOK /\ Pool /\ pc \in [Slots -> SlotPcs] /\ joining \in Slots \cup {0}
  BY DEF Base, TypeOK, SlotPcs, ThreadPcs, FlushPcs
<1>1. ASSUME NEW t \in Slots, flushThread(t) PROVE Stopping'
  <2>1. CASE flushNull(t)
    <3>1. /\ writerPc' = "killed" /\ failed' = TRUE
      BY <2>1 DEF flushNull
    <3> QED BY <3>1 DEF Stopping
  <2>2. CASE ~flushNull(t)
    <3>1. /\ pc[t] # "none"
          /\ \A u \in Slots : u # t => pc'[u] = pc[u]
          /\ UNCHANGED writerVars
      <4>1. CASE quietStep(t)
        BY <1>a, <4>1, QuietMove DEF goto, ThreadPcs, FlushPcs
      <4>2. CASE setJoinable(t) \/ uncount(t)
        BY <1>a, <4>2 DEF setJoinable, uncount, goto
      <4> QED BY <1>1, <2>2, <4>1, <4>2 DEF flushThread, quietStep
    <3>2. (UNCHANGED <<status, failed>>) \/ (status' = "FAILED" /\ failed' = TRUE)
      BY <1>1, <2>2, Zenon DEF flushThread, flushLoop, popBlock, popTimeout, idleRound,
         quitIfThreadMoreThan, lastThread, writeBlock, writeFails, copyLinks, relink, updateTable,
         releaseQuitLock, setJoinable, uncount
    <3>3. /\ status' = "FAILED" => failed'
          /\ status' = "STOPPING" => writerPc' \in {"joinAll", "stopped"} \/ failed'
      BY <3>1, <3>2 DEF Stopping, writerVars
    <3>4. /\ writerPc' = "joinAll" => \A u \in Slots : u < joining' => pc'[u] = "none"
          /\ writerPc' = "stopped" => \A u \in Slots : pc'[u] = "none"
      BY <3>1 DEF Stopping, writerVars
    <3> QED BY <3>3, <3>4 DEF Stopping
  <2> QED BY <2>1, <2>2
<1>2. CASE Writer
  <2>1. CASE joinAll
    <3>1. /\ writerPc = "joinAll" /\ joining \in Slots /\ UNCHANGED <<status, failed>>
          /\ pc' = [pc EXCEPT ![joining] = "none"]
          /\ writerPc' \in {"joinAll", "stopped"}
          /\ writerPc' = "joinAll" => joining' = joining + 1
          /\ writerPc' = "stopped" => joining = PoolSize
      BY <1>a, <2>1 DEF joinAll, Pool
    <3>2. \A u \in Slots : u <= joining => pc'[u] = "none"
      BY <1>a, <3>1 DEF Stopping, Slots
    <3>3. writerPc' = "joinAll" => \A u \in Slots : u < joining' => pc'[u] = "none"
      BY <3>1, <3>2 DEF Slots
    <3>4. writerPc' = "stopped" => \A u \in Slots : pc'[u] = "none"
      BY <3>1, <3>2, PipelineAssumption DEF Slots
    <3>5. /\ status' = "FAILED" => failed'
          /\ status' = "STOPPING" => writerPc' \in {"joinAll", "stopped"} \/ failed'
      BY <3>1 DEF Stopping
    <3> QED BY <3>3, <3>4, <3>5 DEF Stopping
  <2>2. CASE setStopping
    <3>1. /\ status' = "STOPPING" /\ writerPc' = "joinAll" /\ joining' = 1
      BY <2>2 DEF setStopping
    <3>2. \A u \in Slots : ~(u < joining')
      BY <3>1 DEF Slots
    <3> QED BY <3>1, <3>2 DEF Stopping
  <2>3. CASE finishRedoFails \/ giveUpPush
    <3>1. failed' = TRUE /\ writerPc' \in {"idle", "setStopping"}
      BY <2>3 DEF finishRedoFails, giveUpPush, abandonBlock, afterPush
    <3> QED BY <3>1 DEF Stopping
  <2>4. CASE appendRecord \/ finishRedo \/ pushBlock \/ createNewThread \/ joinSlotDone \/ stop
             \/ \E by \in {"insert", "alloc", "flushLogs"} : rollOver(by)
    <3>1. UNCHANGED <<status, failed>>
      BY <2>4, Zenon DEF appendRecord, finishRedo, pushBlock, createNewThread, joinSlotDone, stop,
         rollOver
    <3>2. /\ writerPc \notin {"joinAll", "stopped"}
          /\ writerPc' \notin {"joinAll", "stopped"}
      BY <2>4 DEF appendRecord, finishRedo, pushBlock, createNewThread, joinSlotDone, stop,
         rollOver, afterPush, writerVars
    <3> QED BY <3>1, <3>2 DEF Stopping
  <2> QED BY <1>2, <2>1, <2>2, <2>3, <2>4 DEF Writer
<1> QED BY <1>1, <1>2

\* With a limit of one thread that does not idle out, the thread leaves only when the database
\* stops and the queue is empty.
LEMMA AloneStep ==
    ASSUME Base, Base', Stopping, Alone, Writer \/ (\E t \in Slots : flushThread(t)),
           UNCHANGED <<limit, idles>>, ~failed', limit = 1, ~idles
    PROVE  Alone'
<1> DEFINE Ending == {"wrap", "ending", "uncount", "dead"}
           Asking == {"quit", "last", "popLast"}
<1>a. TypeOK /\ Pool /\ pc \in [Slots -> SlotPcs] /\ joining \in Slots \cup {0}
      /\ threadCount \in Nat /\ threadCount <= 1
  BY DEF Base, TypeOK, SlotPcs, ThreadPcs, FlushPcs, Pool, CountExact
<1>1. ASSUME NEW t \in Slots, flushThread(t) PROVE Alone'
  <2>1. /\ ~failed /\ pc[t] \in ThreadPcs /\ pc'[t] # "none"
        /\ \A u \in Slots : u # t => pc'[u] = pc[u]
        /\ status' = status
    BY <1>1, ThreadCalm
  <2>2. status # "FAILED"
    BY <2>1 DEF Stopping
  <2>3. ASSUME pc'[t] \in Asking => status = "STOPPING",
               pc'[t] \in Ending => status = "STOPPING" /\ queue' = <<>>,
               queue' = queue \/ queue # <<>>
        PROVE  Alone'
    <3>1. \A u \in Slots : pc'[u] \in Asking => status' = "STOPPING"
      BY <2>1, <2>3 DEF Alone
    <3>2. \A u \in Slots : pc'[u] \in Ending => status' = "STOPPING" /\ queue' = <<>>
      BY <2>1, <2>3 DEF Alone
    <3> QED BY <2>1, <3>1, <3>2 DEF Alone
  <2>4. CASE flushLoop(t)
    <3>1. pc'[t] = "pop" /\ queue' = queue
      BY <1>1, <1>a, <2>2, <2>4 DEF flushLoop, goto, TypeOK
    <3> QED BY <2>3, <3>1
  <2>5. CASE popBlock(t)
    <3>1. pc'[t] = "write" /\ queue # <<>>
      BY <1>a, <2>5 DEF popBlock, goto
    <3> QED BY <2>3, <3>1
  <2>6. CASE popTimeout(t)
    <3>1. /\ queue = <<>> /\ queue' = queue
          /\ pc'[t] = "idle" \/ (pc'[t] = "wrap" /\ pc[t] = "popLast")
      BY <1>a, <2>6 DEF popTimeout, goto
    <3>2. pc[t] = "popLast" => status = "STOPPING"
      BY DEF Alone
    <3> QED BY <2>3, <3>1, <3>2
  <2>7. CASE idleRound(t)
    <3>1. /\ queue' = queue
          /\ pc'[t] = "loop" \/ (pc'[t] = "quit" /\ leaving)
      BY <1>a, <2>7 DEF idleRound, goto
    <3>2. leaving => status = "STOPPING"
      BY <2>2 DEF leaving
    <3> QED BY <2>3, <3>1, <3>2
  <2>8. CASE quitIfThreadMoreThan(t)
    <3>1. pc[t] = "quit" /\ queue' = queue /\ ~(threadCount > 1)
      BY <1>a, <2>8 DEF quitIfThreadMoreThan
    <3>2. pc'[t] = "last"
      BY <1>a, <2>8, <3>1 DEF quitIfThreadMoreThan, goto
    <3>3. status = "STOPPING"
      BY <3>1 DEF Alone
    <3> QED BY <2>3, <3>1, <3>2, <3>3
  <2>9. CASE lastThread(t)
    <3>1. pc[t] = "last" /\ queue' = queue /\ pc'[t] \in {"popLast", "write"}
      BY <1>a, <2>9 DEF lastThread, goto
    <3>2. status = "STOPPING"
      BY <3>1 DEF Alone
    <3> QED BY <2>3, <3>1, <3>2
  <2>10. CASE writeBlock(t) \/ copyLinks(t) \/ relink(t) \/ updateTable(t)
    <3>1. /\ queue' = queue /\ \E w \in {"copyLinks", "relink", "update", "loop"} : goto(t, w)
      BY <2>10, Zenon DEF writeBlock, copyLinks, relink, updateTable
    <3>2. pc'[t] \in {"copyLinks", "relink", "update", "loop"}
      BY <1>a, <3>1 DEF goto
    <3> QED BY <2>3, <3>1, <3>2
  <2>11. CASE releaseQuitLock(t) \/ setJoinable(t) \/ uncount(t)
    <3>1. /\ queue' = queue /\ pc[t] \in Ending
      BY <2>11, Zenon DEF releaseQuitLock, setJoinable, uncount
    <3>2. pc'[t] \in Ending
      BY <1>a, <2>11 DEF releaseQuitLock, setJoinable, uncount, goto
    <3>3. status = "STOPPING" /\ queue = <<>>
      BY <3>1 DEF Alone
    <3> QED BY <2>3, <3>1, <3>2, <3>3
  <2> QED
    BY <1>1, <2>4, <2>5, <2>6, <2>7, <2>8, <2>9, <2>10, <2>11, ThreadCalm DEF quietStep
<1>2. CASE Writer
  <2>0. ~failed
    BY <1>2, WriterCalm
  <2>1. CASE UNCHANGED <<pc, queue, status>>
    BY <2>1 DEF Alone
  <2>2. CASE pushBlock
    <3>1. writerPc = "push" /\ UNCHANGED <<pc, status>>
      BY <2>2 DEF pushBlock, threadVars
    <3>2. status # "STOPPING"
      BY <2>0, <3>1 DEF Stopping
    <3> QED BY <3>1, <3>2 DEF Alone
  <2>3. CASE setStopping
    <3>1. status' = "STOPPING" /\ UNCHANGED <<pc, queue>>
      BY <2>3 DEF setStopping, threadVars
    <3> QED BY <3>1 DEF Alone
  <2>4. ASSUME NEW t \in Slots, pc' = [pc EXCEPT ![t] = "loop"], UNCHANGED <<queue, status>>
        PROVE  Alone'
    <3>1. pc'[t] = "loop" /\ \A u \in Slots : u # t => pc'[u] = pc[u]
      BY <1>a, <2>4
    <3> QED BY <2>4, <3>1 DEF Alone
  <2>5. CASE createNewThread
    <3>1. UNCHANGED <<queue, status>> /\ (UNCHANGED pc \/ \E t \in Slots : startThread(t))
      BY <2>5, Zenon DEF createNewThread, threadVars
    <3> QED BY <2>1, <2>4, <3>1 DEF startThread
  <2>6. CASE joinSlotDone
    BY <1>a, <2>4, <2>6 DEF joinSlotDone, startThread, Pool
  <2>7. CASE joinAll
    <3>1. /\ joining \in Slots /\ pc[joining] \in {"none", "dead"}
          /\ pc' = [pc EXCEPT ![joining] = "none"] /\ UNCHANGED <<queue, status>>
      BY <1>a, <2>7 DEF joinAll, Pool
    <3>2. pc'[joining] = "none" /\ \A u \in Slots : u # joining => pc'[u] = pc[u]
      BY <1>a, <3>1
    <3>3. CASE pc[joining] = "dead"
      <4>1. status = "STOPPING" /\ queue = <<>>
        BY <3>1, <3>3 DEF Alone
      <4> QED BY <3>1, <4>1 DEF Alone
    <3>4. CASE pc[joining] = "none"
      <4>1. \A u \in Slots : pc'[u] = pc[u]
        BY <3>2, <3>4
      <4> QED BY <3>1, <4>1 DEF Alone
    <3> QED BY <3>1, <3>3, <3>4
  <2>8. \/ UNCHANGED <<pc, queue, status>> \/ pushBlock \/ setStopping
        \/ createNewThread \/ joinSlotDone \/ joinAll
    <3>1. CASE calmWriter
      BY <3>1, Zenon DEF calmWriter, appendRecord, finishRedo, threadVars
    <3>2. CASE stop \/ \E by \in {"insert", "alloc", "flushLogs"} : rollOver(by)
      BY <3>2, Zenon DEF stop, rollOver, threadVars
    <3> QED BY <1>2, <3>1, <3>2, WriterCalm
  <2> QED BY <2>1, <2>2, <2>3, <2>5, <2>6, <2>7, <2>8
<1> QED BY <1>1, <1>2

-----------------------------------------------------------------------------
\* The invariant holds after start().
LEMMA PipelineInit == Init => PipelineInv
<1> SUFFICES ASSUME Init PROVE PipelineInv
  OBVIOUS
<1>0. Base
  BY BaseInit
<1> USE PipelineAssumption DEF Init
<1>a. 1 \in Blocks /\ 1 \in Slots /\ \A b \in Blocks : b \in Nat /\ (b > 1 <=> b # 1)
  BY DEF Blocks, Slots
<1>1. Stopping
  BY DEF Stopping
<1>2. Flags
  <2>1. \A t \in Slots : pc[t] \notin {"copyLinks", "relink", "update"}
    OBVIOUS
  <2>2. \A b \in Blocks : table[b] = IF b > current THEN "none"
                                     ELSE IF b \in flushed THEN "sol" ELSE "app"
    BY <1>a
  <2> QED BY <2>1, <2>2 DEF Flags
<1>3. NoneLost
  <2>1. \A b \in Blocks : ~handedToFlush(b)
    BY <1>a DEF handedToFlush, Blocks
  <2> QED BY <2>1 DEF NoneLost
<1>4. Linked
  <2>1. rep(1) \in Objects
    BY <1>a, RepObjects
  <2>2. 1 .. current - 1 = {}
    OBVIOUS
  <2> QED BY <2>1, <2>2 DEF Linked
<1>5. Copied
  BY DEF Copied
<1>6. Alone
  BY <1>a DEF Alone
<1> QED
  BY <1>0, <1>1, <1>2, <1>3, <1>4, <1>5, <1>6 DEF PipelineInv, Smooth

\* Every step keeps the invariant.
LEMMA PipelineStep == PipelineInv /\ [Next]_<<vars, limit, idles>> => PipelineInv'
<1> SUFFICES ASSUME PipelineInv, [Next]_<<vars, limit, idles>> PROVE PipelineInv'
  OBVIOUS
<1>a. Base /\ Stopping /\ (~failed => Smooth) /\ (~failed /\ limit = 1 /\ ~idles => Alone)
  BY DEF PipelineInv
<1>b. Base'
  BY <1>a, BaseStep
<1>1. CASE Writer /\ UNCHANGED <<limit, idles>>
  <2>1. Stopping'
    BY <1>1, <1>a, <1>b, StoppingStep
  <2>2. ~failed' => ~failed
    BY <1>1, <1>a, WriterCalm
  <2>3. ~failed' => Smooth'
    BY <1>1, <1>a, <1>b, <2>2, WriterFlags, WriterLosesNone, WriterChain DEF Smooth
  <2>4. ~failed' /\ limit' = 1 /\ ~idles' => Alone'
    BY <1>1, <1>a, <1>b, <2>2, AloneStep
  <2> QED BY <1>b, <2>1, <2>3, <2>4 DEF PipelineInv
<1>2. ASSUME NEW t \in Slots, flushThread(t), UNCHANGED <<limit, idles>> PROVE PipelineInv'
  <2>1. Stopping'
    BY <1>2, <1>a, <1>b, StoppingStep
  <2>2. ~failed' => ~failed
    BY <1>2, <1>a, ThreadCalm
  <2>3. ~failed' => Smooth'
    BY <1>2, <1>a, <1>b, <2>2, ThreadFlags, ThreadLosesNone, ThreadChain DEF Smooth
  <2>4. ~failed' /\ limit' = 1 /\ ~idles' => Alone'
    BY <1>2, <1>a, <1>b, <2>2, AloneStep
  <2> QED BY <1>b, <2>1, <2>3, <2>4 DEF PipelineInv
<1>3. CASE UNCHANGED <<vars, limit, idles>>
  <2>1. /\ UNCHANGED <<status, current, hasRecords, finished, table, next, prev, flushed, onDisk,
                       queue, writerPc, caller, joining>>
        /\ UNCHANGED <<slotStatus, threadCount, flushLock, pc, held, failed, limit, idles>>
    BY <1>3 DEF vars, blockVars, diskVars, writerVars, poolVars, threadVars
  <2>2. Stopping'
    BY <1>a, <2>1 DEF Stopping
  <2>3. Smooth => Flags' /\ NoneLost'
    BY <2>1 DEF Smooth, Flags, NoneLost, handedToFlush, handedOver, flushing
  <2>4. Smooth => Linked' /\ Copied'
    BY <2>1 DEF Smooth, Linked, Copied, rep, relinked
  <2>5. Alone => Alone'
    BY <2>1 DEF Alone
  <2> QED BY <1>a, <1>b, <2>1, <2>2, <2>3, <2>4, <2>5 DEF PipelineInv, Smooth
<1> QED
  BY <1>1, <1>2, <1>3 DEF Next, ended

-----------------------------------------------------------------------------
\* For any pool, queue and number of blocks the variables of the writer, the
\* threads and the pool keep their types: in particular no link leads to an
\* object that does not exist and the count of threads is never negative.
THEOREM PipelineTypeCorrect == Spec => []TypeOK
<1>1. Base => TypeOK
  BY DEF Base
<1> QED
  BY <1>1, BaseInit, BaseStep, PTL DEF Spec

\* For any pool: m_currentThreadCount is the number of threads that run and not
\* above the limit, while createNewThread, quitIfThreadMoreThan, wrap and join
\* change it and the slots in separate steps.
THEOREM CountTheorem == Spec => []CountExact
<1>1. Base => CountExact
  BY DEF Base, Pool
<1> QED
  BY <1>1, BaseInit, BaseStep, PTL DEF Spec

\* For any pool, queue and number of blocks: no block is flushed by two threads,
\* queued twice or flushed again, although a block given back by
\* finishAppendingBlock is handed over a second time.
THEOREM OnePlaceTheorem == Spec => []OnePlace
<1>1. Base => OnePlace
  BY DEF Base
<1> QED
  BY <1>1, BaseInit, BaseStep, PTL DEF Spec

\* For any pool, queue and number of blocks: until an operation fails, a block
\* that was handed over is on disk, in the queue or in the hands of a thread.
THEOREM NoneLostTheorem == Spec => []NoneLost
<1>1. PipelineInv => NoneLost
  BY DEF PipelineInv, Smooth, NoneLost
<1> QED
  BY <1>1, PipelineInit, PipelineStep, PTL DEF Spec

\* For any number of flush threads and any order in which they replace blocks:
\* until an operation fails, the objects in m_blocks of two neighbours point to
\* each other except while flush() is replacing one of them.
THEOREM ChainTheorem == Spec => []ChainIntact
<1>1. PipelineInv => ChainIntact
  <2> SUFFICES ASSUME PipelineInv, ~failed, NEW b \in 1 .. (current - 1),
                      ~moving(b), ~moving(b + 1)
               PROVE  /\ next[<<table[b], b>>] = <<table[b + 1], b + 1>>
                      /\ prev[<<table[b + 1], b + 1>>] = <<table[b], b>>
    BY DEF ChainIntact
  <2>1. TypeOK /\ Flags /\ Linked
    BY DEF PipelineInv, Base, Smooth
  <2>2. b \in Blocks /\ b + 1 \in Blocks /\ ~(b > current) /\ ~(b + 1 > current)
    BY <2>1, PipelineAssumption DEF TypeOK, Blocks
  <2>3. ASSUME NEW c \in Blocks, ~(c > current), ~moving(c)
        PROVE  <<table[c], c>> = rep(c)
    <3>1. relinked(c) <=> c \in flushed
      BY <2>3 DEF relinked, moving
    <3>2. table[c] = IF c \in flushed THEN "sol" ELSE "app"
      BY <2>1, <2>3 DEF Flags
    <3> QED BY <3>1, <3>2 DEF rep, sol, app
  <2>4. <<table[b], b>> = rep(b) /\ <<table[b + 1], b + 1>> = rep(b + 1)
    BY <2>2, <2>3
  <2> QED BY <2>1, <2>4 DEF Linked
<1> QED
  BY <1>1, PipelineInit, PipelineStep, PTL DEF Spec

\* For any pool, queue and number of blocks: with one flush thread that does not
\* idle out, stop() returns with the queue empty and every finished block
\* flushed, unless an operation failed.
THEOREM StopTheorem == Spec => []StopDrainsAlone
<1>1. PipelineInv => StopDrainsAlone
  <2> SUFFICES ASSUME PipelineInv, limit = 1, ~idles, writerPc = "stopped", ~failed
               PROVE  queue = <<>> /\ finished \subseteq flushed
    BY DEF StopDrainsAlone, StopDrains
  <2>1. TypeOK /\ Caller /\ Flags /\ NoneLost /\ Stopping /\ Alone
    BY DEF PipelineInv, Base, Smooth
  <2>2. \A t \in Slots : pc[t] = "none"
    BY <2>1 DEF Stopping
  <2>3. queue = <<>>
    BY <2>1, <2>2 DEF Alone
  <2>4. ASSUME NEW b \in finished PROVE b \in flushed
    <3>1. b \in Blocks /\ b <= current /\ current \in Blocks
      BY <2>1 DEF TypeOK, Flags
    <3>2. b < current \/ b = current
      BY <3>1 DEF Blocks
    <3>3. handedToFlush(b)
      BY <2>1, <3>2 DEF handedToFlush, Caller
    <3>4. \A i \in DOMAIN queue : FALSE
      BY <2>3
    <3> QED BY <2>1, <2>2, <3>1, <3>3, <3>4 DEF NoneLost, flushing
  <2> QED BY <2>3, <2>4
<1> QED
  BY <1>1, PipelineInit, PipelineStep, PTL DEF Spec
=============================================================================
