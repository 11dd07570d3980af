----------------------------- MODULE RingBuffer -----------------------------
(***************************************************************************)
(* The memory of the parsed records: memory/ringBuffer.h.  Nodes form a     *)
(* ring; the parser allocates at the end of the head node, the main thread  *)
(* frees, in the order of allocation, and moves the begin of the tail node. *)
(* Every chunk begins with a word that holds its size and whether it is     *)
(* freed; a node that is used up ends with such a word too.                 *)
(*                                                                         *)
(* There is one allocating and one freeing thread, as in mysqlDataSource.   *)
(* A step is one access to what both use.  Sizes count words; a node is     *)
(* new and zeroed, or reused with the words of its last use.                *)
(***************************************************************************)
EXTENDS Integers, FiniteSets, Sequences

CONSTANTS
    NodeSize,    \* size of a node
    NodeIds,     \* bound: nodes there may be at a time
    ChunkSizes,  \* sizes asked for, with the word before the chunk
    MaxAllocs    \* bound: calls of alloc

ASSUME RingBufferAssumption ==
    /\ NodeSize \in Nat \ {0} /\ MaxAllocs \in Nat
    /\ ChunkSizes \subseteq 1 .. NodeSize - 1
    /\ 1 \in NodeIds /\ NodeIds \subseteq Nat \ {0} /\ IsFiniteSet(NodeIds)

VARIABLES
    bufNodes,   \* next, begin, end, state and words of each node
    bufHead,    \* m_head
    headLocked, \* NODE_LOCK_MASK in m_head
    bufTail,    \* m_tail
    allocPc, allocSize, spare,  \* the allocating thread: size, node to be reused
    freePc, freeNode, freeMem,  \* the freeing thread: node, mem
    live,       \* chunks handed out, oldest first
    allocs,     \* calls so far
    bufRaced,   \* history: a word was read before alloc had written it
    peak        \* history: the most nodes there were

bufVars == <<bufNodes, bufHead, headLocked, bufTail, allocPc, allocSize, spare, freePc,
             freeNode, freeMem, live, allocs, bufRaced, peak>>

allocLocals == <<allocPc, allocSize, spare, allocs, peak>>
freeLocals == <<freePc, freeNode, freeMem>>

word(size, freed) == [size |-> size, freed |-> freed]
newNode(next) == [next |-> next, begin |-> 0, end |-> 0, state |-> "open",
                  words |-> [i \in 0 .. NodeSize |-> word(0, FALSE)]]
NotANode == newNode(0)

Nodes == {n \in NodeIds : bufNodes[n].next # 0}

BufInit ==
    /\ bufNodes = [n \in NodeIds |-> IF n = 1 THEN newNode(1) ELSE NotANode]
    /\ bufHead = 1 /\ headLocked = FALSE /\ bufTail = 1
    /\ allocPc = "idle" /\ allocSize = 0 /\ spare = 0
    /\ freePc = "idle" /\ freeNode = 0 /\ freeMem = 0
    /\ live = <<>> /\ allocs = 0 /\ bufRaced = FALSE /\ peak = 1

-----------------------------------------------------------------------------
(* alloc                                                                   *)

callAlloc(s) ==
    /\ allocPc = "idle"
    /\ allocs < MaxAllocs
    /\ allocs' = allocs + 1
    /\ allocSize' = s
    /\ allocPc' = "claim"
    /\ UNCHANGED <<bufNodes, bufHead, headLocked, bufTail, spare, freeLocals, live,
                   bufRaced, peak>>

\* end is moved when the chunk fits and locked when it does not
claimChunk ==
    /\ allocPc = "claim"
    /\ IF bufNodes[bufHead].end + allocSize < NodeSize
         THEN /\ bufNodes' = [bufNodes EXCEPT ![bufHead].end = @ + allocSize]
              /\ allocPc' = "size"
         ELSE /\ bufNodes' = [bufNodes EXCEPT ![bufHead].state = "locked"]
              /\ allocPc' = "full"
    /\ UNCHANGED <<bufHead, headLocked, bufTail, allocSize, spare, allocs, freeLocals,
                   live, bufRaced, peak>>

\* *(uint64_t*)mem = size, and the chunk is returned
claimed == bufNodes[bufHead].end - allocSize

writeSize ==
    /\ allocPc = "size"
    /\ bufNodes' = [bufNodes EXCEPT ![bufHead].words[claimed] = word(allocSize, FALSE)]
    /\ live' = Append(live, <<bufHead, claimed, allocSize>>)
    /\ allocPc' = "idle"
    /\ UNCHANGED <<bufHead, headLocked, bufTail, allocSize, spare, allocs, freeLocals,
                   bufRaced, peak>>

\* the next node is in use: a new one is put before it; else it is reused
nextNode ==
    /\ allocPc = "full"
    /\ LET n == bufNodes[bufHead].next IN
       IF n = bufTail
         THEN /\ NodeIds # Nodes
              /\ LET new == CHOOSE m \in NodeIds \ Nodes : TRUE IN
                 /\ bufNodes' = [bufNodes EXCEPT ![new] = newNode(n), ![bufHead].next = new]
                 /\ bufHead' = new
              /\ spare' = bufHead
              /\ allocPc' = "mark"
              /\ peak' = IF Cardinality(Nodes) = peak THEN peak + 1 ELSE peak
         ELSE /\ spare' = n
              /\ allocPc' = "trim"
              /\ UNCHANGED <<bufNodes, bufHead, peak>>
    /\ UNCHANGED <<headLocked, bufTail, allocSize, allocs, freeLocals, live, bufRaced>>

trimLeaving(lock) ==
    /\ allocPc = "trim"
    /\ LET tmp == bufNodes[spare].next IN
       IF tmp = bufTail
         THEN /\ bufHead' = spare /\ headLocked' = lock
              /\ spare' = bufHead
              /\ allocPc' = "mark"
              /\ UNCHANGED bufNodes
       ELSE IF headLocked
         THEN /\ allocPc' = "died"
              /\ UNCHANGED <<bufNodes, bufHead, headLocked, spare>>
       ELSE /\ headLocked' = TRUE
            /\ bufNodes' = [bufNodes EXCEPT ![spare].next = bufNodes[tmp].next, ![tmp] = NotANode]
            /\ UNCHANGED <<bufHead, spare, allocPc>>
    /\ UNCHANGED <<bufTail, allocSize, allocs, freeLocals, live, bufRaced, peak>>

\* Mutant: the new head keeps the lock of the old one.
trim_Locked == trimLeaving(TRUE)

\* The other free nodes are deleted, each after m_head was locked.  It is locked
\* already when a second one is deleted: the exchange fails, the loop ends, and
\* the locked pointer is what is followed then.
trim == trimLeaving(FALSE)

\* the old head gets a last word
markEnd ==
    /\ allocPc = "mark"
    /\ bufNodes' = [bufNodes EXCEPT ![spare].words[bufNodes[spare].end] = word(0, TRUE)]
    /\ allocPc' = "usedOut"
    /\ UNCHANGED <<bufHead, headLocked, bufTail, allocSize, spare, allocs, freeLocals, live,
                   bufRaced, peak>>

\* NODE_USED_OUT_MASK
usedOut ==
    /\ allocPc = "usedOut"
    /\ bufNodes' = [bufNodes EXCEPT ![spare].state = "usedOut"]
    /\ allocPc' = "claim"
    /\ spare' = 0
    /\ UNCHANGED <<bufHead, headLocked, bufTail, allocSize, allocs, freeLocals, live,
                   bufRaced, peak>>

-----------------------------------------------------------------------------
(* freeMem                                                                 *)

\* the word at mem is read although alloc has not written it
unwritten(n, m) == allocPc = "size" /\ n = bufHead /\ m = claimed

callFree ==
    /\ freePc = "idle" /\ live # <<>>
    /\ LET c == Head(live) IN bufNodes' = [bufNodes EXCEPT ![c[1]].words[c[2]].freed = TRUE]
    /\ live' = Tail(live)
    /\ freeNode' = bufTail
    /\ freeMem' = bufNodes[bufTail].begin
    /\ freePc' = "test"
    /\ UNCHANGED <<bufHead, headLocked, bufTail, allocLocals, bufRaced>>

wordAt == bufNodes[freeNode].words[freeMem]

\* while ((*mem) & NODE_FREED_MASK); m_tail is locked, which alloc does not see
testFreed ==
    /\ freePc = "test"
    /\ freePc' = IF wordAt.freed THEN "move" ELSE "idle"
    /\ bufRaced' = (bufRaced \/ (wordAt.freed /\ unwritten(freeNode, freeMem)))
    /\ UNCHANGED <<bufNodes, bufHead, headLocked, bufTail, allocLocals, freeNode, freeMem, live>>

moveBegin(used, freed) ==
    /\ freePc = "move"
    /\ LET n == bufNodes[freeNode] IN
       IF freeMem = n.end
         THEN IF used
                THEN /\ bufNodes' = [bufNodes EXCEPT ![freeNode].begin = 0, ![freeNode].end = 0,
                                                     ![freeNode].state = "open"]
                     /\ bufTail' = n.next
                     /\ freeNode' = n.next
                     /\ freeMem' = bufNodes'[n.next].begin
                     /\ freePc' = "test"
                ELSE freePc' = "idle" /\ UNCHANGED <<bufNodes, bufTail, freeNode, freeMem>>
         ELSE IF ~freed
                THEN freePc' = "idle" /\ UNCHANGED <<bufNodes, bufTail, freeNode, freeMem>>
                ELSE /\ freeMem' = freeMem + wordAt.size
                     /\ bufNodes' = [bufNodes EXCEPT ![freeNode].begin = freeMem']
                     /\ UNCHANGED <<bufTail, freeNode, freePc>>
    /\ bufRaced' = (bufRaced \/ (wordAt.freed /\ unwritten(freeNode, freeMem)))
    /\ UNCHANGED <<bufHead, headLocked, allocLocals, live>>

\* Mutant: only the first chunk is looked at.
moveFreed_Untested == moveBegin(bufNodes[freeNode].state = "usedOut", TRUE)

\* Mutant: a node that is used up is never left.
moveFreed_Never == moveBegin(FALSE, wordAt.freed)

\* begin is moved past freed chunks, the tail past nodes that are used up
moveFreed == moveBegin(bufNodes[freeNode].state = "usedOut", wordAt.freed)

-----------------------------------------------------------------------------
BufNext ==
    /\ allocPc # "died"
    /\ ~bufRaced
    /\ \/ \E s \in ChunkSizes : callAlloc(s)
       \/ claimChunk \/ writeSize \/ nextNode \/ trim \/ markEnd \/ usedOut
       \/ callFree \/ testFreed \/ moveFreed

BufSpec == BufInit /\ [][BufNext]_bufVars

-----------------------------------------------------------------------------
(* Properties                                                              *)

\* Until a word is read that alloc has claimed and not yet written, a chunk that
\* was handed out and not freed is in a node of the ring, between its begin and
\* its end, and apart from every other (alloc, freeMem, reset).
LiveKept ==
    ~bufRaced => \A i \in DOMAIN live :
        LET c == live[i] IN
        /\ c[1] \in Nodes
        /\ bufNodes[c[1]].begin <= c[2] /\ c[2] + c[3] <= bufNodes[c[1]].end
        /\ \A k \in DOMAIN live : k # i /\ live[k][1] = c[1] =>
              live[k][2] + live[k][3] <= c[2] \/ c[2] + c[3] <= live[k][2]

\* alloc follows a locked head pointer, when it deletes free nodes, only after
\* the parser has once been so far ahead that there were four nodes (alloc).
DiesOfBacklog == allocPc = "died" => peak >= 4

\* When everything is freed and nobody is at work the tail has come to its end:
\* no freed chunk is left behind (freeMem, the last word of a node).
AllReclaimed ==
    (live = <<>> /\ allocPc = "idle" /\ freePc = "idle" /\ ~bufRaced) =>
        /\ bufNodes[bufTail].begin = bufNodes[bufTail].end
        /\ bufTail = bufHead \/ bufNodes[bufTail].next = bufHead
=============================================================================
