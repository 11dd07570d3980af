------------------------------ MODULE MCParts ------------------------------
(***************************************************************************)
(* Five parts of the store, each by itself: the queued spin lock, the pages  *)
(* of solid blocks, the memory of the parsed records, the redo file and the  *)
(* seeks.  A behaviour is one of one part; the others stay where they begin. *)
(***************************************************************************)
EXTENDS QSpinlock, PageCache, RingBuffer, RedoLog, IteratorSeek

VARIABLE part   \* the part that runs

partsVars == <<lockVars, pageVars, bufVars, redoVars, seekVars, part>>

\* the later event has the earlier time
MCTimeOf == [o \in Offsets |-> IF o = 1 THEN 3 ELSE 2]

PageIdle == pageData = NoData /\ PageInit
SeekIdle == blks = <<newBlk(1)>> /\ SeekInit

MCPartsInit ==
    /\ part \in {"lock", "page", "ringBuffer", "redo", "seek"}
    /\ LockInit /\ BufInit /\ RedoInit
    /\ IF part = "page" THEN PageInit ELSE PageIdle
    /\ IF part = "seek" THEN SeekInit ELSE SeekIdle

MCPartsNext ==
    /\ UNCHANGED part
    /\ \/ part = "lock" /\ LockNext /\ UNCHANGED <<pageVars, bufVars, redoVars, seekVars>>
       \/ part = "page" /\ PageNext /\ UNCHANGED <<lockVars, bufVars, redoVars, seekVars>>
       \/ part = "ringBuffer" /\ BufNext /\ UNCHANGED <<lockVars, pageVars, redoVars, seekVars>>
       \/ part = "redo" /\ RedoNext /\ UNCHANGED <<lockVars, pageVars, bufVars, seekVars>>
       \/ part = "seek" /\ SeekNext /\ UNCHANGED <<lockVars, pageVars, bufVars, redoVars>>

\* What begins and stays in its first state has no step that is owed.
MCPartsSpec ==
    MCPartsInit /\ [][MCPartsNext]_partsVars /\ LockFairness /\ PageFairness
=============================================================================
