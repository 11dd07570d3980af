----------------------------- MODULE QSpinlock -----------------------------
(***************************************************************************)
(* The queued spin lock of thread/qspinlock.h and qspinlock.cpp.  The lock  *)
(* word holds a locked byte, a pending bit and the tail of a queue of       *)
(* waiting threads; a thread waits either as the one pending thread or in   *)
(* the queue, on a node of its own.                                         *)
(*                                                                         *)
(* One action is one access to the lock word or to a node; a loop around a  *)
(* compare-and-swap is the step in which it succeeds.  There is one lock,   *)
(* so of the four nodes of a thread only the first is used.  A local and a  *)
(* node field go back to their first value when they are read no more.      *)
(***************************************************************************)
EXTENDS Integers, FiniteSets

CONSTANTS
    LockThreads,  \* threads that take the lock
    NoThread      \* no tail, no next node

ASSUME LockAssumption == NoThread \notin LockThreads

VARIABLES
    val,       \* the lock word: locked, pending, tail
    nodeNext,  \* next of the node of each thread
    nodeWait,  \* wait of the node of each thread: true once it is the head
    seen,      \* _val of a thread in the slow path
    lockPc     \* where each thread stands

lockVars == <<val, nodeNext, nodeWait, seen, lockPc>>

Free == [locked |-> 0, pending |-> 0, tail |-> NoThread]

LockInit ==
    /\ val = Free
    /\ nodeNext = [t \in LockThreads |-> NoThread]
    /\ nodeWait = [t \in LockThreads |-> FALSE]
    /\ seen = [t \in LockThreads |-> Free]
    /\ lockPc = [t \in LockThreads |-> "out"]

at(t, where) == lockPc[t] = where
move(t, where) == lockPc' = [lockPc EXCEPT ![t] = where]
remember(t) == seen' = [seen EXCEPT ![t] = val]
forget(t) == seen' = [seen EXCEPT ![t] = Free]

\* _val & ~_Q_LOCKED_MASK
contended(v) == v.pending # 0 \/ v.tail # NoThread

-----------------------------------------------------------------------------
(* lock, try_lock and the slow path                                        *)

\* lock and try_lock: the word is free and is taken at once, or lock enters the
\* slow path with the value found
lockFast(t) ==
    /\ at(t, "out")
    /\ remember(t)
    /\ IF val = Free THEN val' = [val EXCEPT !.locked = 1] /\ move(t, "in")
       ELSE move(t, "slow") /\ UNCHANGED val
    /\ UNCHANGED <<nodeNext, nodeWait>>

\* queuedSpinlockSlowpath: wait while a pending thread takes over, then queue
\* when there is contention
slowPath(t) ==
    /\ at(t, "slow")
    /\ IF seen[t] = [Free EXCEPT !.pending = 1]
         THEN val # seen[t] /\ remember(t) /\ UNCHANGED lockPc
         ELSE move(t, IF contended(seen[t]) THEN "queue" ELSE "setPending")
              /\ forget(t)
    /\ UNCHANGED <<val, nodeNext, nodeWait>>

\* setPendingAndGetOldValue and the test of the old value
setPending(t) ==
    /\ at(t, "setPending")
    /\ val' = [val EXCEPT !.pending = 1]
    /\ move(t, IF contended(val) THEN IF val.pending = 0 THEN "unsetPending" ELSE "queue"
               ELSE IF val.locked = 1 THEN "waitOwner" ELSE "take")
    /\ UNCHANGED <<nodeNext, nodeWait, seen>>

unsetPending(t) ==
    /\ at(t, "unsetPending")
    /\ val' = [val EXCEPT !.pending = 0]
    /\ move(t, "queue")
    /\ UNCHANGED <<nodeNext, nodeWait, seen>>

\* the pending thread waits for the owner to go away
waitOwner(t) ==
    /\ at(t, "waitOwner")
    /\ val.locked = 0
    /\ move(t, "take")
    /\ UNCHANGED <<val, nodeNext, nodeWait, seen>>

\* clearPendingSetLocked is one addition to the word
clearPendingSetLocked(t) ==
    /\ at(t, "take")
    /\ val' = [val EXCEPT !.pending = @ - 1, !.locked = @ + 1]
    /\ move(t, "in")
    /\ UNCHANGED <<nodeNext, nodeWait, seen>>

-----------------------------------------------------------------------------
(* queued                                                                  *)

\* the node is initialised and the lock tried once more
queueNode(t) ==
    /\ at(t, "queue")
    /\ nodeNext' = [nodeNext EXCEPT ![t] = NoThread]
    /\ nodeWait' = [nodeWait EXCEPT ![t] = FALSE]
    /\ IF val = Free THEN val' = [val EXCEPT !.locked = 1] /\ move(t, "in")
       ELSE move(t, "xchg") /\ UNCHANGED val
    /\ UNCHANGED seen

xchgTail(t) ==
    /\ at(t, "xchg")
    /\ val' = [val EXCEPT !.tail = t]
    /\ IF val.tail = NoThread THEN move(t, "head") /\ UNCHANGED seen
       ELSE move(t, "link") /\ remember(t)
    /\ UNCHANGED <<nodeNext, nodeWait>>

\* prev->next = node
linkNode(t) ==
    /\ at(t, "link")
    /\ nodeNext' = [nodeNext EXCEPT ![seen[t].tail] = t]
    /\ move(t, "spin")
    /\ forget(t)
    /\ UNCHANGED <<val, nodeWait>>

\* while (!node->wait)
reachHead(t) ==
    /\ at(t, "spin")
    /\ nodeWait[t]
    /\ nodeWait' = [nodeWait EXCEPT ![t] = FALSE]
    /\ move(t, "head")
    /\ UNCHANGED <<val, nodeNext, seen>>

\* the head of the queue waits for the owner and the pending thread
waitFree(t) ==
    /\ at(t, "head")
    /\ val.locked = 0 /\ val.pending = 0
    /\ IF val.tail = t THEN move(t, "claim") /\ remember(t)
       ELSE move(t, "claimQueued") /\ UNCHANGED seen
    /\ UNCHANGED <<val, nodeNext, nodeWait>>

claimIf(t, alone) ==
    /\ at(t, "claim")
    /\ IF alone THEN val' = [Free EXCEPT !.locked = 1] /\ move(t, "in")
       ELSE move(t, "claimQueued") /\ UNCHANGED val
    /\ forget(t)
    /\ UNCHANGED <<nodeNext, nodeWait>>

\* Mutant: the tail is cleared with a plain store.
claim_Store(t) == claimIf(t, TRUE)

\* alone in the queue: n,0,0 -> 0,0,1 unless the word has changed
claim(t) == claimIf(t, val = seen[t])

\* *,*,0 -> *,*,1
claimQueued(t) ==
    /\ at(t, "claimQueued")
    /\ val' = [val EXCEPT !.locked = 1]
    /\ move(t, "handOver")
    /\ UNCHANGED <<nodeNext, nodeWait, seen>>

handOverWhen(t, linked) ==
    /\ at(t, "handOver")
    /\ linked
    /\ nodeWait' = [n \in LockThreads |-> nodeWait[n] \/ n = nodeNext[t]]
    /\ nodeNext' = [nodeNext EXCEPT ![t] = NoThread]
    /\ move(t, "in")
    /\ UNCHANGED <<val, seen>>

\* Mutant: a next thread that links itself late is not told.
handOver_Late(t) == handOverWhen(t, TRUE)

\* wait for the next node and make it the head
handOver(t) == handOverWhen(t, nodeNext[t] # NoThread)

unlock(t) ==
    /\ at(t, "in")
    /\ val' = [val EXCEPT !.locked = 0]
    /\ move(t, "out")
    /\ UNCHANGED <<nodeNext, nodeWait, seen>>

lockStep(t) ==
    \/ slowPath(t) \/ setPending(t) \/ unsetPending(t) \/ waitOwner(t)
    \/ clearPendingSetLocked(t) \/ queueNode(t) \/ xchgTail(t) \/ linkNode(t)
    \/ reachHead(t) \/ waitFree(t) \/ claim(t) \/ claimQueued(t) \/ handOver(t)
    \/ unlock(t)

LockNext == \E t \in LockThreads : lockFast(t) \/ lockStep(t)

LockSpec == LockInit /\ [][LockNext]_lockVars

\* Every thread is run by the operating system; a thread need not ask for the
\* lock but gives it back.
LockFairness == \A t \in LockThreads : WF_lockVars(lockStep(t))

-----------------------------------------------------------------------------
(* Properties                                                              *)

LockTypeOK ==
    /\ val \in [locked : 0 .. 1, pending : 0 .. 1, tail : LockThreads \cup {NoThread}]
    /\ nodeNext \in [LockThreads -> LockThreads \cup {NoThread}]
    /\ nodeWait \in [LockThreads -> BOOLEAN]
    /\ seen \in [LockThreads -> [locked : 0 .. 1, pending : 0 .. 1,
                                 tail : LockThreads \cup {NoThread}]]
    /\ lockPc \in [LockThreads ->
         {"out", "slow", "setPending", "unsetPending", "waitOwner", "take",
          "queue", "xchg", "link", "spin", "head", "claim", "claimQueued",
          "handOver", "in"}]

Owners == {t \in LockThreads : lockPc[t] \in {"handOver", "in"}}

\* One thread at a time has the lock, whether it took it at once, as the pending
\* thread or from the queue, and the locked byte says whether there is one
\* (qspinlock::lock, queued and unlock).
LockExclusive == Cardinality(Owners) <= 1 /\ (val.locked = 1 <=> Owners # {})

\* A thread that has put itself into the queue gets the lock, although other
\* threads come through the pending bit and the fast path (queued).
QueuedGetsLock ==
    \A t \in LockThreads : at(t, "link") \/ at(t, "head") ~> at(t, "in")
=============================================================================
