----------------------------- MODULE FifoQueue -----------------------------
(***************************************************************************)
(* What util/ringFixedQueue.h promises its users: a bounded FIFO channel.  *)
(* The n-th element pushed is the number n, so `received' is in order and  *)
(* complete exactly when received[i] = i for every i.                      *)
(***************************************************************************)
EXTENDS Naturals, Sequences

CONSTANTS
    Capacity,   \* elements the queue can hold
    MaxPush     \* bound on the number of pushes explored

VARIABLES
    queue,      \* the elements pushed and not yet popped, oldest first
    sent,       \* number of elements pushed so far
    received    \* the elements popped, in the order in which they left

fifoVars == <<queue, sent, received>>

Init ==
    /\ queue = <<>>
    /\ sent = 0
    /\ received = <<>>

Push ==
    /\ sent < MaxPush
    /\ Len(queue) < Capacity
    /\ sent' = sent + 1
    /\ queue' = Append(queue, sent')
    /\ UNCHANGED received

Pop ==
    /\ queue # <<>>
    /\ received' = Append(received, Head(queue))
    /\ queue' = Tail(queue)
    /\ UNCHANGED sent

Next == Push \/ Pop

\* A queue that is served keeps delivering what it holds.
Spec == Init /\ [][Next]_fifoVars /\ WF_fifoVars(Pop)
=============================================================================
