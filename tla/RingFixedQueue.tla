--------------------------- MODULE RingFixedQueue ---------------------------
(***************************************************************************)
(* util/ringFixedQueue.h: the ring through which the one writer thread     *)
(* hands finished blocks to the flush threads (database::m_unflushedBlocks).*)
(* One action is one access to shared memory.  `head' is a plain int and   *)
(* `end' a relaxed atomic; the project builds with -g and no optimisation  *)
(* for x86 (CMakeLists.txt), so every access is performed, in program      *)
(* order, and the stores of the producer become visible in that order.     *)
(*                                                                         *)
(* The n-th element pushed is the number n; 0 is the content of a slot     *)
(* that was never written.  The sleeps of the two wait loops are           *)
(* stuttering steps and the expiry of `outtime' is a choice that is open   *)
(* as long as the loop waits.                                              *)
(***************************************************************************)
EXTENDS Integers, Sequences

CONSTANTS
    arraySize,  \* slots of the ring (a power of two in the code)
    Poppers,    \* threads that call pop
    MaxPush     \* bound on the number of pushes explored

ASSUME ArraySizeAssumption == arraySize \in Nat \ {0}
ASSUME MaxPushAssumption == MaxPush \in Nat

VARIABLES
    array,      \* the slots
    head,       \* next slot to write, owned by the producer
    end,        \* next slot to read, advanced by compare-and-swap
    pushPc,     \* where the producer stands in push
    popPc,      \* where each consumer stands in pop
    e,          \* each consumer's local copy of `end'
    v,          \* each consumer's local copy of the element
    pushed,     \* history: number of completed pushes
    popped,     \* history: number of completed pops
    seenAt,     \* history: value of `popped' when e was last loaded
    out,        \* history: the elements delivered, in order
    lappedTake  \* history: some pop succeeded although it was lapped

sharedVars == <<array, head, end>>
localVars == <<pushPc, popPc, e, v>>
histVars == <<pushed, popped, seenAt, out, lappedTake>>
vars == <<array, head, end, pushPc, popPc, e, v,
          pushed, popped, seenAt, out, lappedTake>>

Slots == 0 .. (arraySize - 1)

\* Mutant: the mask is forgotten.
nextSlot_NoMask(i) == i + 1

\* (i + 1) & mask
nextSlot(i) == IF i = arraySize - 1 THEN 0 ELSE i + 1

\* How many steps of nextSlot lead from slot i to slot j.
distance(i, j) == IF i <= j THEN j - i ELSE j - i + arraySize

\* A consumer is lapped when the ring went round at least once since it
\* loaded `end': the slot number it holds is right again, its element is not.
lapped(p) == popped - seenAt[p] >= arraySize

Init ==
    /\ array = [i \in Slots |-> 0]
    /\ head = 0
    /\ end = 0
    /\ pushPc = "idle"
    /\ popPc = [p \in Poppers |-> "idle"]
    /\ e = [p \in Poppers |-> 0]
    /\ v = [p \in Poppers |-> 0]
    /\ pushed = 0
    /\ popped = 0
    /\ seenAt = [p \in Poppers |-> 0]
    /\ out = <<>>
    /\ lappedTake = FALSE

-----------------------------------------------------------------------------
(* bool push(const T& v, int32_t outtime): the only producer.              *)

pushBegin ==
    /\ pushPc = "idle"
    /\ pushed < MaxPush
    /\ pushPc' = "wait"
    /\ UNCHANGED <<sharedVars, popPc, e, v, histVars>>

\* next == end.load() and outtime has run out: return false.
pushTimeout ==
    /\ pushPc = "wait"
    /\ nextSlot(head) = end
    /\ pushPc' = "idle"
    /\ UNCHANGED <<sharedVars, popPc, e, v, histVars>>

\* Mutant: the full test is dropped.
pushHasRoom_Unchecked ==
    /\ pushPc = "wait"
    /\ pushPc' = "store"
    /\ UNCHANGED <<sharedVars, popPc, e, v, histVars>>

pushHasRoom ==
    /\ pushPc = "wait"
    /\ nextSlot(head) # end
    /\ pushPc' = "store"
    /\ UNCHANGED <<sharedVars, popPc, e, v, histVars>>

\* Mutant: head is incremented before the element is stored.
pushStore_PreIncrement ==
    /\ pushPc = "store"
    /\ array' = [array EXCEPT ![nextSlot(head)] = pushed + 1]
    /\ pushPc' = "publish"
    /\ UNCHANGED <<head, end, popPc, e, v, histVars>>

pushStore ==
    /\ pushPc = "store"
    /\ array' = [array EXCEPT ![head] = pushed + 1]
    /\ pushPc' = "publish"
    /\ UNCHANGED <<head, end, popPc, e, v, histVars>>

pushPublish ==
    /\ pushPc = "publish"
    /\ head' = nextSlot(head)
    /\ pushed' = pushed + 1
    /\ pushPc' = "idle"
    /\ UNCHANGED <<array, end, popPc, e, v, popped, seenAt, out, lappedTake>>

push == pushBegin \/ pushTimeout \/ pushHasRoom \/ pushStore \/ pushPublish

-----------------------------------------------------------------------------
(* bool pop(T& v, int32_t outtime): any number of consumers.               *)

popLoadEnd(p) ==
    /\ popPc[p] = "idle"
    /\ popPc' = [popPc EXCEPT ![p] = "wait"]
    /\ e' = [e EXCEPT ![p] = end]
    /\ seenAt' = [seenAt EXCEPT ![p] = popped]
    /\ UNCHANGED <<sharedVars, pushPc, v, pushed, popped, out, lappedTake>>

\* e == head and outtime has run out: return false.  e is not reloaded while
\* waiting.
popTimeout(p) ==
    /\ popPc[p] = "wait"
    /\ e[p] = head
    /\ popPc' = [popPc EXCEPT ![p] = "idle"]
    /\ UNCHANGED <<sharedVars, pushPc, e, v, histVars>>

popNotEmpty(p) ==
    /\ popPc[p] = "wait"
    /\ e[p] # head
    /\ popPc' = [popPc EXCEPT ![p] = "read"]
    /\ UNCHANGED <<sharedVars, pushPc, e, v, histVars>>

popRead(p) ==
    /\ popPc[p] = "read"
    /\ v' = [v EXCEPT ![p] = array[e[p]]]
    /\ popPc' = [popPc EXCEPT ![p] = "cas"]
    /\ UNCHANGED <<sharedVars, pushPc, e, histVars>>

\* compare_exchange_weak(e, (e + 1) & mask) succeeds: return true.
popTake(p) ==
    /\ popPc[p] = "cas"
    /\ end = e[p]
    /\ end' = nextSlot(end)
    /\ popped' = popped + 1
    /\ out' = Append(out, v[p])
    /\ lappedTake' = (lappedTake \/ lapped(p))
    /\ popPc' = [popPc EXCEPT ![p] = "idle"]
    /\ UNCHANGED <<array, head, pushPc, e, v, pushed, seenAt>>

\* Mutant: the loop retries the compare-and-swap without reading again.
popRetry_KeepElement(p) ==
    /\ popPc[p] = "cas"
    /\ end # e[p]
    /\ e' = [e EXCEPT ![p] = end]
    /\ seenAt' = [seenAt EXCEPT ![p] = popped]
    /\ UNCHANGED <<sharedVars, pushPc, popPc, v, pushed, popped, out, lappedTake>>

\* compare_exchange_weak fails and stores the current `end' in e.
popRetry(p) ==
    /\ popPc[p] = "cas"
    /\ end # e[p]
    /\ e' = [e EXCEPT ![p] = end]
    /\ seenAt' = [seenAt EXCEPT ![p] = popped]
    /\ popPc' = [popPc EXCEPT ![p] = "wait"]
    /\ UNCHANGED <<sharedVars, pushPc, v, pushed, popped, out, lappedTake>>

pop(p) == \/ popLoadEnd(p) \/ popTimeout(p) \/ popNotEmpty(p)
          \/ popRead(p) \/ popTake(p) \/ popRetry(p)

Next == push \/ \E p \in Poppers : pop(p)

Spec == Init /\ [][Next]_vars

\* Consumers poll: a flush thread calls pop again after every call.  Every
\* thread is scheduled, so a consumer that can take a step takes it; nothing
\* is assumed of the producer beyond finishing a push it has started.
FairSpec ==
    /\ Spec
    /\ WF_vars(pushStore \/ pushPublish)
    /\ \A p \in Poppers : WF_vars(pop(p))

-----------------------------------------------------------------------------
(* Properties                                                              *)

TypeOK ==
    /\ array \in [Slots -> Nat]
    /\ head \in Slots
    /\ end \in Slots
    /\ pushPc \in {"idle", "wait", "store", "publish"}
    /\ popPc \in [Poppers -> {"idle", "wait", "read", "cas"}]
    /\ e \in [Poppers -> Slots]
    /\ v \in [Poppers -> Nat]
    /\ pushed \in Nat
    /\ popped \in Nat
    /\ seenAt \in [Poppers -> Nat]
    /\ out \in Seq(Nat)
    /\ lappedTake \in BOOLEAN

\* Unless a consumer slept through a whole round of the ring, the two indices
\* never disagree with the number of elements in transit, and one slot always
\* stays free: a full ring cannot be mistaken for an empty one (the full test
\* of push, line 43, against the empty test of pop, line 64).
OccupancyExact ==
    \/ lappedTake
    \/ /\ pushed - popped = distance(end, head)
       /\ pushed - popped < arraySize

\* Under the same proviso the producer never overwrites an element that was
\* not delivered: the slots from `end' up to `head' hold the elements in push
\* order (push, line 50, against the compare-and-swap of pop, line 72).
PendingIntact ==
    \/ lappedTake
    \/ \A s \in Slots :
           distance(end, s) < distance(end, head) =>
               array[s] = popped + distance(end, s) + 1

\* pop, line 55 "thread safe,multi thread can pop": the i-th element delivered
\* is the i-th pushed, to whichever consumer, unless a consumer slept through
\* a whole round between loading `end' and its compare-and-swap.
InOrderUnlessLapped ==
    \/ lappedTake
    \/ /\ Len(out) = popped
       /\ \A i \in DOMAIN out : out[i] = i

\* The inductive strengthening of the three, used by the proofs: what each
\* thread knows between its steps.
PushKnows ==
    /\ pushPc \in {"store", "publish"} => nextSlot(head) # end
    /\ pushPc = "publish" => array[head] = pushed + 1

PopKnows(p) ==
    popPc[p] # "idle" =>
        /\ seenAt[p] <= popped
        /\ ~lapped(p) => popped - seenAt[p] = distance(e[p], end)
        /\ popPc[p] # "wait" => seenAt[p] < pushed
        /\ (popPc[p] = "cas" /\ seenAt[p] = popped) => v[p] = popped + 1

RingInv ==
    /\ TypeOK
    /\ OccupancyExact
    /\ PendingIntact
    /\ InOrderUnlessLapped
    /\ lappedTake \/ PushKnows
    /\ lappedTake \/ \A p \in Poppers : PopKnows(p)

\* The comment of pop taken at its word: every element is delivered exactly
\* once and in order, whatever the consumers do.
ExactlyOnce == \A i \in DOMAIN out : out[i] = i

\* Whatever is pushed is delivered as long as the consumers keep polling and
\* none is lapped: lost compare-and-swaps and time-outs leave nothing behind.
EventuallyDelivered ==
    \A n \in 1 .. MaxPush :
        (pushed >= n) ~> (lappedTake \/ \E i \in DOMAIN out : out[i] = n)

\* The ring read as the queue it stands for.
contents == [i \in 1 .. distance(end, head) |->
               array[CHOOSE s \in Slots : distance(end, s) = i - 1]]

Fifo == INSTANCE FifoQueue WITH
            Capacity <- arraySize - 1,
            queue    <- contents,
            sent     <- pushed,
            received <- out

\* With one consumer the ring implements the FIFO channel.
ImplementsFifo == Fifo!Spec
=============================================================================
