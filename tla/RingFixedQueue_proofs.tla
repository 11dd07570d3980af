----------------------- MODULE RingFixedQueue_proofs -----------------------
(***************************************************************************)
(* TLAPS proofs about RingFixedQueue, for every ring size, every set of    *)
(* consumers and every number of pushes.                                   *)
(***************************************************************************)
EXTENDS RingFixedQueue, TLAPS

-----------------------------------------------------------------------------
(* Arithmetic of the ring                                                  *)

\* (i + 1) & mask stays on the ring.
LEMMA NextSlotType ==
    ASSUME NEW i \in Slots
    PROVE  nextSlot(i) \in Slots
BY ArraySizeAssumption DEF Slots, nextSlot

\* A distance is a natural number below the ring size, and zero only between
\* a slot and itself.
LEMMA DistanceType ==
    ASSUME NEW i \in Slots, NEW j \in Slots
    PROVE  /\ distance(i, j) \in 0 .. (arraySize - 1)
           /\ distance(i, j) = 0 <=> i = j
BY ArraySizeAssumption DEF Slots, distance

\* Advancing the far index adds one, unless it catches up with the near one.
LEMMA DistanceFar ==
    ASSUME NEW i \in Slots, NEW j \in Slots
    PROVE  distance(i, nextSlot(j)) =
             IF nextSlot(j) = i THEN 0 ELSE distance(i, j) + 1
BY ArraySizeAssumption DEF Slots, distance, nextSlot

\* Advancing the far index all the way round takes arraySize steps.
LEMMA DistanceWrap ==
    ASSUME NEW i \in Slots, NEW j \in Slots, nextSlot(j) = i
    PROVE  distance(i, j) = arraySize - 1
BY ArraySizeAssumption DEF Slots, distance, nextSlot

\* Advancing the near index takes one away, unless the two were equal.
LEMMA DistanceNear ==
    ASSUME NEW i \in Slots, NEW j \in Slots
    PROVE  distance(nextSlot(i), j) =
             IF i = j THEN arraySize - 1 ELSE distance(i, j) - 1
BY ArraySizeAssumption DEF Slots, distance, nextSlot

\* Two slots at the same distance are the same slot.
LEMMA DistanceInjective ==
    ASSUME NEW i \in Slots, NEW j \in Slots, NEW k \in Slots,
           distance(i, j) = distance(i, k)
    PROVE  j = k
BY ArraySizeAssumption DEF Slots, distance

-----------------------------------------------------------------------------
(* Type correctness                                                        *)

\* The types hold at first.
LEMMA TypeInit == Init => TypeOK
<1> SUFFICES ASSUME Init PROVE TypeOK
  OBVIOUS
<1>1. lappedTake \in BOOLEAN
  BY Zenon DEF Init
<1>2. 0 \in Slots
  BY ArraySizeAssumption DEF Slots
<1>3. out \in Seq(Nat)
  BY DEF Init
<1> QED
  BY <1>1, <1>2, <1>3 DEF Init, TypeOK

\* Every step keeps the types.
LEMMA TypeStep == TypeOK /\ [Next]_vars => TypeOK'
<1> SUFFICES ASSUME TypeOK, [Next]_vars PROVE TypeOK'
  OBVIOUS
<1> USE DEF TypeOK, sharedVars, histVars
<1>1. CASE pushBegin
  BY <1>1 DEF pushBegin
<1>2. CASE pushTimeout
  BY <1>2 DEF pushTimeout
<1>3. CASE pushHasRoom
  BY <1>3 DEF pushHasRoom
<1>4. CASE pushStore
  BY <1>4 DEF pushStore
<1>5. CASE pushPublish
  BY <1>5, NextSlotType DEF pushPublish
<1>6. ASSUME NEW p \in Poppers, popLoadEnd(p) PROVE TypeOK'
  BY <1>6 DEF popLoadEnd
<1>7. ASSUME NEW p \in Poppers, popTimeout(p) PROVE TypeOK'
  BY <1>7 DEF popTimeout
<1>8. ASSUME NEW p \in Poppers, popNotEmpty(p) PROVE TypeOK'
  BY <1>8 DEF popNotEmpty
<1>9. ASSUME NEW p \in Poppers, popRead(p) PROVE TypeOK'
  BY <1>9 DEF popRead
<1>10. ASSUME NEW p \in Poppers, popTake(p) PROVE TypeOK'
  <2>1. lappedTake' \in BOOLEAN
    BY <1>10, Zenon DEF popTake, lapped
  <2>2. out' \in Seq(Nat)
    BY <1>10 DEF popTake
  <2> QED
    BY <1>10, <2>1, <2>2, NextSlotType DEF popTake
<1>11. ASSUME NEW p \in Poppers, popRetry(p) PROVE TypeOK'
  BY <1>11 DEF popRetry
<1>12. CASE UNCHANGED vars
  BY <1>12 DEF vars
<1> QED
  BY <1>1, <1>2, <1>3, <1>4, <1>5, <1>6, <1>7, <1>8, <1>9, <1>10, <1>11, <1>12
     DEF Next, push, pop

\* Every variable of the ring keeps its type: in particular both indices stay
\* inside the array whatever the consumers do.
THEOREM TypeCorrect == Spec => []TypeOK
BY TypeInit, TypeStep, PTL DEF Spec

-----------------------------------------------------------------------------
(* The ring is sound until a lapped consumer takes an element              *)

\* What RingInv says of a ring on which no lapped pop has succeeded.
Sound ==
    /\ pushed - popped = distance(end, head)
    /\ \A s \in Slots :
           distance(end, s) < distance(end, head) =>
               array[s] = popped + distance(end, s) + 1
    /\ Len(out) = popped
    /\ \A i \in DOMAIN out : out[i] = i
    /\ PushKnows
    /\ \A p \in Poppers : PopKnows(p)

\* The invariant says nothing once a lapped take happened, and Sound before.
LEMMA RingInvSplit == TypeOK => (RingInv <=> (lappedTake \/ Sound))
<1> SUFFICES ASSUME TypeOK PROVE RingInv <=> (lappedTake \/ Sound)
  OBVIOUS
<1>1. pushed - popped = distance(end, head) => pushed - popped < arraySize
  BY DistanceType, ArraySizeAssumption DEF TypeOK
<1> QED
  BY <1>1 DEF RingInv, Sound, OccupancyExact, PendingIntact, InOrderUnlessLapped

\* An empty ring is sound.
LEMMA SoundInit == Init => Sound
<1> SUFFICES ASSUME Init PROVE Sound
  OBVIOUS
<1>1. 0 \in Slots /\ distance(0, 0) = 0
  BY ArraySizeAssumption DEF Slots, distance
<1>2. \A s \in Slots : ~(distance(0, s) < 0)
  BY <1>1, DistanceType, ArraySizeAssumption
<1> QED
  BY <1>1, <1>2 DEF Init, Sound, PushKnows, PopKnows

\* The producer's steps keep the ring sound.
LEMMA SoundPush == TypeOK /\ Sound /\ push => Sound'
<1> SUFFICES ASSUME TypeOK, Sound, push PROVE Sound'
  OBVIOUS
<1> USE DEF sharedVars, histVars
<1>1. CASE pushBegin
  BY <1>1 DEF pushBegin, Sound, PushKnows, PopKnows, lapped, distance, nextSlot
<1>2. CASE pushTimeout
  BY <1>2 DEF pushTimeout, Sound, PushKnows, PopKnows, lapped, distance, nextSlot
<1>3. CASE pushHasRoom
  BY <1>3 DEF pushHasRoom, Sound, PushKnows, PopKnows, lapped, distance, nextSlot
<1>4. CASE pushStore
  <2>1. UNCHANGED <<head, end, pushed, popped, out, popPc, e, v, seenAt>>
    BY <1>4 DEF pushStore
  <2>2. \A s \in Slots : s # head => array'[s] = array[s]
    BY <1>4 DEF pushStore, TypeOK
  <2>3. array'[head] = pushed + 1
    BY <1>4 DEF pushStore, TypeOK
  <2>4. PushKnows'
    BY <1>4, <2>1, <2>3 DEF pushStore, Sound, PushKnows, nextSlot
  <2>5. \A p \in Poppers : PopKnows(p)'
    BY <2>1 DEF Sound, PopKnows, lapped, distance
  <2>6. \A s \in Slots : distance(end, s) < distance(end, head) => s # head
    BY DistanceType, ArraySizeAssumption DEF TypeOK
  <2>7. (\A s \in Slots : distance(end, s) < distance(end, head) =>
               array[s] = popped + distance(end, s) + 1)'
    BY <2>1, <2>2, <2>6 DEF Sound, distance, Slots
  <2> QED
    BY <2>1, <2>4, <2>5, <2>7 DEF Sound, distance
<1>5. CASE pushPublish
  <2>1. /\ UNCHANGED <<array, end, popped, out, popPc, e, v, seenAt>>
        /\ head' = nextSlot(head) /\ pushed' = pushed + 1 /\ pushPc' = "idle"
    BY <1>5 DEF pushPublish
  <2>2. nextSlot(head) # end /\ array[head] = pushed + 1
    BY <1>5 DEF pushPublish, Sound, PushKnows
  <2>3. distance(end, nextSlot(head)) = distance(end, head) + 1
    BY <2>2, DistanceFar DEF TypeOK
  <2>4. (pushed - popped = distance(end, head))'
    BY <2>1, <2>3 DEF Sound, TypeOK, distance
  <2>5. ASSUME NEW s \in Slots, distance(end, s) < distance(end, head) + 1
        PROVE  array[s] = popped + distance(end, s) + 1
    <3>1. CASE s = head
      BY <3>1, <2>2 DEF Sound, TypeOK
    <3>2. CASE s # head
      <4>1. distance(end, s) # distance(end, head)
        BY <3>2, DistanceInjective DEF TypeOK
      <4>2. distance(end, s) < distance(end, head)
        BY <4>1, <2>5, DistanceType, ArraySizeAssumption DEF TypeOK
      <4> QED
        BY <4>2 DEF Sound
    <3> QED
      BY <3>1, <3>2
  <2>6. (\A s \in Slots : distance(end, s) < distance(end, head) =>
               array[s] = popped + distance(end, s) + 1)'
    BY <2>1, <2>3, <2>5 DEF distance, Slots
  <2>7. \A p \in Poppers : PopKnows(p)'
    BY <2>1 DEF Sound, PopKnows, lapped, distance, TypeOK
  <2>8. PushKnows'
    BY <2>1 DEF PushKnows
  <2> QED
    BY <2>1, <2>4, <2>6, <2>7, <2>8 DEF Sound
<1> QED
  BY <1>1, <1>2, <1>3, <1>4, <1>5 DEF push

\* A consumer's steps before its compare-and-swap succeeds only change what it
\* knows itself.
LEMMA SoundPopLocal ==
    ASSUME TypeOK, Sound, NEW p \in Poppers,
           UNCHANGED <<array, head, end, pushPc, pushed, popped, out>>,
           \A q \in Poppers \ {p} :
               /\ popPc'[q] = popPc[q] /\ e'[q] = e[q]
               /\ v'[q] = v[q] /\ seenAt'[q] = seenAt[q],
           PopKnows(p)'
    PROVE  Sound'
<1>1. \A q \in Poppers \ {p} : PopKnows(q)'
  BY DEF Sound, PopKnows, lapped, distance
<1>2. PushKnows'
  BY DEF Sound, PushKnows, nextSlot
<1> QED
  BY <1>1, <1>2 DEF Sound, distance, Slots

\* A compare-and-swap that succeeds takes the oldest element, unless lapped.
LEMMA SoundPopTake ==
    ASSUME TypeOK, Sound, NEW p \in Poppers, popTake(p), ~lapped(p)
    PROVE  Sound'
<1> USE DEF TypeOK
<1>1. /\ UNCHANGED <<array, head, pushPc, e, v, pushed, seenAt>>
      /\ popPc[p] = "cas" /\ e[p] = end /\ end' = nextSlot(end)
      /\ popped' = popped + 1 /\ out' = Append(out, v[p])
      /\ popPc' = [popPc EXCEPT ![p] = "idle"]
  BY DEF popTake
<1>2. seenAt[p] = popped /\ v[p] = popped + 1 /\ popped < pushed
  <2>1. PopKnows(p)
    BY DEF Sound
  <2>2. distance(e[p], end) = 0
    BY <1>1, DistanceType
  <2> QED
    BY <1>1, <2>1, <2>2 DEF PopKnows
<1>3. end # head
  BY <1>2, DistanceType DEF Sound
<1>4. \A s \in Slots : distance(nextSlot(end), s) =
                         IF s = end THEN arraySize - 1 ELSE distance(end, s) - 1
  BY DistanceNear
<1>5. (pushed - popped = distance(end, head))'
  BY <1>1, <1>3, <1>4 DEF Sound, distance
<1>6. (\A s \in Slots : distance(end, s) < distance(end, head) =>
               array[s] = popped + distance(end, s) + 1)'
  <2> SUFFICES ASSUME NEW s \in Slots,
                      distance(nextSlot(end), s) < distance(nextSlot(end), head)
               PROVE  array[s] = popped + 1 + distance(nextSlot(end), s) + 1
    BY <1>1 DEF distance, Slots
  <2>1. distance(nextSlot(end), head) = distance(end, head) - 1
    BY <1>3, <1>4
  <2>2. s # end
    BY <1>4, <2>1, DistanceType, ArraySizeAssumption
  <2>3. distance(nextSlot(end), s) = distance(end, s) - 1
    BY <1>4, <2>2
  <2>4. distance(end, s) < distance(end, head)
    <3>1. PICK a \in Int : a = distance(end, s)
      BY DistanceType, ArraySizeAssumption
    <3>2. PICK b \in Int : b = distance(end, head)
      BY <1>3, DistanceType, ArraySizeAssumption
    <3>3. a - 1 < b - 1
      BY <2>1, <2>3, <3>1, <3>2
    <3> QED BY <3>1, <3>2, <3>3
  <2>5. array[s] = popped + distance(end, s) + 1
    BY <2>4 DEF Sound
  <2>6. distance(end, s) \in Int
    BY DistanceType, ArraySizeAssumption
  <2> QED
    BY <2>3, <2>5, <2>6
<1>7. (Len(out) = popped /\ \A i \in DOMAIN out : out[i] = i)'
  BY <1>1, <1>2 DEF Sound
<1>8. PushKnows'
  <2>1. nextSlot(head) # end => nextSlot(head) # nextSlot(end)
    BY <1>3, ArraySizeAssumption DEF nextSlot, Slots
  <2> QED
    BY <1>1, <2>1 DEF Sound, PushKnows
<1>9. ASSUME NEW q \in Poppers PROVE PopKnows(q)'
  <2>1. CASE q = p
    BY <1>1, <2>1 DEF PopKnows
  <2>2. CASE q # p
    <3>1. popPc'[q] = popPc[q] /\ PopKnows(q)
      BY <1>1, <2>2 DEF Sound
    <3> SUFFICES ASSUME popPc[q] # "idle"
                 PROVE  /\ seenAt[q] <= popped + 1
                        /\ ~(popped + 1 - seenAt[q] >= arraySize) =>
                              popped + 1 - seenAt[q] = distance(e[q], nextSlot(end))
                        /\ popPc[q] # "wait" => seenAt[q] < pushed
                        /\ seenAt[q] # popped + 1
      BY <1>1, <3>1 DEF PopKnows, lapped, distance
    <3>2. seenAt[q] <= popped
      BY <3>1 DEF PopKnows
    <3>3. ASSUME ~(popped + 1 - seenAt[q] >= arraySize)
          PROVE  popped + 1 - seenAt[q] = distance(e[q], nextSlot(end))
      <4>1. popped - seenAt[q] = distance(e[q], end)
        BY <3>1, <3>3, ArraySizeAssumption DEF PopKnows, lapped
      <4>2. distance(e[q], end) # arraySize - 1
        BY <3>3, <4>1, ArraySizeAssumption
      <4>3. nextSlot(end) # e[q]
        BY <4>2, DistanceWrap
      <4> QED
        BY <4>1, <4>3, DistanceFar, ArraySizeAssumption
    <3> QED
      BY <3>1, <3>2, <3>3 DEF PopKnows
  <2> QED
    BY <2>1, <2>2
<1> QED
  BY <1>5, <1>6, <1>7, <1>8, <1>9 DEF Sound

\* Every step keeps the ring sound or takes an element as a lapped consumer.
LEMMA SoundStep == TypeOK /\ Sound /\ [Next]_vars => Sound' \/ lappedTake'
<1> SUFFICES ASSUME TypeOK, Sound, [Next]_vars PROVE Sound' \/ lappedTake'
  OBVIOUS
<1> USE DEF sharedVars, histVars, TypeOK
<1>1. CASE push
  BY <1>1, SoundPush
<1>2. ASSUME NEW p \in Poppers, popLoadEnd(p) PROVE Sound'
  <2>1. PopKnows(p)'
    BY <1>2, DistanceType, ArraySizeAssumption
       DEF popLoadEnd, PopKnows, lapped, distance
  <2> QED
    BY <1>2, <2>1, SoundPopLocal DEF popLoadEnd
<1>3. ASSUME NEW p \in Poppers, popTimeout(p) PROVE Sound'
  <2>1. PopKnows(p)'
    BY <1>3 DEF popTimeout, PopKnows
  <2> QED
    BY <1>3, <2>1, SoundPopLocal DEF popTimeout
<1>4. ASSUME NEW p \in Poppers, popNotEmpty(p) PROVE Sound'
  <2>1. seenAt[p] < pushed
    <3>1. seenAt[p] <= popped /\ (~lapped(p) => popped - seenAt[p] = distance(e[p], end))
      BY <1>4 DEF popNotEmpty, Sound, PopKnows
    <3>2. popped <= pushed /\ (popped = pushed => end = head)
      BY DistanceType, ArraySizeAssumption DEF Sound
    <3>3. popped = seenAt[p] => e[p] = end
      BY <3>1, DistanceType, ArraySizeAssumption DEF lapped
    <3> QED
      BY <1>4, <3>1, <3>2, <3>3 DEF popNotEmpty
  <2>2. PopKnows(p)'
    BY <1>4, <2>1 DEF popNotEmpty, Sound, PopKnows, lapped, distance
  <2> QED
    BY <1>4, <2>2, SoundPopLocal DEF popNotEmpty
<1>5. ASSUME NEW p \in Poppers, popRead(p) PROVE Sound'
  <2>1. ASSUME seenAt[p] = popped PROVE array[e[p]] = popped + 1
    <3>1. PopKnows(p)
      BY DEF Sound
    <3>2. e[p] = end /\ popped < pushed
      BY <1>5, <2>1, <3>1, DistanceType, ArraySizeAssumption
         DEF popRead, PopKnows, lapped
    <3>3. distance(end, end) = 0 /\ 0 < distance(end, head)
      BY <3>2, DistanceType DEF Sound
    <3> QED
      BY <3>2, <3>3 DEF Sound
  <2>2. PopKnows(p)'
    BY <1>5, <2>1 DEF popRead, Sound, PopKnows, lapped, distance
  <2> QED
    BY <1>5, <2>2, SoundPopLocal DEF popRead
<1>6. ASSUME NEW p \in Poppers, popTake(p) PROVE Sound' \/ lappedTake'
  <2>1. CASE lapped(p)
    BY <1>6, <2>1, Zenon DEF popTake
  <2>2. CASE ~lapped(p)
    BY <1>6, <2>2, SoundPopTake
  <2> QED
    BY <2>1, <2>2
<1>7. ASSUME NEW p \in Poppers, popRetry(p) PROVE Sound'
  <2>1. PopKnows(p)'
    BY <1>7, DistanceType, ArraySizeAssumption
       DEF popRetry, PopKnows, lapped, distance
  <2> QED
    BY <1>7, <2>1, SoundPopLocal DEF popRetry
<1>8. CASE UNCHANGED vars
  BY <1>8 DEF vars, Sound, PushKnows, PopKnows, lapped, distance, nextSlot, Slots
<1> QED
  BY <1>1, <1>2, <1>3, <1>4, <1>5, <1>6, <1>7, <1>8 DEF Next, pop

\* Once a lapped pop has succeeded the history variable remembers it.
LEMMA LappedStays == lappedTake /\ [Next]_vars => lappedTake'
BY Zenon DEF Next, vars, push, pop, pushBegin, pushTimeout, pushHasRoom,
   pushStore, pushPublish, popLoadEnd, popTimeout, popNotEmpty, popRead,
   popTake, popRetry, histVars

\* The inductive invariant of the ring.
THEOREM RingInvariant == Spec => []RingInv
<1>1. Init => RingInv
  BY TypeInit, SoundInit, RingInvSplit
<1>2. RingInv /\ [Next]_vars => RingInv'
  <2> SUFFICES ASSUME RingInv, [Next]_vars PROVE RingInv'
    OBVIOUS
  <2>1. TypeOK /\ TypeOK'
    BY TypeStep DEF RingInv
  <2>2. lappedTake \/ Sound
    BY <2>1, RingInvSplit
  <2>3. (lappedTake \/ Sound)'
    BY <2>1, <2>2, SoundStep, LappedStays
  <2>4. (TypeOK => (RingInv <=> (lappedTake \/ Sound)))'
    BY RingInvSplit, PTL
  <2> QED
    BY <2>1, <2>3, <2>4
<1> QED
  BY <1>1, <1>2, PTL DEF Spec

\* The indices of push and pop count the elements in transit exactly, on a
\* ring of any size under any number of consumers, until one is lapped.
THEOREM OccupancyTheorem == Spec => []OccupancyExact
<1>1. RingInv => OccupancyExact
  BY DEF RingInv
<1> QED
  BY <1>1, RingInvariant, PTL

\* push never overwrites an element that was not delivered, until a consumer
\* is lapped.
THEOREM PendingTheorem == Spec => []PendingIntact
<1>1. RingInv => PendingIntact
  BY DEF RingInv
<1> QED
  BY <1>1, RingInvariant, PTL

\* pop delivers every element exactly once and in order to any number of
\* consumers, until one is lapped.
THEOREM DeliveryTheorem == Spec => []InOrderUnlessLapped
<1>1. RingInv => InOrderUnlessLapped
  BY DEF RingInv
<1> QED
  BY <1>1, RingInvariant, PTL

-----------------------------------------------------------------------------
(* The ring implements the FIFO channel                                    *)

\* The elements a + 1 .. a + n, in that order
run(a, n) == [i \in 1 .. n |-> a + i]

\* What Append, Head and Tail make of such a run
LEMMA RunFacts ==
    ASSUME NEW a \in Nat, NEW n \in Nat
    PROVE  /\ run(a, n) \in Seq(Nat) /\ Len(run(a, n)) = n
           /\ Append(run(a, n), a + n + 1) = run(a, n + 1)
           /\ n > 0 => Head(run(a, n)) = a + 1 /\ Tail(run(a, n)) = run(a + 1, n - 1)
<1>1. run(a, n) \in Seq(Nat) /\ Len(run(a, n)) = n
  BY DEF run
<1>2. Append(run(a, n), a + n + 1) = run(a, n + 1)
  BY <1>1, SMTT(30) DEF run
<1>3. ASSUME n > 0 PROVE Head(run(a, n)) = a + 1 /\ Tail(run(a, n)) = run(a + 1, n - 1)
  BY <1>1, <1>3, SMTT(30) DEF run
<1> QED
  BY <1>1, <1>2, <1>3

\* There is a slot at every distance below the ring size.
LEMMA SlotAt ==
    ASSUME NEW i \in Slots, NEW d \in 0 .. (arraySize - 1)
    PROVE  \E s \in Slots : distance(i, s) = d
<1>1. CASE i + d < arraySize
  <2>1. i + d \in Slots /\ distance(i, i + d) = d
    BY <1>1, ArraySizeAssumption DEF Slots, distance
  <2> QED
    BY <2>1
<1>2. CASE i + d >= arraySize
  <2>1. i + d - arraySize \in Slots /\ distance(i, i + d - arraySize) = d
    BY <1>2, ArraySizeAssumption DEF Slots, distance
  <2> QED
    BY <2>1
<1> QED
  BY <1>1, <1>2, ArraySizeAssumption DEF Slots

\* A sound ring, read from end to head, is the run of the elements in transit.
LEMMA SoundContents ==
    TypeOK /\ Sound => /\ pushed - popped \in 0 .. (arraySize - 1)
                       /\ contents = run(popped, pushed - popped)
<1> SUFFICES ASSUME TypeOK, Sound
             PROVE  /\ pushed - popped \in 0 .. (arraySize - 1)
                    /\ contents = run(popped, pushed - popped)
  OBVIOUS
<1>1. distance(end, head) \in 0 .. (arraySize - 1) /\ pushed - popped = distance(end, head)
  BY DistanceType DEF TypeOK, Sound
<1>2. ASSUME NEW i \in 1 .. distance(end, head)
      PROVE  array[CHOOSE s \in Slots : distance(end, s) = i - 1] = popped + i
  <2> DEFINE t == CHOOSE s \in Slots : distance(end, s) = i - 1
  <2>1. i - 1 \in 0 .. (arraySize - 1) /\ i - 1 < distance(end, head)
    BY <1>1, ArraySizeAssumption
  <2>2. \E s \in Slots : distance(end, s) = i - 1
    BY <2>1, SlotAt DEF TypeOK
  <2>3. t \in Slots /\ distance(end, t) = i - 1
    BY <2>2, Zenon
  <2> HIDE DEF t
  <2>4. array[t] = popped + (i - 1) + 1
    BY <2>1, <2>3 DEF Sound
  <2>5. popped + (i - 1) + 1 = popped + i
    BY <1>1, ArraySizeAssumption DEF TypeOK
  <2> QED
    BY <2>4, <2>5 DEF t
<1>3. contents = [i \in 1 .. distance(end, head) |-> popped + i]
  BY <1>2, Zenon DEF contents
<1> QED
  BY <1>1, <1>3 DEF run

\* A push that has begun is within the bound on the pushes explored.
PushBound == pushPc # "idle" => pushed < MaxPush

\* The number of pushes stays within its bound.
LEMMA PushBoundStep == TypeOK /\ PushBound /\ [Next]_vars => PushBound'
<1> SUFFICES ASSUME TypeOK, PushBound, [Next]_vars PROVE PushBound'
  OBVIOUS
<1>1. CASE push
  BY <1>1 DEF push, pushBegin, pushTimeout, pushHasRoom, pushStore, pushPublish, histVars, PushBound
<1>2. CASE UNCHANGED <<pushPc, pushed>>
  BY <1>2 DEF PushBound
<1>3. ASSUME NEW p \in Poppers, pop(p) PROVE UNCHANGED <<pushPc, pushed>>
  BY <1>3 DEF pop, popLoadEnd, popTimeout, popNotEmpty, popRead, popTake, popRetry, histVars
<1> QED
  BY <1>1, <1>2, <1>3 DEF Next, vars

\* A step of a sound ring that leaves it sound is a step of the channel or none: the
\* element enters with the store to head and leaves with the compare-and-swap.
LEMMA FifoStep ==
    ASSUME TypeOK, Sound, PushBound, TypeOK', Sound', [Next]_vars
    PROVE  [Fifo!Next]_(Fifo!fifoVars)
<1>1. /\ pushed - popped \in 0 .. (arraySize - 1)
      /\ contents = run(popped, pushed - popped)
  BY SoundContents
<1>2. /\ pushed' - popped' \in 0 .. (arraySize - 1)
      /\ contents' = run(popped', pushed' - popped')
  <2>1. (TypeOK /\ Sound => /\ pushed - popped \in 0 .. (arraySize - 1)
                            /\ contents = run(popped, pushed - popped))'
    BY SoundContents, PTL
  <2> QED
    BY <2>1 DEF run
<1>3. pushed \in Nat /\ popped \in Nat /\ out \in Seq(Nat)
  BY DEF TypeOK
<1>4. CASE pushPublish
  <2>1. pushed' = pushed + 1 /\ popped' = popped /\ out' = out /\ pushed < MaxPush
    BY <1>4 DEF pushPublish, PushBound
  <2>2. PICK n \in Nat : n = pushed - popped
    BY <1>1, ArraySizeAssumption
  <2>3. n + 1 = pushed' - popped' /\ n + 1 <= arraySize - 1 /\ popped + n + 1 = pushed + 1
    BY <2>1, <2>2, <1>2, <1>3, ArraySizeAssumption
  <2>4. contents = run(popped, n) /\ contents' = run(popped, n + 1)
    BY <2>1, <2>2, <2>3, <1>1, <1>2
  <2>5. Len(contents) = n /\ contents' = Append(contents, pushed')
    BY <2>1, <2>3, <2>4, <1>3, RunFacts
  <2>6. Fifo!Push
    BY <2>1, <2>2, <2>3, <2>5, ArraySizeAssumption DEF Fifo!Push
  <2> QED
    BY <2>6 DEF Fifo!Next
<1>5. ASSUME NEW p \in Poppers, popTake(p) PROVE Fifo!Pop
  <2>1. pushed' = pushed /\ popped' = popped + 1 /\ out' = Append(out, v[p])
    BY <1>5 DEF popTake
  <2>2. PICK n \in Nat : n = pushed - popped
    BY <1>1, ArraySizeAssumption
  <2>3. n > 0 /\ n - 1 = pushed' - popped'
    BY <2>1, <2>2, <1>2, <1>3, ArraySizeAssumption
  <2>4. contents = run(popped, n) /\ contents' = run(popped + 1, n - 1)
    BY <2>1, <2>2, <2>3, <1>1, <1>2
  <2>5. contents \in Seq(Nat) /\ Len(contents) = n /\ Head(contents) = popped + 1
        /\ contents' = Tail(contents)
    BY <2>3, <2>4, <1>3, RunFacts
  <2>6. v[p] = popped + 1
    <3>1. Len(out) = popped /\ Len(out') = popped + 1 /\ \A i \in DOMAIN out' : out'[i] = i
      BY <2>1 DEF Sound
    <3>2. out'[popped + 1] = v[p] /\ popped + 1 \in DOMAIN out'
      BY <3>1, <2>1, <1>3 DEF TypeOK
    <3> QED
      BY <3>1, <3>2
  <2>7. contents # <<>>
    BY <2>3, <2>5
  <2> QED
    BY <2>1, <2>5, <2>6, <2>7 DEF Fifo!Pop
<1>6. CASE UNCHANGED <<pushed, popped, out>>
  <2>1. UNCHANGED <<contents, pushed, out>>
    BY <1>1, <1>2, <1>6
  <2> QED
    BY <2>1 DEF Fifo!fifoVars
<1>7. ASSUME ~pushPublish, \A p \in Poppers : ~popTake(p)
      PROVE  UNCHANGED <<pushed, popped, out>>
  BY <1>7, Zenon DEF Next, vars, push, pop, pushBegin, pushTimeout, pushHasRoom, pushStore,
     popLoadEnd, popTimeout, popNotEmpty, popRead, popRetry, histVars
<1> QED
  BY <1>4, <1>5, <1>6, <1>7 DEF Fifo!Next

\* On a ring of any size, under any number of consumers, every step until a lapped
\* consumer succeeds is a step of the FIFO channel or changes nothing of it.
THEOREM FifoUntilLapped ==
    Spec => Fifo!Init /\ [][~lappedTake' => Fifo!Next]_(Fifo!fifoVars)
<1>1. Init => Fifo!Init /\ PushBound
  <2> SUFFICES ASSUME Init PROVE Fifo!Init /\ PushBound
    OBVIOUS
  <2>1. TypeOK /\ Sound /\ pushed = 0 /\ popped = 0 /\ out = <<>> /\ pushPc = "idle"
    BY TypeInit, SoundInit DEF Init
  <2>2. contents = run(0, 0)
    BY <2>1, SoundContents
  <2>3. contents = <<>>
    BY <2>2 DEF run
  <2> QED
    BY <2>1, <2>3 DEF Fifo!Init, PushBound
<1>2. RingInv /\ PushBound /\ [Next]_vars => PushBound'
  BY PushBoundStep DEF RingInv
<1>3. RingInv /\ RingInv' /\ PushBound /\ [Next]_vars => [~lappedTake' => Fifo!Next]_(Fifo!fifoVars)
  <2> SUFFICES ASSUME RingInv, RingInv', PushBound, [Next]_vars, ~lappedTake'
               PROVE  [Fifo!Next]_(Fifo!fifoVars)
    OBVIOUS
  <2>1. TypeOK /\ TypeOK' /\ ~lappedTake
    BY LappedStays DEF RingInv
  <2>2. Sound
    BY <2>1, RingInvSplit
  <2>3. (TypeOK => (RingInv <=> (lappedTake \/ Sound)))'
    BY RingInvSplit, PTL
  <2>4. Sound'
    BY <2>1, <2>3
  <2> QED
    BY <2>1, <2>2, <2>4, FifoStep
<1> QED
  BY <1>1, <1>2, <1>3, RingInvariant, PTL DEF Spec

\* A consumer that is alone is never lapped: nobody else moves end.
LoneKnows ==
    /\ lappedTake = FALSE
    /\ \A p \in Poppers : popPc[p] # "idle" => seenAt[p] = popped

\* Nobody moves end under a consumer that is alone.
LEMMA LoneStep ==
    ASSUME \A p, q \in Poppers : p = q, TypeOK, LoneKnows, [Next]_vars
    PROVE  LoneKnows'
<1> USE DEF TypeOK, LoneKnows
<1>1. CASE push \/ UNCHANGED vars
  <2>1. UNCHANGED <<popPc, seenAt, popped, lappedTake>>
    BY <1>1, Zenon DEF vars, push, pushBegin, pushTimeout, pushHasRoom, pushStore, pushPublish,
       histVars
  <2> QED
    BY <2>1
<1>2. ASSUME NEW p \in Poppers, popTake(p) PROVE LoneKnows'
  <2>1. popPc[p] = "cas" /\ lappedTake' = (lappedTake \/ lapped(p)) /\ popPc'[p] = "idle"
    BY <1>2 DEF popTake
  <2>2. ~lapped(p)
    <3>1. seenAt[p] = popped /\ popped \in Nat
      BY <2>1, Zenon
    <3> QED
      BY ONLY <3>1, ArraySizeAssumption DEF lapped
  <2>3. lappedTake' = FALSE
    BY <2>1, <2>2
  <2> QED
    BY <2>1, <2>3
<1>3. ASSUME NEW p \in Poppers, popLoadEnd(p) \/ popRetry(p) PROVE LoneKnows'
  <2>1. seenAt'[p] = popped' /\ lappedTake' = lappedTake
    BY <1>3 DEF popLoadEnd, popRetry
  <2> QED
    BY <2>1
<1>4. ASSUME NEW p \in Poppers, popTimeout(p) \/ popNotEmpty(p) \/ popRead(p) PROVE LoneKnows'
  <2>1. UNCHANGED <<seenAt, popped, lappedTake>> /\ (popPc'[p] # "idle" => popPc[p] # "idle")
    BY <1>4 DEF popTimeout, popNotEmpty, popRead, histVars
  <2> QED
    BY <2>1
<1> QED
  BY <1>1, <1>2, <1>3, <1>4 DEF Next, pop

\* With one consumer the ring implements the FIFO channel, for every ring size and
\* every number of pushes (the fairness of ImplementsFifo apart).
THEOREM OneConsumerFifo ==
    ASSUME \A p, q \in Poppers : p = q
    PROVE  Spec => Fifo!Init /\ [][Fifo!Next]_(Fifo!fifoVars)
<1>1. Init => LoneKnows
  BY Zenon DEF Init, LoneKnows
<1>2. TypeOK /\ LoneKnows /\ [Next]_vars => LoneKnows'
  BY LoneStep
<1>3. LoneKnows => ~lappedTake
  BY DEF LoneKnows
<1> QED
  BY <1>1, <1>2, <1>3, TypeCorrect, FifoUntilLapped, PTL DEF Spec
=============================================================================
