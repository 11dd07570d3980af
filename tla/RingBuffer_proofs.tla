------------------------- MODULE RingBuffer_proofs -------------------------
(***************************************************************************)
(* The ring of nodes and the chunks in it, for every size of node and of    *)
(* chunk and any number of nodes and calls.                                 *)
(*                                                                         *)
(* What the code never writes down is the order in which the nodes and the  *)
(* chunks are used.  The proof names it: U numbers the nodes from the tail   *)
(* (t) to the head (k), C the chunks from the oldest that begin has not      *)
(* passed (a) to the newest (z - 1), those before f being freed.  The steps  *)
(* of alloc add at k and z, those of freeMem take away at t and a, and the   *)
(* invariant says how U and C lie in the nodes.                             *)
(***************************************************************************)
EXTENDS RingBuffer, FiniteSetTheorems, TLAPS

Word == [size : Nat, freed : BOOLEAN]
Node == [next : Nat, begin : Nat, end : 0 .. NodeSize - 1,
         state : {"open", "locked", "usedOut"}, words : [0 .. NodeSize -> Word]]
Chunk == NodeIds \X (0 .. NodeSize - 1) \X (1 .. NodeSize)

AllocSteps == {"idle", "claim", "size", "full", "trim", "mark", "usedOut", "died"}

inUse(U, t, k, n) == \E i \in t .. k : U[i] = n

\* The nodes form one ring or more, each node has one before it, and the used ones are a
\* path from the tail to the head.  The others are empty, and they and the head lead to
\* one of them or to the tail.
Linked(M, U, t, k) ==
    /\ \A n \in NodeIds : M[n].next # 0 => M[n].next \in NodeIds /\ M[M[n].next].next # 0
    /\ \A m, n \in NodeIds : M[m].next # 0 /\ M[m].next = M[n].next => m = n
    /\ t <= k
    /\ \A i, j \in t .. k : U[i] = U[j] => i = j
    /\ \A i \in t .. k : M[U[i]].next # 0
    /\ \A i \in t .. k - 1 : M[U[i]].next = U[i + 1]
    /\ \A n \in NodeIds : M[n].next # 0 /\ (n = U[k] \/ ~inUse(U, t, k, n)) =>
         M[n].next = U[t] \/ ~inUse(U, t, k, M[n].next)
    /\ \A n \in NodeIds : M[n].next # 0 /\ ~inUse(U, t, k, n) =>
         M[n].begin = 0 /\ M[n].end = 0 /\ M[n].state = "open"

\* The chunks lie in used nodes, between begin and end, in the order of the nodes and
\* of their offsets.
Ordered(M, U, t, k, C, a, z) ==
    /\ \A i \in a .. z - 1 :
         /\ inUse(U, t, k, C[i][1])
         /\ M[C[i][1]].begin <= C[i][2] /\ C[i][2] + C[i][3] <= M[C[i][1]].end
    /\ \A i, j \in a .. z - 1, p, q \in t .. k :
         i < j /\ U[p] = C[i][1] /\ U[q] = C[j][1] =>
           p < q \/ (p = q /\ C[i][2] + C[i][3] <= C[j][2])

starts(C, a, z, n, o) == \E i \in a .. z - 1 : C[i][1] = n /\ C[i][2] = o

\* They leave no gap: one begins at begin and one where another ends, up to end.
Gapless(M, U, t, k, C, a, z) ==
    /\ \A p \in t .. k : /\ M[U[p]].begin <= M[U[p]].end
                         /\ M[U[p]].begin = M[U[p]].end \/ starts(C, a, z, U[p], M[U[p]].begin)
                         /\ p > t => M[U[p]].begin = 0
    /\ \A i \in a .. z - 1 : C[i][2] + C[i][3] = M[C[i][1]].end
                             \/ starts(C, a, z, C[i][1], C[i][2] + C[i][3])

\* The words before the chunks that have been handed out: the first ones are freed.
Written(M, C, a, f, w) ==
    \A i \in a .. w - 1 :
        /\ M[C[i][1]].words[C[i][2]].size = C[i][3]
        /\ M[C[i][1]].words[C[i][2]].freed = (i < f)

\* What the head has left behind is used up and says so, but for the node that it
\* is just leaving.  No node is left before a chunk was allocated in it.
Left(M, U, t, k, pc, s) ==
    /\ M[U[k]].state # "usedOut"
    /\ \A p \in t .. k - 1 :
         \/ M[U[p]].state = "usedOut" /\ M[U[p]].words[M[U[p]].end].freed
         \/ p = k - 1 /\ pc \in {"mark", "usedOut"}
    /\ \A p \in t + 1 .. k - 1 : M[U[p]].end > 0
    /\ pc \in {"full", "trim"} => k = t \/ M[U[k]].end > 0
    /\ pc \in {"mark", "usedOut"} =>
         /\ k > t /\ s = U[k - 1] /\ M[U[k]].end = 0
         /\ M[s].state # "usedOut"
         /\ pc = "usedOut" => M[s].words[M[s].end].freed
    /\ pc = "trim" => s = M[U[k]].next /\ ~inUse(U, t, k, s)

\* The chunks handed out and not freed are live, and the one being allocated is the last.
Handed(C, f, w, z) ==
    /\ w = f + Len(live)
    /\ \A i \in 1 .. Len(live) : live[i] = C[f + i - 1]
    /\ z = IF allocPc = "size" THEN w + 1 ELSE w
    /\ allocPc = "size" => C[w] = <<bufHead, claimed, allocSize>>

Shape(U, t, k, C, a, f, w, z) ==
    /\ bufTail = U[t] /\ bufHead = U[k]
    /\ a <= f /\ f <= w
    /\ Linked(bufNodes, U, t, k)
    /\ Ordered(bufNodes, U, t, k, C, a, z)
    /\ Gapless(bufNodes, U, t, k, C, a, z)
    /\ Written(bufNodes, C, a, f, w)
    /\ Left(bufNodes, U, t, k, allocPc, spare)
    /\ Handed(C, f, w, z)
    /\ freePc = "idle" => a = f

BufTyped ==
    /\ bufNodes \in [NodeIds -> Node]
    /\ bufHead \in NodeIds /\ bufTail \in NodeIds /\ headLocked \in BOOLEAN
    /\ allocPc \in AllocSteps /\ spare \in Nat
    /\ allocPc \notin {"idle", "died"} => allocSize \in ChunkSizes
    /\ freePc \in {"idle", "test", "move"}
    /\ freePc # "idle" => freeNode = bufTail /\ freeMem = bufNodes[bufTail].begin
    /\ live \in Seq(Chunk)

\* The most nodes there were, and what was deleted of them.
Counted ==
    /\ peak \in Nat /\ Cardinality(Nodes) <= peak
    /\ headLocked => allocPc \in {"trim", "died"} /\ Cardinality(Nodes) + 1 <= peak
    /\ allocPc = "died" => peak >= 4

Shaped ==
    \E U \in [Nat -> NodeIds], t, k \in Nat, C \in [Nat -> Chunk], a, f, w, z \in Nat :
        Shape(U, t, k, C, a, f, w, z)

BufInv == IF bufRaced THEN allocPc # "died" ELSE BufTyped /\ Counted /\ Shaped

-----------------------------------------------------------------------------
(* The ring                                                                *)

\* A step that changes no pointer and no node out of use leaves the ring as it is.
LEMMA LinkedSame ==
    ASSUME NEW M, NEW N, NEW U \in [Nat -> NodeIds], NEW t \in Nat, NEW k \in Nat,
           Linked(M, U, t, k), \A n \in NodeIds : N[n].next = M[n].next,
           \A n \in NodeIds : ~inUse(U, t, k, n) => N[n] = M[n]
    PROVE  Linked(N, U, t, k)
<1> USE RingBufferAssumption
<1>1. \A n \in NodeIds : N[n].next # 0 => N[n].next \in NodeIds /\ N[N[n].next].next # 0
  BY DEF Linked
<1>2. \A m, n \in NodeIds : N[m].next # 0 /\ N[m].next = N[n].next => m = n
  BY DEF Linked
<1>3. \A i \in t .. k : U[i] \in NodeIds /\ N[U[i]].next = M[U[i]].next
  <2>1. \A i \in t .. k : i \in Nat
    OBVIOUS
  <2> QED BY <2>1
<1>4. \A n \in NodeIds : N[n].next # 0 /\ (n = U[k] \/ ~inUse(U, t, k, n)) =>
        N[n].next = U[t] \/ ~inUse(U, t, k, N[n].next)
  BY DEF Linked
<1>5. \A n \in NodeIds : N[n].next # 0 /\ ~inUse(U, t, k, n) =>
        N[n].begin = 0 /\ N[n].end = 0 /\ N[n].state = "open"
  BY DEF Linked
<1>6. /\ t <= k /\ \A i, j \in t .. k : U[i] = U[j] => i = j
      /\ \A i \in t .. k : N[U[i]].next # 0
      /\ \A i \in t .. k - 1 : N[U[i]].next = U[i + 1]
  BY <1>3 DEF Linked
<1> QED BY <1>1, <1>2, <1>4, <1>5, <1>6 DEF Linked

\* The numbering with one more node at the head.
LEMMA MoreUsed ==
    ASSUME NEW U \in [Nat -> NodeIds], NEW t \in Nat, NEW k \in Nat, t <= k, NEW m \in NodeIds
    PROVE  LET V == [U EXCEPT ![k + 1] = m] IN
           /\ V \in [Nat -> NodeIds]
           /\ V[k + 1] = m
           /\ \A i \in t .. k : V[i] = U[i]
           /\ \A n : inUse(V, t, k + 1, n) <=> (inUse(U, t, k, n) \/ n = m)
<1> DEFINE V == [U EXCEPT ![k + 1] = m]
<1>1. V \in [Nat -> NodeIds] /\ V[k + 1] = m /\ \A i \in t .. k : V[i] = U[i]
  OBVIOUS
<1>2. t .. k + 1 = (t .. k) \cup {k + 1}
  OBVIOUS
<1> HIDE DEF V
<1>3. \A n : inUse(V, t, k + 1, n) <=> (inUse(U, t, k, n) \/ n = m)
  BY <1>1, <1>2 DEF inUse
<1> QED BY <1>1, <1>3 DEF V

\* m is no node yet and the tail is behind the head, or m is between the two.
Between(M, U, t, k, m) ==
    (M[U[k]].next = U[t] /\ M[m].next = 0) \/ (M[U[k]].next = m /\ M[m].next = U[t])

OthersSame(M, N, x, y) == \A n \in NodeIds : n # x /\ n # y => N[n] = M[n]

\* The head goes on to a node that is not in use and leads to the tail: one that was
\* made for it or the only one left.
LEMMA LinkedMore ==
    ASSUME NEW M, NEW N, NEW U \in [Nat -> NodeIds], NEW t \in Nat, NEW k \in Nat,
           NEW m \in NodeIds, NEW V, V = [U EXCEPT ![k + 1] = m],
           Linked(M, U, t, k), ~inUse(U, t, k, m),
           N[m].next = U[t], N[U[k]].next = m,
           OthersSame(M, N, m, U[k]),
           Between(M, U, t, k, m)
    PROVE  Linked(N, V, t, k + 1)
<1> USE RingBufferAssumption DEF Between, OthersSame
<1>0. t <= k /\ U[k] \in NodeIds /\ U[t] \in NodeIds /\ k \in t .. k /\ t \in t .. k
  BY DEF Linked
<1>1. /\ V[k + 1] = m /\ \A i \in t .. k : V[i] = U[i]
      /\ \A n : inUse(V, t, k + 1, n) <=> (inUse(U, t, k, n) \/ n = m)
  <2>1. t <= k
    BY <1>0
  <2>2. LET W == [U EXCEPT ![k + 1] = m] IN
           /\ W \in [Nat -> NodeIds]
           /\ W[k + 1] = m
           /\ \A i \in t .. k : W[i] = U[i]
           /\ \A n : inUse(W, t, k + 1, n) <=> (inUse(U, t, k, n) \/ n = m)
    BY ONLY <2>1, MoreUsed, Zenon
  <2> QED BY ONLY <2>2, V = [U EXCEPT ![k + 1] = m], Zenon
<1>2. inUse(U, t, k, U[k]) /\ inUse(U, t, k, U[t]) /\ m # U[k] /\ m # U[t]
  BY <1>0 DEF inUse
<1>3. M[U[k]].next # 0 /\ M[U[t]].next # 0
  BY <1>0 DEF Linked
<1>4. \A n \in NodeIds : M[n].next # 0 => N[n].next # 0
  BY <1>2, <1>3
<1>5. \A n \in NodeIds : N[n].next # 0 => N[n].next \in NodeIds /\ N[N[n].next].next # 0
  <2> SUFFICES ASSUME NEW n \in NodeIds, N[n].next # 0
               PROVE  N[n].next \in NodeIds /\ N[N[n].next].next # 0
    OBVIOUS
  <2>1. CASE n = m
    BY <1>0, <1>3, <1>4, <2>1
  <2>2. CASE n = U[k]
    BY <1>0, <2>2
  <2>3. CASE n # m /\ n # U[k]
    <3>1. N[n] = M[n]
      BY <2>3
    <3> QED BY <1>4, <3>1 DEF Linked
  <2> QED BY <2>1, <2>2, <2>3
<1>6. \A x, n \in NodeIds : N[x].next # 0 /\ N[x].next = N[n].next => x = n
  <2>1. \A x, n \in NodeIds : M[x].next # 0 /\ M[x].next = M[n].next => x = n
    BY DEF Linked
  <2>2. \A n \in NodeIds : n # U[k] /\ n # m => N[n].next # m /\ N[n].next # U[t]
    <3> SUFFICES ASSUME NEW n \in NodeIds, n # U[k], n # m
                 PROVE  M[n].next # m /\ M[n].next # U[t]
      OBVIOUS
    <3>1. CASE M[U[k]].next = m /\ M[m].next = U[t]
      BY <1>0, <2>1, <3>1
    <3>2. CASE M[U[k]].next = U[t] /\ M[m].next = 0
      <4>1. M[n].next # U[t]
        BY <1>0, <2>1, <3>2
      <4>2. M[n].next # m
        BY <3>2 DEF Linked
      <4> QED BY <4>1, <4>2
    <3> QED BY <3>1, <3>2
  <2> QED BY <1>2, <2>1, <2>2
<1>7. \A i, j \in t .. k + 1 : V[i] = V[j] => i = j
  <2>1. \A i \in t .. k : V[i] # m
    BY <1>1 DEF inUse
  <2>2. \A i \in t .. k + 1 : i \in t .. k \/ i = k + 1
    OBVIOUS
  <2> QED BY <1>1, <2>1, <2>2 DEF Linked
<1>8. \A i \in t .. k + 1 : N[V[i]].next # 0
  <2>1. \A i \in t .. k + 1 : i \in t .. k \/ i = k + 1
    OBVIOUS
  <2>2. \A i \in t .. k : i \in Nat
    OBVIOUS
  <2>3. \A i \in t .. k : U[i] \in NodeIds /\ M[U[i]].next # 0
    BY <2>2 DEF Linked
  <2>4. N[m].next # 0
    BY <1>0
  <2> QED BY <1>1, <1>4, <2>1, <2>3, <2>4
<1>9. \A i \in t .. k : N[V[i]].next = V[i + 1]
  <2> TAKE i \in t .. k
  <2>1. CASE i = k
    BY <1>0, <1>1, <2>1
  <2>2. CASE i # k
    <3>1. i \in t .. k - 1 /\ i + 1 \in t .. k
      BY <2>2
    <3>2. U[i] # U[k]
      BY <1>0, <2>2 DEF Linked
    <3>3. U[i] # m /\ U[i] \in NodeIds
      BY DEF inUse
    <3>4. N[U[i]] = M[U[i]]
      BY <3>2, <3>3
    <3> QED BY <1>1, <3>1, <3>4 DEF Linked
  <2> QED BY <2>1, <2>2
<1>10. \A n \in NodeIds : N[n].next # 0 /\ (n = V[k + 1] \/ ~inUse(V, t, k + 1, n)) =>
         N[n].next = V[t] \/ ~inUse(V, t, k + 1, N[n].next)
  <2> SUFFICES ASSUME NEW n \in NodeIds, N[n].next # 0, n # m, ~inUse(U, t, k, n)
               PROVE  N[n].next = U[t] \/ ~inUse(V, t, k + 1, N[n].next)
    BY <1>0, <1>1
  <2>1. n # U[k] /\ N[n] = M[n]
    BY <1>2
  <2>2. M[n].next = U[t] \/ ~inUse(U, t, k, M[n].next)
    BY <2>1 DEF Linked
  <2>3. M[n].next # m
    <3>1. CASE M[U[k]].next = m
      BY <1>0, <1>3, <2>1, <3>1 DEF Linked
    <3>2. CASE M[m].next = 0
      BY <2>1, <3>2 DEF Linked
    <3> QED BY <3>1, <3>2
  <2> QED BY <1>1, <2>1, <2>2, <2>3
<1>11. \A n \in NodeIds : N[n].next # 0 /\ ~inUse(V, t, k + 1, n) =>
         N[n].begin = 0 /\ N[n].end = 0 /\ N[n].state = "open"
  BY <1>1, <1>2 DEF Linked
<1>12. \A i \in t .. (k + 1) - 1 : N[V[i]].next = V[i + 1]
  BY <1>9
<1>13. t <= k + 1
  BY <1>0
<1> QED BY <1>5, <1>6, <1>7, <1>8, <1>10, <1>11, <1>12, <1>13 DEF Linked

\* alloc deletes the free node m behind the free node s: only s led to it.
LEMMA LinkedTrim ==
    ASSUME NEW M, NEW N, NEW U \in [Nat -> NodeIds], NEW t \in Nat, NEW k \in Nat,
           NEW s \in NodeIds, NEW m \in NodeIds, s # m,
           Linked(M, U, t, k), ~inUse(U, t, k, s), ~inUse(U, t, k, m),
           M[s].next = m, N[s].next = M[m].next, N[m].next = 0,
           N[s].begin = M[s].begin, N[s].end = M[s].end, N[s].state = M[s].state,
           OthersSame(M, N, m, s)
    PROVE  Linked(N, U, t, k)
<1> USE RingBufferAssumption DEF OthersSame
<1>0. s # 0 /\ m # 0
  OBVIOUS
<1>1. \A n \in NodeIds : M[n].next # 0 => M[n].next \in NodeIds /\ M[M[n].next].next # 0
  BY DEF Linked
<1>2. \A x, n \in NodeIds : M[x].next # 0 /\ M[x].next = M[n].next => x = n
  BY DEF Linked
<1>3. M[m].next # 0 /\ M[m].next # m /\ M[m].next \in NodeIds
  <2>1. M[m].next # 0
    BY <1>0, <1>1
  <2> QED BY <1>1, <1>2, <2>1
<1>4. \A n \in NodeIds : n # s => M[n].next # m
  BY <1>0, <1>2
<1>5. \A n \in NodeIds : n # m => (M[n].next # 0 <=> N[n].next # 0)
  BY <1>0, <1>3
<1>6. \A n \in NodeIds : N[n].next # 0 => N[n].next \in NodeIds /\ N[N[n].next].next # 0
  <2> SUFFICES ASSUME NEW n \in NodeIds, N[n].next # 0
               PROVE  N[n].next \in NodeIds /\ N[N[n].next].next # 0
    OBVIOUS
  <2>1. CASE n = s
    BY <1>1, <1>3, <1>5, <2>1
  <2>2. CASE n # s
    <3>1. n # m /\ N[n] = M[n]
      BY <2>2
    <3> QED BY <1>1, <1>4, <1>5, <2>2, <3>1
  <2> QED BY <2>1, <2>2
<1>7. \A x, n \in NodeIds : N[x].next # 0 /\ N[x].next = N[n].next => x = n
  <2>1. \A x \in NodeIds : N[x].next # 0 => x = s \/ (x # s /\ x # m /\ N[x].next = M[x].next)
    OBVIOUS
  <2>2. \A x \in NodeIds : x # m => M[x].next # M[m].next
    BY <1>2, <1>3
  <2> QED BY <1>2, <2>1, <2>2
<1>8. \A i \in t .. k : U[i] # s /\ U[i] # m /\ U[i] \in NodeIds /\ N[U[i]] = M[U[i]]
  <2>1. \A i \in t .. k : i \in Nat
    OBVIOUS
  <2>2. \A i \in t .. k : U[i] # s /\ U[i] # m /\ U[i] \in NodeIds
    BY <2>1 DEF inUse
  <2> QED BY <2>2
<1>9. /\ t <= k
      /\ \A i, j \in t .. k : U[i] = U[j] => i = j
      /\ \A i \in t .. k : N[U[i]].next # 0
      /\ \A i \in t .. k - 1 : N[U[i]].next = U[i + 1]
  BY <1>8 DEF Linked
<1>10. \A n \in NodeIds : N[n].next # 0 /\ (n = U[k] \/ ~inUse(U, t, k, n)) =>
         N[n].next = U[t] \/ ~inUse(U, t, k, N[n].next)
  <2> SUFFICES ASSUME NEW n \in NodeIds, N[n].next # 0, n = U[k] \/ ~inUse(U, t, k, n)
               PROVE  N[n].next = U[t] \/ ~inUse(U, t, k, N[n].next)
    OBVIOUS
  <2>1. CASE n = s
    BY <1>3, <2>1 DEF Linked
  <2>2. CASE n # s
    <3>1. n # m /\ N[n] = M[n]
      BY <2>2
    <3> QED BY <3>1 DEF Linked
  <2> QED BY <2>1, <2>2
<1>11. \A n \in NodeIds : N[n].next # 0 /\ ~inUse(U, t, k, n) =>
         N[n].begin = 0 /\ N[n].end = 0 /\ N[n].state = "open"
  <2> SUFFICES ASSUME NEW n \in NodeIds, N[n].next # 0, ~inUse(U, t, k, n)
               PROVE  N[n].begin = 0 /\ N[n].end = 0 /\ N[n].state = "open"
    OBVIOUS
  <2>1. CASE n = s
    BY <1>0, <2>1 DEF Linked
  <2>2. CASE n # s
    <3>1. n # m /\ N[n] = M[n]
      BY <2>2
    <3> QED BY <3>1 DEF Linked
  <2> QED BY <2>1, <2>2
<1> QED BY <1>6, <1>7, <1>9, <1>10, <1>11 DEF Linked

\* The numbering without the node at the tail.
LEMMA LessUsed ==
    ASSUME NEW U \in [Nat -> NodeIds], NEW t \in Nat, NEW k \in Nat, t < k,
           \A i, j \in t .. k : U[i] = U[j] => i = j
    PROVE  \A n : inUse(U, t + 1, k, n) <=> (inUse(U, t, k, n) /\ n # U[t])
<1>1. t .. k = (t + 1 .. k) \cup {t} /\ t \notin t + 1 .. k
  OBVIOUS
<1> QED BY <1>1 DEF inUse

\* freeMem leaves the tail node, which is reset, for the next one.
LEMMA LinkedTail ==
    ASSUME NEW M, NEW N, NEW U \in [Nat -> NodeIds], NEW t \in Nat, NEW k \in Nat, t < k,
           Linked(M, U, t, k), \A n \in NodeIds : N[n].next = M[n].next,
           N[U[t]].begin = 0, N[U[t]].end = 0, N[U[t]].state = "open",
           \A n \in NodeIds : n # U[t] => N[n] = M[n]
    PROVE  Linked(N, U, t + 1, k)
<1> USE RingBufferAssumption
<1>0. /\ \A i, j \in t .. k : U[i] = U[j] => i = j
      /\ \A i \in t .. k : M[U[i]].next # 0
      /\ \A i \in t .. k - 1 : M[U[i]].next = U[i + 1]
  BY DEF Linked
<1>1. \A n : inUse(U, t + 1, k, n) <=> (inUse(U, t, k, n) /\ n # U[t])
  BY ONLY <1>0, LessUsed, t < k, Zenon
<1>2. \A n \in NodeIds : N[n].next # 0 => N[n].next \in NodeIds /\ N[N[n].next].next # 0
  BY DEF Linked
<1>3. \A x, n \in NodeIds : N[x].next # 0 /\ N[x].next = N[n].next => x = n
  BY DEF Linked
<1>4. \A i \in t .. k : U[i] \in NodeIds /\ N[U[i]].next = M[U[i]].next
  <2>1. \A i \in t .. k : i \in Nat
    OBVIOUS
  <2> QED BY <2>1
<1>5. /\ t + 1 <= k
      /\ \A i, j \in t + 1 .. k : U[i] = U[j] => i = j
      /\ \A i \in t + 1 .. k : N[U[i]].next # 0
      /\ \A i \in t + 1 .. k - 1 : N[U[i]].next = U[i + 1]
  <2>1. \A i \in t + 1 .. k : i \in t .. k
    OBVIOUS
  <2>2. \A i \in t + 1 .. k - 1 : i \in t .. k /\ i \in t .. k - 1
    OBVIOUS
  <2> QED BY <1>0, <1>4, <2>1, <2>2
<1>6. t \in t .. k - 1 /\ t \in t .. k /\ k \in t .. k /\ M[U[t]].next = U[t + 1]
  BY <1>0
<1>7. \A n \in NodeIds : N[n].next # 0 /\ (n = U[k] \/ ~inUse(U, t + 1, k, n)) =>
         N[n].next = U[t + 1] \/ ~inUse(U, t + 1, k, N[n].next)
  <2> SUFFICES ASSUME NEW n \in NodeIds, M[n].next # 0,
                      n = U[k] \/ n = U[t] \/ ~inUse(U, t, k, n)
               PROVE  M[n].next = U[t + 1] \/ ~inUse(U, t + 1, k, M[n].next)
    BY <1>1
  <2>1. CASE n = U[t]
    BY <1>6, <2>1
  <2>2. CASE n # U[t]
    <3>1. M[n].next = U[t] \/ ~inUse(U, t, k, M[n].next)
      BY <2>2 DEF Linked
    <3> QED BY <1>1, <3>1
  <2> QED BY <2>1, <2>2
<1>8. \A n \in NodeIds : N[n].next # 0 /\ ~inUse(U, t + 1, k, n) =>
         N[n].begin = 0 /\ N[n].end = 0 /\ N[n].state = "open"
  <2> SUFFICES ASSUME NEW n \in NodeIds, M[n].next # 0, n = U[t] \/ ~inUse(U, t, k, n)
               PROVE  N[n].begin = 0 /\ N[n].end = 0 /\ N[n].state = "open"
    BY <1>1
  <2>1. CASE n # U[t]
    <3>1. N[n] = M[n]
      BY <2>1
    <3> QED BY <2>1, <3>1 DEF Linked
  <2> QED BY <2>1
<1> QED BY <1>2, <1>3, <1>5, <1>7, <1>8 DEF Linked

-----------------------------------------------------------------------------
(* The chunks                                                              *)

Measured(M) == \A n \in NodeIds : M[n].begin \in Nat /\ M[n].end \in Nat

\* The parts of a chunk and of a node.
LEMMA Parts ==
    ASSUME NEW C \in [Nat -> Chunk], NEW a \in Nat, NEW z \in Nat
    PROVE  \A i \in a .. z - 1 : /\ i \in Nat /\ C[i][1] \in NodeIds
                                 /\ C[i][2] \in Nat /\ C[i][3] \in Nat /\ C[i][3] >= 1
<1> USE RingBufferAssumption
<1>1. \A i \in a .. z - 1 : i \in Nat /\ C[i] \in Chunk
  OBVIOUS
<1>2. \A c \in Chunk : c[1] \in NodeIds /\ c[2] \in Nat /\ c[3] \in Nat /\ c[3] >= 1
  BY DEF Chunk
<1> QED BY <1>1, <1>2

\* A step that moves no begin and no end leaves the chunks where they are.
LEMMA ChunksSame ==
    ASSUME NEW M, NEW N, NEW U \in [Nat -> NodeIds], NEW t \in Nat, NEW k \in Nat,
           NEW C \in [Nat -> Chunk], NEW a \in Nat, NEW z \in Nat,
           Ordered(M, U, t, k, C, a, z), Gapless(M, U, t, k, C, a, z),
           \A n \in NodeIds : N[n].begin = M[n].begin /\ N[n].end = M[n].end
    PROVE  Ordered(N, U, t, k, C, a, z) /\ Gapless(N, U, t, k, C, a, z)
<1>1. \A i \in a .. z - 1 : C[i][1] \in NodeIds
  BY Parts
<1>2. \A p \in t .. k : U[p] \in NodeIds
  <2>1. \A p \in t .. k : p \in Nat
    OBVIOUS
  <2> QED BY <2>1
<1>3. Ordered(N, U, t, k, C, a, z)
  BY <1>1 DEF Ordered
<1>4. Gapless(N, U, t, k, C, a, z)
  BY <1>1, <1>2 DEF Gapless
<1> QED BY <1>3, <1>4

\* A node whose begin is its end holds no chunk.
LEMMA EmptyNode ==
    ASSUME NEW M, NEW U \in [Nat -> NodeIds], NEW t \in Nat, NEW k \in Nat,
           NEW C \in [Nat -> Chunk], NEW a \in Nat, NEW z \in Nat,
           Measured(M), Ordered(M, U, t, k, C, a, z), NEW n \in NodeIds, M[n].begin >= M[n].end
    PROVE  \A i \in a .. z - 1 : C[i][1] # n
<1> SUFFICES ASSUME NEW i \in a .. z - 1, C[i][1] = n PROVE FALSE
  OBVIOUS
<1>1. M[n].begin <= C[i][2] /\ C[i][2] + C[i][3] <= M[n].end
  BY DEF Ordered
<1>2. C[i][2] \in Nat /\ C[i][3] \in Nat /\ C[i][3] >= 1 /\ M[n].begin \in Nat /\ M[n].end \in Nat
  BY Parts DEF Measured
<1> QED BY <1>1, <1>2

\* When the tail node is not empty its first chunk is the oldest one.
OldestFirst(M, U, t, C, a, z) ==
    M[U[t]].begin # M[U[t]].end => a < z /\ C[a][1] = U[t] /\ C[a][2] = M[U[t]].begin

\* Nothing in front of the tail node's first chunk is left: chunks are in the order of
\* the nodes and without gaps.
LEMMA FirstChunk ==
    ASSUME NEW M, NEW U \in [Nat -> NodeIds], NEW t \in Nat, NEW k \in Nat, t <= k,
           NEW C \in [Nat -> Chunk], NEW a \in Nat, NEW z \in Nat,
           Measured(M), Ordered(M, U, t, k, C, a, z), Gapless(M, U, t, k, C, a, z)
    PROVE  OldestFirst(M, U, t, C, a, z)
<1> SUFFICES ASSUME M[U[t]].begin # M[U[t]].end
             PROVE  a < z /\ C[a][1] = U[t] /\ C[a][2] = M[U[t]].begin
  BY DEF OldestFirst
<1>1. t \in t .. k
  OBVIOUS
<1>2. PICK i \in a .. z - 1 : C[i][1] = U[t] /\ C[i][2] = M[U[t]].begin
  BY <1>1 DEF Gapless, starts
<1>3. a \in a .. z - 1 /\ a < z /\ a <= i
  OBVIOUS
<1>4. CASE i = a
  BY <1>2, <1>3, <1>4
<1>5. CASE i # a
  <2>1. PICK p \in t .. k : U[p] = C[a][1]
    BY <1>3 DEF Ordered, inUse
  <2>2. a < i
    BY <1>3, <1>5
  <2>3. p < t \/ (p = t /\ C[a][2] + C[a][3] <= C[i][2])
    BY <1>1, <1>2, <1>3, <2>1, <2>2 DEF Ordered
  <2>4. p = t /\ C[a][1] = U[t] /\ C[a][2] + C[a][3] <= M[U[t]].begin
    BY <1>2, <2>1, <2>3
  <2>5. M[U[t]].begin <= C[a][2]
    BY <1>3, <2>4 DEF Ordered
  <2>6. C[a][2] \in Nat /\ C[a][3] \in Nat /\ C[a][3] >= 1 /\ M[U[t]].begin \in Nat
    BY <1>3, Parts DEF Measured
  <2> QED BY <2>4, <2>5, <2>6
<1> QED BY <1>4, <1>5

\* Two chunks do not begin at the same place.
LEMMA Apart ==
    ASSUME NEW M, NEW U \in [Nat -> NodeIds], NEW t \in Nat, NEW k \in Nat,
           NEW C \in [Nat -> Chunk], NEW a \in Nat, NEW z \in Nat,
           Ordered(M, U, t, k, C, a, z),
           NEW i \in a .. z - 1, NEW j \in a .. z - 1, i < j, C[i][1] = C[j][1]
    PROVE  C[i][2] + C[i][3] <= C[j][2] /\ C[i][2] # C[j][2]
<1>1. PICK p \in t .. k : U[p] = C[i][1]
  BY DEF Ordered, inUse
<1>2. p < p \/ (p = p /\ C[i][2] + C[i][3] <= C[j][2])
  BY <1>1 DEF Ordered
<1>3. C[i][2] \in Nat /\ C[i][3] \in Nat /\ C[i][3] >= 1 /\ C[j][2] \in Nat
  BY Parts
<1>4. ~(p < p)
  OBVIOUS
<1> QED BY <1>2, <1>3, <1>4

\* An empty node at the head holds no chunk.
LEMMA ChunksMore ==
    ASSUME NEW M, NEW N, NEW U \in [Nat -> NodeIds], NEW t \in Nat, NEW k \in Nat, t <= k,
           NEW m \in NodeIds, NEW V, V = [U EXCEPT ![k + 1] = m], ~inUse(U, t, k, m),
           NEW C \in [Nat -> Chunk], NEW a \in Nat, NEW z \in Nat,
           Ordered(M, U, t, k, C, a, z), Gapless(M, U, t, k, C, a, z),
           \A n \in NodeIds : n # m => N[n].begin = M[n].begin /\ N[n].end = M[n].end,
           N[m].begin = 0, N[m].end = 0
    PROVE  Ordered(N, V, t, k + 1, C, a, z) /\ Gapless(N, V, t, k + 1, C, a, z)
<1>1. \A i \in a .. z - 1 : C[i][1] \in NodeIds
  BY Parts
<1>2. /\ V \in [Nat -> NodeIds] /\ V[k + 1] = m
      /\ \A i \in t .. k : V[i] = U[i]
      /\ \A n : inUse(V, t, k + 1, n) <=> (inUse(U, t, k, n) \/ n = m)
  <2>1. LET W == [U EXCEPT ![k + 1] = m] IN
           /\ W \in [Nat -> NodeIds]
           /\ W[k + 1] = m
           /\ \A i \in t .. k : W[i] = U[i]
           /\ \A n : inUse(W, t, k + 1, n) <=> (inUse(U, t, k, n) \/ n = m)
    BY ONLY t <= k, MoreUsed, Zenon
  <2> QED BY ONLY <2>1, V = [U EXCEPT ![k + 1] = m], Zenon
<1>3. \A i \in a .. z - 1 : C[i][1] # m
  BY DEF Ordered
<1>4. \A p \in t .. k + 1 : p \in t .. k \/ p = k + 1
  OBVIOUS
<1>5. \A p \in t .. k : U[p] \in NodeIds /\ U[p] # m
  <2>1. \A p \in t .. k : p \in Nat
    OBVIOUS
  <2> QED BY <2>1 DEF inUse
<1>6. Ordered(N, V, t, k + 1, C, a, z)
  <2>1. \A i \in a .. z - 1 :
          /\ inUse(V, t, k + 1, C[i][1])
          /\ N[C[i][1]].begin <= C[i][2] /\ C[i][2] + C[i][3] <= N[C[i][1]].end
    BY <1>1, <1>2, <1>3 DEF Ordered
  <2>2. \A i \in a .. z - 1, p \in t .. k + 1 : V[p] = C[i][1] => p \in t .. k /\ U[p] = C[i][1]
    BY <1>2, <1>3, <1>4
  <2>3. \A i, j \in a .. z - 1, p, q \in t .. k + 1 :
          i < j /\ V[p] = C[i][1] /\ V[q] = C[j][1] =>
            p < q \/ (p = q /\ C[i][2] + C[i][3] <= C[j][2])
    BY <2>2 DEF Ordered
  <2> QED BY <2>1, <2>3 DEF Ordered
<1>7. Gapless(N, V, t, k + 1, C, a, z)
  <2>1. \A p \in t .. k + 1 :
          /\ N[V[p]].begin <= N[V[p]].end
          /\ N[V[p]].begin = N[V[p]].end \/ starts(C, a, z, V[p], N[V[p]].begin)
          /\ p > t => N[V[p]].begin = 0
    <3> TAKE p \in t .. k + 1
    <3>1. CASE p \in t .. k
      <4>1. V[p] = U[p] /\ N[U[p]].begin = M[U[p]].begin /\ N[U[p]].end = M[U[p]].end
        BY <1>2, <1>5, <3>1
      <4> QED BY <3>1, <4>1 DEF Gapless
    <3>2. CASE p = k + 1
      BY <1>2, <3>2
    <3> QED BY <1>4, <3>1, <3>2
  <2>2. \A i \in a .. z - 1 : C[i][2] + C[i][3] = N[C[i][1]].end
                              \/ starts(C, a, z, C[i][1], C[i][2] + C[i][3])
    BY <1>1, <1>3 DEF Gapless
  <2> QED BY <2>1, <2>2 DEF Gapless
<1> QED BY <1>6, <1>7

\* alloc claims a chunk at the end of the head.
LEMMA ChunksClaimed ==
    ASSUME NEW M, NEW N, NEW U \in [Nat -> NodeIds], NEW t \in Nat, NEW k \in Nat, t <= k,
           \A i, j \in t .. k : U[i] = U[j] => i = j,
           NEW C \in [Nat -> Chunk], NEW a \in Nat, NEW z \in Nat, a <= z,
           Measured(M), Ordered(M, U, t, k, C, a, z), Gapless(M, U, t, k, C, a, z),
           NEW s \in Nat, s >= 1,
           NEW D, D = [C EXCEPT ![z] = <<U[k], M[U[k]].end, s>>],
           \A n \in NodeIds : N[n].begin = M[n].begin,
           \A n \in NodeIds : n # U[k] => N[n].end = M[n].end,
           N[U[k]].end = M[U[k]].end + s
    PROVE  Ordered(N, U, t, k, D, a, z + 1) /\ Gapless(N, U, t, k, D, a, z + 1)
<1>1. /\ D[z][1] = U[k] /\ D[z][2] = M[U[k]].end /\ D[z][3] = s
      /\ \A i \in a .. z - 1 : D[i] = C[i]
  OBVIOUS
<1>2. k \in t .. k /\ U[k] \in NodeIds /\ M[U[k]].begin \in Nat /\ M[U[k]].end \in Nat
  BY DEF Measured
<1>3. \A i \in a .. (z + 1) - 1 : i \in a .. z - 1 \/ i = z
  OBVIOUS
<1>4. M[U[k]].begin <= M[U[k]].end
  BY <1>2 DEF Gapless
<1>5. \A i \in a .. z - 1 : /\ i \in Nat /\ C[i][1] \in NodeIds
                            /\ C[i][2] \in Nat /\ C[i][3] \in Nat /\ C[i][3] >= 1
  BY Parts
<1>6. \A i \in a .. z - 1 : /\ inUse(U, t, k, C[i][1])
                            /\ M[C[i][1]].begin <= C[i][2] /\ C[i][2] + C[i][3] <= M[C[i][1]].end
  BY DEF Ordered
<1>7. \A n \in NodeIds : M[n].end \in Nat /\ N[n].end \in Nat /\ M[n].end <= N[n].end
  BY <1>2 DEF Measured
<1>8. Ordered(N, U, t, k, D, a, z + 1)
  <2>1. \A i \in a .. (z + 1) - 1 :
          /\ inUse(U, t, k, D[i][1])
          /\ N[D[i][1]].begin <= D[i][2] /\ D[i][2] + D[i][3] <= N[D[i][1]].end
    <3> TAKE i \in a .. (z + 1) - 1
    <3>1. CASE i = z
      <4>1. inUse(U, t, k, U[k])
        BY <1>2 DEF inUse
      <4> QED BY <1>1, <1>2, <1>4, <3>1, <4>1
    <3>2. CASE i \in a .. z - 1
      <4>1. D[i] = C[i] /\ inUse(U, t, k, C[i][1]) /\ N[C[i][1]].begin <= C[i][2]
        BY <1>1, <1>5, <1>6, <3>2
      <4>2. PICK e \in Nat : e = M[C[i][1]].end
        BY <1>5, <1>7, <3>2
      <4>3. PICK g \in Nat : g = N[C[i][1]].end
        BY <1>5, <1>7, <3>2
      <4>4. e <= g /\ C[i][2] + C[i][3] <= e
        BY <1>5, <1>6, <1>7, <3>2, <4>2, <4>3
      <4>5. C[i][2] + C[i][3] <= g
        BY <1>5, <3>2, <4>4
      <4> QED BY <4>1, <4>3, <4>5
    <3> QED BY <1>3, <3>1, <3>2
  <2>2. \A i, j \in a .. (z + 1) - 1, p, q \in t .. k :
          i < j /\ U[p] = D[i][1] /\ U[q] = D[j][1] =>
            p < q \/ (p = q /\ D[i][2] + D[i][3] <= D[j][2])
    <3> SUFFICES ASSUME NEW i \in a .. (z + 1) - 1, NEW j \in a .. (z + 1) - 1,
                        NEW p \in t .. k, NEW q \in t .. k,
                        i < j, U[p] = D[i][1], U[q] = D[j][1]
                 PROVE  p < q \/ (p = q /\ D[i][2] + D[i][3] <= D[j][2])
      OBVIOUS
    <3>1. i \in a .. z - 1 /\ D[i] = C[i]
      BY <1>1
    <3>2. CASE j = z
      <4>1. q = k
        BY <1>1, <1>2, <3>2
      <4>2. CASE p = k
        <5>1. C[i][1] = U[k]
          BY <3>1, <4>2
        <5> QED BY <1>1, <1>6, <3>1, <3>2, <4>1, <4>2, <5>1
      <4>3. CASE p # k
        BY <4>1, <4>3
      <4> QED BY <4>2, <4>3
    <3>3. CASE j \in a .. z - 1
      BY <1>1, <3>1, <3>3 DEF Ordered
    <3> QED BY <1>3, <3>2, <3>3
  <2> QED BY <2>1, <2>2 DEF Ordered
<1>9. \A n, o : starts(C, a, z, n, o) => starts(D, a, z + 1, n, o)
  <2>1. \A i \in a .. z - 1 : i \in a .. (z + 1) - 1
    OBVIOUS
  <2> QED BY <1>1, <2>1 DEF starts
<1>10. starts(D, a, z + 1, U[k], M[U[k]].end)
  <2>1. z \in a .. (z + 1) - 1
    OBVIOUS
  <2> QED BY <1>1, <2>1 DEF starts
<1>11. Gapless(N, U, t, k, D, a, z + 1)
  <2>1. \A p \in t .. k : /\ N[U[p]].begin <= N[U[p]].end
                          /\ N[U[p]].begin = N[U[p]].end \/ starts(D, a, z + 1, U[p], N[U[p]].begin)
                          /\ p > t => N[U[p]].begin = 0
    <3> TAKE p \in t .. k
    <3>1. /\ M[U[p]].begin <= M[U[p]].end
          /\ M[U[p]].begin = M[U[p]].end \/ starts(C, a, z, U[p], M[U[p]].begin)
          /\ p > t => M[U[p]].begin = 0
      BY DEF Gapless
    <3>2. U[p] \in NodeIds /\ N[U[p]].begin = M[U[p]].begin
      <4>1. p \in Nat
        OBVIOUS
      <4> QED BY <4>1
    <3>3. CASE U[p] = U[k]
      <4>1. M[U[k]].begin <= M[U[k]].end + s
        BY <1>2, <1>4
      <4> QED BY <1>9, <1>10, <3>1, <3>2, <3>3, <4>1
    <3>4. CASE U[p] # U[k]
      BY <1>9, <3>1, <3>2, <3>4
    <3> QED BY <3>3, <3>4
  <2>2. \A i \in a .. (z + 1) - 1 : D[i][2] + D[i][3] = N[D[i][1]].end
                              \/ starts(D, a, z + 1, D[i][1], D[i][2] + D[i][3])
    <3> TAKE i \in a .. (z + 1) - 1
    <3>1. CASE i = z
      BY <1>1, <3>1
    <3>2. CASE i \in a .. z - 1
      <4>1. C[i][2] + C[i][3] = M[C[i][1]].end \/ starts(C, a, z, C[i][1], C[i][2] + C[i][3])
        BY <3>2 DEF Gapless
      <4>2. D[i] = C[i] /\ C[i][1] \in NodeIds
        BY <1>1, <1>5, <3>2
      <4>3. CASE C[i][1] = U[k]
        BY <1>9, <1>10, <4>1, <4>2, <4>3
      <4>4. CASE C[i][1] # U[k]
        BY <1>9, <4>1, <4>2, <4>4
      <4> QED BY <4>3, <4>4
    <3> QED BY <1>3, <3>1, <3>2
  <2> QED BY <2>1, <2>2 DEF Gapless
<1> QED BY <1>8, <1>11

\* freeMem moves the begin of the tail past the oldest chunk.
LEMMA ChunksPassed ==
    ASSUME NEW M, NEW N, NEW U \in [Nat -> NodeIds], NEW t \in Nat, NEW k \in Nat, t <= k,
           \A i, j \in t .. k : U[i] = U[j] => i = j,
           NEW C \in [Nat -> Chunk], NEW a \in Nat, NEW z \in Nat, a < z,
           Measured(M), Ordered(M, U, t, k, C, a, z), Gapless(M, U, t, k, C, a, z),
           C[a][1] = U[t],
           \A n \in NodeIds : N[n].end = M[n].end,
           \A n \in NodeIds : n # U[t] => N[n].begin = M[n].begin,
           N[U[t]].begin = C[a][2] + C[a][3]
    PROVE  Ordered(N, U, t, k, C, a + 1, z) /\ Gapless(N, U, t, k, C, a + 1, z)
<1>1. \A i \in a .. z - 1 : /\ i \in Nat /\ C[i][1] \in NodeIds
                            /\ C[i][2] \in Nat /\ C[i][3] \in Nat /\ C[i][3] >= 1
  BY Parts
<1>2. a \in a .. z - 1 /\ t \in t .. k /\ U[t] \in NodeIds
  OBVIOUS
<1>3. \A i \in a + 1 .. z - 1 : i \in a .. z - 1 /\ a < i
  OBVIOUS
<1>4. \A i \in a .. z - 1 : i = a \/ i \in a + 1 .. z - 1
  OBVIOUS
<1>5. \A i \in a + 1 .. z - 1 : C[i][1] = U[t] =>
        C[a][2] + C[a][3] <= C[i][2] /\ C[a][2] # C[i][2]
  <2> TAKE i \in a + 1 .. z - 1
  <2>1. i \in a .. z - 1 /\ a < i
    BY <1>3
  <2> QED BY <1>2, <2>1, Apart
<1>6. Ordered(N, U, t, k, C, a + 1, z)
  <2>1. \A i \in a + 1 .. z - 1 :
          /\ inUse(U, t, k, C[i][1])
          /\ N[C[i][1]].begin <= C[i][2] /\ C[i][2] + C[i][3] <= N[C[i][1]].end
    <3> TAKE i \in a + 1 .. z - 1
    <3>1. /\ inUse(U, t, k, C[i][1])
          /\ M[C[i][1]].begin <= C[i][2] /\ C[i][2] + C[i][3] <= M[C[i][1]].end
      BY <1>3 DEF Ordered
    <3>2. C[i][1] \in NodeIds /\ N[C[i][1]].end = M[C[i][1]].end
      BY <1>1, <1>3
    <3>3. CASE C[i][1] = U[t]
      BY <1>5, <3>1, <3>2, <3>3
    <3>4. CASE C[i][1] # U[t]
      BY <3>1, <3>2, <3>4
    <3> QED BY <3>3, <3>4
  <2>2. \A i, j \in a + 1 .. z - 1, p, q \in t .. k :
          i < j /\ U[p] = C[i][1] /\ U[q] = C[j][1] =>
            p < q \/ (p = q /\ C[i][2] + C[i][3] <= C[j][2])
    BY <1>3 DEF Ordered
  <2> QED BY <2>1, <2>2 DEF Ordered
<1>7. \A n, o : starts(C, a, z, n, o) /\ (n # U[t] \/ o # C[a][2]) => starts(C, a + 1, z, n, o)
  BY <1>4 DEF starts
<1>8. C[a][2] + C[a][3] # C[a][2] /\ C[a][2] + C[a][3] <= M[U[t]].end
  <2>1. C[a][2] \in Nat /\ C[a][3] \in Nat /\ C[a][3] >= 1
    BY <1>1, <1>2
  <2>2. C[a][2] + C[a][3] <= M[U[t]].end
    BY <1>2 DEF Ordered
  <2> QED BY <2>1, <2>2
<1>9. Gapless(N, U, t, k, C, a + 1, z)
  <2>1. \A p \in t .. k : /\ N[U[p]].begin <= N[U[p]].end
                          /\ N[U[p]].begin = N[U[p]].end \/ starts(C, a + 1, z, U[p], N[U[p]].begin)
                          /\ p > t => N[U[p]].begin = 0
    <3> TAKE p \in t .. k
    <3>1. CASE p = t
      <4>1. C[a][2] + C[a][3] = M[U[t]].end \/ starts(C, a, z, U[t], C[a][2] + C[a][3])
        BY <1>2 DEF Gapless
      <4>2. C[a][2] + C[a][3] = M[U[t]].end \/ starts(C, a + 1, z, U[t], C[a][2] + C[a][3])
        BY <1>7, <1>8, <4>1
      <4>3. ~(t > t)
        OBVIOUS
      <4> QED BY <1>2, <1>8, <3>1, <4>2, <4>3
    <3>2. CASE p # t
      <4>1. p \in Nat
        OBVIOUS
      <4>2. U[p] # U[t] /\ U[p] \in NodeIds
        BY <1>2, <3>2, <4>1
      <4>3. N[U[p]].begin = M[U[p]].begin /\ N[U[p]].end = M[U[p]].end
        BY <4>2
      <4>4. /\ M[U[p]].begin <= M[U[p]].end
            /\ M[U[p]].begin = M[U[p]].end \/ starts(C, a, z, U[p], M[U[p]].begin)
            /\ p > t => M[U[p]].begin = 0
        BY DEF Gapless
      <4> QED BY <1>7, <4>2, <4>3, <4>4
    <3> QED BY <3>1, <3>2
  <2>2. \A i \in a + 1 .. z - 1 : C[i][2] + C[i][3] = N[C[i][1]].end
                              \/ starts(C, a + 1, z, C[i][1], C[i][2] + C[i][3])
    <3> TAKE i \in a + 1 .. z - 1
    <3>1. C[i][2] + C[i][3] = M[C[i][1]].end \/ starts(C, a, z, C[i][1], C[i][2] + C[i][3])
      BY <1>3 DEF Gapless
    <3>2. N[C[i][1]].end = M[C[i][1]].end
      BY <1>1, <1>3
    <3>3. C[i][1] # U[t] \/ C[i][2] + C[i][3] # C[a][2]
      <4> SUFFICES ASSUME C[i][1] = U[t], C[i][2] + C[i][3] = C[a][2] PROVE FALSE
        OBVIOUS
      <4>1. C[a][2] + C[a][3] <= C[i][2]
        BY <1>5
      <4>2. /\ C[a][2] \in Nat /\ C[a][3] \in Nat /\ C[a][3] >= 1
            /\ C[i][2] \in Nat /\ C[i][3] \in Nat /\ C[i][3] >= 1
        BY <1>1, <1>2, <1>3
      <4> QED BY <4>1, <4>2
    <3> QED BY <1>7, <3>1, <3>2, <3>3
  <2> QED BY <2>1, <2>2 DEF Gapless
<1> QED BY <1>6, <1>9

\* freeMem leaves an empty tail node.
LEMMA ChunksTail ==
    ASSUME NEW M, NEW N, NEW U \in [Nat -> NodeIds], NEW t \in Nat, NEW k \in Nat, t < k,
           \A i, j \in t .. k : U[i] = U[j] => i = j,
           NEW C \in [Nat -> Chunk], NEW a \in Nat, NEW z \in Nat,
           Measured(M), Ordered(M, U, t, k, C, a, z), Gapless(M, U, t, k, C, a, z),
           M[U[t]].begin = M[U[t]].end,
           \A n \in NodeIds : n # U[t] => N[n] = M[n]
    PROVE  Ordered(N, U, t + 1, k, C, a, z) /\ Gapless(N, U, t + 1, k, C, a, z)
<1>1. U[t] \in NodeIds /\ M[U[t]].begin \in Nat /\ M[U[t]].begin >= M[U[t]].end
  BY DEF Measured
<1>2. \A i \in a .. z - 1 : C[i][1] # U[t] /\ C[i][1] \in NodeIds
  <2>1. \A i \in a .. z - 1 : C[i][1] # U[t]
    BY ONLY <1>1, EmptyNode, Measured(M), Ordered(M, U, t, k, C, a, z), Zenon
  <2>2. \A i \in a .. z - 1 : C[i][1] \in NodeIds
    BY Parts
  <2> QED BY <2>1, <2>2
<1>3. \A n : inUse(U, t + 1, k, n) <=> (inUse(U, t, k, n) /\ n # U[t])
  BY ONLY LessUsed, t < k, \A i, j \in t .. k : U[i] = U[j] => i = j, Zenon
<1>4. \A i \in a .. z - 1 : N[C[i][1]] = M[C[i][1]]
  BY <1>2
<1>5. \A p \in t + 1 .. k : p \in t .. k /\ p > t /\ N[U[p]] = M[U[p]]
  <2>1. \A p \in t + 1 .. k : p \in t .. k /\ p > t /\ p # t /\ p \in Nat
    OBVIOUS
  <2>2. t \in t .. k
    OBVIOUS
  <2> QED BY <2>1, <2>2
<1>6. Ordered(N, U, t + 1, k, C, a, z)
  BY <1>2, <1>3, <1>4, <1>5 DEF Ordered
<1>7. Gapless(N, U, t + 1, k, C, a, z)
  BY <1>4, <1>5 DEF Gapless
<1> QED BY <1>6, <1>7

\* When every used node is empty there is no chunk.
LEMMA NoChunks ==
    ASSUME NEW M, NEW U \in [Nat -> NodeIds], NEW t \in Nat, NEW k \in Nat,
           NEW C \in [Nat -> Chunk], NEW a \in Nat, NEW z \in Nat,
           Measured(M), Ordered(M, U, t, k, C, a, z),
           \A p \in t .. k : M[U[p]].begin >= M[U[p]].end
    PROVE  z <= a
<1> SUFFICES ASSUME a < z PROVE FALSE
  OBVIOUS
<1>1. a \in a .. z - 1
  OBVIOUS
<1>2. PICK p \in t .. k : U[p] = C[a][1]
  BY <1>1 DEF Ordered, inUse
<1>3. U[p] \in NodeIds /\ M[U[p]].begin >= M[U[p]].end
  OBVIOUS
<1>4. C[a][1] # U[p]
  BY <1>1, <1>3, EmptyNode, Zenon
<1> QED BY <1>2, <1>4

-----------------------------------------------------------------------------
(* The words                                                               *)

\* The words of M and N differ in at most one.
OneWord(M, N, n, o) ==
    \A x \in NodeIds, y \in 0 .. NodeSize :
        ~(x = n /\ y = o) => N[x].words[y] = M[x].words[y]

\* A step that writes no word leaves those of the chunks that remain.
LEMMA WrittenSame ==
    ASSUME NEW M, NEW N, NEW C \in [Nat -> Chunk], NEW a \in Nat, NEW f \in Nat, NEW w \in Nat,
           NEW b \in Nat, a <= b, Written(M, C, a, f, w),
           \A n \in NodeIds : N[n].words = M[n].words
    PROVE  Written(N, C, b, f, w)
<1>1. \A i \in b .. w - 1 : i \in a .. w - 1
  OBVIOUS
<1>2. \A i \in b .. w - 1 : C[i][1] \in NodeIds
  BY Parts
<1> QED BY <1>1, <1>2 DEF Written

\* A word is written where no chunk begins that has been handed out: the last word of a
\* node, or the one of the chunk that is handed out now.
LEMMA WrittenElse ==
    ASSUME NEW M, NEW N, NEW C \in [Nat -> Chunk], NEW a \in Nat, NEW f \in Nat, NEW w \in Nat,
           Written(M, C, a, f, w), NEW n \in NodeIds, NEW o,
           ~starts(C, a, w, n, o), OneWord(M, N, n, o)
    PROVE  Written(N, C, a, f, w)
<1>1. \A i \in a .. w - 1 : C[i][1] \in NodeIds /\ C[i][2] \in 0 .. NodeSize
  <2>1. \A i \in a .. w - 1 : i \in Nat /\ C[i] \in Chunk
    OBVIOUS
  <2>2. \A c \in Chunk : c[1] \in NodeIds /\ c[2] \in 0 .. NodeSize
    BY RingBufferAssumption DEF Chunk
  <2> QED BY <2>1, <2>2
<1>2. \A i \in a .. w - 1 : N[C[i][1]].words[C[i][2]] = M[C[i][1]].words[C[i][2]]
  BY <1>1 DEF starts, OneWord
<1> QED BY <1>2 DEF Written

\* The word of the next chunk is marked as freed.
LEMMA WrittenFreed ==
    ASSUME NEW M, NEW N, NEW C \in [Nat -> Chunk], NEW a \in Nat, NEW f \in Nat, NEW w \in Nat,
           a <= f, f < w, Written(M, C, a, f, w),
           \A i \in a .. w - 1 : i # f => ~(C[i][1] = C[f][1] /\ C[i][2] = C[f][2]),
           N[C[f][1]].words[C[f][2]].size = M[C[f][1]].words[C[f][2]].size,
           N[C[f][1]].words[C[f][2]].freed = TRUE, OneWord(M, N, C[f][1], C[f][2])
    PROVE  Written(N, C, a, f + 1, w)
<1>1. \A i \in a .. w - 1 : C[i][1] \in NodeIds /\ C[i][2] \in 0 .. NodeSize
  <2>1. \A i \in a .. w - 1 : i \in Nat /\ C[i] \in Chunk
    OBVIOUS
  <2>2. \A c \in Chunk : c[1] \in NodeIds /\ c[2] \in 0 .. NodeSize
    BY RingBufferAssumption DEF Chunk
  <2> QED BY <2>1, <2>2
<1> SUFFICES ASSUME NEW i \in a .. w - 1
             PROVE  /\ N[C[i][1]].words[C[i][2]].size = C[i][3]
                    /\ N[C[i][1]].words[C[i][2]].freed = (i < f + 1)
  BY DEF Written
<1>2. M[C[i][1]].words[C[i][2]].size = C[i][3] /\ M[C[i][1]].words[C[i][2]].freed = (i < f)
  BY DEF Written
<1>3. CASE i = f
  <2>1. (f < f + 1) = TRUE
    OBVIOUS
  <2> QED BY <1>2, <1>3, <2>1
<1>4. CASE i # f
  <2>1. (i < f + 1) = (i < f)
    BY <1>4
  <2> QED BY <1>1, <1>2, <1>4, <2>1 DEF OneWord
<1> QED BY <1>3, <1>4

\* A step that keeps the words of the used nodes keeps those of the chunks.
LEMMA WrittenUsed ==
    ASSUME NEW M, NEW N, NEW U \in [Nat -> NodeIds], NEW t \in Nat, NEW k \in Nat,
           NEW C \in [Nat -> Chunk], NEW a \in Nat, NEW f \in Nat, NEW w \in Nat, NEW z \in Nat,
           w <= z, Written(M, C, a, f, w), Ordered(M, U, t, k, C, a, z),
           \A n \in NodeIds : inUse(U, t, k, n) => N[n].words = M[n].words
    PROVE  Written(N, C, a, f, w)
<1>1. \A i \in a .. w - 1 : i \in a .. z - 1
  OBVIOUS
<1>2. \A i \in a .. z - 1 : C[i][1] \in NodeIds
  BY Parts
<1>3. \A i \in a .. w - 1 : N[C[i][1]].words = M[C[i][1]].words
  BY <1>1, <1>2 DEF Ordered
<1> QED BY <1>3 DEF Written

\* A step that keeps the used nodes keeps what the head has left behind.
LEMMA LeftSame ==
    ASSUME NEW M, NEW N, NEW U \in [Nat -> NodeIds], NEW t \in Nat, NEW k \in Nat, t <= k,
           NEW pc, NEW s, Left(M, U, t, k, pc, s),
           \A n \in NodeIds : inUse(U, t, k, n) => N[n] = M[n]
    PROVE  Left(N, U, t, k, pc, s)
<1>1. \A p \in t .. k : U[p] \in NodeIds /\ inUse(U, t, k, U[p])
  <2>1. \A p \in t .. k : p \in Nat
    OBVIOUS
  <2> QED BY <2>1 DEF inUse
<1>2. \A p \in t .. k : N[U[p]] = M[U[p]]
  BY <1>1
<1>3. /\ k \in t .. k /\ \A p \in t .. k - 1 : p \in t .. k
      /\ \A p \in t + 1 .. k - 1 : p \in t .. k
      /\ k > t => k - 1 \in t .. k
  OBVIOUS
<1>4. N[U[k]] = M[U[k]]
  BY <1>2, <1>3
<1>5. /\ \A p \in t .. k - 1 : N[U[p]] = M[U[p]]
      /\ \A p \in t + 1 .. k - 1 : N[U[p]] = M[U[p]]
  BY <1>2, <1>3
<1>6. k > t /\ s = U[k - 1] => N[s] = M[s]
  BY <1>2, <1>3
<1> QED BY <1>4, <1>5, <1>6 DEF Left

\* The head goes on to an empty node; it leaves one in which a chunk was allocated, unless
\* that is the tail.
LEMMA LeftMore ==
    ASSUME NEW M, NEW N, NEW U \in [Nat -> NodeIds], NEW t \in Nat, NEW k \in Nat, t <= k,
           NEW m \in NodeIds, NEW V, V = [U EXCEPT ![k + 1] = m],
           NEW pc \in {"full", "trim"}, NEW s, Left(M, U, t, k, pc, s),
           \A n \in NodeIds : inUse(U, t, k, n) =>
             N[n].end = M[n].end /\ N[n].state = M[n].state /\ N[n].words = M[n].words,
           N[m].end = 0, N[m].state # "usedOut"
    PROVE  Left(N, V, t, k + 1, "mark", U[k])
<1>1. \A p \in t .. k : p \in Nat /\ V[p] = U[p] /\ U[p] \in NodeIds /\ inUse(U, t, k, U[p])
  <2>1. \A p \in t .. k : p \in Nat /\ p # k + 1
    OBVIOUS
  <2> QED BY <2>1 DEF inUse
<1>2. \A p \in t .. k : /\ N[U[p]].end = M[U[p]].end /\ N[U[p]].state = M[U[p]].state
                        /\ N[U[p]].words = M[U[p]].words
  BY <1>1
<1>3. V[k + 1] = m
  OBVIOUS
<1>4. \A p \in t .. k - 1 : N[U[p]].state = "usedOut" /\ N[U[p]].words[N[U[p]].end].freed
  <2> TAKE p \in t .. k - 1
  <2>1. p \in t .. k
    OBVIOUS
  <2>2. M[U[p]].state = "usedOut" /\ M[U[p]].words[M[U[p]].end].freed
    BY DEF Left
  <2> QED BY <1>2, <2>1, <2>2
<1>5. \A p \in t .. (k + 1) - 1 :
         \/ N[V[p]].state = "usedOut" /\ N[V[p]].words[N[V[p]].end].freed
         \/ p = (k + 1) - 1 /\ "mark" \in {"mark", "usedOut"}
  <2> TAKE p \in t .. (k + 1) - 1
  <2>1. p = k \/ p \in t .. k - 1
    OBVIOUS
  <2>2. CASE p = k
    BY <2>2
  <2>3. CASE p \in t .. k - 1
    <3>1. p \in t .. k
      BY <2>3
    <3> QED BY <1>1, <1>4, <2>3, <3>1
  <2> QED BY <2>1, <2>2, <2>3
<1>6. \A p \in t + 1 .. (k + 1) - 1 : N[V[p]].end > 0
  <2> TAKE p \in t + 1 .. (k + 1) - 1
  <2>1. p \in t .. k /\ (p = k \/ p \in t + 1 .. k - 1)
    OBVIOUS
  <2>2. M[U[p]].end > 0
    <3>1. CASE p = k
      <4>1. k # t
        BY <3>1
      <4> QED BY <3>1, <4>1 DEF Left
    <3>2. CASE p \in t + 1 .. k - 1
      BY <3>2 DEF Left
    <3> QED BY <2>1, <3>1, <3>2
  <2> QED BY <1>1, <1>2, <2>1, <2>2
<1>7. k \in t .. k /\ k + 1 > t /\ (k + 1) - 1 = k
  OBVIOUS
<1>8. V[k] = U[k] /\ N[U[k]].state # "usedOut"
  <2>1. M[U[k]].state # "usedOut"
    BY DEF Left
  <2> QED BY <1>1, <1>2, <1>7, <2>1
<1> QED BY <1>3, <1>5, <1>6, <1>7, <1>8 DEF Left

\* A step that frees words keeps what the head has left behind.
LEMMA LeftFreed ==
    ASSUME NEW M, NEW N, NEW U \in [Nat -> NodeIds], NEW t \in Nat, NEW k \in Nat, t <= k,
           NEW pc, NEW s, Left(M, U, t, k, pc, s),
           \A n \in NodeIds : /\ N[n].next = M[n].next /\ N[n].end = M[n].end
                              /\ N[n].state = M[n].state
                              /\ M[n].words[M[n].end].freed => N[n].words[M[n].end].freed
    PROVE  Left(N, U, t, k, pc, s)
<1>1. \A p \in t .. k : U[p] \in NodeIds
  <2>1. \A p \in t .. k : p \in Nat
    OBVIOUS
  <2> QED BY <2>1
<1>2. /\ k \in t .. k /\ \A p \in t .. k - 1 : p \in t .. k
      /\ \A p \in t + 1 .. k - 1 : p \in t .. k
      /\ k > t => k - 1 \in t .. k
  OBVIOUS
<1>3. U[k] \in NodeIds
  BY <1>1, <1>2
<1>4. /\ \A p \in t .. k - 1 : U[p] \in NodeIds
      /\ \A p \in t + 1 .. k - 1 : U[p] \in NodeIds
  BY <1>1, <1>2
<1>5. k > t /\ s = U[k - 1] => s \in NodeIds
  BY <1>1, <1>2
<1>6. N[U[k]].state # "usedOut"
  BY <1>3 DEF Left
<1>7. \A p \in t .. k - 1 :
         \/ N[U[p]].state = "usedOut" /\ N[U[p]].words[N[U[p]].end].freed
         \/ p = k - 1 /\ pc \in {"mark", "usedOut"}
  BY <1>4 DEF Left
<1>8. \A p \in t + 1 .. k - 1 : N[U[p]].end > 0
  BY <1>4 DEF Left
<1>9. /\ pc \in {"full", "trim"} => k = t \/ N[U[k]].end > 0
      /\ pc = "trim" => s = N[U[k]].next /\ ~inUse(U, t, k, s)
  BY <1>3 DEF Left
<1>10. pc \in {"mark", "usedOut"} =>
         /\ k > t /\ s = U[k - 1] /\ N[U[k]].end = 0
         /\ N[s].state # "usedOut"
         /\ pc = "usedOut" => N[s].words[N[s].end].freed
  BY <1>3, <1>5 DEF Left
<1> QED BY <1>6, <1>7, <1>8, <1>9, <1>10 DEF Left

\* The tail leaves a node that is used up: it is not the one that alloc is just leaving.
LEMMA LeftTail ==
    ASSUME NEW M, NEW N, NEW U \in [Nat -> NodeIds], NEW t \in Nat, NEW k \in Nat, t < k,
           \A i, j \in t .. k : U[i] = U[j] => i = j, M[U[t]].state = "usedOut",
           NEW pc, NEW s, Left(M, U, t, k, pc, s),
           \A n \in NodeIds : n # U[t] => N[n] = M[n]
    PROVE  Left(N, U, t + 1, k, pc, s)
<1>1. \A p \in t + 1 .. k : p \in Nat /\ U[p] \in NodeIds /\ U[p] # U[t]
  <2>1. t \in t .. k /\ \A p \in t + 1 .. k : p \in Nat /\ p \in t .. k /\ p # t
    OBVIOUS
  <2> QED BY <2>1
<1>2. \A p \in t + 1 .. k : N[U[p]] = M[U[p]]
  BY <1>1
<1>3. k \in t + 1 .. k /\ \A p \in t + 1 .. k - 1 : p \in t + 1 .. k /\ p \in t .. k - 1
  OBVIOUS
<1>4. N[U[k]] = M[U[k]]
  BY <1>2, <1>3
<1>5. \A p \in t + 1 .. k - 1 : N[U[p]] = M[U[p]] /\ p \in t .. k - 1
  BY <1>2, <1>3
<1>6. \A p \in t + 1 .. k - 1 :
         \/ N[U[p]].state = "usedOut" /\ N[U[p]].words[N[U[p]].end].freed
         \/ p = k - 1 /\ pc \in {"mark", "usedOut"}
  BY <1>5 DEF Left
<1>7. \A p \in t + 1 + 1 .. k - 1 : N[U[p]].end > 0
  <2>1. \A p \in t + 1 + 1 .. k - 1 : p \in t + 1 .. k - 1
    OBVIOUS
  <2> QED BY <1>5, <2>1 DEF Left
<1>8. pc \in {"full", "trim"} => k = t + 1 \/ N[U[k]].end > 0
  <2>1. k # t
    OBVIOUS
  <2> QED BY <1>4, <2>1 DEF Left
<1>9. ASSUME pc \in {"mark", "usedOut"}
      PROVE  /\ k > t + 1 /\ s = U[k - 1] /\ N[U[k]].end = 0 /\ N[s].state # "usedOut"
             /\ pc = "usedOut" => N[s].words[N[s].end].freed
  <2>1. /\ s = U[k - 1] /\ M[U[k]].end = 0 /\ M[s].state # "usedOut"
        /\ pc = "usedOut" => M[s].words[M[s].end].freed
    BY <1>9 DEF Left
  <2>2. k - 1 # t
    BY <2>1
  <2>3. k > t + 1 /\ k - 1 \in t + 1 .. k
    BY <2>2
  <2>4. N[s] = M[s]
    BY <1>2, <2>1, <2>3
  <2> QED BY <1>4, <2>1, <2>3, <2>4
<1>10. pc = "trim" => s = N[U[k]].next /\ ~inUse(U, t + 1, k, s)
  <2>1. \A n : inUse(U, t + 1, k, n) => inUse(U, t, k, n)
    <3>1. \A p \in t + 1 .. k : p \in t .. k
      OBVIOUS
    <3> QED BY <3>1 DEF inUse
  <2> QED BY <1>4, <2>1 DEF Left
<1>11. N[U[k]].state # "usedOut"
  BY <1>4 DEF Left
<1> QED BY <1>6, <1>7, <1>8, <1>9, <1>10, <1>11 DEF Left

-----------------------------------------------------------------------------
(* The steps                                                               *)

\* How the chunks and nodes lie after a step.
LEMMA Reshape ==
    ASSUME NEW U \in [Nat -> NodeIds], NEW t \in Nat, NEW k \in Nat,
           NEW C \in [Nat -> Chunk], NEW a \in Nat, NEW f \in Nat, NEW w \in Nat, NEW z \in Nat,
           NEW N, bufNodes' = N, bufTail' = U[t], bufHead' = U[k], a <= f, f <= w,
           Linked(N, U, t, k), Ordered(N, U, t, k, C, a, z), Gapless(N, U, t, k, C, a, z),
           Written(N, C, a, f, w), Left(N, U, t, k, allocPc', spare'), Handed(C, f, w, z)',
           freePc' = "idle" => a = f
    PROVE  Shaped'
<1>1. Shape(U, t, k, C, a, f, w, z)'
  BY DEF Shape
<1> QED BY <1>1 DEF Shaped

\* The chunks handed out, in a step that hands out none, frees none and claims none.
LEMMA HandedSame ==
    ASSUME NEW C, NEW f, NEW w, NEW z, Handed(C, f, w, z), live' = live,
           allocPc' = "size" <=> allocPc = "size",
           allocPc = "size" => claimed' = claimed /\ bufHead' = bufHead /\ allocSize' = allocSize
    PROVE  Handed(C, f, w, z)'
BY DEF Handed

\* What a node is made of.
LEMMA NodeParts ==
    ASSUME BufTyped
    PROVE  /\ Measured(bufNodes)
           /\ \A n \in NodeIds : /\ bufNodes[n] \in Node
                                 /\ bufNodes[n].end \in 0 .. NodeSize - 1
                                 /\ bufNodes[n].end \in Nat /\ bufNodes[n].begin \in Nat
<1>1. \A n \in NodeIds : bufNodes[n] \in Node
  BY DEF BufTyped
<1>2. \A x \in Node : x.end \in 0 .. NodeSize - 1 /\ x.end \in Nat /\ x.begin \in Nat
  BY RingBufferAssumption DEF Node
<1> QED BY <1>1, <1>2 DEF Measured

\* What a call of alloc leaves as it is.
LEMMA CallStep == Shaped /\ (\E s \in ChunkSizes : callAlloc(s)) => Shaped'
<1> SUFFICES ASSUME Shaped, NEW s \in ChunkSizes, callAlloc(s) PROVE Shaped'
  OBVIOUS
<1>1. PICK U \in [Nat -> NodeIds], t, k \in Nat, C \in [Nat -> Chunk], a, f, w, z \in Nat :
        Shape(U, t, k, C, a, f, w, z)
  BY DEF Shaped
<1>2. /\ UNCHANGED <<bufNodes, bufHead, bufTail, live, freePc, spare>>
      /\ allocPc = "idle" /\ allocPc' = "claim"
  BY DEF callAlloc, freeLocals
<1>3. Handed(C, f, w, z)'
  BY <1>1, <1>2, HandedSame DEF Shape
<1>4. Left(bufNodes, U, t, k, allocPc', spare')
  BY <1>1, <1>2 DEF Shape, Left
<1> QED BY <1>1, <1>2, <1>3, <1>4, Reshape DEF Shape

\* alloc claims a chunk in the head node, or finds that it does not fit: it fits in an
\* empty one.
LEMMA ClaimStep == BufTyped /\ Shaped /\ claimChunk => Shaped'
<1> SUFFICES ASSUME BufTyped, Shaped, claimChunk PROVE Shaped'
  OBVIOUS
<1> USE RingBufferAssumption
<1>1. PICK U \in [Nat -> NodeIds], t, k \in Nat, C \in [Nat -> Chunk], a, f, w, z \in Nat :
        Shape(U, t, k, C, a, f, w, z)
  BY DEF Shaped
<1>2. PICK M : M = bufNodes
  OBVIOUS
<1>3. PICK N : N = bufNodes'
  OBVIOUS
<1>4. PICK h \in NodeIds : h = bufHead
  BY DEF BufTyped
<1>5. PICK s \in ChunkSizes : s = allocSize
  BY DEF BufTyped, claimChunk
<1>6. /\ UNCHANGED <<bufHead, bufTail, live, freePc, spare, allocSize>> /\ allocPc = "claim"
      /\ U[k] = h /\ U[t] = bufTail
  BY <1>1, <1>4 DEF claimChunk, freeLocals, Shape
<1>7. /\ Measured(M) /\ M \in [NodeIds -> Node]
      /\ M[h].end \in 0 .. NodeSize - 1 /\ M[h].end \in Nat
  BY <1>2, NodeParts DEF BufTyped
<1>8. /\ Linked(M, U, t, k) /\ Ordered(M, U, t, k, C, a, z) /\ Gapless(M, U, t, k, C, a, z)
      /\ Written(M, C, a, f, w) /\ Left(M, U, t, k, "claim", spare)
      /\ a <= f /\ f <= w /\ w = z /\ (freePc = "idle" => a = f) /\ Handed(C, f, w, z)
  BY <1>1, <1>2, <1>6 DEF Shape, Handed
<1>9. t <= k /\ k \in t .. k /\ \A i, j \in t .. k : U[i] = U[j] => i = j
  BY <1>8 DEF Linked
<1>10. \A p \in t .. k : p \in Nat /\ U[p] \in NodeIds /\ (p # k => U[p] # h)
  BY <1>6, <1>9
<1>11. inUse(U, t, k, h)
  BY <1>6, <1>9 DEF inUse
<1>12. CASE M[h].end + s < NodeSize
  <2>1. N = [M EXCEPT ![h] = [M[h] EXCEPT !.end = M[h].end + s]] /\ allocPc' = "size"
    BY <1>2, <1>3, <1>4, <1>5, <1>12 DEF claimChunk
  <2>2. /\ N[h].end = M[h].end + s
        /\ \A n \in NodeIds : n # h => N[n] = M[n]
        /\ \A n \in NodeIds : /\ N[n].next = M[n].next /\ N[n].begin = M[n].begin
                              /\ N[n].state = M[n].state /\ N[n].words = M[n].words
    BY <1>7, <2>1 DEF Node
  <2>3. PICK D : D = [C EXCEPT ![z] = <<U[k], M[U[k]].end, s>>]
    OBVIOUS
  <2>4. s \in Nat /\ s >= 1 /\ s \in 1 .. NodeSize
    OBVIOUS
  <2>5. D \in [Nat -> Chunk]
    <3>1. <<U[k], M[U[k]].end, s>> \in Chunk
      BY <1>6, <1>7, <2>4 DEF Chunk
    <3> QED BY <2>3, <3>1
  <2>6. \A n \in NodeIds : ~inUse(U, t, k, n) => N[n] = M[n]
    BY <1>11, <2>2
  <2>7. Linked(N, U, t, k)
    BY ONLY <1>8, <2>2, <2>6, LinkedSame, Zenon
  <2>8. /\ \A n \in NodeIds : N[n].begin = M[n].begin
        /\ \A n \in NodeIds : n # U[k] => N[n].end = M[n].end
        /\ N[U[k]].end = M[U[k]].end + s
    BY <1>6, <2>2
  <2>9. a <= z
    BY <1>8
  <2>10. Ordered(N, U, t, k, D, a, z + 1) /\ Gapless(N, U, t, k, D, a, z + 1)
    BY ONLY <1>7, <1>8, <1>9, <2>3, <2>4, <2>8, <2>9, ChunksClaimed, Zenon
  <2>11. \A i \in Nat : i # z => D[i] = C[i]
    BY <2>3
  <2>12. Written(N, D, a, f, w)
    <3>1. a <= a
      OBVIOUS
    <3>2. Written(N, C, a, f, w)
      BY ONLY <1>8, <2>2, <3>1, WrittenSame, ZenonT(40)
    <3>3. \A i \in a .. w - 1 : D[i] = C[i]
      BY <1>8, <2>11
    <3> QED BY <3>2, <3>3 DEF Written
  <2>13. Left(N, U, t, k, "size", spare)
    <3>1. \A p \in t .. k - 1 : N[U[p]] = M[U[p]]
      <4>1. \A p \in t .. k - 1 : p \in t .. k /\ p # k
        OBVIOUS
      <4> QED BY <1>10, <2>2, <4>1
    <3>2. \A p \in t + 1 .. k - 1 : p \in t .. k - 1
      OBVIOUS
    <3>3. N[U[k]].state = M[U[k]].state
      BY <1>6, <2>2
    <3> QED BY <1>8, <3>1, <3>2, <3>3 DEF Left
  <2>14. Handed(D, f, w, z + 1)'
    <3>1. live \in Seq(Chunk) /\ Len(live) \in Nat /\ w = f + Len(live)
      BY <1>8 DEF BufTyped, Handed
    <3>2. \A i \in 1 .. Len(live) : live[i] = D[f + i - 1]
      <4> TAKE i \in 1 .. Len(live)
      <4>1. f + i - 1 \in Nat /\ f + i - 1 # z
        BY <1>8, <3>1
      <4>2. live[i] = C[f + i - 1]
        BY <1>8 DEF Handed
      <4> QED BY <2>11, <4>1, <4>2
    <3>3. claimed' = M[h].end
      <4>1. claimed' = N[h].end - s
        BY <1>3, <1>4, <1>5, <1>6 DEF claimed
      <4> QED BY <1>7, <2>2, <2>4, <4>1
    <3>4. D[w] = <<bufHead', claimed', allocSize'>>
      BY <1>4, <1>5, <1>6, <1>8, <2>3, <3>3
    <3> QED BY <1>6, <1>8, <2>1, <3>1, <3>2, <3>4 DEF Handed
  <2>15. bufNodes' = N /\ bufTail' = U[t] /\ bufHead' = U[k] /\ z + 1 \in Nat
    BY <1>3, <1>4, <1>6
  <2>16. Left(N, U, t, k, allocPc', spare') /\ (freePc' = "idle" => a = f)
    BY <1>6, <1>8, <2>1, <2>13
  <2> QED BY ONLY <1>8, <2>5, <2>7, <2>10, <2>12, <2>14, <2>15, <2>16, Reshape, Zenon
<1>13. CASE ~(M[h].end + s < NodeSize)
  <2>1. N = [M EXCEPT ![h] = [M[h] EXCEPT !.state = "locked"]] /\ allocPc' = "full"
    BY <1>2, <1>3, <1>4, <1>5, <1>13 DEF claimChunk
  <2>2. /\ N[h].state = "locked"
        /\ \A n \in NodeIds : n # h => N[n] = M[n]
        /\ \A n \in NodeIds : /\ N[n].next = M[n].next /\ N[n].begin = M[n].begin
                              /\ N[n].end = M[n].end /\ N[n].words = M[n].words
    BY <1>7, <2>1 DEF Node
  <2>3. \A n \in NodeIds : ~inUse(U, t, k, n) => N[n] = M[n]
    BY <1>11, <2>2
  <2>4. Linked(N, U, t, k)
    BY ONLY <1>8, <2>2, <2>3, LinkedSame, Zenon
  <2>5. Ordered(N, U, t, k, C, a, z) /\ Gapless(N, U, t, k, C, a, z)
    BY ONLY <1>8, <2>2, ChunksSame, ZenonT(40)
  <2>6. Written(N, C, a, f, w)
    <3>1. a <= a
      OBVIOUS
    <3> QED BY ONLY <1>8, <2>2, <3>1, WrittenSame, ZenonT(40)
  <2>7. Left(N, U, t, k, "full", spare)
    <3>1. \A p \in t .. k - 1 : N[U[p]] = M[U[p]]
      <4>1. \A p \in t .. k - 1 : p \in t .. k /\ p # k
        OBVIOUS
      <4> QED BY <1>10, <2>2, <4>1
    <3>2. \A p \in t + 1 .. k - 1 : p \in t .. k - 1
      OBVIOUS
    <3>3. N[U[k]].state = "locked" /\ N[U[k]].end = M[h].end
      BY <1>6, <2>2
    <3>4. M[h].end > 0
      BY <1>7, <1>13
    <3> QED BY <1>8, <3>1, <3>2, <3>3, <3>4 DEF Left
  <2>8. Handed(C, f, w, z)'
    BY <1>6, <1>8, <2>1, HandedSame
  <2>9. bufNodes' = N /\ bufTail' = U[t] /\ bufHead' = U[k]
    BY <1>3, <1>4, <1>6
  <2>10. Left(N, U, t, k, allocPc', spare') /\ (freePc' = "idle" => a = f)
    BY <1>6, <1>8, <2>1, <2>7
  <2> QED BY ONLY <1>8, <2>4, <2>5, <2>6, <2>8, <2>9, <2>10, Reshape, Zenon
<1> QED BY <1>12, <1>13

\* alloc writes the word of the chunk that it claimed and hands it out.
LEMMA WriteStep == BufTyped /\ Shaped /\ writeSize => Shaped'
<1> SUFFICES ASSUME BufTyped, Shaped, writeSize PROVE Shaped'
  OBVIOUS
<1> USE RingBufferAssumption
<1>1. PICK U \in [Nat -> NodeIds], t, k \in Nat, C \in [Nat -> Chunk], a, f, w, z \in Nat :
        Shape(U, t, k, C, a, f, w, z)
  BY DEF Shaped
<1>2. PICK M : M = bufNodes
  OBVIOUS
<1>3. PICK N : N = bufNodes'
  OBVIOUS
<1>4. PICK h \in NodeIds : h = bufHead
  BY DEF BufTyped
<1>5. PICK o : o = claimed
  OBVIOUS
<1>6. /\ UNCHANGED <<bufHead, bufTail, freePc, spare, allocSize>>
      /\ allocPc = "size" /\ allocPc' = "idle" /\ live' = Append(live, <<h, o, allocSize>>)
      /\ U[k] = h /\ U[t] = bufTail
  BY <1>1, <1>4, <1>5 DEF writeSize, freeLocals, Shape
<1>7. M \in [NodeIds -> Node]
  BY <1>2 DEF BufTyped
<1>8. /\ Linked(M, U, t, k) /\ Ordered(M, U, t, k, C, a, z) /\ Gapless(M, U, t, k, C, a, z)
      /\ Written(M, C, a, f, w) /\ Left(M, U, t, k, "size", spare)
      /\ a <= f /\ f <= w /\ z = w + 1 /\ (freePc = "idle" => a = f) /\ Handed(C, f, w, z)
      /\ C[w] = <<h, o, allocSize>>
  BY <1>1, <1>2, <1>4, <1>5, <1>6 DEF Shape, Handed
<1>9. C[w] \in Chunk /\ o \in 0 .. NodeSize - 1 /\ o \in 0 .. NodeSize /\ C[w][1] = h /\ C[w][2] = o
      /\ C[w][3] = allocSize /\ allocSize \in Nat
  <2>1. C[w] \in Chunk
    OBVIOUS
  <2>2. \A c \in Chunk : c[1] \in NodeIds /\ c[2] \in 0 .. NodeSize - 1 /\ c[3] \in Nat
    BY DEF Chunk
  <2>3. C[w][1] = h /\ C[w][2] = o /\ C[w][3] = allocSize
    BY <1>8
  <2>4. o \in 0 .. NodeSize - 1 /\ allocSize \in Nat
    BY <2>1, <2>2, <2>3
  <2> QED BY <2>1, <2>3, <2>4
<1>10. t <= k /\ k \in t .. k /\ \A i, j \in t .. k : U[i] = U[j] => i = j
  BY <1>8 DEF Linked
<1>11. \A p \in t .. k : p \in Nat /\ U[p] \in NodeIds /\ (p # k => U[p] # h)
  BY <1>6, <1>10
<1>12. inUse(U, t, k, h)
  BY <1>6, <1>10 DEF inUse
<1>13. N = [M EXCEPT ![h] = [M[h] EXCEPT !.words = [M[h].words EXCEPT ![o] = word(allocSize, FALSE)]]]
  BY <1>2, <1>3, <1>4, <1>5 DEF writeSize
<1>14. /\ N[h].words = [M[h].words EXCEPT ![o] = word(allocSize, FALSE)]
       /\ \A n \in NodeIds : n # h => N[n] = M[n]
       /\ \A n \in NodeIds : /\ N[n].next = M[n].next /\ N[n].begin = M[n].begin
                             /\ N[n].end = M[n].end /\ N[n].state = M[n].state
  BY <1>7, <1>13 DEF Node
<1>15. M[h].words \in [0 .. NodeSize -> Word]
  BY <1>7 DEF Node
<1>16. /\ N[h].words[o] = word(allocSize, FALSE)
       /\ \A y \in 0 .. NodeSize : y # o => N[h].words[y] = M[h].words[y]
  BY <1>9, <1>14, <1>15
<1>17. OneWord(M, N, h, o)
  BY <1>14, <1>16 DEF OneWord
<1>18. Linked(N, U, t, k)
  <2>1. \A n \in NodeIds : ~inUse(U, t, k, n) => N[n] = M[n]
    BY <1>12, <1>14
  <2> QED BY ONLY <1>8, <1>14, <2>1, LinkedSame, ZenonT(40)
<1>19. Ordered(N, U, t, k, C, a, z) /\ Gapless(N, U, t, k, C, a, z)
  <2>1. Ordered(M, U, t, k, C, a, z) /\ Gapless(M, U, t, k, C, a, z)
    BY <1>8
  <2>2. \A n \in NodeIds : N[n].begin = M[n].begin /\ N[n].end = M[n].end
    BY <1>14
  <2> QED BY ONLY <2>1, <2>2, ChunksSame, Zenon
<1>20. Written(N, C, a, f, w + 1)
  <2>1. ~starts(C, a, w, h, o)
    <3> SUFFICES ASSUME NEW i \in a .. w - 1, C[i][1] = h, C[i][2] = o PROVE FALSE
      BY DEF starts
    <3>1. i \in a .. z - 1 /\ w \in a .. z - 1 /\ i < w
      BY <1>8
    <3>2. C[i][1] = C[w][1]
      BY <1>9
    <3>3. C[i][2] # C[w][2]
      BY ONLY <1>8, <3>1, <3>2, Apart
    <3> QED BY <1>9, <3>3
  <2>2. Written(N, C, a, f, w)
    <3>1. Written(M, C, a, f, w)
      BY <1>8
    <3> QED BY ONLY <1>17, <2>1, <3>1, WrittenElse
  <2>3. \A i \in a .. (w + 1) - 1 : i \in a .. w - 1 \/ i = w
    OBVIOUS
  <2>4. N[C[w][1]].words[C[w][2]].size = C[w][3] /\ N[C[w][1]].words[C[w][2]].freed = FALSE
    BY <1>9, <1>16 DEF word
  <2>5. (w < f) = FALSE
    BY <1>8
  <2> QED BY <2>2, <2>3, <2>4, <2>5 DEF Written
<1>21. Left(N, U, t, k, "idle", spare)
  <2>1. \A p \in t .. k - 1 : N[U[p]] = M[U[p]]
    <3>1. \A p \in t .. k - 1 : p \in t .. k /\ p # k
      OBVIOUS
    <3> QED BY <1>11, <1>14, <3>1
  <2>2. \A p \in t + 1 .. k - 1 : p \in t .. k - 1
    OBVIOUS
  <2>3. N[U[k]].state = M[U[k]].state
    BY <1>6, <1>14
  <2> QED BY <1>8, <2>1, <2>2, <2>3 DEF Left
<1>22. Handed(C, f, w + 1, z)'
  <2>1. live \in Seq(Chunk) /\ Len(live) \in Nat /\ w = f + Len(live)
    BY <1>8 DEF BufTyped, Handed
  <2>2. Len(live') = Len(live) + 1 /\ live'[Len(live) + 1] = C[w]
        /\ \A i \in 1 .. Len(live) : live'[i] = live[i]
    BY <1>6, <1>8, <2>1
  <2>3. \A i \in 1 .. Len(live') : live'[i] = C[f + i - 1]
    <3> TAKE i \in 1 .. Len(live')
    <3>1. CASE i = Len(live) + 1
      <4>1. f + i - 1 = w
        BY <2>1, <3>1
      <4> QED BY <2>2, <3>1, <4>1
    <3>2. CASE i # Len(live) + 1
      <4>1. i \in 1 .. Len(live)
        BY <2>1, <2>2, <3>2
      <4> QED BY <1>8, <2>2, <4>1 DEF Handed
    <3> QED BY <3>1, <3>2
  <2>4. w + 1 = f + Len(live')
    BY <2>1, <2>2
  <2> QED BY <1>6, <1>8, <2>3, <2>4 DEF Handed
<1>23. bufNodes' = N /\ bufTail' = U[t] /\ bufHead' = U[k] /\ w + 1 \in Nat /\ f <= w + 1
  BY <1>3, <1>4, <1>6, <1>8
<1>24. Left(N, U, t, k, allocPc', spare') /\ (freePc' = "idle" => a = f)
  BY <1>6, <1>8, <1>21
<1> QED BY ONLY <1>8, <1>18, <1>19, <1>20, <1>22, <1>23, <1>24, Reshape, Zenon

\* alloc puts a new node behind the head, or finds a free one there.
LEMMA NextStep == BufTyped /\ Shaped /\ nextNode => Shaped'
<1> SUFFICES ASSUME BufTyped, Shaped, nextNode PROVE Shaped'
  OBVIOUS
<1> USE RingBufferAssumption
<1>1. PICK U \in [Nat -> NodeIds], t, k \in Nat, C \in [Nat -> Chunk], a, f, w, z \in Nat :
        Shape(U, t, k, C, a, f, w, z)
  BY DEF Shaped
<1>2. PICK M : M = bufNodes
  OBVIOUS
<1>3. PICK N : N = bufNodes'
  OBVIOUS
<1>4. PICK h \in NodeIds : h = bufHead
  BY DEF BufTyped
<1>5. /\ UNCHANGED <<bufTail, live, freePc>> /\ allocPc = "full"
      /\ U[k] = h /\ U[t] = bufTail
  BY <1>1, <1>4 DEF nextNode, freeLocals, Shape
<1>6. M \in [NodeIds -> Node]
  BY <1>2 DEF BufTyped
<1>7. /\ Linked(M, U, t, k) /\ Ordered(M, U, t, k, C, a, z) /\ Gapless(M, U, t, k, C, a, z)
      /\ Written(M, C, a, f, w) /\ Left(M, U, t, k, "full", spare)
  BY <1>1, <1>2, <1>5 DEF Shape
<1>8. a <= f /\ f <= w /\ w = z /\ (freePc = "idle" => a = f) /\ Handed(C, f, w, z)
  BY <1>1, <1>5 DEF Shape, Handed
<1>9. /\ t <= k /\ k \in t .. k /\ t \in t .. k
      /\ \A i, j \in t .. k : U[i] = U[j] => i = j
      /\ \A i \in t .. k : M[U[i]].next # 0
  BY <1>7 DEF Linked
<1>10. inUse(U, t, k, h) /\ M[h].next # 0 /\ M[h].next \in NodeIds
  BY <1>5, <1>7, <1>9 DEF inUse, Linked
<1>11. CASE M[h].next = U[t]
  <2>1. PICK m \in NodeIds : /\ M[m].next = 0
                             /\ bufNodes' = [bufNodes EXCEPT ![m] = newNode(M[h].next), ![bufHead].next = m]
                             /\ bufHead' = m
    <3>1. NodeIds \ Nodes # {}
      <4>1. NodeIds # Nodes /\ Nodes \subseteq NodeIds
        BY <1>2, <1>4, <1>5, <1>11 DEF nextNode, Nodes
      <4> QED BY <4>1
    <3>2. PICK m : m = CHOOSE x \in NodeIds \ Nodes : TRUE
      OBVIOUS
    <3>3. m \in NodeIds \ Nodes
      BY <3>1, <3>2
    <3>4. M[m].next = 0
      BY <1>2, <3>3 DEF Nodes
    <3> QED BY <1>2, <1>4, <1>5, <1>11, <3>2, <3>3, <3>4 DEF nextNode
  <2>2. spare' = h /\ allocPc' = "mark"
    BY <1>2, <1>4, <1>5, <1>11 DEF nextNode
  <2>3. m # h /\ ~inUse(U, t, k, m)
    BY <1>9, <1>10, <2>1 DEF inUse
  <2>4. N = [[M EXCEPT ![m] = newNode(U[t])] EXCEPT ![h] = [M[h] EXCEPT !.next = m]]
    <3>1. [M EXCEPT ![m] = newNode(U[t])][h] = M[h]
      BY <1>6, <2>3
    <3>2. N = [M EXCEPT ![m] = newNode(U[t]), ![h].next = m]
      BY <1>2, <1>3, <1>4, <1>11, <2>1
    <3> QED BY <1>6, <3>1, <3>2
  <2>5. N[m] = newNode(U[t])
    BY <1>6, <2>3, <2>4
  <2>6. N[h] = [M[h] EXCEPT !.next = m] /\ \A n \in NodeIds : n # m /\ n # h => N[n] = M[n]
    BY <1>6, <2>3, <2>4
  <2>7. N[m].next = U[t] /\ N[m].begin = 0 /\ N[m].end = 0 /\ N[m].state = "open"
    BY <2>5 DEF newNode
  <2>8. /\ N[h].next = m /\ N[h].begin = M[h].begin /\ N[h].end = M[h].end
        /\ N[h].state = M[h].state /\ N[h].words = M[h].words
    BY <1>6, <2>6 DEF Node
  <2>9. \A n \in NodeIds : n # m => /\ N[n].begin = M[n].begin /\ N[n].end = M[n].end
                                    /\ N[n].state = M[n].state /\ N[n].words = M[n].words
    BY <2>6, <2>8
  <2>10. PICK V : V = [U EXCEPT ![k + 1] = m]
    OBVIOUS
  <2>11. V \in [Nat -> NodeIds] /\ V[k + 1] = m /\ V[t] = U[t]
    BY <1>9, <2>10
  <2>12. Linked(N, V, t, k + 1)
    <3>1. N[U[k]].next = m /\ N[m].next = U[t]
      BY <1>5, <2>7, <2>8
    <3>2. OthersSame(M, N, m, U[k])
      BY <1>5, <2>6 DEF OthersSame
    <3>3. Between(M, U, t, k, m)
      BY <1>5, <1>11, <2>1 DEF Between
    <3>4. Linked(M, U, t, k)
      BY <1>7
    <3> QED BY ONLY <2>3, <2>10, <3>1, <3>2, <3>3, <3>4, LinkedMore, Zenon
  <2>13. Ordered(N, V, t, k + 1, C, a, z) /\ Gapless(N, V, t, k + 1, C, a, z)
    <3>1. t <= k /\ ~inUse(U, t, k, m) /\ N[m].begin = 0 /\ N[m].end = 0
      BY <1>9, <2>3, <2>7
    <3>2. \A n \in NodeIds : n # m => N[n].begin = M[n].begin /\ N[n].end = M[n].end
      BY <2>9
    <3>3. Ordered(M, U, t, k, C, a, z) /\ Gapless(M, U, t, k, C, a, z)
      BY <1>7
    <3> QED BY ONLY <2>10, <3>1, <3>2, <3>3, ChunksMore, Zenon
  <2>14. Written(N, C, a, f, w)
    <3>1. w <= z
      BY <1>8
    <3>2. \A n \in NodeIds : inUse(U, t, k, n) => N[n].words = M[n].words
      BY <2>3, <2>9
    <3> QED BY ONLY <1>7, <3>1, <3>2, WrittenUsed
  <2>15. Left(N, V, t, k + 1, "mark", U[k])
    <3>1. Left(M, U, t, k, "full", spare) /\ "full" \in {"full", "trim"} /\ t <= k
      BY <1>7, <1>9
    <3>2. \A n \in NodeIds : inUse(U, t, k, n) =>
             N[n].end = M[n].end /\ N[n].state = M[n].state /\ N[n].words = M[n].words
      BY <2>3, <2>9
    <3>3. N[m].end = 0 /\ N[m].state # "usedOut"
      BY <2>7
    <3> QED BY ONLY <2>10, <3>1, <3>2, <3>3, LeftMore, ZenonT(40)
  <2>16. Handed(C, f, w, z)'
    BY <1>5, <1>8, <2>2, HandedSame
  <2>17. bufNodes' = N /\ bufTail' = V[t] /\ bufHead' = V[k + 1] /\ k + 1 \in Nat
    BY <1>3, <1>5, <2>1, <2>11
  <2>18. Left(N, V, t, k + 1, allocPc', spare') /\ (freePc' = "idle" => a = f)
    BY <1>5, <1>8, <2>2, <2>15
  <2>19. V \in [Nat -> NodeIds] /\ a <= f /\ f <= w
    BY <1>8, <2>11
  <2> QED BY ONLY <2>12, <2>13, <2>14, <2>16, <2>17, <2>18, <2>19, Reshape, Zenon
<1>12. CASE M[h].next # U[t]
  <2>1. UNCHANGED <<bufNodes, bufHead>> /\ spare' = M[h].next /\ allocPc' = "trim"
    BY <1>2, <1>4, <1>5, <1>12 DEF nextNode
  <2>2. ~inUse(U, t, k, M[h].next)
    BY <1>5, <1>7, <1>10, <1>12 DEF Linked
  <2>3. Left(M, U, t, k, "trim", M[h].next)
    BY <1>5, <1>7, <2>2 DEF Left
  <2>4. Handed(C, f, w, z)'
    BY <1>5, <1>8, <2>1, HandedSame
  <2>5. bufNodes' = M /\ bufTail' = U[t] /\ bufHead' = U[k]
    BY <1>2, <1>4, <1>5, <2>1
  <2>6. Left(M, U, t, k, allocPc', spare') /\ (freePc' = "idle" => a = f) /\ a <= f /\ f <= w
    BY <1>5, <1>8, <2>1, <2>3
  <2> QED BY ONLY <1>7, <2>4, <2>5, <2>6, Reshape, Zenon
<1> QED BY <1>11, <1>12

\* What is behind the head while alloc deletes free nodes.
LEMMA FreeNodes ==
    ASSUME NEW M, NEW U \in [Nat -> NodeIds], NEW t \in Nat, NEW k \in Nat, NEW s, NEW m,
           Linked(M, U, t, k), s = M[U[k]].next, ~inUse(U, t, k, s), m = M[s].next, m # U[t]
    PROVE  /\ s \in NodeIds /\ m \in NodeIds /\ s # m /\ ~inUse(U, t, k, m)
           /\ M[s].next # 0 /\ M[m].next # 0 /\ U[k] # s /\ U[k] # m /\ M[U[k]].next # 0
<1>1. t <= k /\ k \in t .. k /\ U[k] \in NodeIds /\ M[U[k]].next # 0
  BY DEF Linked
<1>2. inUse(U, t, k, U[k])
  BY <1>1 DEF inUse
<1>3. s \in NodeIds /\ M[s].next # 0
  BY <1>1 DEF Linked
<1>4. m \in NodeIds /\ M[m].next # 0 /\ ~inUse(U, t, k, m)
  BY <1>3 DEF Linked
<1>5. s # m
  BY <1>1, <1>2, <1>3 DEF Linked
<1> QED BY <1>1, <1>2, <1>3, <1>4, <1>5

\* alloc goes on to the free node, deletes one behind it, or ends.
LEMMA TrimStep == BufTyped /\ Shaped /\ trim => Shaped'
<1> SUFFICES ASSUME BufTyped, Shaped, trim PROVE Shaped'
  OBVIOUS
<1> USE RingBufferAssumption
<1>1. PICK U \in [Nat -> NodeIds], t, k \in Nat, C \in [Nat -> Chunk], a, f, w, z \in Nat :
        Shape(U, t, k, C, a, f, w, z)
  BY DEF Shaped
<1>2. PICK M : M = bufNodes
  OBVIOUS
<1>3. PICK N : N = bufNodes'
  OBVIOUS
<1>4. PICK h \in NodeIds : h = bufHead
  BY DEF BufTyped
<1>5. /\ UNCHANGED <<bufTail, live, freePc>> /\ allocPc = "trim"
      /\ U[k] = h /\ U[t] = bufTail
  BY <1>1, <1>4 DEF trim, trimLeaving, freeLocals, Shape
<1>6. M \in [NodeIds -> Node]
  BY <1>2 DEF BufTyped
<1>7. /\ Linked(M, U, t, k) /\ Ordered(M, U, t, k, C, a, z) /\ Gapless(M, U, t, k, C, a, z)
      /\ Written(M, C, a, f, w) /\ Left(M, U, t, k, "trim", spare)
  BY <1>1, <1>2, <1>5 DEF Shape
<1>8. a <= f /\ f <= w /\ w = z /\ (freePc = "idle" => a = f) /\ Handed(C, f, w, z)
  BY <1>1, <1>5 DEF Shape, Handed
<1>9. /\ t <= k /\ k \in t .. k /\ t \in t .. k /\ M[U[k]].next # 0
  BY <1>7 DEF Linked
<1>10. PICK s : s = spare
  OBVIOUS
<1>11. s = M[U[k]].next /\ ~inUse(U, t, k, s)
  BY <1>7, <1>10 DEF Left
<1>12. s \in NodeIds /\ M[s].next # 0 /\ inUse(U, t, k, U[k]) /\ s # U[k]
  BY <1>7, <1>9, <1>11 DEF Linked, inUse
<1>13. CASE M[s].next = U[t]
  <2>1. bufHead' = s /\ spare' = h /\ allocPc' = "mark" /\ bufNodes' = M
    BY <1>2, <1>4, <1>5, <1>10, <1>13 DEF trim, trimLeaving
  <2>2. M[s].begin = 0 /\ M[s].end = 0 /\ M[s].state = "open"
    BY <1>7, <1>11, <1>12 DEF Linked
  <2>3. PICK V : V = [U EXCEPT ![k + 1] = s]
    OBVIOUS
  <2>4. V \in [Nat -> NodeIds] /\ V[k + 1] = s /\ V[t] = U[t]
    BY <1>9, <1>12, <2>3
  <2>5. Linked(M, V, t, k + 1)
    <3>1. M[U[k]].next = s /\ M[s].next = U[t] /\ s \in NodeIds
      BY <1>11, <1>12, <1>13
    <3>2. OthersSame(M, M, s, U[k])
      BY DEF OthersSame
    <3>3. Between(M, U, t, k, s)
      BY <3>1 DEF Between
    <3>4. Linked(M, U, t, k)
      BY <1>7
    <3> QED BY ONLY <1>11, <2>3, <3>1, <3>2, <3>3, <3>4, LinkedMore, Zenon
  <2>6. Ordered(M, V, t, k + 1, C, a, z) /\ Gapless(M, V, t, k + 1, C, a, z)
    <3>1. t <= k /\ ~inUse(U, t, k, s) /\ M[s].begin = 0 /\ M[s].end = 0 /\ s \in NodeIds
      BY <1>9, <1>11, <1>12, <2>2
    <3>2. \A n \in NodeIds : n # s => M[n].begin = M[n].begin /\ M[n].end = M[n].end
      OBVIOUS
    <3>3. Ordered(M, U, t, k, C, a, z) /\ Gapless(M, U, t, k, C, a, z)
      BY <1>7
    <3> QED BY ONLY <2>3, <3>1, <3>2, <3>3, ChunksMore
  <2>7. Left(M, V, t, k + 1, "mark", U[k])
    <3>1. Left(M, U, t, k, "trim", spare) /\ "trim" \in {"full", "trim"} /\ t <= k
      BY <1>7, <1>9
    <3>2. \A n \in NodeIds : inUse(U, t, k, n) =>
             M[n].end = M[n].end /\ M[n].state = M[n].state /\ M[n].words = M[n].words
      OBVIOUS
    <3>3. M[s].end = 0 /\ M[s].state # "usedOut" /\ s \in NodeIds
      BY <1>12, <2>2
    <3> QED BY ONLY <2>3, <3>1, <3>2, <3>3, LeftMore
  <2>8. Handed(C, f, w, z)'
    BY <1>5, <1>8, <2>1, HandedSame
  <2>9. bufNodes' = M /\ bufTail' = V[t] /\ bufHead' = V[k + 1] /\ k + 1 \in Nat
    BY <1>5, <2>1, <2>4
  <2>10. Left(M, V, t, k + 1, allocPc', spare') /\ (freePc' = "idle" => a = f)
    BY <1>5, <1>8, <2>1, <2>7
  <2>11. V \in [Nat -> NodeIds] /\ a <= f /\ f <= w /\ Written(M, C, a, f, w)
    BY <1>7, <1>8, <2>4
  <2> QED BY ONLY <2>5, <2>6, <2>8, <2>9, <2>10, <2>11, Reshape, Zenon
<1>14. CASE M[s].next # U[t] /\ headLocked
  <2>1. allocPc' = "died" /\ bufNodes' = M /\ bufHead' = bufHead /\ spare' = spare
    BY <1>2, <1>5, <1>10, <1>14 DEF trim, trimLeaving
  <2>2. Left(M, U, t, k, "died", spare)
    BY <1>7 DEF Left
  <2>3. Handed(C, f, w, z)'
    BY <1>5, <1>8, <2>1, HandedSame
  <2>4. bufNodes' = M /\ bufTail' = U[t] /\ bufHead' = U[k]
    BY <1>4, <1>5, <2>1
  <2>5. Left(M, U, t, k, allocPc', spare') /\ (freePc' = "idle" => a = f) /\ a <= f /\ f <= w
    BY <1>5, <1>8, <2>1, <2>2
  <2> QED BY ONLY <1>7, <2>3, <2>4, <2>5, Reshape, Zenon
<1>15. CASE M[s].next # U[t] /\ ~headLocked
  <2>1. PICK m : m = M[s].next
    OBVIOUS
  <2>2. /\ m \in NodeIds /\ s # m /\ ~inUse(U, t, k, m) /\ M[m].next # 0
        /\ U[k] # s /\ U[k] # m
    <3>1. Linked(M, U, t, k) /\ m # U[t]
      BY <1>7, <1>15, <2>1
    <3> QED BY ONLY <1>11, <2>1, <3>1, FreeNodes
  <2>3. /\ N = [M EXCEPT ![s].next = M[m].next, ![m] = NotANode]
        /\ allocPc' = "trim" /\ bufHead' = bufHead /\ spare' = spare
    BY <1>2, <1>3, <1>5, <1>10, <1>15, <2>1 DEF trim, trimLeaving
  <2>4. N = [[M EXCEPT ![s] = [M[s] EXCEPT !.next = M[m].next]] EXCEPT ![m] = NotANode]
    BY <1>6, <2>3
  <2>5. /\ N[m] = NotANode /\ N[s] = [M[s] EXCEPT !.next = M[m].next]
        /\ \A n \in NodeIds : n # m /\ n # s => N[n] = M[n]
    BY <1>6, <1>12, <2>2, <2>4
  <2>6. N[m].next = 0 /\ N[m].begin = 0 /\ N[m].end = 0
    BY <2>5 DEF NotANode, newNode
  <2>7. /\ N[s].next = M[m].next /\ N[s].begin = M[s].begin /\ N[s].end = M[s].end
        /\ N[s].state = M[s].state
    BY <1>6, <1>12, <2>5 DEF Node
  <2>8. M[m].begin = 0 /\ M[m].end = 0
    BY <1>7, <2>2 DEF Linked
  <2>9. Linked(N, U, t, k)
    <3>1. OthersSame(M, N, m, s)
      BY <2>5 DEF OthersSame
    <3>2. /\ s \in NodeIds /\ m \in NodeIds /\ s # m /\ ~inUse(U, t, k, s) /\ ~inUse(U, t, k, m)
          /\ M[s].next = m /\ N[m].next = 0 /\ Linked(M, U, t, k)
      BY <1>7, <1>11, <1>12, <2>1, <2>2, <2>6
    <3> QED BY ONLY <2>7, <3>1, <3>2, LinkedTrim
  <2>10. Ordered(N, U, t, k, C, a, z) /\ Gapless(N, U, t, k, C, a, z)
    <3>1. \A n \in NodeIds : N[n].begin = M[n].begin /\ N[n].end = M[n].end
      BY <2>5, <2>6, <2>7, <2>8
    <3>2. Ordered(M, U, t, k, C, a, z) /\ Gapless(M, U, t, k, C, a, z)
      BY <1>7
    <3> QED BY ONLY <3>1, <3>2, ChunksSame, Zenon
  <2>11. \A n \in NodeIds : inUse(U, t, k, n) => N[n] = M[n]
    BY <1>11, <2>2, <2>5
  <2>12. Written(N, C, a, f, w)
    <3>1. w <= z
      BY <1>8
    <3>2. \A n \in NodeIds : inUse(U, t, k, n) => N[n].words = M[n].words
      BY <2>11
    <3> QED BY ONLY <1>7, <3>1, <3>2, WrittenUsed
  <2>13. Left(N, U, t, k, "trim", spare)
    <3>1. t <= k /\ Left(M, U, t, k, "trim", spare)
      BY <1>7, <1>9
    <3> QED BY ONLY <2>11, <3>1, LeftSame
  <2>14. Handed(C, f, w, z)'
    BY <1>5, <1>8, <2>3, HandedSame
  <2>15. bufNodes' = N /\ bufTail' = U[t] /\ bufHead' = U[k]
    BY <1>3, <1>4, <1>5, <2>3
  <2>16. Left(N, U, t, k, allocPc', spare') /\ (freePc' = "idle" => a = f) /\ a <= f /\ f <= w
    BY <1>5, <1>8, <2>3, <2>13
  <2> QED BY ONLY <2>9, <2>10, <2>12, <2>14, <2>15, <2>16, Reshape, Zenon
<1> QED BY <1>13, <1>14, <1>15

\* alloc writes the last word of the node that it leaves: no chunk begins there.
LEMMA MarkStep == BufTyped /\ Shaped /\ markEnd => Shaped'
<1> SUFFICES ASSUME BufTyped, Shaped, markEnd PROVE Shaped'
  OBVIOUS
<1> USE RingBufferAssumption
<1>1. PICK U \in [Nat -> NodeIds], t, k \in Nat, C \in [Nat -> Chunk], a, f, w, z \in Nat :
        Shape(U, t, k, C, a, f, w, z)
  BY DEF Shaped
<1>2. PICK M : M = bufNodes
  OBVIOUS
<1>3. PICK N : N = bufNodes'
  OBVIOUS
<1>4. PICK s : s = spare
  OBVIOUS
<1>5. /\ UNCHANGED <<bufHead, bufTail, live, freePc, spare>>
      /\ allocPc = "mark" /\ allocPc' = "usedOut" /\ U[k] = bufHead /\ U[t] = bufTail
  BY <1>1 DEF markEnd, freeLocals, Shape
<1>6. M \in [NodeIds -> Node] /\ Measured(M)
  BY <1>2, NodeParts DEF BufTyped
<1>7. /\ Linked(M, U, t, k) /\ Ordered(M, U, t, k, C, a, z) /\ Gapless(M, U, t, k, C, a, z)
      /\ Written(M, C, a, f, w) /\ Left(M, U, t, k, "mark", s)
  BY <1>1, <1>2, <1>4, <1>5 DEF Shape
<1>8. a <= f /\ f <= w /\ w = z /\ (freePc = "idle" => a = f) /\ Handed(C, f, w, z)
  BY <1>1, <1>5 DEF Shape, Handed
<1>9. /\ k > t /\ s = U[k - 1] /\ M[s].state # "usedOut" /\ k - 1 \in t .. k /\ k - 1 \in Nat
  BY <1>7 DEF Left
<1>10. s \in NodeIds /\ inUse(U, t, k, s)
  BY <1>9 DEF inUse
<1>11. PICK o \in 0 .. NodeSize : o = M[s].end /\ o \in Nat
  BY <1>2, <1>10, NodeParts
<1>12. N = [M EXCEPT ![s] = [M[s] EXCEPT !.words = [M[s].words EXCEPT ![o] = word(0, TRUE)]]]
  BY <1>2, <1>3, <1>4, <1>11 DEF markEnd
<1>13. /\ N[s].words = [M[s].words EXCEPT ![o] = word(0, TRUE)]
       /\ \A n \in NodeIds : n # s => N[n] = M[n]
       /\ \A n \in NodeIds : /\ N[n].next = M[n].next /\ N[n].begin = M[n].begin
                             /\ N[n].end = M[n].end /\ N[n].state = M[n].state
  BY <1>6, <1>10, <1>12 DEF Node
<1>14. M[s].words \in [0 .. NodeSize -> Word]
  BY <1>6, <1>10 DEF Node
<1>15. /\ N[s].words[o] = word(0, TRUE)
       /\ \A y \in 0 .. NodeSize : y # o => N[s].words[y] = M[s].words[y]
  BY <1>13, <1>14
<1>16. OneWord(M, N, s, o)
  BY <1>13, <1>15 DEF OneWord
<1>17. Linked(N, U, t, k)
  <2>1. \A n \in NodeIds : ~inUse(U, t, k, n) => N[n] = M[n]
    BY <1>10, <1>13
  <2>2. Linked(M, U, t, k) /\ \A n \in NodeIds : N[n].next = M[n].next
    BY <1>7, <1>13
  <2> QED BY ONLY <2>1, <2>2, LinkedSame, Zenon
<1>18. Ordered(N, U, t, k, C, a, z) /\ Gapless(N, U, t, k, C, a, z)
  <2>1. Ordered(M, U, t, k, C, a, z) /\ Gapless(M, U, t, k, C, a, z)
    BY <1>7
  <2>2. \A n \in NodeIds : N[n].begin = M[n].begin /\ N[n].end = M[n].end
    BY <1>13
  <2> QED BY ONLY <2>1, <2>2, ChunksSame, Zenon
<1>19. Written(N, C, a, f, w)
  <2>1. ~starts(C, a, w, s, o)
    <3> SUFFICES ASSUME NEW i \in a .. w - 1, C[i][1] = s, C[i][2] = o PROVE FALSE
      BY DEF starts
    <3>1. i \in a .. z - 1
      BY <1>8
    <3>2. C[i][2] + C[i][3] <= o
      BY <1>7, <1>11, <3>1 DEF Ordered
    <3>3. C[i][3] \in Nat /\ C[i][3] >= 1
      BY Parts
    <3> QED BY <1>11, <3>2, <3>3
  <2>2. Written(M, C, a, f, w) /\ s \in NodeIds
    BY <1>7, <1>10
  <2> QED BY ONLY <1>16, <2>1, <2>2, WrittenElse
<1>20. Left(N, U, t, k, "usedOut", s)
  <2>1. N[s].words[N[s].end].freed
    <3>1. N[s].end = o
      BY <1>10, <1>11, <1>13
    <3>2. N[s].words[o].freed = TRUE
      BY <1>15 DEF word
    <3> QED BY <3>1, <3>2
  <2>2. \A p \in t .. k : p \in Nat /\ U[p] \in NodeIds
    OBVIOUS
  <2>3. \A p \in t .. k : N[U[p]].end = M[U[p]].end /\ N[U[p]].state = M[U[p]].state
    BY <1>13, <2>2
  <2>4. k \in t .. k /\ N[U[k]].end = M[U[k]].end /\ N[U[k]].state = M[U[k]].state
    BY <1>9, <2>3
  <2>5. \A p \in t .. k - 1 :
         \/ N[U[p]].state = "usedOut" /\ N[U[p]].words[N[U[p]].end].freed
         \/ p = k - 1 /\ "usedOut" \in {"mark", "usedOut"}
    <3> TAKE p \in t .. k - 1
    <3>1. CASE p = k - 1
      BY <3>1
    <3>2. CASE p # k - 1
      <4>1. p \in t .. k
        OBVIOUS
      <4>2. M[U[p]].state = "usedOut" /\ M[U[p]].words[M[U[p]].end].freed
        BY <1>7, <3>2 DEF Left
      <4>3. U[p] # s /\ U[p] \in NodeIds
        BY <1>9, <2>2, <4>1, <4>2
      <4> QED BY <1>13, <4>2, <4>3
    <3> QED BY <3>1, <3>2
  <2>6. \A p \in t + 1 .. k - 1 : N[U[p]].end > 0
    <3>1. \A p \in t + 1 .. k - 1 : p \in t .. k /\ M[U[p]].end > 0
      BY <1>7 DEF Left
    <3> QED BY <2>3, <3>1
  <2>7. N[s].state # "usedOut"
    BY <1>9, <1>10, <1>13
  <2>8. M[U[k]].state # "usedOut" /\ M[U[k]].end = 0
    BY <1>7 DEF Left
  <2> QED BY <1>9, <2>1, <2>4, <2>5, <2>6, <2>7, <2>8 DEF Left
<1>21. Handed(C, f, w, z)'
  BY <1>5, <1>8, HandedSame
<1>22. bufNodes' = N /\ bufTail' = U[t] /\ bufHead' = U[k] /\ a <= f /\ f <= w
  BY <1>3, <1>5, <1>8
<1>23. Left(N, U, t, k, allocPc', spare') /\ (freePc' = "idle" => a = f)
  BY <1>4, <1>5, <1>8, <1>20
<1> QED BY ONLY <1>17, <1>18, <1>19, <1>21, <1>22, <1>23, Reshape, Zenon

\* alloc says that the node is used up.
LEMMA UsedStep == BufTyped /\ Shaped /\ usedOut => Shaped'
<1> SUFFICES ASSUME BufTyped, Shaped, usedOut PROVE Shaped'
  OBVIOUS
<1> USE RingBufferAssumption
<1>1. PICK U \in [Nat -> NodeIds], t, k \in Nat, C \in [Nat -> Chunk], a, f, w, z \in Nat :
        Shape(U, t, k, C, a, f, w, z)
  BY DEF Shaped
<1>2. PICK M : M = bufNodes
  OBVIOUS
<1>3. PICK N : N = bufNodes'
  OBVIOUS
<1>4. PICK s : s = spare
  OBVIOUS
<1>5. /\ UNCHANGED <<bufHead, bufTail, live, freePc>>
      /\ allocPc = "usedOut" /\ allocPc' = "claim" /\ U[k] = bufHead /\ U[t] = bufTail
  BY <1>1 DEF usedOut, freeLocals, Shape
<1>6. M \in [NodeIds -> Node]
  BY <1>2 DEF BufTyped
<1>7. /\ Linked(M, U, t, k) /\ Ordered(M, U, t, k, C, a, z) /\ Gapless(M, U, t, k, C, a, z)
      /\ Written(M, C, a, f, w) /\ Left(M, U, t, k, "usedOut", s)
  BY <1>1, <1>2, <1>4, <1>5 DEF Shape
<1>8. a <= f /\ f <= w /\ w = z /\ (freePc = "idle" => a = f) /\ Handed(C, f, w, z)
  BY <1>1, <1>5 DEF Shape, Handed
<1>9. /\ k > t /\ s = U[k - 1] /\ k - 1 \in t .. k /\ k - 1 \in Nat /\ M[s].words[M[s].end].freed
      /\ k \in t .. k
  BY <1>7 DEF Left
<1>10. s \in NodeIds /\ inUse(U, t, k, s) /\ s # U[k]
  BY <1>7, <1>9 DEF inUse, Linked
<1>11. N = [M EXCEPT ![s] = [M[s] EXCEPT !.state = "usedOut"]]
  BY <1>2, <1>3, <1>4 DEF usedOut
<1>12. /\ N[s].state = "usedOut"
       /\ \A n \in NodeIds : n # s => N[n] = M[n]
       /\ \A n \in NodeIds : /\ N[n].next = M[n].next /\ N[n].begin = M[n].begin
                             /\ N[n].end = M[n].end /\ N[n].words = M[n].words
  BY <1>6, <1>10, <1>11 DEF Node
<1>13. Linked(N, U, t, k)
  <2>1. \A n \in NodeIds : ~inUse(U, t, k, n) => N[n] = M[n]
    BY <1>10, <1>12
  <2>2. Linked(M, U, t, k) /\ \A n \in NodeIds : N[n].next = M[n].next
    BY <1>7, <1>12
  <2> QED BY ONLY <2>1, <2>2, LinkedSame, Zenon
<1>14. Ordered(N, U, t, k, C, a, z) /\ Gapless(N, U, t, k, C, a, z)
  <2>1. Ordered(M, U, t, k, C, a, z) /\ Gapless(M, U, t, k, C, a, z)
    BY <1>7
  <2>2. \A n \in NodeIds : N[n].begin = M[n].begin /\ N[n].end = M[n].end
    BY <1>12
  <2> QED BY ONLY <2>1, <2>2, ChunksSame, Zenon
<1>15. Written(N, C, a, f, w)
  <2>1. a <= a /\ Written(M, C, a, f, w) /\ \A n \in NodeIds : N[n].words = M[n].words
    BY <1>7, <1>12
  <2> QED BY ONLY <2>1, WrittenSame, Zenon
<1>16. Left(N, U, t, k, "claim", 0)
  <2>1. \A p \in t .. k : p \in Nat /\ U[p] \in NodeIds
    OBVIOUS
  <2>2. \A p \in t .. k - 1 : N[U[p]].state = "usedOut" /\ N[U[p]].words[N[U[p]].end].freed
    <3> TAKE p \in t .. k - 1
    <3>1. CASE p = k - 1
      BY <1>9, <1>10, <1>12, <3>1
    <3>2. CASE p # k - 1
      <4>1. p \in t .. k
        OBVIOUS
      <4>2. M[U[p]].state = "usedOut" /\ M[U[p]].words[M[U[p]].end].freed
        BY <1>7, <3>2 DEF Left
      <4>3. U[p] # s /\ U[p] \in NodeIds
        <5>1. p # k - 1
          BY <3>2
        <5> QED BY <1>7, <1>9, <2>1, <4>1, <5>1 DEF Linked
      <4> QED BY <1>12, <4>2, <4>3
    <3> QED BY <3>1, <3>2
  <2>3. \A p \in t + 1 .. k - 1 : N[U[p]].end > 0
    <3>1. \A p \in t + 1 .. k - 1 : p \in t .. k /\ M[U[p]].end > 0
      BY <1>7 DEF Left
    <3> QED BY <1>12, <2>1, <3>1
  <2>4. N[U[k]].state # "usedOut"
    <3>1. M[U[k]].state # "usedOut" /\ U[k] \in NodeIds
      BY <1>7, <2>1, <1>9 DEF Left
    <3> QED BY <1>10, <1>12, <3>1
  <2> QED BY <2>2, <2>3, <2>4 DEF Left
<1>17. Handed(C, f, w, z)'
  BY <1>5, <1>8, HandedSame
<1>18. bufNodes' = N /\ bufTail' = U[t] /\ bufHead' = U[k] /\ a <= f /\ f <= w
  BY <1>3, <1>5, <1>8
<1>19. Left(N, U, t, k, allocPc', spare') /\ (freePc' = "idle" => a = f)
  <2>1. spare' = 0
    BY DEF usedOut
  <2> QED BY <1>5, <1>8, <1>16, <2>1
<1> QED BY ONLY <1>13, <1>14, <1>15, <1>17, <1>18, <1>19, Reshape, Zenon

\* freeMem marks the oldest chunk that is not freed.
LEMMA FreeStep == BufTyped /\ Shaped /\ callFree => Shaped'
<1> SUFFICES ASSUME BufTyped, Shaped, callFree PROVE Shaped'
  OBVIOUS
<1> USE RingBufferAssumption
<1>1. PICK U \in [Nat -> NodeIds], t, k \in Nat, C \in [Nat -> Chunk], a, f, w, z \in Nat :
        Shape(U, t, k, C, a, f, w, z)
  BY DEF Shaped
<1>2. PICK M : M = bufNodes
  OBVIOUS
<1>3. PICK N : N = bufNodes'
  OBVIOUS
<1>4. /\ UNCHANGED <<bufHead, bufTail, allocPc, allocSize, spare>>
      /\ freePc = "idle" /\ freePc' = "test" /\ live # <<>> /\ live' = Tail(live)
      /\ U[k] = bufHead /\ U[t] = bufTail
  BY <1>1 DEF callFree, allocLocals, Shape
<1>5. M \in [NodeIds -> Node] /\ \A n \in NodeIds : M[n].end \in 0 .. NodeSize - 1
  BY <1>2, NodeParts DEF BufTyped
<1>6. /\ Linked(M, U, t, k) /\ Ordered(M, U, t, k, C, a, z) /\ Gapless(M, U, t, k, C, a, z)
      /\ Written(M, C, a, f, w) /\ Left(M, U, t, k, allocPc, spare)
  BY <1>1, <1>2 DEF Shape
<1>7. /\ live \in Seq(Chunk) /\ Len(live) \in Nat /\ Len(live) > 0 /\ w = f + Len(live)
      /\ \A i \in 1 .. Len(live) : live[i] = C[f + i - 1]
  BY <1>1, <1>4 DEF BufTyped, Shape, Handed
<1>8. a <= f /\ f < w /\ w <= z /\ (z = IF allocPc = "size" THEN w + 1 ELSE w)
  BY <1>1, <1>7 DEF Shape, Handed
<1>9. Head(live) = C[f]
  <2>1. 1 \in 1 .. Len(live) /\ f + 1 - 1 = f
    BY <1>7
  <2>2. Head(live) = live[1]
    BY <1>4, <1>7
  <2>3. live[1] = C[f + 1 - 1]
    BY <1>7, <2>1
  <2> QED BY <2>1, <2>2, <2>3
<1>10. PICK n \in NodeIds, o \in 0 .. NodeSize : n = C[f][1] /\ o = C[f][2]
  <2>1. C[f] \in Chunk
    OBVIOUS
  <2>2. \A c \in Chunk : c[1] \in NodeIds /\ c[2] \in 0 .. NodeSize
    BY DEF Chunk
  <2> QED BY <2>1, <2>2
<1>11. PICK v : v = [M[n].words[o] EXCEPT !.freed = TRUE]
  OBVIOUS
<1>12. N = [M EXCEPT ![n] = [M[n] EXCEPT !.words = [M[n].words EXCEPT ![o] = v]]]
  <2>1. bufNodes' = [bufNodes EXCEPT ![n].words[o].freed = TRUE]
    BY <1>9, <1>10 DEF callFree
  <2> QED BY <1>2, <1>3, <1>11, <2>1
<1>13. M[n].words \in [0 .. NodeSize -> Word] /\ M[n].words[o] \in Word
  BY <1>5 DEF Node
<1>14. v.size = M[n].words[o].size /\ v.freed = TRUE
  BY <1>11, <1>13 DEF Word
<1>15. /\ N[n].words = [M[n].words EXCEPT ![o] = v]
       /\ \A x \in NodeIds : x # n => N[x] = M[x]
       /\ \A x \in NodeIds : /\ N[x].next = M[x].next /\ N[x].begin = M[x].begin
                             /\ N[x].end = M[x].end /\ N[x].state = M[x].state
  BY <1>5, <1>12 DEF Node
<1>16. /\ N[n].words[o] = v
       /\ \A y \in 0 .. NodeSize : y # o => N[n].words[y] = M[n].words[y]
  BY <1>13, <1>15
<1>17. OneWord(M, N, n, o)
  BY <1>15, <1>16 DEF OneWord
<1>18. t <= k /\ f \in a .. z - 1 /\ f \in a .. w - 1
  BY <1>6, <1>8 DEF Linked
<1>19. Linked(N, U, t, k)
  <2>1. inUse(U, t, k, n)
    BY <1>6, <1>10, <1>18 DEF Ordered
  <2>2. \A x \in NodeIds : ~inUse(U, t, k, x) => N[x] = M[x]
    BY <1>15, <2>1
  <2>3. Linked(M, U, t, k) /\ \A x \in NodeIds : N[x].next = M[x].next
    BY <1>6, <1>15
  <2> QED BY ONLY <2>2, <2>3, LinkedSame, Zenon
<1>20. Ordered(N, U, t, k, C, a, z) /\ Gapless(N, U, t, k, C, a, z)
  <2>1. Ordered(M, U, t, k, C, a, z) /\ Gapless(M, U, t, k, C, a, z)
    BY <1>6
  <2>2. \A x \in NodeIds : N[x].begin = M[x].begin /\ N[x].end = M[x].end
    BY <1>15
  <2> QED BY ONLY <2>1, <2>2, ChunksSame, Zenon
<1>21. Written(N, C, a, f + 1, w)
  <2>1. \A i \in a .. w - 1 : i # f => ~(C[i][1] = C[f][1] /\ C[i][2] = C[f][2])
    <3> SUFFICES ASSUME NEW i \in a .. w - 1, i # f, C[i][1] = C[f][1] PROVE C[i][2] # C[f][2]
      OBVIOUS
    <3>1. i \in a .. z - 1 /\ (i < f \/ f < i)
      BY <1>8
    <3>2. Ordered(M, U, t, k, C, a, z)
      BY <1>6
    <3>3. CASE i < f
      BY ONLY <1>18, <3>1, <3>2, <3>3, C[i][1] = C[f][1], Apart
    <3>4. CASE f < i
      BY ONLY <1>18, <3>1, <3>2, <3>4, C[i][1] = C[f][1], Apart
    <3> QED BY <3>1, <3>3, <3>4
  <2>2. /\ N[C[f][1]].words[C[f][2]].size = M[C[f][1]].words[C[f][2]].size
        /\ N[C[f][1]].words[C[f][2]].freed = TRUE
    BY <1>10, <1>14, <1>16
  <2>3. OneWord(M, N, C[f][1], C[f][2]) /\ Written(M, C, a, f, w) /\ a <= f /\ f < w
    BY <1>6, <1>8, <1>10, <1>17
  <2> QED BY ONLY <2>1, <2>2, <2>3, WrittenFreed
<1>22. Left(N, U, t, k, allocPc, spare)
  <2>1. \A x \in NodeIds : M[x].words[M[x].end].freed => N[x].words[M[x].end].freed
    <3> SUFFICES ASSUME NEW x \in NodeIds, M[x].words[M[x].end].freed
                 PROVE  N[x].words[M[x].end].freed
      OBVIOUS
    <3>1. M[x].end \in 0 .. NodeSize
      <4>1. M[x].end \in 0 .. NodeSize - 1
        BY <1>5
      <4> QED BY <4>1
    <3>2. CASE x = n /\ M[x].end = o
      BY <1>14, <1>16, <3>2
    <3>3. CASE ~(x = n /\ M[x].end = o)
      <4>1. N[x].words[M[x].end] = M[x].words[M[x].end]
        BY <1>17, <3>1, <3>3 DEF OneWord
      <4> QED BY <4>1
    <3> QED BY <3>2, <3>3
  <2>2. \A x \in NodeIds : /\ N[x].next = M[x].next /\ N[x].end = M[x].end
                           /\ N[x].state = M[x].state
                           /\ M[x].words[M[x].end].freed => N[x].words[M[x].end].freed
    BY <1>15, <2>1
  <2>3. Left(M, U, t, k, allocPc, spare) /\ t <= k
    BY <1>6, <1>18
  <2> QED BY ONLY <2>2, <2>3, LeftFreed
<1>23. Handed(C, f + 1, w, z)'
  <2>1. /\ Len(live') = Len(live) - 1
        /\ \A i \in 1 .. Len(live) - 1 : live'[i] = live[i + 1]
    BY <1>4, <1>7
  <2>2. w = f + 1 + Len(live')
    BY <1>7, <2>1
  <2>3. \A i \in 1 .. Len(live') : live'[i] = C[f + 1 + i - 1]
    <3> TAKE i \in 1 .. Len(live')
    <3>1. i + 1 \in 1 .. Len(live) /\ i \in 1 .. Len(live) - 1 /\ f + (i + 1) - 1 = f + 1 + i - 1
      BY <1>7, <2>1
    <3>2. live[i + 1] = C[f + (i + 1) - 1]
      BY <1>7, <3>1
    <3> QED BY <2>1, <3>1, <3>2
  <2>4. allocPc = "size" => C[w] = <<bufHead', claimed', allocSize'>>
    <3>1. bufHead \in NodeIds /\ bufNodes'[bufHead].end = bufNodes[bufHead].end
      BY <1>2, <1>3, <1>15 DEF BufTyped
    <3>2. claimed' = claimed
      BY <1>4, <3>1 DEF claimed
    <3> QED BY <1>1, <1>4, <3>2 DEF Shape, Handed
  <2> QED BY <1>4, <1>8, <2>2, <2>3, <2>4 DEF Handed
<1>24. bufNodes' = N /\ bufTail' = U[t] /\ bufHead' = U[k] /\ a <= f + 1 /\ f + 1 <= w /\ f + 1 \in Nat
  BY <1>3, <1>4, <1>8
<1>25. Left(N, U, t, k, allocPc', spare') /\ (freePc' = "idle" => a = f + 1)
  BY <1>4, <1>22
<1> QED BY ONLY <1>19, <1>20, <1>21, <1>23, <1>24, <1>25, Reshape, Zenon

\* Where begin stops no freed chunk is left: not at a chunk that is not freed, and not at
\* the end of a node that is not marked as used up, as behind it there is at most the
\* node that alloc has just gone to.
LEMMA NothingFreed ==
    ASSUME NEW M, NEW U \in [Nat -> NodeIds], NEW t \in Nat, NEW k \in Nat, t <= k,
           NEW C \in [Nat -> Chunk], NEW a \in Nat, NEW f \in Nat, NEW w \in Nat, NEW z \in Nat,
           a <= f, f <= w, w <= z, Measured(M),
           Ordered(M, U, t, k, C, a, z), Gapless(M, U, t, k, C, a, z), Written(M, C, a, f, w),
           NEW pc, NEW s, Left(M, U, t, k, pc, s),
           IF M[U[t]].begin = M[U[t]].end
             THEN ~(M[U[t]].state = "usedOut" /\ M[U[t]].words[M[U[t]].end].freed)
             ELSE ~M[U[t]].words[M[U[t]].begin].freed
    PROVE  a = f
<1>1. t \in t .. k /\ k \in t .. k /\ U[t] \in NodeIds /\ U[k] \in NodeIds
  OBVIOUS
<1>2. CASE M[U[t]].begin # M[U[t]].end
  <2> SUFFICES ASSUME a < f PROVE FALSE
    OBVIOUS
  <2>1. C[a][1] = U[t] /\ C[a][2] = M[U[t]].begin
    <3>1. OldestFirst(M, U, t, C, a, z)
      BY ONLY t <= k, Measured(M), Ordered(M, U, t, k, C, a, z),
              Gapless(M, U, t, k, C, a, z), FirstChunk
    <3> QED BY <1>2, <3>1 DEF OldestFirst
  <2>2. a \in a .. w - 1 /\ (a < f) = TRUE
    OBVIOUS
  <2>3. M[C[a][1]].words[C[a][2]].freed = (a < f)
    BY <2>2 DEF Written
  <2> QED BY <1>2, <2>1, <2>2, <2>3
<1>3. CASE M[U[t]].begin = M[U[t]].end
  <2>1. k = t \/ (t = k - 1 /\ M[U[k]].end = 0)
    <3> SUFFICES ASSUME k # t PROVE t = k - 1 /\ M[U[k]].end = 0
      OBVIOUS
    <3>1. t \in t .. k - 1
      OBVIOUS
    <3>2. t = k - 1 /\ pc \in {"mark", "usedOut"}
      BY <1>3, <3>1 DEF Left
    <3> QED BY <3>2 DEF Left
  <2>2. \A p \in t .. k : M[U[p]].begin >= M[U[p]].end
    <3> TAKE p \in t .. k
    <3>1. M[U[t]].end \in Nat /\ M[U[k]].end \in Nat /\ M[U[k]].begin \in Nat
      BY <1>1 DEF Measured
    <3>2. CASE p = t
      BY <1>3, <3>1, <3>2
    <3>3. CASE p # t
      <4>1. p = k /\ M[U[k]].end = 0
        BY <2>1, <3>3
      <4> QED BY <3>1, <4>1
    <3> QED BY <3>2, <3>3
  <2>3. z <= a
    BY ONLY <2>2, Measured(M), Ordered(M, U, t, k, C, a, z), NoChunks, Zenon
  <2> QED BY <2>3
<1> QED BY <1>2, <1>3

\* freeMem looks at the word at the begin of the tail.
LEMMA TestStep == BufTyped /\ Shaped /\ testFreed => Shaped'
<1> SUFFICES ASSUME BufTyped, Shaped, testFreed PROVE Shaped'
  OBVIOUS
<1>1. PICK U \in [Nat -> NodeIds], t, k \in Nat, C \in [Nat -> Chunk], a, f, w, z \in Nat :
        Shape(U, t, k, C, a, f, w, z)
  BY DEF Shaped
<1>2. /\ UNCHANGED <<bufNodes, bufHead, bufTail, live, allocPc, allocSize, spare>>
      /\ freePc = "test" /\ freePc' = IF wordAt.freed THEN "move" ELSE "idle"
  BY DEF testFreed, allocLocals
<1>3. claimed' = claimed
  BY <1>2 DEF claimed
<1>4. Handed(C, f, w, z)'
  BY <1>1, <1>2, <1>3, HandedSame DEF Shape
<1>5. PICK M : M = bufNodes
  OBVIOUS
<1>6. /\ Linked(M, U, t, k) /\ Ordered(M, U, t, k, C, a, z) /\ Gapless(M, U, t, k, C, a, z)
      /\ Written(M, C, a, f, w) /\ Left(M, U, t, k, allocPc, spare) /\ a <= f /\ f <= w
  BY <1>1, <1>5 DEF Shape
<1>7. w <= z /\ t <= k /\ Measured(M)
  BY <1>1, <1>5, <1>6, NodeParts DEF Shape, Handed, Linked
<1>8. freePc' = "idle" => a = f
  <2> SUFFICES ASSUME ~wordAt.freed PROVE a = f
    BY <1>2
  <2>1. wordAt = M[U[t]].words[M[U[t]].begin]
    BY <1>1, <1>2, <1>5 DEF wordAt, BufTyped, Shape
  <2>2. IF M[U[t]].begin = M[U[t]].end
             THEN ~(M[U[t]].state = "usedOut" /\ M[U[t]].words[M[U[t]].end].freed)
             ELSE ~M[U[t]].words[M[U[t]].begin].freed
    BY <2>1
  <2> QED BY ONLY <1>6, <1>7, <2>2, NothingFreed
<1>9. bufNodes' = M /\ bufTail' = U[t] /\ bufHead' = U[k] /\ Left(M, U, t, k, allocPc', spare')
  BY <1>1, <1>2, <1>5, <1>6 DEF Shape
<1> QED BY ONLY <1>4, <1>6, <1>8, <1>9, Reshape, Zenon

\* freeMem passes a freed chunk, leaves a node that is used up, or ends.
LEMMA MoveStep == BufTyped /\ Shaped /\ moveFreed /\ ~bufRaced' => Shaped'
<1> SUFFICES ASSUME BufTyped, Shaped, moveFreed, ~bufRaced' PROVE Shaped'
  OBVIOUS
<1> USE RingBufferAssumption
<1>1. PICK U \in [Nat -> NodeIds], t, k \in Nat, C \in [Nat -> Chunk], a, f, w, z \in Nat :
        Shape(U, t, k, C, a, f, w, z)
  BY DEF Shaped
<1>2. PICK M : M = bufNodes
  OBVIOUS
<1>3. PICK N : N = bufNodes'
  OBVIOUS
<1>4. /\ UNCHANGED <<bufHead, live, allocPc, allocSize, spare>> /\ freePc = "move"
      /\ U[k] = bufHead /\ U[t] = bufTail
  BY <1>1 DEF moveFreed, moveBegin, allocLocals, Shape
<1>5. M \in [NodeIds -> Node] /\ Measured(M)
  BY <1>2, NodeParts DEF BufTyped
<1>6. /\ Linked(M, U, t, k) /\ Ordered(M, U, t, k, C, a, z) /\ Gapless(M, U, t, k, C, a, z)
      /\ Written(M, C, a, f, w) /\ Left(M, U, t, k, allocPc, spare)
  BY <1>1, <1>2 DEF Shape
<1>7. a <= f /\ f <= w /\ w <= z /\ Handed(C, f, w, z) /\ (z = IF allocPc = "size" THEN w + 1 ELSE w)
  BY <1>1 DEF Shape, Handed
<1>8. /\ t <= k /\ t \in t .. k /\ k \in t .. k /\ \A i, j \in t .. k : U[i] = U[j] => i = j
  BY <1>6 DEF Linked
<1>9. PICK n \in NodeIds : n = U[t]
  OBVIOUS
<1>10. PICK b \in Nat : b = M[n].begin
  BY <1>5 DEF Measured
<1>11. freeNode = n /\ freeMem = b /\ wordAt = M[n].words[b]
  BY <1>2, <1>4, <1>9, <1>10 DEF BufTyped, wordAt
<1>12. M[n].next # 0
  BY <1>6, <1>8, <1>9 DEF Linked
<1>13. CASE b = M[n].end /\ M[n].state = "usedOut"
  <2>1. /\ N = [M EXCEPT ![n].begin = 0, ![n].end = 0, ![n].state = "open"]
        /\ bufTail' = M[n].next /\ freePc' = "test"
    BY <1>2, <1>3, <1>4, <1>11, <1>13 DEF moveFreed, moveBegin
  <2>2. N = [M EXCEPT ![n] = [M[n] EXCEPT !.begin = 0, !.end = 0, !.state = "open"]]
    BY <1>5, <2>1
  <2>3. /\ N[n].begin = 0 /\ N[n].end = 0 /\ N[n].state = "open"
        /\ N[n].next = M[n].next /\ N[n].words = M[n].words
        /\ \A x \in NodeIds : x # n => N[x] = M[x]
    BY <1>5, <2>2 DEF Node
  <2>4. t < k /\ M[n].next = U[t + 1] /\ U[k] # n
    <3>1. M[U[k]].state # "usedOut"
      BY <1>6 DEF Left
    <3>2. t # k /\ U[k] # n
      BY <1>9, <1>13, <3>1
    <3>3. t < k /\ t \in t .. k - 1
      BY <1>8, <3>2
    <3> QED BY <1>6, <1>9, <3>2, <3>3 DEF Linked
  <2>5. \A x \in NodeIds : N[x].next = M[x].next
    BY <2>3
  <2>6. \A x \in NodeIds : x # U[t] => N[x] = M[x]
    BY <1>9, <2>3
  <2>7. N[U[t]].begin = 0 /\ N[U[t]].end = 0 /\ N[U[t]].state = "open" /\ t < k
    BY <1>9, <2>3, <2>4
  <2>8. Linked(N, U, t + 1, k)
    <3>1. Linked(M, U, t, k)
      BY <1>6
    <3> QED BY ONLY <2>5, <2>6, <2>7, <3>1, LinkedTail, Zenon
  <2>9. Ordered(N, U, t + 1, k, C, a, z) /\ Gapless(N, U, t + 1, k, C, a, z)
    <3>1. /\ Measured(M) /\ Ordered(M, U, t, k, C, a, z) /\ Gapless(M, U, t, k, C, a, z)
          /\ M[U[t]].begin = M[U[t]].end /\ t < k
      BY <1>5, <1>6, <1>9, <1>10, <1>13, <2>4
    <3>2. \A i, j \in t .. k : U[i] = U[j] => i = j
      BY <1>8
    <3> QED BY ONLY <2>6, <3>1, <3>2, ChunksTail
  <2>10. Written(N, C, a, f, w)
    <3>1. a <= a /\ Written(M, C, a, f, w) /\ \A x \in NodeIds : N[x].words = M[x].words
      BY <1>6, <2>3
    <3> QED BY ONLY <3>1, WrittenSame, Zenon
  <2>11. Left(N, U, t + 1, k, allocPc, spare)
    <3>1. t < k /\ M[U[t]].state = "usedOut" /\ Left(M, U, t, k, allocPc, spare)
      BY <1>6, <1>9, <1>13, <2>4
    <3>2. \A i, j \in t .. k : U[i] = U[j] => i = j
      BY <1>8
    <3> QED BY ONLY <2>6, <3>1, <3>2, LeftTail
  <2>12. Handed(C, f, w, z)'
    <3>1. claimed' = claimed
      <4>1. bufHead \in NodeIds /\ bufNodes'[bufHead] = bufNodes[bufHead]
        BY <1>2, <1>3, <1>4, <2>3, <2>4 DEF BufTyped
      <4> QED BY <1>4, <4>1 DEF claimed
    <3> QED BY <1>4, <1>7, <3>1, HandedSame
  <2>13. /\ bufNodes' = N /\ bufTail' = U[t + 1] /\ bufHead' = U[k] /\ t + 1 \in Nat
         /\ a <= f /\ f <= w /\ Left(N, U, t + 1, k, allocPc', spare') /\ (freePc' = "idle" => a = f)
    BY <1>3, <1>4, <1>7, <2>1, <2>4, <2>11
  <2> QED BY ONLY <2>8, <2>9, <2>10, <2>12, <2>13, Reshape, Zenon
<1>14. CASE IF b = M[n].end THEN M[n].state # "usedOut" ELSE ~M[n].words[b].freed
  <2>1. freePc' = "idle" /\ bufNodes' = M /\ bufTail' = bufTail
    BY <1>2, <1>4, <1>11, <1>14 DEF moveFreed, moveBegin
  <2>2. a = f
    <3>1. IF M[U[t]].begin = M[U[t]].end
             THEN ~(M[U[t]].state = "usedOut" /\ M[U[t]].words[M[U[t]].end].freed)
             ELSE ~M[U[t]].words[M[U[t]].begin].freed
      BY <1>9, <1>10, <1>14
    <3>2. a <= f /\ f <= w /\ w <= z /\ t <= k /\ Measured(M)
      BY <1>5, <1>7, <1>8
    <3> QED BY ONLY <1>6, <3>1, <3>2, NothingFreed
  <2>3. claimed' = claimed
    BY <1>2, <1>4, <2>1 DEF claimed
  <2>4. Handed(C, f, w, z)'
    BY <1>4, <1>7, <2>3, HandedSame
  <2>5. /\ bufNodes' = M /\ bufTail' = U[t] /\ bufHead' = U[k]
        /\ a <= f /\ f <= w /\ Left(M, U, t, k, allocPc', spare') /\ (freePc' = "idle" => a = f)
    BY <1>4, <1>6, <1>7, <2>1, <2>2
  <2> QED BY ONLY <1>6, <2>4, <2>5, Reshape, Zenon
<1>15. CASE b # M[n].end /\ M[n].words[b].freed
  <2>1. a < z /\ C[a][1] = U[t] /\ C[a][2] = b
    <3>1. /\ M[U[t]].begin # M[U[t]].end /\ t <= k /\ Measured(M)
          /\ Ordered(M, U, t, k, C, a, z) /\ Gapless(M, U, t, k, C, a, z)
      BY <1>5, <1>6, <1>8, <1>9, <1>10, <1>15
    <3>2. OldestFirst(M, U, t, C, a, z)
      BY ONLY <3>1, FirstChunk
    <3> QED BY <1>9, <1>10, <3>1, <3>2 DEF OldestFirst
  <2>2. a < w
    <3> SUFFICES ASSUME ~(a < w) PROVE FALSE
      OBVIOUS
    <3>1. a = w /\ allocPc = "size"
      BY <1>7, <2>1
    <3>2. C[a] = <<bufHead, claimed, allocSize>>
      BY <1>7, <3>1 DEF Handed
    <3>3. bufHead = n /\ claimed = b
      BY <1>9, <2>1, <3>2
    <3>4. unwritten(freeNode, freeMem)
      BY <1>11, <3>1, <3>3 DEF unwritten
    <3>5. wordAt.freed
      BY <1>11, <1>15
    <3> QED BY <3>4, <3>5 DEF moveFreed, moveBegin
  <2>3. a < f /\ M[n].words[b].size = C[a][3]
    <3>1. a \in a .. w - 1
      BY <2>2
    <3>2. M[n].words[b].size = C[a][3] /\ M[n].words[b].freed = (a < f)
      BY <1>6, <1>9, <2>1, <3>1 DEF Written
    <3> QED BY <1>15, <3>2
  <2>4. bufNodes' = [bufNodes EXCEPT ![freeNode].begin = freeMem'] /\ bufTail' = bufTail
        /\ freeMem' = freeMem + wordAt.size /\ freePc' = freePc
    BY <1>2, <1>4, <1>11, <1>15 DEF moveFreed, moveBegin
  <2>5. N = [M EXCEPT ![n] = [M[n] EXCEPT !.begin = b + C[a][3]]]
    BY <1>2, <1>3, <1>11, <2>3, <2>4
  <2>6. /\ N[n].begin = b + C[a][3]
        /\ \A x \in NodeIds : x # n => N[x] = M[x]
        /\ \A x \in NodeIds : /\ N[x].next = M[x].next /\ N[x].end = M[x].end
                              /\ N[x].state = M[x].state /\ N[x].words = M[x].words
    BY <1>5, <2>5 DEF Node
  <2>7. Linked(N, U, t, k)
    <3>1. inUse(U, t, k, n)
      BY <1>8, <1>9 DEF inUse
    <3>2. \A x \in NodeIds : ~inUse(U, t, k, x) => N[x] = M[x]
      BY <2>6, <3>1
    <3>3. Linked(M, U, t, k) /\ \A x \in NodeIds : N[x].next = M[x].next
      BY <1>6, <2>6
    <3> QED BY ONLY <3>2, <3>3, LinkedSame, Zenon
  <2>8. Ordered(N, U, t, k, C, a + 1, z) /\ Gapless(N, U, t, k, C, a + 1, z)
    <3>1. /\ Measured(M) /\ Ordered(M, U, t, k, C, a, z) /\ Gapless(M, U, t, k, C, a, z)
          /\ t <= k /\ a < z /\ C[a][1] = U[t] /\ N[U[t]].begin = C[a][2] + C[a][3]
      BY <1>5, <1>6, <1>8, <1>9, <2>1, <2>6
    <3>2. /\ \A x \in NodeIds : N[x].end = M[x].end
          /\ \A x \in NodeIds : x # U[t] => N[x].begin = M[x].begin
          /\ \A i, j \in t .. k : U[i] = U[j] => i = j
      BY <1>8, <1>9, <2>6
    <3> QED BY ONLY <3>1, <3>2, ChunksPassed
  <2>9. Written(N, C, a + 1, f, w)
    <3>1. /\ a <= a + 1 /\ a + 1 \in Nat /\ Written(M, C, a, f, w)
          /\ \A x \in NodeIds : N[x].words = M[x].words
      BY <1>6, <2>6
    <3> QED BY ONLY <3>1, WrittenSame
  <2>10. Left(N, U, t, k, allocPc, spare)
    <3>1. \A x \in NodeIds : /\ N[x].next = M[x].next /\ N[x].end = M[x].end
                             /\ N[x].state = M[x].state
                             /\ M[x].words[M[x].end].freed => N[x].words[M[x].end].freed
      BY <2>6
    <3>2. t <= k /\ Left(M, U, t, k, allocPc, spare)
      BY <1>6, <1>8
    <3> QED BY ONLY <3>1, <3>2, LeftFreed
  <2>11. Handed(C, f, w, z)'
    <3>1. claimed' = claimed
      <4>1. bufHead \in NodeIds /\ bufNodes'[bufHead].end = bufNodes[bufHead].end
        BY <1>2, <1>3, <2>6 DEF BufTyped
      <4> QED BY <1>4, <4>1 DEF claimed
    <3> QED BY <1>4, <1>7, <3>1, HandedSame
  <2>12. /\ bufNodes' = N /\ bufTail' = U[t] /\ bufHead' = U[k] /\ a + 1 \in Nat
         /\ a + 1 <= f /\ f <= w /\ Left(N, U, t, k, allocPc', spare') /\ (freePc' = "idle" => a + 1 = f)
    BY <1>3, <1>4, <1>7, <2>3, <2>4, <2>10
  <2> QED BY ONLY <2>7, <2>8, <2>9, <2>11, <2>12, Reshape, Zenon
<1> QED BY <1>13, <1>14, <1>15

-----------------------------------------------------------------------------
(* The types                                                               *)

\* What may be put into a node.
LEMMA NodeWith ==
    ASSUME NEW x \in Node
    PROVE  /\ \A v \in 0 .. NodeSize - 1 : [x EXCEPT !.end = v] \in Node
           /\ \A v \in Nat : [x EXCEPT !.begin = v] \in Node /\ [x EXCEPT !.next = v] \in Node
           /\ \A v \in {"open", "locked", "usedOut"} : [x EXCEPT !.state = v] \in Node
           /\ \A v \in [0 .. NodeSize -> Word] : [x EXCEPT !.words = v] \in Node
BY DEF Node

\* A new node, and what stands for none.
LEMMA NewNode ==
    ASSUME NEW n \in Nat
    PROVE  newNode(n) \in Node /\ newNode(n).begin = 0
<1>1. word(0, FALSE) \in Word /\ 0 \in 0 .. NodeSize - 1
  BY RingBufferAssumption DEF word, Word
<1>2. [i \in 0 .. NodeSize |-> word(0, FALSE)] \in [0 .. NodeSize -> Word]
  BY <1>1
<1> QED BY <1>1, <1>2 DEF newNode, Node

\* The places of the ring, after a step and before.
LEMMA Places ==
    ASSUME Shaped
    PROVE  /\ bufHead \in NodeIds /\ bufTail \in NodeIds
           /\ bufNodes[bufTail].next # 0 /\ bufNodes[bufHead].next \in NodeIds
           /\ bufNodes[bufTail].begin <= bufNodes[bufTail].end
           /\ allocPc = "trim" => /\ spare = bufNodes[bufHead].next /\ spare # bufTail
                                  /\ bufNodes[spare].next # 0
           /\ allocPc \in {"mark", "usedOut"} => spare \in NodeIds
           /\ allocPc = "size" => <<bufHead, claimed, allocSize>> \in Chunk
<1>1. PICK U \in [Nat -> NodeIds], t, k \in Nat, C \in [Nat -> Chunk], a, f, w, z \in Nat :
        Shape(U, t, k, C, a, f, w, z)
  BY DEF Shaped
<1>2. t <= k /\ t \in t .. k /\ k \in t .. k
  BY <1>1 DEF Shape, Linked
<1>3. /\ bufHead = U[k] /\ bufTail = U[t] /\ U[k] \in NodeIds /\ U[t] \in NodeIds
      /\ bufNodes[U[t]].next # 0 /\ bufNodes[U[k]].next # 0
  BY <1>1, <1>2 DEF Shape, Linked
<1>4. bufNodes[U[k]].next \in NodeIds
  BY <1>1, <1>3 DEF Shape, Linked
<1>5. allocPc = "trim" => /\ spare = bufNodes[bufHead].next /\ spare # bufTail
                          /\ bufNodes[spare].next # 0
  <2>1. inUse(U, t, k, U[t])
    BY <1>2 DEF inUse
  <2> QED BY <1>1, <1>3, <2>1 DEF Shape, Left, Linked
<1>6. allocPc \in {"mark", "usedOut"} => spare \in NodeIds
  BY <1>1 DEF Shape, Left
<1>7. allocPc = "size" => <<bufHead, claimed, allocSize>> \in Chunk
  <2>1. C[w] \in Chunk
    OBVIOUS
  <2> QED BY <1>1, <2>1 DEF Shape, Handed
<1>8. bufNodes[bufTail].begin <= bufNodes[bufTail].end
  BY <1>1, <1>2, <1>3 DEF Shape, Gapless
<1> QED BY <1>3, <1>4, <1>5, <1>6, <1>7, <1>8

\* The types after a step of alloc, which moves no begin.
LEMMA TypedAlloc ==
    ASSUME BufTyped, Shaped', NEW N \in [NodeIds -> Node], bufNodes' = N,
           UNCHANGED <<freePc, freeNode, freeMem, bufTail>>,
           N[bufTail].begin = bufNodes[bufTail].begin,
           headLocked' \in BOOLEAN, allocPc' \in AllocSteps, spare' \in Nat,
           allocPc' \notin {"idle", "died"} => allocSize' \in ChunkSizes,
           live' \in Seq(Chunk)
    PROVE  BufTyped'
<1>1. bufHead' \in NodeIds /\ bufTail' \in NodeIds
  <2>1. PICK U \in [Nat -> NodeIds], t, k \in Nat, C \in [Nat -> Chunk], a, f, w, z \in Nat :
          Shape(U, t, k, C, a, f, w, z)'
    BY DEF Shaped
  <2>2. bufHead' = U[k] /\ bufTail' = U[t]
    BY <2>1 DEF Shape
  <2> QED BY <2>2
<1>2. freePc' # "idle" => freeNode' = bufTail' /\ freeMem' = bufNodes'[bufTail'].begin
  BY DEF BufTyped
<1> QED BY <1>1, <1>2 DEF BufTyped

\* The types after each step of alloc.
LEMMA TypedAllocs ==
    BufTyped /\ Shaped /\ Shaped'
    /\ ((\E s \in ChunkSizes : callAlloc(s)) \/ claimChunk \/ writeSize
        \/ nextNode \/ trim \/ markEnd \/ usedOut) => BufTyped'
<1> SUFFICES ASSUME BufTyped, Shaped, Shaped',
                    (\E s \in ChunkSizes : callAlloc(s)) \/ claimChunk \/ writeSize
                    \/ nextNode \/ trim \/ markEnd \/ usedOut
             PROVE  BufTyped'
  OBVIOUS
<1> USE RingBufferAssumption
<1>1. PICK M : M = bufNodes
  OBVIOUS
<1>2. PICK N : N = bufNodes'
  OBVIOUS
<1>3. PICK h \in NodeIds : h = bufHead
  BY DEF BufTyped
<1>4. PICK b \in NodeIds : b = bufTail
  BY DEF BufTyped
<1>5. M \in [NodeIds -> Node] /\ \A n \in NodeIds : M[n] \in Node /\ M[n].next \in Nat
  BY <1>1 DEF BufTyped, Node
<1>6. /\ headLocked \in BOOLEAN /\ spare \in Nat /\ live \in Seq(Chunk)
      /\ allocPc \notin {"idle", "died"} => allocSize \in ChunkSizes
  BY DEF BufTyped
<1>7. NodeIds \subseteq Nat
  OBVIOUS
<1>8. ASSUME NEW s \in ChunkSizes, callAlloc(s) PROVE BufTyped'
  <2>1. /\ UNCHANGED <<freePc, freeNode, freeMem, bufTail>> /\ bufNodes' = M /\ M[bufTail].begin = bufNodes[bufTail].begin
        /\ headLocked' \in BOOLEAN /\ allocPc' \in AllocSteps /\ spare' \in Nat
        /\ allocSize' \in ChunkSizes /\ live' \in Seq(Chunk) /\ M \in [NodeIds -> Node]
    BY <1>1, <1>5, <1>6, <1>8 DEF callAlloc, freeLocals, AllocSteps
  <2> QED BY <2>1, TypedAlloc
<1>9. CASE claimChunk
  <2>1. /\ UNCHANGED <<freePc, freeNode, freeMem, bufTail, headLocked, spare, live, allocSize>>
        /\ allocPc' \in AllocSteps /\ allocSize \in ChunkSizes
    BY <1>6, <1>9 DEF claimChunk, freeLocals, AllocSteps
  <2>2. M[h].end \in 0 .. NodeSize - 1 /\ allocSize \in Nat
    BY <1>5, <2>1 DEF Node
  <2>3. N \in [NodeIds -> Node] /\ N[b].begin = M[b].begin
    <3>1. CASE M[h].end + allocSize < NodeSize
      <4>1. N = [M EXCEPT ![h] = [M[h] EXCEPT !.end = M[h].end + allocSize]]
        BY <1>1, <1>2, <1>3, <1>9, <3>1 DEF claimChunk
      <4>2. M[h].end + allocSize \in 0 .. NodeSize - 1
        BY <2>2, <3>1
      <4>3. [M[h] EXCEPT !.end = M[h].end + allocSize] \in Node
        BY <1>5, <4>2, NodeWith
      <4>4. [M[h] EXCEPT !.end = M[h].end + allocSize].begin = M[h].begin
        BY <1>5 DEF Node
      <4> QED BY <1>5, <4>1, <4>3, <4>4
    <3>2. CASE ~(M[h].end + allocSize < NodeSize)
      <4>1. N = [M EXCEPT ![h] = [M[h] EXCEPT !.state = "locked"]]
        BY <1>1, <1>2, <1>3, <1>9, <3>2 DEF claimChunk
      <4>2. [M[h] EXCEPT !.state = "locked"] \in Node
        BY <1>5, NodeWith
      <4>3. [M[h] EXCEPT !.state = "locked"].begin = M[h].begin
        BY <1>5 DEF Node
      <4> QED BY <1>5, <4>1, <4>2, <4>3
    <3> QED BY <3>1, <3>2
  <2> QED BY <1>1, <1>2, <1>4, <1>6, <2>1, <2>3, TypedAlloc
<1>10. CASE writeSize
  <2>1. /\ UNCHANGED <<freePc, freeNode, freeMem, bufTail, headLocked, spare>>
        /\ allocPc' = "idle" /\ allocPc = "size" /\ live' = Append(live, <<bufHead, claimed, allocSize>>)
    BY <1>10 DEF writeSize, freeLocals
  <2>2. live' \in Seq(Chunk)
    <3>1. <<bufHead, claimed, allocSize>> \in Chunk
      BY <2>1, Places
    <3> QED BY <1>6, <2>1, <3>1
  <2>3. PICK W : W = [M[h].words EXCEPT ![claimed] = word(allocSize, FALSE)]
    OBVIOUS
  <2>4. W \in [0 .. NodeSize -> Word]
    <3>0. allocSize \in ChunkSizes
      BY <1>6, <2>1
    <3>1. allocSize \in Nat
      BY <3>0
    <3>2. word(allocSize, FALSE) \in Word
      BY <3>1 DEF word, Word
    <3>3. M[h].words \in [0 .. NodeSize -> Word]
      BY <1>5 DEF Node
    <3> QED BY <2>3, <3>2, <3>3
  <2>5. N = [M EXCEPT ![h] = [M[h] EXCEPT !.words = W]]
    BY <1>1, <1>2, <1>3, <1>10, <2>3 DEF writeSize
  <2>6. [M[h] EXCEPT !.words = W] \in Node
    BY <1>5, <2>4, NodeWith
  <2>7. [M[h] EXCEPT !.words = W].begin = M[h].begin
    BY <1>5 DEF Node
  <2>8. N \in [NodeIds -> Node] /\ N[b].begin = M[b].begin
    BY <1>5, <2>5, <2>6, <2>7
  <2>9. allocPc' \in AllocSteps
    BY <2>1 DEF AllocSteps
  <2> QED BY <1>1, <1>2, <1>4, <1>6, <2>1, <2>2, <2>8, <2>9, TypedAlloc
<1>11. CASE nextNode
  <2>1. /\ UNCHANGED <<freePc, freeNode, freeMem, bufTail, headLocked, live, allocSize>>
        /\ allocPc = "full" /\ allocSize \in ChunkSizes
    BY <1>6, <1>11 DEF nextNode, freeLocals
  <2>2. CASE M[h].next = b
    <3>1. PICK m \in NodeIds : /\ M[m].next = 0
                               /\ N = [M EXCEPT ![m] = newNode(b), ![h].next = m]
      <4>1. NodeIds \ Nodes # {}
        <5>1. NodeIds # Nodes /\ Nodes \subseteq NodeIds
          BY <1>1, <1>3, <1>4, <1>11, <2>2 DEF nextNode, Nodes
        <5> QED BY <5>1
      <4>2. PICK m : m = CHOOSE x \in NodeIds \ Nodes : TRUE
        OBVIOUS
      <4>3. m \in NodeIds \ Nodes
        BY <4>1, <4>2
      <4>4. M[m].next = 0
        BY <1>1, <4>3 DEF Nodes
      <4> QED BY <1>1, <1>2, <1>3, <1>4, <1>11, <2>2, <4>2, <4>3, <4>4 DEF nextNode
    <3>2. spare' = h /\ allocPc' = "mark"
      BY <1>1, <1>3, <1>4, <1>11, <2>2 DEF nextNode
    <3>3. m # b /\ m # h /\ m \in Nat
      BY <1>1, <1>4, <1>7, <2>2, <3>1, Places
    <3>4. newNode(b) \in Node
      BY <1>7, NewNode
    <3>5. N = [[M EXCEPT ![m] = newNode(b)] EXCEPT ![h] = [M[h] EXCEPT !.next = m]]
      <4>1. [M EXCEPT ![m] = newNode(b)][h] = M[h]
        BY <1>5, <3>3
      <4> QED BY <1>5, <3>1, <4>1
    <3>6. [M[h] EXCEPT !.next = m] \in Node /\ [M[h] EXCEPT !.next = m].begin = M[h].begin
      <4>1. [M[h] EXCEPT !.next = m] \in Node
        BY <1>5, <3>3, NodeWith
      <4>2. [M[h] EXCEPT !.next = m].begin = M[h].begin
        BY <1>5 DEF Node
      <4> QED BY <4>1, <4>2
    <3>7. N \in [NodeIds -> Node] /\ N[b].begin = M[b].begin
      BY <1>5, <3>3, <3>4, <3>5, <3>6
    <3>8. spare' \in Nat /\ allocPc' \in AllocSteps
      BY <1>7, <3>2 DEF AllocSteps
    <3> QED BY <1>1, <1>2, <1>4, <1>6, <2>1, <3>7, <3>8, TypedAlloc
  <2>3. CASE M[h].next # b
    <3>1. spare' = M[h].next /\ allocPc' = "trim" /\ N = M
      BY <1>1, <1>2, <1>3, <1>4, <1>11, <2>3 DEF nextNode
    <3>2. spare' \in Nat /\ allocPc' \in AllocSteps
      BY <1>5, <3>1 DEF AllocSteps
    <3> QED BY <1>1, <1>2, <1>4, <1>5, <1>6, <2>1, <3>1, <3>2, TypedAlloc
  <2> QED BY <2>2, <2>3
<1>12. CASE trim
  <2>1. /\ UNCHANGED <<freePc, freeNode, freeMem, bufTail, live, allocSize>>
        /\ allocPc = "trim" /\ allocSize \in ChunkSizes
    BY <1>6, <1>12 DEF trim, trimLeaving, freeLocals
  <2>2. PICK s \in NodeIds : s = spare
    BY <2>1, Places
  <2>3. s # b /\ M[s].next # 0
    BY <1>1, <1>4, <2>1, <2>2, Places
  <2>4. CASE M[s].next = b \/ headLocked
    <3>1. /\ N = M /\ headLocked' \in BOOLEAN /\ allocPc' \in {"mark", "died"}
          /\ spare' \in {bufHead, spare}
      BY <1>1, <1>2, <1>4, <1>6, <1>12, <2>2, <2>4 DEF trim, trimLeaving
    <3>2. spare' \in Nat /\ allocPc' \in AllocSteps
      BY <1>3, <1>6, <1>7, <3>1 DEF AllocSteps
    <3> QED BY <1>1, <1>2, <1>4, <1>5, <1>6, <2>1, <3>1, <3>2, TypedAlloc
  <2>5. CASE M[s].next # b /\ ~headLocked
    <3>1. PICK m : m = M[s].next
      OBVIOUS
    <3>2. /\ N = [M EXCEPT ![s].next = M[m].next, ![m] = NotANode]
          /\ headLocked' = TRUE /\ allocPc' = allocPc /\ spare' = spare
      BY <1>1, <1>2, <1>4, <1>12, <2>2, <2>5, <3>1 DEF trim, trimLeaving
    <3>3. m \in NodeIds
      <4>1. PICK U \in [Nat -> NodeIds], t, k \in Nat, C \in [Nat -> Chunk], a, f, w, z \in Nat :
              Shape(U, t, k, C, a, f, w, z)
        BY DEF Shaped
      <4> QED BY <1>1, <2>2, <2>3, <3>1, <4>1 DEF Shape, Linked
    <3>4. NotANode \in Node
      BY NewNode DEF NotANode
    <3>5. [M[s] EXCEPT !.next = M[m].next] \in Node /\ [M[s] EXCEPT !.next = M[m].next].begin = M[s].begin
      <4>1. M[m].next \in Nat
        BY <1>5, <3>3
      <4>2. [M[s] EXCEPT !.next = M[m].next] \in Node
        BY <1>5, <4>1, NodeWith
      <4>3. [M[s] EXCEPT !.next = M[m].next].begin = M[s].begin
        BY <1>5 DEF Node
      <4> QED BY <4>2, <4>3
    <3>6. N = [[M EXCEPT ![s] = [M[s] EXCEPT !.next = M[m].next]] EXCEPT ![m] = NotANode]
      BY <1>5, <3>2
    <3>7. N \in [NodeIds -> Node] /\ N[b].begin = M[b].begin
      BY <1>5, <2>3, <2>5, <3>1, <3>3, <3>4, <3>5, <3>6
    <3>8. spare' \in Nat /\ allocPc' \in AllocSteps /\ headLocked' \in BOOLEAN
      BY <1>6, <2>1, <3>2 DEF AllocSteps
    <3> QED BY <1>1, <1>2, <1>4, <1>6, <2>1, <3>7, <3>8, TypedAlloc
  <2> QED BY <2>4, <2>5
<1>13. CASE markEnd
  <2>1. /\ UNCHANGED <<freePc, freeNode, freeMem, bufTail, headLocked, spare, live, allocSize>>
        /\ allocPc' \in AllocSteps /\ allocSize \in ChunkSizes /\ allocPc = "mark"
    BY <1>6, <1>13 DEF markEnd, freeLocals, AllocSteps
  <2>2. PICK s \in NodeIds : s = spare
    BY <2>1, Places
  <2>3. PICK W : W = [M[s].words EXCEPT ![M[s].end] = word(0, TRUE)]
    OBVIOUS
  <2>4. W \in [0 .. NodeSize -> Word]
    <3>1. word(0, TRUE) \in Word /\ M[s].words \in [0 .. NodeSize -> Word]
      BY <1>5 DEF word, Word, Node
    <3> QED BY <2>3, <3>1
  <2>5. N = [M EXCEPT ![s] = [M[s] EXCEPT !.words = W]]
    BY <1>1, <1>2, <1>13, <2>2, <2>3 DEF markEnd
  <2>6. [M[s] EXCEPT !.words = W] \in Node
    BY <1>5, <2>4, NodeWith
  <2>7. [M[s] EXCEPT !.words = W].begin = M[s].begin
    BY <1>5 DEF Node
  <2>8. N \in [NodeIds -> Node] /\ N[b].begin = M[b].begin
    BY <1>5, <2>5, <2>6, <2>7
  <2> QED BY <1>1, <1>2, <1>4, <1>6, <2>1, <2>8, TypedAlloc
<1>14. CASE usedOut
  <2>1. /\ UNCHANGED <<freePc, freeNode, freeMem, bufTail, headLocked, live, allocSize>>
        /\ spare' = 0 /\ allocPc' \in AllocSteps /\ allocSize \in ChunkSizes /\ allocPc = "usedOut"
    BY <1>6, <1>14 DEF usedOut, freeLocals, AllocSteps
  <2>2. PICK s \in NodeIds : s = spare
    BY <2>1, Places
  <2>3. N = [M EXCEPT ![s] = [M[s] EXCEPT !.state = "usedOut"]]
    BY <1>1, <1>2, <1>14, <2>2 DEF usedOut
  <2>4. [M[s] EXCEPT !.state = "usedOut"] \in Node
    BY <1>5, NodeWith
  <2>5. [M[s] EXCEPT !.state = "usedOut"].begin = M[s].begin
    BY <1>5 DEF Node
  <2>6. N \in [NodeIds -> Node] /\ N[b].begin = M[b].begin
    BY <1>5, <2>3, <2>4, <2>5
  <2> QED BY <1>1, <1>2, <1>4, <1>6, <2>1, <2>6, TypedAlloc
<1> QED BY <1>8, <1>9, <1>10, <1>11, <1>12, <1>13, <1>14

\* The types after each step of freeMem.
LEMMA TypedFrees ==
    BufTyped /\ Shaped /\ Shaped' /\ (callFree \/ testFreed \/ moveFreed) => BufTyped'
<1> SUFFICES ASSUME BufTyped, Shaped, Shaped', callFree \/ testFreed \/ moveFreed PROVE BufTyped'
  OBVIOUS
<1> USE RingBufferAssumption
<1>1. bufHead' \in NodeIds /\ bufTail' \in NodeIds
  <2>1. PICK U \in [Nat -> NodeIds], t, k \in Nat, C \in [Nat -> Chunk], a, f, w, z \in Nat :
          Shape(U, t, k, C, a, f, w, z)'
    BY DEF Shaped
  <2>2. bufHead' = U[k] /\ bufTail' = U[t]
    BY <2>1 DEF Shape
  <2> QED BY <2>2
<1>2. PICK M : M = bufNodes
  OBVIOUS
<1>3. PICK N : N = bufNodes'
  OBVIOUS
<1>4. M \in [NodeIds -> Node] /\ \A n \in NodeIds : M[n] \in Node
  BY <1>2 DEF BufTyped
<1>5. PICK b \in NodeIds : b = bufTail
  BY DEF BufTyped
<1>6. UNCHANGED <<headLocked, allocPc, allocSize, spare>>
  BY DEF callFree, testFreed, moveFreed, moveBegin, allocLocals
<1>7. /\ headLocked' \in BOOLEAN /\ allocPc' \in AllocSteps /\ spare' \in Nat
      /\ allocPc' \notin {"idle", "died"} => allocSize' \in ChunkSizes
  BY <1>6 DEF BufTyped
<1>8. live \in Seq(Chunk)
  BY DEF BufTyped
<1>9. CASE callFree
  <2>1. /\ freePc' = "test" /\ freeNode' = bufTail /\ freeMem' = M[bufTail].begin
        /\ bufTail' = bufTail /\ live # <<>> /\ live' = Tail(live)
    BY <1>2, <1>9 DEF callFree
  <2>2. live' \in Seq(Chunk)
    BY <1>8, <2>1
  <2>3. PICK n, o : N = [M EXCEPT ![n] = [M[n] EXCEPT !.words =
                            [M[n].words EXCEPT ![o] = [M[n].words[o] EXCEPT !.freed = TRUE]]]]
    <3>1. PICK n : n = Head(live)[1]
      OBVIOUS
    <3>2. PICK o : o = Head(live)[2]
      OBVIOUS
    <3>3. bufNodes' = [bufNodes EXCEPT ![n].words[o].freed = TRUE]
      BY <1>9, <3>1, <3>2 DEF callFree
    <3> QED BY <1>2, <1>3, <3>3
  <2>4. N \in [NodeIds -> Node] /\ N[b].begin = M[b].begin
    <3>1. CASE n \notin NodeIds
      <4>1. N = M
        BY <1>4, <2>3, <3>1
      <4> QED BY <1>4, <4>1
    <3>2. CASE n \in NodeIds
      <4>1. PICK W : W = [M[n].words EXCEPT ![o] = [M[n].words[o] EXCEPT !.freed = TRUE]]
        OBVIOUS
      <4>2. M[n].words \in [0 .. NodeSize -> Word]
        BY <1>4, <3>2 DEF Node
      <4>3. W \in [0 .. NodeSize -> Word]
        <5>1. CASE o \in 0 .. NodeSize
          <6>1. [M[n].words[o] EXCEPT !.freed = TRUE] \in Word
            BY <4>2, <5>1 DEF Word
          <6> QED BY <4>1, <4>2, <6>1
        <5>2. CASE o \notin 0 .. NodeSize
          <6>1. W = M[n].words
            BY <4>1, <4>2, <5>2
          <6> QED BY <4>2, <6>1
        <5> QED BY <5>1, <5>2
      <4>4. N = [M EXCEPT ![n] = [M[n] EXCEPT !.words = W]]
        BY <2>3, <4>1
      <4>5. [M[n] EXCEPT !.words = W] \in Node
        BY <1>4, <3>2, <4>3, NodeWith
      <4>6. [M[n] EXCEPT !.words = W].begin = M[n].begin
        BY <1>4, <3>2 DEF Node
      <4> QED BY <1>4, <4>4, <4>5, <4>6
    <3> QED BY <3>1, <3>2
  <2>5. freeNode' = bufTail' /\ freeMem' = bufNodes'[bufTail'].begin
    BY <1>3, <1>5, <2>1, <2>4
  <2> QED BY <1>1, <1>3, <1>7, <2>1, <2>2, <2>4, <2>5 DEF BufTyped
<1>10. CASE testFreed
  <2>1. /\ UNCHANGED <<bufNodes, bufTail, freeNode, freeMem, live>> /\ freePc = "test"
        /\ freePc' \in {"idle", "move"}
    BY <1>10 DEF testFreed
  <2>2. freeNode = bufTail /\ freeMem = bufNodes[bufTail].begin
    BY <2>1 DEF BufTyped
  <2> QED BY <1>1, <1>2, <1>4, <1>7, <1>8, <2>1, <2>2 DEF BufTyped
<1>11. CASE moveFreed
  <2>1. freePc = "move" /\ live' = live
    BY <1>11 DEF moveFreed, moveBegin
  <2>2. freeNode = b /\ freeMem = M[b].begin /\ freeMem \in Nat
    <3>1. freeNode = b /\ freeMem = M[b].begin
      BY <1>2, <1>5, <2>1 DEF BufTyped
    <3>2. M[b].begin \in Nat
      BY <1>4 DEF Node
    <3> QED BY <3>1, <3>2
  <2>3. CASE freeMem = M[b].end /\ M[b].state = "usedOut"
    <3>1. /\ N = [M EXCEPT ![b].begin = 0, ![b].end = 0, ![b].state = "open"]
          /\ bufTail' = M[b].next /\ freeNode' = M[b].next /\ freePc' = "test"
          /\ freeMem' = bufNodes'[M[b].next].begin
      BY <1>2, <1>3, <1>11, <2>2, <2>3 DEF moveFreed, moveBegin
    <3>2. N = [M EXCEPT ![b] = [M[b] EXCEPT !.begin = 0, !.end = 0, !.state = "open"]]
      BY <1>4, <3>1
    <3>3. [M[b] EXCEPT !.begin = 0, !.end = 0, !.state = "open"] \in Node
      <4>1. 0 \in 0 .. NodeSize - 1
        OBVIOUS
      <4>2. M[b] \in Node
        BY <1>4
      <4> QED BY <4>1, <4>2 DEF Node
    <3>4. N \in [NodeIds -> Node]
      BY <1>4, <3>2, <3>3
    <3>5. freeNode' = bufTail' /\ freeMem' = bufNodes'[bufTail'].begin
      BY <3>1
    <3> QED BY <1>1, <1>3, <1>7, <1>8, <2>1, <3>1, <3>4, <3>5 DEF BufTyped
  <2>4. CASE IF freeMem = M[b].end THEN M[b].state # "usedOut" ELSE ~wordAt.freed
    <3>1. UNCHANGED <<bufNodes, bufTail, freeNode, freeMem>> /\ freePc' = "idle"
      BY <1>2, <1>11, <2>2, <2>4 DEF moveFreed, moveBegin
    <3> QED BY <1>1, <1>2, <1>4, <1>7, <1>8, <2>1, <3>1 DEF BufTyped
  <2>5. CASE freeMem # M[b].end /\ wordAt.freed
    <3>1. /\ freeMem' = freeMem + wordAt.size
          /\ bufNodes' = [bufNodes EXCEPT ![freeNode].begin = freeMem']
          /\ UNCHANGED <<bufTail, freeNode, freePc>>
      BY <1>2, <1>11, <2>2, <2>5 DEF moveFreed, moveBegin
    <3>2. PICK v \in Nat : v = freeMem'
      <4>1. M[b].begin <= M[b].end
        BY <1>2, <1>5, Places
      <4>2. M[b].end \in 0 .. NodeSize - 1 /\ M[b].words \in [0 .. NodeSize -> Word]
        BY <1>4 DEF Node
      <4>3. freeMem \in 0 .. NodeSize
        BY <2>2, <4>1, <4>2
      <4>4. wordAt = M[b].words[freeMem]
        BY <1>2, <2>2 DEF wordAt
      <4>5. wordAt \in Word
        BY <4>2, <4>3, <4>4
      <4>6. wordAt.size \in Nat
        BY <4>5 DEF Word
      <4> QED BY <2>2, <3>1, <4>6
    <3>3. N = [M EXCEPT ![b] = [M[b] EXCEPT !.begin = v]]
      BY <1>2, <1>3, <2>2, <3>1, <3>2
    <3>4. [M[b] EXCEPT !.begin = v] \in Node
      BY <1>4, NodeWith
    <3>5. [M[b] EXCEPT !.begin = v].begin = v
      BY <1>4 DEF Node
    <3>6. N \in [NodeIds -> Node] /\ N[b].begin = v
      BY <1>4, <3>3, <3>4, <3>5
    <3>7. freeNode' = bufTail' /\ freeMem' = bufNodes'[bufTail'].begin
      BY <1>3, <1>5, <2>2, <3>1, <3>2, <3>6
    <3>8. freePc' = "move"
      BY <2>1, <3>1
    <3> QED BY <1>1, <1>3, <1>7, <1>8, <2>1, <3>6, <3>7, <3>8 DEF BufTyped
  <2> QED BY <2>3, <2>4, <2>5
<1> QED BY <1>9, <1>10, <1>11

-----------------------------------------------------------------------------
(* The number of nodes                                                     *)

\* There are finitely many nodes.
LEMMA FiniteNodes ==
    /\ IsFiniteSet(Nodes) /\ Cardinality(Nodes) \in Nat
    /\ IsFiniteSet(Nodes') /\ Cardinality(Nodes') \in Nat
<1>1. Nodes \in SUBSET NodeIds /\ Nodes' \in SUBSET NodeIds
  BY DEF Nodes
<1>2. IsFiniteSet(NodeIds)
  BY RingBufferAssumption
<1>3. IsFiniteSet(Nodes) /\ IsFiniteSet(Nodes')
  BY <1>1, <1>2, FS_Subset
<1> QED BY <1>3, FS_CardinalityType

\* A step that makes and deletes no node.
LEMMA CountedSame ==
    ASSUME Counted, \A n \in NodeIds : bufNodes'[n].next = bufNodes[n].next, peak' = peak,
           headLocked' => headLocked /\ allocPc' \in {"trim", "died"},
           allocPc' = "died" => peak >= 4
    PROVE  Counted'
<1>1. Nodes' = Nodes
  BY DEF Nodes
<1> QED BY <1>1 DEF Counted

\* A step that changes other fields of one node keeps the pointers.
LEMMA NextKept ==
    ASSUME NEW M \in [NodeIds -> Node], NEW n, NEW y, n \in NodeIds => y.next = M[n].next,
           NEW N, N = [M EXCEPT ![n] = y]
    PROVE  \A x \in NodeIds : N[x].next = M[x].next
OBVIOUS

\* The nodes are counted right: the head is locked only while a deleted one is missing,
\* and three are left when alloc ends.
LEMMA CountedAllocs ==
    BufTyped /\ Shaped /\ Counted
    /\ ((\E s \in ChunkSizes : callAlloc(s)) \/ claimChunk \/ writeSize
        \/ nextNode \/ trim \/ markEnd \/ usedOut) => Counted'
<1> SUFFICES ASSUME BufTyped, Shaped, Counted,
                    (\E s \in ChunkSizes : callAlloc(s)) \/ claimChunk \/ writeSize
                    \/ nextNode \/ trim \/ markEnd \/ usedOut
             PROVE  Counted'
  OBVIOUS
<1> USE RingBufferAssumption
<1>1. PICK M : M = bufNodes
  OBVIOUS
<1>2. PICK N : N = bufNodes'
  OBVIOUS
<1>3. PICK h \in NodeIds : h = bufHead
  BY DEF BufTyped
<1>4. M \in [NodeIds -> Node] /\ Nodes = {n \in NodeIds : M[n].next # 0}
      /\ Nodes' = {n \in NodeIds : N[n].next # 0}
  BY <1>1, <1>2 DEF BufTyped, Nodes
<1>5. PICK c \in Nat : c = Cardinality(Nodes)
  BY FiniteNodes
<1>6. /\ peak \in Nat /\ c <= peak
      /\ headLocked => allocPc \in {"trim", "died"} /\ c + 1 <= peak
  BY <1>5 DEF Counted
<1>7. ASSUME NEW s \in ChunkSizes, callAlloc(s) PROVE Counted'
  BY <1>6, <1>7, CountedSame DEF callAlloc
<1>8. CASE claimChunk
  <2>1. /\ allocPc = "claim" /\ allocPc' \in {"size", "full"} /\ peak' = peak
        /\ headLocked' = headLocked
    BY <1>8 DEF claimChunk
  <2>2. \A n \in NodeIds : N[n].next = M[n].next
    <3>1. \/ N = [M EXCEPT ![h] = [M[h] EXCEPT !.end = M[h].end + allocSize]]
          \/ N = [M EXCEPT ![h] = [M[h] EXCEPT !.state = "locked"]]
      BY <1>1, <1>2, <1>3, <1>8 DEF claimChunk
    <3>2. /\ [M[h] EXCEPT !.end = M[h].end + allocSize].next = M[h].next
          /\ [M[h] EXCEPT !.state = "locked"].next = M[h].next
      BY <1>4 DEF Node
    <3>3. CASE N = [M EXCEPT ![h] = [M[h] EXCEPT !.end = M[h].end + allocSize]]
      BY <1>4, <3>2, <3>3, NextKept
    <3>4. CASE N = [M EXCEPT ![h] = [M[h] EXCEPT !.state = "locked"]]
      BY <1>4, <3>2, <3>4, NextKept
    <3> QED BY <3>1, <3>3, <3>4
  <2> QED BY <1>1, <1>2, <1>6, <2>1, <2>2, CountedSame
<1>9. CASE writeSize
  <2>1. allocPc = "size" /\ allocPc' = "idle" /\ peak' = peak /\ headLocked' = headLocked
    BY <1>9 DEF writeSize
  <2>2. \A n \in NodeIds : N[n].next = M[n].next
    <3>1. N = [M EXCEPT ![h] = [M[h] EXCEPT !.words =
                 [M[h].words EXCEPT ![claimed] = word(allocSize, FALSE)]]]
      BY <1>1, <1>2, <1>3, <1>9 DEF writeSize
    <3> QED BY <1>4, <3>1 DEF Node
  <2> QED BY <1>1, <1>2, <1>6, <2>1, <2>2, CountedSame
<1>10. CASE markEnd \/ usedOut
  <2>1. /\ allocPc \in {"mark", "usedOut"} /\ allocPc' \in {"usedOut", "claim"} /\ peak' = peak
        /\ headLocked' = headLocked
    BY <1>10 DEF markEnd, usedOut
  <2>2. \A n \in NodeIds : N[n].next = M[n].next
    <3>1. CASE markEnd
      <4>1. N = [M EXCEPT ![spare] = [M[spare] EXCEPT !.words =
                  [M[spare].words EXCEPT ![M[spare].end] = word(0, TRUE)]]]
        BY <1>1, <1>2, <3>1 DEF markEnd
      <4>2. spare \in NodeIds => [M[spare] EXCEPT !.words =
              [M[spare].words EXCEPT ![M[spare].end] = word(0, TRUE)]].next = M[spare].next
        BY <1>4 DEF Node
      <4> QED BY <1>4, <4>1, <4>2, NextKept
    <3>2. CASE usedOut
      <4>1. N = [M EXCEPT ![spare] = [M[spare] EXCEPT !.state = "usedOut"]]
        BY <1>1, <1>2, <3>2 DEF usedOut
      <4>2. spare \in NodeIds => [M[spare] EXCEPT !.state = "usedOut"].next = M[spare].next
        BY <1>4 DEF Node
      <4> QED BY <1>4, <4>1, <4>2, NextKept
    <3> QED BY <1>10, <3>1, <3>2
  <2> QED BY <1>1, <1>2, <1>6, <2>1, <2>2, CountedSame
<1>11. CASE nextNode
  <2>1. allocPc = "full" /\ headLocked' = headLocked /\ ~headLocked
    BY <1>6, <1>11 DEF nextNode
  <2>2. CASE M[h].next = bufTail
    <3>1. PICK m \in NodeIds : /\ m \notin Nodes
                               /\ N = [M EXCEPT ![m] = newNode(bufTail), ![h].next = m]
      <4>1. NodeIds \ Nodes # {}
        <5>1. NodeIds # Nodes /\ Nodes \subseteq NodeIds
          BY <1>1, <1>3, <1>11, <2>2 DEF nextNode, Nodes
        <5> QED BY <5>1
      <4>2. PICK m : m = CHOOSE x \in NodeIds \ Nodes : TRUE
        OBVIOUS
      <4>3. m \in NodeIds \ Nodes
        BY <4>1, <4>2
      <4> QED BY <1>1, <1>2, <1>3, <1>11, <2>2, <4>2, <4>3 DEF nextNode
    <3>2. /\ allocPc' = "mark"
          /\ peak' = IF c = peak THEN peak + 1 ELSE peak
      BY <1>1, <1>3, <1>5, <1>11, <2>2 DEF nextNode
    <3>3. bufTail \in Nat \ {0}
      BY DEF BufTyped
    <3>4. \A n \in NodeIds : n # m => (N[n].next # 0 <=> M[n].next # 0)
      <4> TAKE n \in NodeIds
      <4>1. CASE n = h /\ n # m
        <5>1. N = [[M EXCEPT ![m] = newNode(bufTail)] EXCEPT ![h] = [M[h] EXCEPT !.next = m]]
          BY <1>4, <3>1, <4>1
        <5>2. N[h].next = m
          BY <1>4, <5>1 DEF Node
        <5> QED BY <2>2, <3>3, <4>1, <5>2
      <4>2. CASE n # h /\ n # m
        BY <1>4, <3>1, <4>2
      <4> QED BY <4>1, <4>2
    <3>5. N[m].next # 0
      <4>1. CASE m = h
        BY <1>4, <2>2, <3>1, <3>3, <4>1
      <4>2. CASE m # h
        <5>1. N[m] = newNode(bufTail)
          BY <1>4, <3>1, <4>2
        <5> QED BY <3>3, <5>1 DEF newNode
      <4> QED BY <4>1, <4>2
    <3>6. Nodes' = Nodes \cup {m}
      BY <1>4, <3>4, <3>5
    <3>7. Cardinality(Nodes') = c + 1
      BY <1>5, <3>1, <3>6, FiniteNodes, FS_AddElement
    <3> QED BY <1>6, <2>1, <3>2, <3>7 DEF Counted
  <2>3. CASE M[h].next # bufTail
    <3>1. N = M /\ peak' = peak /\ allocPc' = "trim"
      BY <1>1, <1>2, <1>3, <1>11, <2>3 DEF nextNode
    <3> QED BY <1>1, <1>2, <1>6, <2>1, <3>1, CountedSame
  <2> QED BY <2>2, <2>3
<1>12. CASE trim
  <2>1. allocPc = "trim" /\ peak' = peak
    BY <1>12 DEF trim, trimLeaving
  <2>2. PICK s : s = spare
    OBVIOUS
  <2>3. PICK m : m = M[s].next
    OBVIOUS
  <2>4. CASE m = bufTail
    <3>1. N = M /\ headLocked' = FALSE /\ allocPc' = "mark"
      BY <1>1, <1>2, <1>12, <2>2, <2>3, <2>4 DEF trim, trimLeaving
    <3> QED BY <1>1, <1>2, <1>6, <2>1, <3>1, CountedSame
  <2>5. CASE m # bufTail
    <3>1. /\ s \in NodeIds /\ m \in NodeIds /\ s # m /\ M[s].next # 0 /\ M[m].next # 0
          /\ h # s /\ h # m /\ M[h].next # 0
      <4>1. PICK U \in [Nat -> NodeIds], t, k \in Nat, C \in [Nat -> Chunk], a, f, w, z \in Nat :
              Shape(U, t, k, C, a, f, w, z)
        BY DEF Shaped
      <4>2. /\ Linked(M, U, t, k) /\ s = M[U[k]].next /\ ~inUse(U, t, k, s) /\ m # U[t] /\ U[k] = h
        BY <1>1, <1>3, <2>1, <2>2, <2>5, <4>1 DEF Shape, Left
      <4>3. /\ s \in NodeIds /\ m \in NodeIds /\ s # m /\ M[s].next # 0 /\ M[m].next # 0
            /\ U[k] # s /\ U[k] # m /\ M[U[k]].next # 0
        BY ONLY <2>3, <4>2, FreeNodes
      <4> QED BY <4>2, <4>3
    <3>2. CASE headLocked
      <4>1. N = M /\ headLocked' = headLocked /\ allocPc' = "died"
        BY <1>1, <1>2, <1>12, <2>2, <2>3, <2>5, <3>2 DEF trim, trimLeaving
      <4>2. c >= 3
        <5>1. {h} \cup {s} \cup {m} \in SUBSET Nodes
          BY <1>4, <3>1
        <5>2. IsFiniteSet({h}) /\ Cardinality({h}) = 1
          BY FS_Singleton
        <5>3. IsFiniteSet({h} \cup {s}) /\ Cardinality({h} \cup {s}) = 2
          <6>1. s \notin {h}
            BY <3>1
          <6>2. /\ IsFiniteSet({h} \cup {s})
                /\ Cardinality({h} \cup {s}) = IF s \in {h} THEN Cardinality({h}) ELSE Cardinality({h}) + 1
            BY ONLY <5>2, FS_AddElement, Zenon
          <6> QED BY <5>2, <6>1, <6>2
        <5>4. Cardinality({h} \cup {s} \cup {m}) = 3
          <6>1. m \notin {h} \cup {s}
            BY <3>1
          <6>2. PICK S : S = {h} \cup {s}
            OBVIOUS
          <6>3. Cardinality(S \cup {m}) = IF m \in S THEN Cardinality(S) ELSE Cardinality(S) + 1
            BY <5>3, <6>2, FS_AddElement
          <6> QED BY <5>3, <6>1, <6>2, <6>3
        <5>5. Cardinality({h} \cup {s} \cup {m}) <= Cardinality(Nodes)
          BY <5>1, FiniteNodes, FS_Subset
        <5> QED BY <1>5, <5>4, <5>5
      <4>3. peak >= 4
        BY <1>6, <3>2, <4>2
      <4> QED BY <1>1, <1>2, <2>1, <4>1, <4>3, CountedSame
    <3>3. CASE ~headLocked
      <4>1. N = [M EXCEPT ![s].next = M[m].next, ![m] = NotANode] /\ allocPc' = "trim"
        BY <1>1, <1>2, <1>12, <2>1, <2>2, <2>3, <2>5, <3>3 DEF trim, trimLeaving
      <4>2. N = [[M EXCEPT ![s] = [M[s] EXCEPT !.next = M[m].next]] EXCEPT ![m] = NotANode]
        BY <1>4, <4>1
      <4>3. N[m].next = 0
        BY <1>4, <3>1, <4>2 DEF NotANode, newNode
      <4>4. N[s].next = M[m].next
        <5>1. N[s] = [M[s] EXCEPT !.next = M[m].next]
          BY <1>4, <3>1, <4>2
        <5> QED BY <1>4, <3>1, <5>1 DEF Node
      <4>5. \A n \in NodeIds : n # m /\ n # s => N[n] = M[n]
        BY <1>4, <4>2
      <4>6. Nodes' = Nodes \ {m} /\ m \in Nodes
        BY <1>4, <3>1, <4>3, <4>4, <4>5
      <4>7. Cardinality(Nodes') = c - 1
        BY <1>5, <4>6, FiniteNodes, FS_RemoveElement
      <4> QED BY <1>6, <2>1, <4>1, <4>7 DEF Counted
    <3> QED BY <3>2, <3>3
  <2> QED BY <2>4, <2>5
<1> QED BY <1>7, <1>8, <1>9, <1>10, <1>11, <1>12

\* freeMem makes and deletes no node.
LEMMA CountedFrees == BufTyped /\ Counted /\ (callFree \/ testFreed \/ moveFreed) => Counted'
<1> SUFFICES ASSUME BufTyped, Counted, callFree \/ testFreed \/ moveFreed PROVE Counted'
  OBVIOUS
<1>1. UNCHANGED <<headLocked, allocPc, peak>>
  BY DEF callFree, testFreed, moveFreed, moveBegin, allocLocals
<1>2. PICK M : M = bufNodes
  OBVIOUS
<1>3. PICK N : N = bufNodes'
  OBVIOUS
<1>4. M \in [NodeIds -> Node]
  BY <1>2 DEF BufTyped
<1>5. \A n \in NodeIds : N[n].next = M[n].next
  <2>1. CASE callFree
    <3>1. PICK n : n = Head(live)[1]
      OBVIOUS
    <3>2. PICK o : o = Head(live)[2]
      OBVIOUS
    <3>3. bufNodes' = [bufNodes EXCEPT ![n].words[o].freed = TRUE]
      BY <2>1, <3>1, <3>2 DEF callFree
    <3>4. N = [M EXCEPT ![n] = [M[n] EXCEPT !.words =
                [M[n].words EXCEPT ![o] = [M[n].words[o] EXCEPT !.freed = TRUE]]]]
      BY <1>2, <1>3, <3>3
    <3> QED BY <1>4, <3>4 DEF Node
  <2>2. CASE testFreed
    BY <1>2, <1>3, <2>2 DEF testFreed
  <2>3. CASE moveFreed
    <3>1. \/ N = [M EXCEPT ![freeNode].begin = 0, ![freeNode].end = 0, ![freeNode].state = "open"]
          \/ N = M
          \/ N = [M EXCEPT ![freeNode].begin = freeMem']
      BY <1>2, <1>3, <2>3 DEF moveFreed, moveBegin
    <3>2. PICK n : n = freeNode
      OBVIOUS
    <3>3. PICK v : v = freeMem'
      OBVIOUS
    <3>4. CASE N = [M EXCEPT ![freeNode].begin = 0, ![freeNode].end = 0, ![freeNode].state = "open"]
      <4>1. N = [M EXCEPT ![n] = [M[n] EXCEPT !.begin = 0, !.end = 0, !.state = "open"]]
        BY <1>4, <3>2, <3>4
      <4>2. n \in NodeIds => [M[n] EXCEPT !.begin = 0, !.end = 0, !.state = "open"].next = M[n].next
        BY <1>4 DEF Node
      <4> QED BY <1>4, <4>1, <4>2, NextKept
    <3>5. CASE N = [M EXCEPT ![freeNode].begin = freeMem']
      <4>1. N = [M EXCEPT ![n] = [M[n] EXCEPT !.begin = v]]
        BY <3>2, <3>3, <3>5
      <4>2. n \in NodeIds => [M[n] EXCEPT !.begin = v].next = M[n].next
        BY <1>4 DEF Node
      <4> QED BY <1>4, <4>1, <4>2, NextKept
    <3> QED BY <3>1, <3>4, <3>5
  <2> QED BY <2>1, <2>2, <2>3
<1>6. allocPc = "died" => peak >= 4
  BY DEF Counted
<1>7. headLocked => allocPc \in {"trim", "died"}
  BY DEF Counted
<1> QED BY <1>1, <1>2, <1>3, <1>5, <1>6, <1>7, CountedSame

-----------------------------------------------------------------------------
(* The invariant                                                           *)

\* At first there is one node, empty, which leads to itself.
LEMMA InitInv == BufInit => BufInv
<1> SUFFICES ASSUME BufInit PROVE BufInv
  OBVIOUS
<1> USE RingBufferAssumption
<1>1. PICK M : M = bufNodes
  OBVIOUS
<1>2. /\ M = [n \in NodeIds |-> IF n = 1 THEN newNode(1) ELSE NotANode]
      /\ bufHead = 1 /\ headLocked = FALSE /\ bufTail = 1 /\ allocPc = "idle" /\ spare = 0
      /\ freePc = "idle" /\ live = <<>> /\ bufRaced = FALSE /\ peak = 1
  BY <1>1 DEF BufInit
<1>3. newNode(1) \in Node /\ NotANode \in Node
  BY NewNode DEF NotANode
<1>4. M \in [NodeIds -> Node]
  BY <1>2, <1>3
<1>5. M[1] = newNode(1) /\ \A n \in NodeIds : n # 1 => M[n] = NotANode
  BY <1>2
<1>6. /\ M[1].next = 1 /\ M[1].begin = 0 /\ M[1].end = 0 /\ M[1].state = "open"
      /\ \A n \in NodeIds : n # 1 => M[n].next = 0
  BY <1>5 DEF newNode, NotANode
<1>7. BufTyped
  <2>1. bufNodes \in [NodeIds -> Node]
    BY <1>1, <1>4
  <2>2. live \in Seq(Chunk)
    BY <1>2
  <2>3. bufHead \in NodeIds /\ bufTail \in NodeIds /\ headLocked \in BOOLEAN /\ spare \in Nat
    BY <1>2
  <2>4. allocPc = "idle" /\ allocPc \in AllocSteps
    BY <1>2 DEF AllocSteps
  <2>5. freePc = "idle"
    BY <1>2
  <2> QED BY <2>1, <2>2, <2>3, <2>4, <2>5 DEF BufTyped
<1>8. Counted
  <2>1. Nodes = {1}
    BY <1>1, <1>6 DEF Nodes
  <2>2. Cardinality(Nodes) = 1
    BY <2>1, FS_Singleton
  <2> QED BY <1>2, <2>2 DEF Counted
<1>9. Shaped
  <2>1. PICK U \in [Nat -> NodeIds] : \A i \in Nat : U[i] = 1
    <3>1. [i \in Nat |-> 1] \in [Nat -> NodeIds] /\ \A i \in Nat : [j \in Nat |-> 1][i] = 1
      OBVIOUS
    <3> QED BY <3>1
  <2>2. PICK C : C \in [Nat -> Chunk]
    <3>1. <<1, 0, 1>> \in Chunk
      BY DEF Chunk
    <3>2. [i \in Nat |-> <<1, 0, 1>>] \in [Nat -> Chunk]
      BY <3>1
    <3> QED BY <3>2
  <2>3. U[0] = 1 /\ 0 .. 0 = {0} /\ 0 .. 0 - 1 = {} /\ 0 + 1 .. 0 - 1 = {}
    BY <2>1
  <2>4. \A n : inUse(U, 0, 0, n) <=> n = 1
    BY <2>3 DEF inUse
  <2>5. Linked(M, U, 0, 0)
    <3>1. \A n \in NodeIds : M[n].next # 0 => M[n].next \in NodeIds /\ M[M[n].next].next # 0
      BY <1>6
    <3>2. \A m, n \in NodeIds : M[m].next # 0 /\ M[m].next = M[n].next => m = n
      BY <1>6
    <3>3. /\ \A i, j \in 0 .. 0 : U[i] = U[j] => i = j
          /\ \A i \in 0 .. 0 : M[U[i]].next # 0
          /\ \A i \in 0 .. 0 - 1 : M[U[i]].next = U[i + 1]
      BY <1>6, <2>3
    <3>4. /\ \A n \in NodeIds : M[n].next # 0 /\ (n = U[0] \/ ~inUse(U, 0, 0, n)) =>
              M[n].next = U[0] \/ ~inUse(U, 0, 0, M[n].next)
          /\ \A n \in NodeIds : M[n].next # 0 /\ ~inUse(U, 0, 0, n) =>
              M[n].begin = 0 /\ M[n].end = 0 /\ M[n].state = "open"
      BY <1>6, <2>3, <2>4
    <3>5. 0 <= 0
      OBVIOUS
    <3> QED BY <3>1, <3>2, <3>3, <3>4, <3>5 DEF Linked
  <2>6. Ordered(M, U, 0, 0, C, 0, 0) /\ Gapless(M, U, 0, 0, C, 0, 0) /\ Written(M, C, 0, 0, 0)
    <3>1. 0 <= 0 /\ ~(0 > 0)
      OBVIOUS
    <3> QED BY <1>6, <2>3, <3>1 DEF Ordered, Gapless, Written
  <2>7. Left(M, U, 0, 0, "idle", spare)
    BY <1>6, <2>3 DEF Left
  <2>8. Handed(C, 0, 0, 0)
    <3>1. Len(live) = 0 /\ 1 .. Len(live) = {}
      BY <1>2
    <3> QED BY <1>2, <3>1 DEF Handed
  <2>9. Shape(U, 0, 0, C, 0, 0, 0, 0)
    BY <1>1, <1>2, <2>3, <2>5, <2>6, <2>7, <2>8 DEF Shape
  <2> QED BY <2>1, <2>2, <2>9 DEF Shaped
<1> QED BY <1>2, <1>7, <1>8, <1>9 DEF BufInv

\* Every step keeps the invariant.
LEMMA StepInv == BufInv /\ [BufNext]_bufVars => BufInv'
<1> SUFFICES ASSUME BufInv, [BufNext]_bufVars PROVE BufInv'
  OBVIOUS
<1>1. CASE UNCHANGED bufVars
  <2>1. /\ UNCHANGED <<bufNodes, bufHead, headLocked, bufTail, allocPc, allocSize, spare, freePc,
                       freeNode, freeMem, live, bufRaced, peak>>
    BY <1>1 DEF bufVars
  <2>2. BufTyped => BufTyped'
    BY <2>1 DEF BufTyped
  <2>3. Counted => Counted'
    BY <2>1 DEF Counted, Nodes
  <2>4. Shaped => Shaped'
    <3> SUFFICES ASSUME Shaped PROVE Shaped'
      OBVIOUS
    <3>1. PICK U \in [Nat -> NodeIds], t, k \in Nat, C \in [Nat -> Chunk], a, f, w, z \in Nat :
            Shape(U, t, k, C, a, f, w, z)
      BY DEF Shaped
    <3>2. claimed' = claimed
      BY <2>1 DEF claimed
    <3>3. Handed(C, f, w, z)'
      BY <2>1, <3>1, <3>2, HandedSame DEF Shape
    <3> QED BY <2>1, <3>1, <3>3, Reshape DEF Shape
  <2> QED BY <2>1, <2>2, <2>3, <2>4 DEF BufInv
<1>2. CASE BufNext
  <2>1. ~bufRaced /\ BufTyped /\ Counted /\ Shaped
    BY <1>2 DEF BufNext, BufInv
  <2>2. CASE (\E s \in ChunkSizes : callAlloc(s)) \/ claimChunk \/ writeSize
              \/ nextNode \/ trim \/ markEnd \/ usedOut
    <3>1. Shaped'
      BY <2>1, <2>2, CallStep, ClaimStep, WriteStep, NextStep, TrimStep, MarkStep, UsedStep
    <3>2. BufTyped' /\ Counted'
      BY <2>1, <2>2, <3>1, TypedAllocs, CountedAllocs
    <3>3. bufRaced' = bufRaced
      BY <2>2 DEF callAlloc, claimChunk, writeSize, nextNode, trim, trimLeaving, markEnd, usedOut
    <3> QED BY <2>1, <3>1, <3>2, <3>3 DEF BufInv
  <2>3. CASE callFree \/ testFreed \/ moveFreed
    <3>1. CASE bufRaced'
      <4>1. allocPc' = allocPc
        BY <2>3 DEF callFree, testFreed, moveFreed, moveBegin, allocLocals
      <4>2. unwritten(freeNode, freeMem)
        BY <2>1, <2>3, <3>1 DEF callFree, testFreed, moveFreed, moveBegin
      <4> QED BY <3>1, <4>1, <4>2 DEF BufInv, unwritten
    <3>2. CASE ~bufRaced'
      <4>1. Shaped'
        BY <2>1, <2>3, <3>2, FreeStep, TestStep, MoveStep
      <4>2. BufTyped' /\ Counted'
        BY <2>1, <2>3, <4>1, TypedFrees, CountedFrees
      <4> QED BY <3>2, <4>1, <4>2 DEF BufInv
    <3> QED BY <3>1, <3>2
  <2> QED BY <1>2, <2>2, <2>3 DEF BufNext
<1> QED BY <1>1, <1>2

\* The invariant holds in every state.
THEOREM BufInvTheorem == BufSpec => []BufInv
<1>1. BufInit => BufInv
  BY InitInv
<1>2. BufInv /\ [BufNext]_bufVars => BufInv'
  BY StepInv
<1> QED BY <1>1, <1>2, PTL DEF BufSpec

-----------------------------------------------------------------------------
(* The properties                                                          *)

\* Whatever alloc and freeMem do at the same time, a chunk that was handed out and not
\* freed lies in a node of the ring, between begin and end, apart from the others, until
\* a word is read that alloc has not written (alloc, freeMem).
THEOREM LiveTheorem == BufSpec => []LiveKept
<1>1. BufInv => LiveKept
  <2> SUFFICES ASSUME BufInv, ~bufRaced, NEW i \in DOMAIN live
               PROVE  LET c == live[i] IN
                      /\ c[1] \in Nodes
                      /\ bufNodes[c[1]].begin <= c[2] /\ c[2] + c[3] <= bufNodes[c[1]].end
                      /\ \A k \in DOMAIN live : k # i /\ live[k][1] = c[1] =>
                            live[k][2] + live[k][3] <= c[2] \/ c[2] + c[3] <= live[k][2]
    BY DEF LiveKept
  <2>1. BufTyped /\ Shaped
    BY DEF BufInv
  <2>2. PICK U \in [Nat -> NodeIds], t, k \in Nat, C \in [Nat -> Chunk], a, f, w, z \in Nat :
          Shape(U, t, k, C, a, f, w, z)
    BY <2>1 DEF Shaped
  <2>3. Len(live) \in Nat /\ DOMAIN live = 1 .. Len(live)
    BY <2>1 DEF BufTyped
  <2>4. a <= f /\ w = f + Len(live) /\ w <= z
    BY <2>2 DEF Shape, Handed
  <2>5. \A j \in DOMAIN live : live[j] = C[f + j - 1] /\ f + j - 1 \in a .. z - 1
    <3> TAKE j \in DOMAIN live
    <3>1. f + j - 1 \in a .. z - 1
      BY <2>3, <2>4
    <3> QED BY <2>2, <2>3, <3>1 DEF Shape, Handed
  <2>6. PICK x \in a .. z - 1 : live[i] = C[x] /\ x = f + i - 1
    BY <2>5
  <2>7. /\ inUse(U, t, k, C[x][1]) /\ bufNodes[C[x][1]].begin <= C[x][2]
        /\ C[x][2] + C[x][3] <= bufNodes[C[x][1]].end
    BY <2>2 DEF Shape, Ordered
  <2>8. C[x][1] \in Nodes
    <3>1. PICK p \in t .. k : U[p] = C[x][1]
      BY <2>7 DEF inUse
    <3>2. p \in Nat
      OBVIOUS
    <3>3. bufNodes[U[p]].next # 0 /\ U[p] \in NodeIds
      BY <2>2, <3>2 DEF Shape, Linked
    <3> QED BY <3>1, <3>3 DEF Nodes
  <2>9. ASSUME NEW j \in DOMAIN live, j # i, live[j][1] = live[i][1]
        PROVE  live[j][2] + live[j][3] <= live[i][2] \/ live[i][2] + live[i][3] <= live[j][2]
    <3>1. PICK y \in a .. z - 1 : live[j] = C[y] /\ y = f + j - 1
      BY <2>5
    <3>2. C[x][1] = C[y][1]
      BY <2>6, <2>9, <3>1
    <3>3. x < y \/ y < x
      BY <2>3, <2>6, <2>9, <3>1
    <3>4. Ordered(bufNodes, U, t, k, C, a, z)
      BY <2>2 DEF Shape
    <3>5. CASE x < y
      <4>1. C[x][2] + C[x][3] <= C[y][2]
        BY ONLY <3>2, <3>4, <3>5, Apart
      <4> QED BY <2>6, <3>1, <4>1
    <3>6. CASE y < x
      <4>1. C[y][2] + C[y][3] <= C[x][2]
        BY ONLY <3>2, <3>4, <3>6, Apart
      <4> QED BY <2>6, <3>1, <4>1
    <3> QED BY <3>3, <3>5, <3>6
  <2> QED BY <2>6, <2>7, <2>8, <2>9
<1> QED BY <1>1, BufInvTheorem, PTL

\* alloc follows a locked head pointer only after there were four nodes, however large the
\* nodes and the chunks are (alloc).
THEOREM BacklogTheorem == BufSpec => []DiesOfBacklog
<1>1. BufInv => DiesOfBacklog
  BY DEF BufInv, Counted, DiesOfBacklog
<1> QED BY <1>1, BufInvTheorem, PTL

\* When nothing is live and nobody is at work every freed chunk is behind begin, and the
\* head is the tail or next to it (freeMem).
THEOREM ReclaimedTheorem == BufSpec => []AllReclaimed
<1>1. BufInv => AllReclaimed
  <2> SUFFICES ASSUME BufInv, live = <<>>, allocPc = "idle", freePc = "idle", ~bufRaced
               PROVE  /\ bufNodes[bufTail].begin = bufNodes[bufTail].end
                      /\ bufTail = bufHead \/ bufNodes[bufTail].next = bufHead
    BY DEF AllReclaimed
  <2>1. BufTyped /\ Shaped
    BY DEF BufInv
  <2>2. PICK U \in [Nat -> NodeIds], t, k \in Nat, C \in [Nat -> Chunk], a, f, w, z \in Nat :
          Shape(U, t, k, C, a, f, w, z)
    BY <2>1 DEF Shaped
  <2>3. a = f /\ w = f + Len(live) /\ z = w /\ Len(live) = 0
    BY <2>2 DEF Shape, Handed
  <2>4. a .. z - 1 = {}
    BY <2>3
  <2>5. \A n, o : ~starts(C, a, z, n, o)
    BY <2>4 DEF starts
  <2>6. \A p \in t .. k : bufNodes[U[p]].begin = bufNodes[U[p]].end
                          /\ (p > t => bufNodes[U[p]].begin = 0)
    BY <2>2, <2>5 DEF Shape, Gapless
  <2>7. t <= k /\ t \in t .. k /\ bufTail = U[t] /\ bufHead = U[k]
    BY <2>2 DEF Shape, Linked
  <2>8. k = t \/ k = t + 1
    <3> SUFFICES ASSUME k # t, k # t + 1 PROVE FALSE
      OBVIOUS
    <3>1. t + 1 \in t + 1 .. k - 1 /\ t + 1 \in t .. k /\ t + 1 > t
      BY <2>7
    <3>2. bufNodes[U[t + 1]].end > 0
      BY <2>2, <3>1 DEF Shape, Left
    <3>3. bufNodes[U[t + 1]].end = 0
      BY <2>6, <3>1
    <3> QED BY <3>2, <3>3
  <2>9. k = t + 1 => bufNodes[U[t]].next = U[k]
    <3> SUFFICES ASSUME k = t + 1 PROVE bufNodes[U[t]].next = U[t + 1]
      OBVIOUS
    <3>1. t \in t .. k - 1
      OBVIOUS
    <3> QED BY <2>2, <3>1 DEF Shape, Linked
  <2> QED BY <2>6, <2>7, <2>8, <2>9
<1> QED BY <1>1, BufInvTheorem, PTL
=============================================================================
