------------------------- MODULE BlockStore_proofs -------------------------
(***************************************************************************)
(* Why the block files stay in the order of the source across crashes and   *)
(* restarts, why no file is ever replaced, and why one flush thread leaves   *)
(* files that load() copes with and that miss nothing.                      *)
(*                                                                         *)
(* The files alone are not enough for an inductive argument: a file is the  *)
(* copy of a block in memory, so the invariant is about every known block,  *)
(* read from memory as long as it is there and from its file after a crash. *)
(***************************************************************************)
EXTENDS BlockStore, FiniteSetTheorems, WellFoundedInduction, TLAPS

Running == phase \in {"running", "failed", "stopping", "stopFailed"}
Stopped == phase \in {"stopping", "stopFailed"}

-----------------------------------------------------------------------------
(* The known blocks                                                        *)

\* The blocks ms in memory and, where there is none, the files fs
viewOf(fs, ms) ==
    [b \in DOMAIN fs \cup DOMAIN ms |-> IF b \in DOMAIN ms THEN ms[b] ELSE fs[b]]

\* Every block of this life and of the lives before it
view == viewOf(files, mem)

IsView(f) ==
    /\ DOMAIN f \subseteq Blocks
    /\ \A b \in DOMAIN f : f[b].recs \in Seq(Records) /\ f[b].minId \in Nat

\* All records of the blocks f come before record n of the source.
Before(f, n) == \A a \in DOMAIN f : \A i \in 1 .. Len(f[a].recs) : f[a].recs[i] < n

\* The blocks f hold records in the order of the source, none of them twice.
InOrder(f) ==
    \A a, b \in DOMAIN f : \A i \in 1 .. Len(f[a].recs), j \in 1 .. Len(f[b].recs) :
        (a < b \/ (a = b /\ i < j)) => f[a].recs[i] < f[b].recs[j]

\* Every block of f starts behind the identifiers of the blocks before it.
IdOrder(f) == \A a, b \in DOMAIN f : a < b => nextId(f[a]) <= f[b].minId

IdBound(f, n) == \A a \in DOMAIN f : nextId(f[a]) <= n

-----------------------------------------------------------------------------
(* The invariant                                                           *)

IsFunction(f) == f = [b \in DOMAIN f |-> f[b]]

Typed == TypeOK /\ IsFunction(files) /\ IsFunction(mem) /\ IsFunction(writing)

\* A file with its name is complete and on disk.
Durable ==
    \A b \in DOMAIN files :
        files[b].synced /\ files[b].recs # <<>> /\ files[b].prev = b - 1

\* The blocks of this life follow those of the lives before, the newest one is
\* m_current, and a file of this life is the copy of a finished block.
Memory ==
    /\ ~Running => mem = Empty /\ writing = Empty /\ queue = <<>> /\ threads = 0
    /\ Running => current \in DOMAIN mem
    /\ \A b \in DOMAIN mem : b <= current /\ mem[b].prev = b - 1
    /\ \A b \in DOMAIN mem, c \in DOMAIN files : c \notin DOMAIN mem => c < b
    /\ \A b \in DOMAIN mem \cap DOMAIN files :
         /\ files[b].recs = mem[b].recs
         /\ files[b].minId = mem[b].minId
         /\ b < current \/ Stopped

\* Block b is finished and has records, but no file yet.
pending(b) ==
    /\ b \in DOMAIN mem
    /\ b \notin DOMAIN files
    /\ mem[b].recs # <<>>
    /\ b < current \/ Stopped

queued(b) == \E i \in DOMAIN queue : queue[i] = b

\* Every block on its way to a file is pending and has one place; no more blocks
\* are written than there are threads.
Pending ==
    /\ \A b \in Blocks : queued(b) => pending(b) /\ b \notin DOMAIN writing
    /\ \A i, j \in DOMAIN queue : queue[i] = queue[j] => i = j
    /\ \A b \in DOMAIN writing : pending(b)
    /\ Cardinality(DOMAIN writing) <= threads

Ordered == InOrder(view) /\ Before(view, next)

Numbered == IdOrder(view) /\ (Running => IdBound(view, recordId))

StoreInv == Typed /\ Durable /\ Memory /\ Pending /\ Ordered /\ Numbered

-----------------------------------------------------------------------------
(* Lemmas about the operators                                              *)

\* put and drop return functions on the domain one expects.
LEMMA PutFacts ==
    ASSUME NEW f, NEW b, NEW x
    PROVE  /\ DOMAIN put(f, b, x) = DOMAIN f \cup {b}
           /\ put(f, b, x)[b] = x
           /\ \A c \in DOMAIN f : c # b => put(f, b, x)[c] = f[c]
           /\ IsFunction(put(f, b, x))
BY DEF put, IsFunction

\* Forgetting one entry of a function leaves the others.
LEMMA DropFacts ==
    ASSUME NEW f, NEW b
    PROVE  /\ DOMAIN drop(f, b) = DOMAIN f \ {b}
           /\ \A c \in DOMAIN f \ {b} : drop(f, b)[c] = f[c]
           /\ IsFunction(drop(f, b))
BY DEF drop, IsFunction

\* The function without entries is the only one of its kind.
LEMMA EmptyFacts ==
    /\ DOMAIN Empty = {}
    /\ IsFunction(Empty)
    /\ \A f : IsFunction(f) /\ DOMAIN f = {} => f = Empty
<1>1. DOMAIN Empty = {} /\ IsFunction(Empty)
  BY DEF Empty, IsFunction
<1>2. ASSUME NEW f, IsFunction(f), DOMAIN f = {} PROVE f = Empty
  BY <1>2 DEF Empty, IsFunction
<1> QED BY <1>1, <1>2, Zenon

\* Blocks that are kept as they are, and new ones without records, change nothing
\* in the order.
LEMMA OrderKept ==
    ASSUME NEW f, NEW g, NEW m, InOrder(f), Before(f, m),
           \A b \in DOMAIN g : g[b].recs = <<>> \/ (b \in DOMAIN f /\ g[b].recs = f[b].recs)
    PROVE  InOrder(g) /\ Before(g, m)
<1>1. \A b \in DOMAIN g : \A i \in 1 .. Len(g[b].recs) : b \in DOMAIN f /\ g[b].recs = f[b].recs
  OBVIOUS
<1>2. Before(g, m)
  BY <1>1 DEF Before
<1>3. InOrder(g)
  BY <1>1 DEF InOrder
<1> QED BY <1>2, <1>3

\* The next record of the source at the end of the newest block
LEMMA OrderGrown ==
    ASSUME NEW f, NEW g, IsView(f), IsView(g), NEW n \in Nat, NEW c \in DOMAIN g,
           NEW s \in Seq(Records),
           InOrder(f), Before(f, n),
           s = <<>> \/ (c \in DOMAIN f /\ s = f[c].recs),
           g[c].recs = Append(s, n),
           \A a \in DOMAIN g : a # c => a < c /\ a \in DOMAIN f /\ g[a].recs = f[a].recs
    PROVE  InOrder(g) /\ Before(g, n + 1)
<1> DEFINE old(a, i) == a \in DOMAIN f /\ i \in 1 .. Len(f[a].recs)
<1>0. /\ Len(Append(s, n)) = Len(s) + 1 /\ Len(s) \in Nat
      /\ Append(s, n)[Len(s) + 1] = n
      /\ \A i \in 1 .. Len(s) : Append(s, n)[i] = s[i]
  OBVIOUS
<1>1. ASSUME NEW a \in DOMAIN g, NEW i \in 1 .. Len(g[a].recs)
      PROVE  \/ old(a, i) /\ g[a].recs[i] = f[a].recs[i] /\ (a = c => i < Len(g[a].recs))
             \/ a = c /\ i = Len(g[a].recs) /\ g[a].recs[i] = n
  <2>1. CASE a = c
    <3>1. CASE i = Len(s) + 1
      BY <1>0, <2>1, <3>1
    <3>2. CASE i # Len(s) + 1
      <4>1. i \in 1 .. Len(s) /\ i < Len(g[a].recs)
        BY <1>0, <2>1, <3>2
      <4>2. c \in DOMAIN f /\ s = f[c].recs
        BY <4>1
      <4> QED BY <1>0, <2>1, <4>1, <4>2
    <3> QED BY <3>1, <3>2
  <2>2. CASE a # c
    BY <2>2
  <2> QED BY <2>1, <2>2
<1>2. \A a \in DOMAIN f : \A i \in 1 .. Len(f[a].recs) : f[a].recs[i] < n /\ f[a].recs[i] \in Nat
  <2>1. \A a \in DOMAIN f : \A i \in 1 .. Len(f[a].recs) : f[a].recs[i] \in Records
    BY DEF IsView
  <2> QED BY <2>1, StoreAssumption DEF Before, Records
<1>3. ASSUME NEW a \in DOMAIN g, NEW i \in 1 .. Len(g[a].recs)
      PROVE  g[a].recs[i] < n + 1
  <2>1. CASE old(a, i) /\ g[a].recs[i] = f[a].recs[i]
    BY <2>1, <1>2
  <2>2. CASE g[a].recs[i] = n
    BY <2>2
  <2> QED BY <2>1, <2>2, <1>1
<1>4. ASSUME NEW a \in DOMAIN g, NEW b \in DOMAIN g,
             NEW i \in 1 .. Len(g[a].recs), NEW j \in 1 .. Len(g[b].recs),
             a < b \/ (a = b /\ i < j)
      PROVE  g[a].recs[i] < g[b].recs[j]
  <2>0. Len(g[a].recs) \in Nat /\ Len(g[b].recs) \in Nat /\ a \in Nat /\ b \in Nat /\ c \in Nat
    BY DEF IsView, Blocks
  <2>1. old(a, i) /\ g[a].recs[i] = f[a].recs[i]
    <3>1. ~(a = c /\ i = Len(g[a].recs))
      BY <1>4, <2>0
    <3> QED BY <3>1, <1>1
  <2>2. CASE old(b, j) /\ g[b].recs[j] = f[b].recs[j]
    BY <2>1, <2>2, <1>4 DEF InOrder
  <2>3. CASE g[b].recs[j] = n
    BY <2>1, <2>3, <1>2
  <2> QED BY <2>2, <2>3, <1>1
<1>5. InOrder(g)
  BY <1>4 DEF InOrder
<1> QED BY <1>3, <1>5 DEF Before

\* Record identifiers: a newest block that starts behind all others, or the
\* newest block with more records
LEMMA IdsGrown ==
    ASSUME NEW f, NEW g, IsView(f), IsView(g), NEW n \in Nat, NEW m \in Nat, NEW c \in DOMAIN g,
           IdOrder(f), IdBound(f, n), n <= m,
           \A a \in DOMAIN g : a # c =>
              a < c /\ a \in DOMAIN f /\ g[a].recs = f[a].recs /\ g[a].minId = f[a].minId,
           n <= g[c].minId \/ (c \in DOMAIN f /\ g[c].minId = f[c].minId),
           nextId(g[c]) <= m
    PROVE  IdOrder(g) /\ IdBound(g, m)
<1> USE DEF nextId
<1>1. \A a \in DOMAIN g : Len(g[a].recs) \in Nat /\ g[a].minId \in Nat /\ a \in Nat
  BY DEF IsView, Blocks
<1>2. IdBound(g, m)
  BY <1>1 DEF IdBound
<1>3. ASSUME NEW a \in DOMAIN g, NEW b \in DOMAIN g, a < b
      PROVE  nextId(g[a]) <= g[b].minId
  <2>1. a # c /\ a \in DOMAIN f /\ nextId(g[a]) = nextId(f[a])
    BY <1>1, <1>3
  <2>2. CASE b # c
    BY <2>1, <2>2, <1>3 DEF IdOrder
  <2>3. CASE b = c
    <3>1. nextId(f[a]) <= n
      BY <2>1 DEF IdBound
    <3>2. CASE n <= g[c].minId
      BY <3>1, <3>2, <2>1, <2>3, <1>1
    <3>3. CASE c \in DOMAIN f /\ g[c].minId = f[c].minId
      BY <3>3, <2>1, <2>3, <1>3 DEF IdOrder
    <3> QED BY <3>2, <3>3
  <2> QED BY <2>2, <2>3
<1> QED BY <1>2, <1>3 DEF IdOrder

\* Leaving blocks out keeps the order of the identifiers.
LEMMA IdsKept ==
    ASSUME NEW f, NEW g, IdOrder(f),
           \A a \in DOMAIN g : a \in DOMAIN f /\ g[a].recs = f[a].recs /\ g[a].minId = f[a].minId
    PROVE  IdOrder(g) /\ \A n : IdBound(f, n) => IdBound(g, n)
BY DEF IdOrder, IdBound, nextId

\* A block is seen in memory if it is there, otherwise in its file.
LEMMA ViewFacts ==
    ASSUME NEW fs, NEW ms
    PROVE  /\ DOMAIN viewOf(fs, ms) = DOMAIN fs \cup DOMAIN ms
           /\ \A b \in DOMAIN ms : viewOf(fs, ms)[b] = ms[b]
           /\ \A b \in DOMAIN fs \ DOMAIN ms : viewOf(fs, ms)[b] = fs[b]
           /\ IsView(fs) /\ IsView(ms) => IsView(viewOf(fs, ms))
<1>1. /\ DOMAIN viewOf(fs, ms) = DOMAIN fs \cup DOMAIN ms
      /\ \A b \in DOMAIN ms : viewOf(fs, ms)[b] = ms[b]
      /\ \A b \in DOMAIN fs \ DOMAIN ms : viewOf(fs, ms)[b] = fs[b]
  BY DEF viewOf
<1>2. ASSUME IsView(fs), IsView(ms) PROVE IsView(viewOf(fs, ms))
  BY <1>1, <1>2 DEF IsView
<1> QED BY <1>1, <1>2

\* append puts a record at the end of one block.
LEMMA AppendFacts ==
    ASSUME NEW m, NEW b \in DOMAIN m, NEW r \in Records, m[b] \in BlockContents
    PROVE  /\ DOMAIN append(m, b, r) = DOMAIN m
           /\ \A c \in DOMAIN m : c # b => append(m, b, r)[c] = m[c]
           /\ append(m, b, r)[b] \in BlockContents
           /\ append(m, b, r)[b].prev = m[b].prev
           /\ append(m, b, r)[b].minId = m[b].minId
           /\ append(m, b, r)[b].recs = Append(m[b].recs, r)
           /\ append(m, b, r)[b].recs # <<>>
           /\ IsFunction(append(m, b, r))
<1> DEFINE x == [m[b] EXCEPT !.recs = Append(m[b].recs, r)]
<1>0. append(m, b, r) = [m EXCEPT ![b] = x]
  BY DEF append
<1>1. /\ DOMAIN append(m, b, r) = DOMAIN m
      /\ \A c \in DOMAIN m : c # b => append(m, b, r)[c] = m[c]
      /\ append(m, b, r)[b] = x
      /\ IsFunction(append(m, b, r))
  <2> HIDE DEF x
  <2> QED BY <1>0 DEF IsFunction
<1>2. Append(m[b].recs, r) \in Seq(Records) /\ Append(m[b].recs, r) # <<>>
  BY DEF BlockContents
<1>3. x \in BlockContents /\ x.prev = m[b].prev /\ x.minId = m[b].minId
      /\ x.recs = Append(m[b].recs, r)
  BY <1>2 DEF BlockContents
<1> HIDE DEF x
<1> QED BY <1>1, <1>2, <1>3

-----------------------------------------------------------------------------
(* The writer                                                              *)

\* What the type invariant says of the known blocks
LEMMA TypedView ==
    ASSUME Typed
    PROVE  /\ IsView(files) /\ IsView(mem) /\ IsView(view)
           /\ \A b \in DOMAIN mem : mem[b] \in BlockContents /\ b \in Nat
           /\ \A b \in DOMAIN files : b \in Nat
           /\ current \in Nat /\ recordId \in Nat /\ next \in Nat
<1>1. IsView(files)
  BY DEF Typed, TypeOK, IsView
<1>2. IsView(mem) /\ \A b \in DOMAIN mem : mem[b] \in BlockContents
  BY DEF Typed, TypeOK, IsView, BlockContents
<1>3. IsView(view)
  BY <1>1, <1>2, ViewFacts DEF view
<1>4. (\A b \in DOMAIN mem : b \in Nat) /\ (\A b \in DOMAIN files : b \in Nat)
  BY <1>1, <1>2 DEF IsView, Blocks
<1>5. current \in Nat /\ recordId \in Nat /\ next \in Nat
  BY StoreAssumption DEF Typed, TypeOK
<1> QED BY <1>1, <1>2, <1>3, <1>4, <1>5

\* Which blocks insert, insertFull and flushLogs change: m_current, or the one
\* they make behind it.
NewCurrent(c) ==
    /\ c \in Blocks
    /\ current' = c
    /\ mem'[c] \in BlockContents
    /\ mem'[c].prev = c - 1
    /\ DOMAIN mem' = DOMAIN mem \cup {c}
    /\ \A b \in DOMAIN mem : b # c => mem'[b] = mem[b]
    /\ IsFunction(mem')
    /\ \/ /\ phase = "running" /\ c = current /\ queue' = queue
          /\ mem'[c].minId = mem[c].minId
          /\ mem'[c].recs = Append(mem[c].recs, next)
          /\ next' = next + 1 /\ recordId' = recordId + 1
       \/ /\ c = current + 1 /\ c \notin DOMAIN mem /\ queue' = Append(queue, current)
          /\ mem[current].recs # <<>>
          /\ mem'[c].recs = Append(<<>>, next)
          /\ mem'[c].minId = recordId + 1
          /\ next' = next + 1 /\ recordId' = recordId + 2
       \/ /\ c = current + 1 /\ c \notin DOMAIN mem /\ queue' = Append(queue, current)
          /\ mem[current].recs # <<>>
          /\ mem'[c].recs = <<>>
          /\ mem'[c].minId = recordId
          /\ next' = next /\ recordId' = recordId
    /\ phase \in {"running", "failed"}
    /\ next' # next => next \in Records
    /\ UNCHANGED <<phase, dir, files, threads, writing, crashes, parallel, resumed>>

\* Whatever insert and flushLogs do, the current block grows, or a new one follows
\* it, at the end of what was inserted.
LEMMA WriterEffect ==
    ASSUME StoreInv, insert \/ insertFull \/ flushLogs
    PROVE  \E c \in Blocks : NewCurrent(c)
<1>0. Typed /\ Memory
  BY DEF StoreInv
<1>1. /\ \A b \in DOMAIN mem : mem[b] \in BlockContents /\ b \in Nat
      /\ current \in Nat /\ recordId \in Nat /\ next \in Nat
  BY <1>0, TypedView
<1>2. phase \in {"running", "failed"} =>
        current \in DOMAIN mem /\ current + 1 \notin DOMAIN mem /\ mem[current].prev = current - 1
  BY <1>0, <1>1 DEF Memory, Running
<1>3. DOMAIN mem \subseteq Blocks
  BY <1>0 DEF Typed, TypeOK
<1>4. CASE insert
  <2>1. phase = "running" /\ next \in Records /\ mem' = append(mem, current, next)
    BY <1>4 DEF insert
  <2>2. current \in DOMAIN mem /\ current \in Blocks /\ mem[current].prev = current - 1
    BY <2>1, <1>2, <1>3
  <2>3. /\ DOMAIN mem' = DOMAIN mem /\ mem'[current] \in BlockContents
        /\ \A b \in DOMAIN mem : b # current => mem'[b] = mem[b]
        /\ mem'[current].prev = current - 1
        /\ mem'[current].minId = mem[current].minId
        /\ mem'[current].recs = Append(mem[current].recs, next)
        /\ IsFunction(mem')
    <3>1. mem[current] \in BlockContents
      BY <2>2, <1>1
    <3> QED BY <2>1, <2>2, <3>1, AppendFacts
  <2>4. NewCurrent(current)
    BY <1>4, <2>1, <2>2, <2>3 DEF NewCurrent, insert
  <2> QED BY <2>2, <2>4
<1>5. CASE insertFull \/ flushLogs
  <2>1. phase \in {"running", "failed"} /\ current < MaxBlocks
    BY <1>5 DEF insertFull, flushLogs
  <2>2. current \in DOMAIN mem /\ current + 1 \notin DOMAIN mem
    BY <2>1, <1>2
  <2>3. current + 1 \in Blocks /\ current \in 0 .. MaxBlocks
    BY <2>1, <1>1, StoreAssumption DEF Blocks
  <2>4. ASSUME NEW id \in Nat
        PROVE  /\ DOMAIN createNewBlock(mem, id) = DOMAIN mem \cup {current + 1}
               /\ createNewBlock(mem, id)[current + 1] = [prev |-> current, minId |-> id, recs |-> <<>>]
               /\ \A b \in DOMAIN mem : createNewBlock(mem, id)[b] = mem[b]
               /\ createNewBlock(mem, id)[current + 1] \in BlockContents
               /\ IsFunction(createNewBlock(mem, id))
    <3>1. createNewBlock(mem, id) = put(mem, current + 1, [prev |-> current, minId |-> id, recs |-> <<>>])
      BY DEF createNewBlock, newBlock
    <3>2. <<>> \in Seq(Records)
      OBVIOUS
    <3>3. [prev |-> current, minId |-> id, recs |-> <<>>] \in BlockContents
      BY <2>3, <3>2 DEF BlockContents
    <3> DEFINE x == [prev |-> current, minId |-> id, recs |-> <<>>]
    <3> HIDE DEF x
    <3>4. /\ DOMAIN put(mem, current + 1, x) = DOMAIN mem \cup {current + 1}
          /\ put(mem, current + 1, x)[current + 1] = x
          /\ \A b \in DOMAIN mem : b # current + 1 => put(mem, current + 1, x)[b] = mem[b]
          /\ IsFunction(put(mem, current + 1, x))
      BY PutFacts, Zenon
    <3>5. createNewBlock(mem, id) = put(mem, current + 1, x) /\ x \in BlockContents
      BY <3>1, <3>3 DEF x
    <3>6. x = [prev |-> current, minId |-> id, recs |-> <<>>]
      BY DEF x
    <3> QED BY <3>4, <3>5, <3>6, <2>2, Zenon
  <2>5. current + 1 # current /\ (current + 1) - 1 = current
    BY <1>1
  <2>6. CASE insertFull
    <3> DEFINE m == createNewBlock(mem, recordId + 1)
    <3>0. recordId + 1 \in Nat
      BY <1>1
    <3>1. /\ DOMAIN m = DOMAIN mem \cup {current + 1}
          /\ m[current + 1] = [prev |-> current, minId |-> recordId + 1, recs |-> <<>>]
          /\ \A b \in DOMAIN mem : m[b] = mem[b]
          /\ m[current + 1] \in BlockContents
      BY <2>4, <3>0
    <3>2. next \in Records /\ mem' = append(m, current + 1, next)
      BY <2>6 DEF insertFull
    <3> HIDE DEF m
    <3>3. /\ DOMAIN mem' = DOMAIN m
          /\ \A b \in DOMAIN m : b # current + 1 => mem'[b] = m[b]
          /\ mem'[current + 1] \in BlockContents
          /\ mem'[current + 1].prev = m[current + 1].prev
          /\ mem'[current + 1].minId = m[current + 1].minId
          /\ mem'[current + 1].recs = Append(m[current + 1].recs, next)
          /\ IsFunction(mem')
      <4>1. current + 1 \in DOMAIN m
        BY <3>1
      <4> QED BY <3>1, <3>2, <4>1, AppendFacts
    <3>4. /\ DOMAIN mem' = DOMAIN mem \cup {current + 1}
          /\ \A b \in DOMAIN mem : b # current + 1 => mem'[b] = mem[b]
          /\ mem'[current + 1].prev = current
          /\ mem'[current + 1].minId = recordId + 1
          /\ mem'[current + 1].recs = Append(<<>>, next)
      BY <3>1, <3>3
    <3>5. NewCurrent(current + 1)
      BY <2>6, <2>1, <2>2, <2>3, <2>5, <3>2, <3>3, <3>4 DEF NewCurrent, insertFull
    <3> QED BY <3>5, <2>3
  <2>7. CASE flushLogs
    <3>1. mem' = createNewBlock(mem, recordId)
      BY <2>7 DEF flushLogs
    <3>2. /\ DOMAIN mem' = DOMAIN mem \cup {current + 1}
          /\ mem'[current + 1] = [prev |-> current, minId |-> recordId, recs |-> <<>>]
          /\ mem'[current + 1] \in BlockContents
          /\ \A b \in DOMAIN mem : mem'[b] = mem[b]
          /\ IsFunction(mem')
      BY <3>1, <2>4, <1>1
    <3>3. NewCurrent(current + 1)
      BY <2>7, <2>1, <2>2, <2>3, <2>5, <3>2 DEF NewCurrent, flushLogs
    <3> QED BY <3>3, <2>3
  <2> QED BY <1>5, <2>6, <2>7
<1> QED BY <1>4, <1>5

\* What NewCurrent leaves of the known blocks
LEMMA WriterView ==
    ASSUME StoreInv, NEW c \in Blocks, NewCurrent(c)
    PROVE  /\ c \in Nat /\ c \notin DOMAIN files
           /\ DOMAIN view' = DOMAIN view \cup {c}
           /\ view'[c] = mem'[c]
           /\ \A a \in DOMAIN view : a # c => a < c /\ view'[a] = view[a]
           /\ c = current => c \in DOMAIN view /\ view[c] = mem[c]
           /\ current \in DOMAIN mem /\ current \notin DOMAIN files /\ current <= c
<1>0. Typed /\ Memory
  BY DEF StoreInv
<1>1. /\ \A b \in DOMAIN mem : b \in Nat
      /\ \A b \in DOMAIN files : b \in Nat
      /\ current \in Nat
  BY <1>0, TypedView
<1>2. c \in Nat
  BY StoreAssumption DEF Blocks
<1>3. /\ current \in DOMAIN mem /\ current \notin DOMAIN files /\ current <= c
      /\ ~Stopped /\ (c # current => c = current + 1 /\ c \notin DOMAIN mem)
  <2>1. phase \in {"running", "failed"}
    BY DEF NewCurrent
  <2>2. Running /\ ~Stopped
    BY <2>1 DEF Running, Stopped
  <2>3. c = current \/ (c = current + 1 /\ c \notin DOMAIN mem)
    BY DEF NewCurrent
  <2> QED BY <2>2, <2>3, <1>0, <1>1 DEF Memory
<1>4. c \notin DOMAIN files
  BY <1>0, <1>1, <1>3 DEF Memory
<1>5. files' = files /\ DOMAIN mem' = DOMAIN mem \cup {c}
      /\ \A b \in DOMAIN mem : b # c => mem'[b] = mem[b]
  BY DEF NewCurrent
<1>6. /\ DOMAIN view = DOMAIN files \cup DOMAIN mem
      /\ \A b \in DOMAIN mem : view[b] = mem[b]
      /\ \A b \in DOMAIN files \ DOMAIN mem : view[b] = files[b]
  BY ViewFacts DEF view
<1>7. /\ DOMAIN view' = DOMAIN files \cup DOMAIN mem'
      /\ \A b \in DOMAIN mem' : view'[b] = mem'[b]
      /\ \A b \in DOMAIN files \ DOMAIN mem' : view'[b] = files[b]
  <2>1. view' = viewOf(files, mem')
    BY <1>5 DEF view
  <2>2. PICK m : m = mem'
    OBVIOUS
  <2>3. /\ DOMAIN viewOf(files, m) = DOMAIN files \cup DOMAIN m
        /\ \A b \in DOMAIN m : viewOf(files, m)[b] = m[b]
        /\ \A b \in DOMAIN files \ DOMAIN m : viewOf(files, m)[b] = files[b]
    BY ViewFacts
  <2>4. view' = viewOf(files, m)
    BY <2>1, <2>2
  <2> HIDE DEF view
  <2> QED BY <2>2, <2>3, <2>4
<1>8. ASSUME NEW a \in DOMAIN view, a # c PROVE a < c /\ view'[a] = view[a]
  <2>1. CASE a \in DOMAIN mem
    <3>1. a <= current
      BY <1>0, <2>1 DEF Memory
    <3> QED BY <3>1, <2>1, <1>8, <1>1, <1>2, <1>3, <1>5, <1>6, <1>7
  <2>2. CASE a \in DOMAIN files /\ a \notin DOMAIN mem
    <3>1. a < current
      BY <1>0, <1>3, <2>2 DEF Memory
    <3> QED BY <3>1, <2>2, <1>8, <1>1, <1>2, <1>3, <1>5, <1>6, <1>7
  <2> QED BY <2>1, <2>2, <1>6
<1> QED BY <1>2, <1>3, <1>4, <1>5, <1>6, <1>7, <1>8

\* The writer keeps the types.
LEMMA WriterTypes ==
    ASSUME StoreInv, NEW c \in Blocks, NewCurrent(c)
    PROVE  Typed'
<1>0. Typed /\ Memory
  BY DEF StoreInv
<1>1. /\ \A b \in DOMAIN mem : mem[b] \in BlockContents
      /\ current \in Nat /\ recordId \in Nat /\ next \in Nat
  BY <1>0, TypedView
<1>2. DOMAIN mem' \subseteq Blocks /\ (\A b \in DOMAIN mem' : mem'[b] \in BlockContents)
      /\ DOMAIN writing \subseteq DOMAIN mem'
  BY <1>0, <1>1 DEF NewCurrent, Typed, TypeOK
<1>3. current' \in 0 .. MaxBlocks
  BY StoreAssumption DEF NewCurrent, Blocks
<1>4. queue' \in Seq(Blocks)
  <2>1. queue \in Seq(Blocks) /\ DOMAIN mem \subseteq Blocks
    BY <1>0 DEF Typed, TypeOK
  <2>2. current \in Blocks
    BY WriterView, <2>1
  <2>3. Append(queue, current) \in Seq(Blocks)
    BY <2>1, <2>2
  <2> QED BY <2>1, <2>3 DEF NewCurrent
<1>5. recordId' \in Nat
  BY <1>1 DEF NewCurrent
<1>6. next' \in 1 .. MaxRecords + RowsPerEvent
  <2>1. next \in 1 .. MaxRecords + RowsPerEvent
    BY <1>0 DEF Typed, TypeOK
  <2>2. next \in Records => next + 1 \in 1 .. MaxRecords + RowsPerEvent
    BY StoreAssumption DEF Records
  <2>3. next' = next \/ (next \in Records /\ next' = next + 1)
    BY DEF NewCurrent
  <2> QED BY <2>1, <2>2, <2>3
<1>7. TypeOK'
  <2>1. UNCHANGED <<phase, dir, files, threads, writing, crashes, parallel, resumed>>
    BY DEF NewCurrent
  <2> QED BY <1>0, <1>2, <1>3, <1>4, <1>5, <1>6, <2>1, Zenon DEF Typed, TypeOK
<1>8. IsFunction(files') /\ IsFunction(mem') /\ IsFunction(writing')
  BY <1>0 DEF Typed, NewCurrent
<1> QED BY <1>7, <1>8 DEF Typed

\* The writer changes the newest block or adds one behind all files.
LEMMA WriterMemory ==
    ASSUME StoreInv, NEW c \in Blocks, NewCurrent(c)
    PROVE  Memory'
<1>0. Typed /\ Memory
  BY DEF StoreInv
<1>1. /\ \A b \in DOMAIN mem : b \in Nat
      /\ \A b \in DOMAIN files : b \in Nat
      /\ current \in Nat /\ c \in Nat
  BY <1>0, TypedView, WriterView
<1>2. /\ c \notin DOMAIN files /\ current \in DOMAIN mem /\ current <= c
      /\ current \notin DOMAIN files
  BY WriterView
<1>3. Running /\ ~Stopped /\ Running' /\ ~Stopped'
  BY DEF NewCurrent, Running, Stopped
<1>4. /\ current' = c /\ files' = files /\ DOMAIN mem' = DOMAIN mem \cup {c}
      /\ mem'[c].prev = c - 1
      /\ \A b \in DOMAIN mem : b # c => mem'[b] = mem[b]
  BY DEF NewCurrent
<1>5. ASSUME NEW b \in DOMAIN mem' PROVE b <= c /\ mem'[b].prev = b - 1
  BY <1>0, <1>1, <1>2, <1>4 DEF Memory
<1>6. ASSUME NEW b \in DOMAIN mem', NEW d \in DOMAIN files, d \notin DOMAIN mem'
      PROVE  d < b
  <2>1. d \notin DOMAIN mem
    BY <1>4, <1>6
  <2>2. d < current
    BY <2>1, <1>0, <1>2 DEF Memory
  <2>3. CASE b \in DOMAIN mem
    BY <2>1, <2>3, <1>0 DEF Memory
  <2>4. CASE b = c
    BY <2>2, <2>4, <1>1, <1>2
  <2> QED BY <2>3, <2>4, <1>4
<1>7. ASSUME NEW b \in DOMAIN mem' \cap DOMAIN files
      PROVE  files[b].recs = mem'[b].recs /\ files[b].minId = mem'[b].minId /\ b < c
  <2>1. b # c /\ b \in DOMAIN mem /\ mem'[b] = mem[b]
    BY <1>2, <1>4
  <2>2. files[b].recs = mem[b].recs /\ files[b].minId = mem[b].minId /\ b < current
    BY <2>1, <1>0, <1>3 DEF Memory
  <2> QED BY <2>1, <2>2, <1>1, <1>2
<1> QED BY <1>3, <1>4, <1>5, <1>6, <1>7 DEF Memory

\* A finished block waits in the queue once.
LEMMA WriterPending ==
    ASSUME StoreInv, NEW c \in Blocks, NewCurrent(c)
    PROVE  Pending'
<1>0. Typed /\ Memory /\ Pending
  BY DEF StoreInv
<1>1. (\A b \in DOMAIN mem : b \in Nat) /\ current \in Nat /\ c \in Nat
  BY <1>0, TypedView, WriterView
<1>2. c \notin DOMAIN files /\ current \in DOMAIN mem /\ current <= c /\ current \notin DOMAIN files
  BY WriterView
<1>3. ~Stopped /\ ~Stopped'
  BY DEF NewCurrent, Stopped
<1>4. /\ current' = c /\ files' = files /\ writing' = writing /\ threads' = threads
      /\ DOMAIN mem' = DOMAIN mem \cup {c}
      /\ \A b \in DOMAIN mem : b # c => mem'[b] = mem[b]
  BY DEF NewCurrent
<1>5. ASSUME NEW b, pending(b) PROVE pending(b)' /\ b # current
  BY <1>1, <1>2, <1>3, <1>4, <1>5 DEF pending
<1>6. queue \in Seq(Blocks)
  BY <1>0 DEF Typed, TypeOK
<1>7. \A b \in DOMAIN writing' : pending(b)'
  BY <1>4, <1>5, <1>0, Zenon DEF Pending
<1>8. Cardinality(DOMAIN writing') <= threads'
  BY <1>4, <1>0 DEF Pending
<1>9. CASE queue' = queue
  BY <1>9, <1>0, <1>4, <1>5, <1>7, <1>8, Zenon DEF Pending, queued
<1>10. CASE c = current + 1 /\ queue' = Append(queue, current) /\ mem[current].recs # <<>>
  <2>0. PICK d \in Blocks : d = current
    BY <1>0, <1>2 DEF Typed, TypeOK
  <2>1. pending(d)' /\ d \notin DOMAIN writing
    <3>1. current # c /\ current < c
      BY <1>10, <1>1
    <3>2. mem'[current] = mem[current]
      BY <3>1, <1>2, <1>4
    <3>3. pending(d)'
      BY <2>0, <3>1, <3>2, <1>2, <1>4, <1>10 DEF pending
    <3>4. d \notin DOMAIN writing
      BY <2>0, <1>0, <1>5, Zenon DEF Pending
    <3> QED BY <3>3, <3>4
  <2>2. /\ DOMAIN queue' = DOMAIN queue \cup {Len(queue) + 1}
        /\ queue'[Len(queue) + 1] = current
        /\ \A i \in DOMAIN queue : queue'[i] = queue[i] /\ i # Len(queue) + 1
    BY <1>6, <1>10
  <2>3. \A b \in Blocks : queued(b)' => queued(b) \/ b = current
    BY <2>2, Zenon DEF queued
  <2>4. \A b \in Blocks : queued(b)' => pending(b)' /\ b \notin DOMAIN writing'
    BY <2>0, <2>1, <2>3, <1>0, <1>4, <1>5, Zenon DEF Pending
  <2>5. \A i \in DOMAIN queue : queue[i] # current
    <3>1. \A i \in DOMAIN queue : queue[i] \in Blocks
      BY <1>6
    <3> QED BY <3>1, <1>0, <1>5, Zenon DEF Pending, queued
  <2>6. \A i, j \in DOMAIN queue' : queue'[i] = queue'[j] => i = j
    BY <2>2, <2>5, <1>0 DEF Pending
  <2> QED BY <2>4, <2>6, <1>7, <1>8 DEF Pending
<1> QED BY <1>9, <1>10 DEF NewCurrent

\* The writer adds at the end: order and numbering of all known blocks stay.
LEMMA WriterOrder ==
    ASSUME StoreInv, NEW c \in Blocks, NewCurrent(c), IsView(view')
    PROVE  Ordered' /\ Numbered'
<1>0. Typed /\ Memory /\ Ordered /\ Numbered
  BY DEF StoreInv
<1>1. /\ recordId \in Nat /\ next \in Nat /\ IsView(view)
      /\ \A b \in DOMAIN mem : mem[b].recs \in Seq(Records) /\ mem[b].minId \in Nat
  BY <1>0, TypedView DEF BlockContents
<1>2. /\ DOMAIN view' = DOMAIN view \cup {c}
      /\ view'[c] = mem'[c]
      /\ \A a \in DOMAIN view : a # c => a < c /\ view'[a] = view[a]
      /\ c = current => c \in DOMAIN view /\ view[c] = mem[c]
      /\ current \in DOMAIN mem
  BY WriterView
<1>3. Running /\ Running'
  BY DEF NewCurrent, Running
<1>4. InOrder(view) /\ Before(view, next) /\ IdOrder(view) /\ IdBound(view, recordId)
  BY <1>0, <1>3 DEF Ordered, Numbered
<1>5. \A a \in DOMAIN view' : a # c => a < c /\ a \in DOMAIN view /\ view'[a] = view[a]
  BY <1>2
<1>6. InOrder(view') /\ Before(view', next')
  <2>1. CASE mem'[c].recs = <<>> /\ next' = next
    <3>1. \A b \in DOMAIN view' :
            view'[b].recs = <<>> \/ (b \in DOMAIN view /\ view'[b].recs = view[b].recs)
      BY <1>2, <1>5, <2>1
    <3> QED BY <3>1, <2>1, <1>4, OrderKept
  <2>2. ASSUME NEW s \in Seq(Records), mem'[c].recs = Append(s, next), next' = next + 1,
               s = <<>> \/ (c \in DOMAIN view /\ s = view[c].recs)
        PROVE  InOrder(view') /\ Before(view', next')
    <3>1. \A a \in DOMAIN view' : a # c => a < c /\ a \in DOMAIN view /\ view'[a].recs = view[a].recs
      BY <1>5
    <3>2. c \in DOMAIN view' /\ view'[c].recs = Append(s, next)
      BY <1>2, <2>2
    <3>3. InOrder(view') /\ Before(view', next + 1)
      BY <3>1, <3>2, <2>2, <1>1, <1>4, OrderGrown
    <3> QED BY <3>3, <2>2
  <2>3. CASE c = current /\ mem'[c].recs = Append(mem[c].recs, next) /\ next' = next + 1
    BY <2>2, <2>3, <1>1, <1>2
  <2>4. CASE mem'[c].recs = Append(<<>>, next) /\ next' = next + 1
    <3>1. <<>> \in Seq(Records)
      OBVIOUS
    <3> QED BY <3>1, <2>2, <2>4
  <2> QED BY <2>1, <2>3, <2>4 DEF NewCurrent
<1>7. IdOrder(view') /\ IdBound(view', recordId')
  <2>1. \A a \in DOMAIN view' : a # c =>
           a < c /\ a \in DOMAIN view /\ view'[a].recs = view[a].recs /\ view'[a].minId = view[a].minId
    BY <1>5
  <2>2. c \in DOMAIN view'
    BY <1>2
  <2>3. recordId' \in Nat /\ recordId <= recordId'
    BY <1>1 DEF NewCurrent
  <2>4. /\ recordId <= mem'[c].minId \/ (c = current /\ mem'[c].minId = mem[c].minId)
        /\ mem'[c].minId + Len(mem'[c].recs) <= recordId'
    <3>1. CASE c = current /\ mem'[c].recs = Append(mem[c].recs, next) /\ recordId' = recordId + 1
                /\ mem'[c].minId = mem[c].minId
      <4>1. mem[c].minId + Len(mem[c].recs) <= recordId
        BY <1>2, <1>4, <3>1 DEF IdBound, nextId
      <4>2. /\ Len(Append(mem[c].recs, next)) = Len(mem[c].recs) + 1
            /\ Len(mem[c].recs) \in Nat /\ mem[c].minId \in Nat
        BY <1>1, <1>2, <3>1
      <4> QED BY <4>1, <4>2, <3>1, <1>1
    <3>2. CASE mem'[c].recs = Append(<<>>, next) /\ recordId' = recordId + 2
                /\ mem'[c].minId = recordId + 1
      BY <3>2, <1>1
    <3>3. CASE mem'[c].recs = <<>> /\ recordId' = recordId /\ mem'[c].minId = recordId
      BY <3>3, <1>1
    <3> QED BY <3>1, <3>2, <3>3 DEF NewCurrent
  <2>5. /\ recordId <= view'[c].minId \/ (c \in DOMAIN view /\ view'[c].minId = view[c].minId)
        /\ nextId(view'[c]) <= recordId'
    BY <2>4, <1>2 DEF nextId
  <2> HIDE DEF view
  <2> QED BY <2>1, <2>2, <2>3, <2>5, <1>1, <1>4, IdsGrown
<1> QED BY <1>6, <1>7 DEF Ordered, Numbered

\* insert, insertFull and flushLogs keep the invariant.
LEMMA WriterStep ==
    ASSUME StoreInv, insert \/ insertFull \/ flushLogs
    PROVE  StoreInv'
<1>1. PICK c \in Blocks : NewCurrent(c)
  BY WriterEffect
<1>2. Typed'
  BY <1>1, WriterTypes
<1>3. IsView(view')
  <2>1. IsView(files') /\ IsView(mem')
    BY <1>2 DEF Typed, TypeOK, IsView, BlockContents
  <2> QED BY <2>1, ViewFacts DEF view
<1>4. Durable'
  BY <1>1 DEF StoreInv, Durable, NewCurrent
<1> QED BY <1>1, <1>2, <1>3, <1>4, WriterMemory, WriterPending, WriterOrder DEF StoreInv

-----------------------------------------------------------------------------
(* The flush threads, stop() and an aborted load()                         *)

\* A step that changes no block
LEMMA QuietStep ==
    ASSUME Durable, Memory, Ordered, Numbered,
           UNCHANGED <<files, mem, current, next, recordId>>,
           Running' = Running, Stopped => Stopped',
           Running \/ UNCHANGED <<queue, threads, writing>>
    PROVE  Durable' /\ Memory' /\ Ordered' /\ Numbered'
<1>1. Durable'
  BY DEF Durable
<1>2. Memory'
  BY Zenon DEF Memory
<1>3. Ordered' /\ Numbered'
  BY Zenon DEF Ordered, Numbered, view
<1> QED BY <1>1, <1>2, <1>3

\* The blocks being written are finitely many.
LEMMA CardFacts ==
    ASSUME Typed
    PROVE  IsFiniteSet(DOMAIN writing) /\ Cardinality(DOMAIN writing) \in Nat
<1>1. DOMAIN writing \subseteq 1 .. MaxBlocks
  BY DEF Typed, TypeOK, Blocks
<1>2. IsFiniteSet(1 .. MaxBlocks)
  BY FS_Interval, StoreAssumption
<1>3. IsFiniteSet(DOMAIN writing)
  BY <1>1, <1>2, FS_Subset
<1> QED BY <1>3, FS_CardinalityType

\* A block more, and a block less, in the hands of the flush threads
LEMMA WritingMore ==
    ASSUME Typed, NEW b, b \notin DOMAIN writing, NEW x, writing' = put(writing, b, x)
    PROVE  /\ DOMAIN writing' = DOMAIN writing \cup {b}
           /\ writing'[b] = x
           /\ \A c \in DOMAIN writing : writing'[c] = writing[c]
           /\ IsFunction(writing')
           /\ Cardinality(DOMAIN writing') = Cardinality(DOMAIN writing) + 1
<1>1. /\ DOMAIN put(writing, b, x) = DOMAIN writing \cup {b}
      /\ put(writing, b, x)[b] = x
      /\ \A c \in DOMAIN writing : c # b => put(writing, b, x)[c] = writing[c]
      /\ IsFunction(put(writing, b, x))
  BY PutFacts
<1>2. Cardinality(DOMAIN writing \cup {b}) = Cardinality(DOMAIN writing) + 1
  BY CardFacts, FS_AddElement
<1> QED BY <1>1, <1>2

\* A thread that leaves a block to its file name is one thread fewer.
LEMMA WritingLess ==
    ASSUME Typed, NEW b \in DOMAIN writing, writing' = drop(writing, b)
    PROVE  /\ DOMAIN writing' = DOMAIN writing \ {b}
           /\ \A c \in DOMAIN writing \ {b} : writing'[c] = writing[c]
           /\ IsFunction(writing')
           /\ Cardinality(DOMAIN writing') = Cardinality(DOMAIN writing) - 1
           /\ Cardinality(DOMAIN writing) >= 1
<1>1. /\ DOMAIN drop(writing, b) = DOMAIN writing \ {b}
      /\ \A c \in DOMAIN writing \ {b} : drop(writing, b)[c] = writing[c]
      /\ IsFunction(drop(writing, b))
  BY DropFacts
<1>2. IsFiniteSet(DOMAIN writing \ {b})
      /\ Cardinality(DOMAIN writing \ {b}) = Cardinality(DOMAIN writing) - 1
  BY CardFacts, FS_RemoveElement
<1>3. Cardinality(DOMAIN writing \ {b}) \in Nat
  BY <1>2, FS_CardinalityType
<1>4. Cardinality(DOMAIN writing) >= 1
  BY <1>2, <1>3, CardFacts
<1> QED BY <1>1, <1>2, <1>4

\* writeTmp takes the oldest block of the queue.
LEMMA TakeFacts ==
    ASSUME Typed, Pending, queue # <<>>, queue' = Tail(queue)
    PROVE  /\ Head(queue) \in Blocks /\ queued(Head(queue)) /\ Head(queue) = queue[1]
           /\ queue' \in Seq(Blocks)
           /\ DOMAIN queue' = 1 .. Len(queue) - 1 /\ Len(queue) \in Nat \ {0}
           /\ DOMAIN queue = 1 .. Len(queue)
           /\ \A i \in DOMAIN queue' : i + 1 \in DOMAIN queue /\ queue'[i] = queue[i + 1]
           /\ \A b \in Blocks : queued(b)' => queued(b) /\ b # Head(queue)
<1>1. queue \in Seq(Blocks)
  BY DEF Typed, TypeOK
<1>2. /\ Head(queue) \in Blocks /\ Head(queue) = queue[1]
      /\ queue' \in Seq(Blocks)
      /\ DOMAIN queue' = 1 .. Len(queue) - 1 /\ Len(queue) \in Nat \ {0}
      /\ DOMAIN queue = 1 .. Len(queue)
      /\ \A i \in DOMAIN queue' : i + 1 \in DOMAIN queue /\ queue'[i] = queue[i + 1] /\ i + 1 # 1
      /\ 1 \in DOMAIN queue
  BY <1>1
<1>3. ASSUME NEW b \in Blocks, queued(b)'
      PROVE  queued(b) /\ b # Head(queue)
  <2>1. PICK i \in DOMAIN queue' : queue'[i] = b
    BY <1>3, Zenon DEF queued
  <2>2. i + 1 \in DOMAIN queue /\ queue[i + 1] = b /\ i + 1 # 1
    BY <1>2, <2>1, Zenon
  <2>3. queue[i + 1] # queue[1]
    BY <1>2, <2>2, Zenon DEF Pending
  <2> QED BY <1>2, <2>2, <2>3, Zenon DEF queued
<1>4. queued(Head(queue))
  BY <1>2, Zenon DEF queued
<1> QED BY <1>2, <1>3, <1>4

\* stop hands over the current block and keeps the invariant.
LEMMA StopStep ==
    ASSUME StoreInv, stop
    PROVE  StoreInv'
<1>0. Typed /\ Memory /\ Pending /\ Durable /\ Ordered /\ Numbered
  BY DEF StoreInv
<1>1. /\ phase \in {"running", "failed"} /\ phase' = "stopping"
      /\ UNCHANGED <<dir, files, mem, current, recordId, threads, writing, next,
                     crashes, parallel, resumed>>
      /\ queue' = IF mem[current].recs # <<>> THEN Append(queue, current) ELSE queue
  BY DEF stop
<1>2. Running /\ Running' /\ ~Stopped /\ Stopped'
  BY <1>1 DEF Running, Stopped
<1>3. current \in DOMAIN mem /\ current \notin DOMAIN files /\ current \in Nat
  BY <1>0, <1>2, TypedView DEF Memory
<1>4. queue \in Seq(Blocks) /\ current \in Blocks
  BY <1>0, <1>3 DEF Typed, TypeOK
<1>5. queue' \in Seq(Blocks)
  BY <1>1, <1>4
<1>6. Typed'
  BY <1>0, <1>1, <1>5, Zenon DEF Typed, TypeOK
<1>7. Durable' /\ Memory' /\ Ordered' /\ Numbered'
  BY <1>0, <1>1, <1>2, QuietStep
<1>8. \A b : pending(b) => pending(b)' /\ b # current
  BY <1>1, <1>2, <1>3 DEF pending
<1>9. (\A b \in DOMAIN writing' : pending(b)') /\ Cardinality(DOMAIN writing') <= threads'
  BY <1>0, <1>1, <1>8, Zenon DEF Pending
<1>10. CASE mem[current].recs = <<>>
  <2>1. queue' = queue
    BY <1>1, <1>10
  <2>2. Pending'
    BY <2>1, <1>0, <1>1, <1>8, <1>9, Zenon DEF Pending, queued
  <2> QED BY <1>6, <1>7, <2>2 DEF StoreInv
<1>11. CASE mem[current].recs # <<>>
  <2>1. PICK d \in Blocks : d = current
    BY <1>4
  <2>2. pending(d)' /\ d \notin DOMAIN writing
    <3>1. pending(d)'
      BY <2>1, <1>1, <1>2, <1>3, <1>11 DEF pending
    <3>2. d \notin DOMAIN writing
      BY <2>1, <1>0, <1>8, Zenon DEF Pending
    <3> QED BY <3>1, <3>2
  <2>3. /\ DOMAIN queue' = DOMAIN queue \cup {Len(queue) + 1}
        /\ queue'[Len(queue) + 1] = d
        /\ \A i \in DOMAIN queue : queue'[i] = queue[i] /\ i # Len(queue) + 1 /\ queue[i] \in Blocks
    BY <1>1, <1>4, <1>11, <2>1
  <2>4. \A b \in Blocks : queued(b)' => queued(b) \/ b = d
    BY <2>3, Zenon DEF queued
  <2>5. \A b \in Blocks : queued(b)' => pending(b)' /\ b \notin DOMAIN writing'
    BY <2>2, <2>4, <1>0, <1>1, <1>8, Zenon DEF Pending
  <2>6. \A i \in DOMAIN queue : queue[i] # d
    BY <2>1, <2>3, <1>0, <1>8, Zenon DEF Pending, queued
  <2>7. \A i, j \in DOMAIN queue' : queue'[i] = queue'[j] => i = j
    BY <2>3, <2>6, <1>0 DEF Pending
  <2>8. Pending'
    BY <2>5, <2>7, <1>9 DEF Pending
  <2> QED BY <1>6, <1>7, <2>8 DEF StoreInv
<1> QED BY <1>10, <1>11

\* createNewThread and threadLeaves move the number of threads only.
LEMMA ThreadsStep ==
    ASSUME StoreInv, createNewThread \/ threadLeaves
    PROVE  StoreInv'
<1>0. Typed /\ Memory /\ Pending /\ Durable /\ Ordered /\ Numbered
  BY DEF StoreInv
<1>1. UNCHANGED <<phase, dir, files, mem, current, recordId, queue, writing, next, crashes, resumed>>
  BY DEF createNewThread, threadLeaves
<1>2. Running /\ Running' = Running /\ (Stopped => Stopped')
  BY <1>1 DEF createNewThread, threadLeaves, failed, Running, Stopped
<1>3. threads' \in 0 .. FlushThreads /\ Cardinality(DOMAIN writing) <= threads'
  <2>1. threads \in 0 .. FlushThreads /\ Cardinality(DOMAIN writing) \in Nat
        /\ Cardinality(DOMAIN writing) <= threads
    BY <1>0, CardFacts DEF Typed, TypeOK, Pending
  <2>2. CASE createNewThread
    BY <2>1, <2>2, StoreAssumption DEF createNewThread
  <2>3. CASE threadLeaves
    BY <2>1, <2>3, StoreAssumption DEF threadLeaves, idle
  <2> QED BY <2>2, <2>3
<1>4. parallel' \in BOOLEAN
  <2>1. CASE createNewThread
    BY <2>1, Zenon DEF createNewThread
  <2>2. CASE threadLeaves
    BY <2>2, <1>0 DEF threadLeaves, Typed, TypeOK
  <2> QED BY <2>1, <2>2
<1>5. Typed'
  BY <1>0, <1>1, <1>3, <1>4, Zenon DEF Typed, TypeOK
<1>6. Durable' /\ Memory' /\ Ordered' /\ Numbered'
  BY <1>0, <1>1, <1>2, QuietStep
<1>7. \A b : pending(b)' <=> pending(b)
  BY <1>1, Zenon DEF pending, Stopped
<1>8. Pending'
  BY <1>0, <1>1, <1>3, <1>7, Zenon DEF Pending, queued
<1> QED BY <1>5, <1>6, <1>8 DEF StoreInv

\* A flush thread that takes a block keeps the invariant.
LEMMA WriteTmpStep ==
    ASSUME StoreInv, writeTmp
    PROVE  StoreInv'
<1>0. Typed /\ Memory /\ Pending /\ Durable /\ Ordered /\ Numbered
  BY DEF StoreInv
<1>1. /\ queue # <<>> /\ idle > 0 /\ queue' = Tail(queue)
      /\ writing' = put(writing, Head(queue), "written")
      /\ UNCHANGED <<phase, dir, files, mem, current, recordId, threads, next,
                     crashes, parallel, resumed>>
  BY DEF writeTmp
<1>2. PICK h \in Blocks : h = Head(queue) /\ queued(h)
  BY <1>0, <1>1, TakeFacts
<1>3. queue' \in Seq(Blocks) /\ (\A b \in Blocks : queued(b)' => queued(b) /\ b # h)
  BY <1>0, <1>1, <1>2, TakeFacts
<1>4. pending(h) /\ h \notin DOMAIN writing
  BY <1>0, <1>2 DEF Pending
<1>5. /\ DOMAIN writing' = DOMAIN writing \cup {h}
      /\ writing'[h] = "written"
      /\ \A c \in DOMAIN writing : writing'[c] = writing[c]
      /\ IsFunction(writing')
      /\ Cardinality(DOMAIN writing') = Cardinality(DOMAIN writing) + 1
  BY <1>0, <1>1, <1>2, <1>4, WritingMore
<1>6. Typed'
  <2>1. DOMAIN writing' \subseteq DOMAIN mem' /\ (\A b \in DOMAIN writing' : writing'[b] \in {"written", "synced"})
    BY <1>0, <1>1, <1>4, <1>5, Zenon DEF Typed, TypeOK, pending
  <2> QED BY <2>1, <1>0, <1>1, <1>3, <1>5, Zenon DEF Typed, TypeOK
<1>7. Running
  BY <1>0, <1>1 DEF Memory
<1>8. Durable' /\ Memory' /\ Ordered' /\ Numbered'
  <2>1. Running' = Running /\ (Stopped => Stopped')
    BY <1>1 DEF Running, Stopped
  <2> QED BY <1>0, <1>1, <1>7, <2>1, QuietStep
<1>9. \A b : pending(b)' <=> pending(b)
  BY <1>1, Zenon DEF pending, Stopped
<1>10. Cardinality(DOMAIN writing') <= threads'
  <2>1. Cardinality(DOMAIN writing) \in Nat /\ threads \in Nat
    BY <1>0, CardFacts, StoreAssumption DEF Typed, TypeOK
  <2> QED BY <2>1, <1>1, <1>5 DEF idle
<1>11. \A i, j \in DOMAIN queue' : queue'[i] = queue'[j] => i = j
  <2>1. \A i \in DOMAIN queue' : i + 1 \in DOMAIN queue /\ queue'[i] = queue[i + 1] /\ i \in Nat
    BY <1>0, <1>1, TakeFacts
  <2>2. \A i, j \in DOMAIN queue' : queue'[i] = queue'[j] => i + 1 = j + 1
    BY <2>1, <1>0, Zenon DEF Pending
  <2> QED BY <2>1, <2>2
<1>12. Pending'
  BY <1>0, <1>3, <1>4, <1>5, <1>9, <1>10, <1>11, Zenon DEF Pending
<1> QED BY <1>6, <1>8, <1>12 DEF StoreInv

\* Neither the fsync nor an I/O error of a flush thread, nor a load() that gives
\* up, changes a block.
LEMMA NoFileStep ==
    ASSUME StoreInv, \/ \E b \in DOMAIN writing : syncTmp(b) \/ flushFails(b)
                     \/ loadAborts
    PROVE  StoreInv'
<1>0. Typed /\ Memory /\ Pending /\ Durable /\ Ordered /\ Numbered
  BY DEF StoreInv
<1>1. /\ UNCHANGED <<dir, files, mem, current, recordId, queue, next, crashes, parallel, resumed>>
      /\ phase' \in {"down", "running", "failed", "stopping", "stopFailed", "aborted"}
  BY <1>0, Zenon DEF syncTmp, flushFails, loadAborts, procVars, Typed, TypeOK
<1>2. ASSUME NEW b \in DOMAIN writing PROVE Running
  BY <1>0, EmptyFacts DEF Memory
<1>3. /\ Running' = Running /\ (Stopped => Stopped')
      /\ Running \/ UNCHANGED <<queue, threads, writing>>
  <2>1. ASSUME NEW b \in DOMAIN writing, syncTmp(b) PROVE Running /\ Running' /\ (Stopped => Stopped')
    BY <2>1, <1>2 DEF syncTmp, Running, Stopped
  <2>2. ASSUME NEW b \in DOMAIN writing, flushFails(b) PROVE Running /\ Running' /\ (Stopped => Stopped')
    BY <2>2, <1>2 DEF flushFails, Running, Stopped
  <2>3. CASE loadAborts
    BY <2>3 DEF loadAborts, procVars, Running, Stopped
  <2> QED BY <2>1, <2>2, <2>3 DEF Running
<1>4. Durable' /\ Memory' /\ Ordered' /\ Numbered'
  BY <1>0, <1>1, <1>3, QuietStep
<1>5. \A b : pending(b) => pending(b)'
  BY <1>1, <1>3, Zenon DEF pending
<1>6. /\ DOMAIN writing' \subseteq DOMAIN writing
      /\ \A b \in DOMAIN writing' : writing'[b] \in {"written", "synced"}
      /\ IsFunction(writing')
      /\ threads' \in 0 .. FlushThreads
      /\ Cardinality(DOMAIN writing') <= threads'
  <2>1. /\ threads \in 0 .. FlushThreads /\ Cardinality(DOMAIN writing) \in Nat
        /\ Cardinality(DOMAIN writing) <= threads
        /\ \A b \in DOMAIN writing : writing[b] \in {"written", "synced"}
    BY <1>0, CardFacts DEF Typed, TypeOK, Pending
  <2>2. ASSUME NEW b \in DOMAIN writing, syncTmp(b) PROVE <1>6!:
    BY <2>1, <2>2 DEF syncTmp, IsFunction
  <2>3. ASSUME NEW b \in DOMAIN writing, flushFails(b) PROVE <1>6!:
    <3>1. writing' = drop(writing, b) /\ threads' = threads - 1
      BY <2>3 DEF flushFails
    <3>2. /\ DOMAIN writing' = DOMAIN writing \ {b}
          /\ \A c \in DOMAIN writing \ {b} : writing'[c] = writing[c]
          /\ IsFunction(writing')
          /\ Cardinality(DOMAIN writing') = Cardinality(DOMAIN writing) - 1
          /\ Cardinality(DOMAIN writing) >= 1
      BY <3>1, <1>0, WritingLess
    <3>3. threads' \in 0 .. FlushThreads /\ Cardinality(DOMAIN writing') <= threads'
      BY <2>1, <3>1, <3>2, StoreAssumption
    <3> QED BY <2>1, <3>2, <3>3, Zenon
  <2>4. CASE loadAborts
    BY <2>1, <2>4, <1>0, Zenon DEF loadAborts, procVars, Typed
  <2> QED BY <2>2, <2>3, <2>4
<1>7. Typed'
  BY <1>0, <1>1, <1>6, Zenon DEF Typed, TypeOK
<1>8. Pending'
  BY <1>0, <1>1, <1>5, <1>6, Zenon DEF Pending, queued
<1> QED BY <1>4, <1>7, <1>8 DEF StoreInv

\* What the rename does to the files: a new name, with the contents of a
\* finished block
LEMMA RenameFacts ==
    ASSUME StoreInv, NEW b \in DOMAIN writing, renameTmp(b)
    PROVE  /\ b \in DOMAIN mem /\ b \notin DOMAIN files
           /\ DOMAIN files' = DOMAIN files \cup {b}
           /\ \A c \in DOMAIN files : files'[c] = files[c]
           /\ files'[b] \in [prev : 0 .. MaxBlocks, minId : Nat, recs : Seq(Records), synced : BOOLEAN]
           /\ files'[b].synced = TRUE
           /\ files'[b].prev = mem[b].prev
           /\ files'[b].minId = mem[b].minId
           /\ files'[b].recs = mem[b].recs
           /\ mem[b].recs # <<>>
           /\ IsFunction(files')
           /\ b < current \/ Stopped
<1>0. Typed /\ Pending
  BY DEF StoreInv
<1>1. b \in DOMAIN mem /\ b \notin DOMAIN files /\ mem[b].recs # <<>> /\ (b < current \/ Stopped)
  BY <1>0, Zenon DEF Pending, pending
<1>2. mem[b] \in BlockContents
  BY <1>0, <1>1, TypedView
<1> DEFINE x == fileOf(b, TRUE)
<1>3. /\ x \in [prev : 0 .. MaxBlocks, minId : Nat, recs : Seq(Records), synced : BOOLEAN]
      /\ x.synced = TRUE /\ x.prev = mem[b].prev /\ x.minId = mem[b].minId /\ x.recs = mem[b].recs
  BY <1>2 DEF fileOf, BlockContents
<1> HIDE DEF x
<1>4. files' = put(files, b, x)
  BY DEF renameTmp, x
<1>5. /\ DOMAIN put(files, b, x) = DOMAIN files \cup {b}
      /\ put(files, b, x)[b] = x
      /\ \A c \in DOMAIN files : c # b => put(files, b, x)[c] = files[c]
      /\ IsFunction(put(files, b, x))
  BY PutFacts
<1>6. /\ DOMAIN files' = DOMAIN files \cup {b}
      /\ files'[b] = x
      /\ \A c \in DOMAIN files : files'[c] = files[c]
      /\ IsFunction(files')
  BY <1>1, <1>4, <1>5, Zenon
<1> QED BY <1>1, <1>3, <1>6, Zenon

\* A block that gets its file name is seen there as it was in memory.
LEMMA RenameStep ==
    ASSUME StoreInv, NEW b \in DOMAIN writing, renameTmp(b)
    PROVE  StoreInv'
<1>0. Typed /\ Memory /\ Pending /\ Durable /\ Ordered /\ Numbered
  BY DEF StoreInv
<1>1. /\ UNCHANGED <<phase, dir, mem, current, recordId, queue, next, crashes, parallel, resumed>>
      /\ writing' = drop(writing, b) /\ threads' \in {threads, threads - 1}
  BY DEF renameTmp, threadsAfter
<1>2. /\ b \in DOMAIN mem /\ b \notin DOMAIN files
      /\ DOMAIN files' = DOMAIN files \cup {b}
      /\ \A c \in DOMAIN files : files'[c] = files[c]
      /\ files'[b] \in [prev : 0 .. MaxBlocks, minId : Nat, recs : Seq(Records), synced : BOOLEAN]
      /\ files'[b].synced = TRUE
      /\ files'[b].prev = mem[b].prev
      /\ files'[b].minId = mem[b].minId
      /\ files'[b].recs = mem[b].recs
      /\ mem[b].recs # <<>>
      /\ IsFunction(files')
      /\ b < current \/ Stopped
  BY RenameFacts
<1>3. /\ DOMAIN writing' = DOMAIN writing \ {b}
      /\ \A c \in DOMAIN writing \ {b} : writing'[c] = writing[c]
      /\ IsFunction(writing')
      /\ Cardinality(DOMAIN writing') = Cardinality(DOMAIN writing) - 1
      /\ Cardinality(DOMAIN writing) >= 1
  BY <1>0, <1>1, WritingLess
<1>4. threads' \in 0 .. FlushThreads /\ Cardinality(DOMAIN writing') <= threads'
  <2>1. threads \in 0 .. FlushThreads /\ Cardinality(DOMAIN writing) \in Nat
        /\ Cardinality(DOMAIN writing) <= threads
    BY <1>0, CardFacts DEF Typed, TypeOK, Pending
  <2> QED BY <2>1, <1>1, <1>3, StoreAssumption
<1>5. Running' = Running /\ Stopped' = Stopped
  BY <1>1 DEF Running, Stopped
<1>6. Typed'
  <2>1. DOMAIN files' \subseteq Blocks /\ DOMAIN writing' \subseteq DOMAIN mem'
        /\ \A c \in DOMAIN writing' : writing'[c] \in {"written", "synced"}
    BY <1>0, <1>1, <1>2, <1>3, Zenon DEF Typed, TypeOK
  <2>2. \A c \in DOMAIN files' :
          files'[c] \in [prev : 0 .. MaxBlocks, minId : Nat, recs : Seq(Records), synced : BOOLEAN]
    BY <1>0, <1>2, Zenon DEF Typed, TypeOK
  <2> QED BY <2>1, <2>2, <1>0, <1>1, <1>2, <1>3, <1>4, Zenon DEF Typed, TypeOK
<1>7. Durable'
  <2>1. mem[b].prev = b - 1
    BY <1>0, <1>2 DEF Memory
  <2> QED BY <2>1, <1>0, <1>2 DEF Durable
<1>8. Memory'
  <2>1. Running
    BY <1>0, EmptyFacts DEF Memory
  <2>2. \A c \in DOMAIN mem' : c <= current' /\ mem'[c].prev = c - 1
    BY <1>0, <1>1 DEF Memory
  <2>3. \A d \in DOMAIN mem', c \in DOMAIN files' : c \notin DOMAIN mem' => c < d
    BY <1>0, <1>1, <1>2, Zenon DEF Memory
  <2>4. ASSUME NEW c \in DOMAIN mem' \cap DOMAIN files'
        PROVE  files'[c].recs = mem'[c].recs /\ files'[c].minId = mem'[c].minId
               /\ (c < current' \/ Stopped')
    BY <1>0, <1>1, <1>2, <1>5, Zenon DEF Memory
  <2> QED BY <2>1, <2>2, <2>3, <2>4, <1>0, <1>1, <1>5, Zenon DEF Memory
<1>9. view' = view
  <2>1. /\ files' = [c \in DOMAIN files \cup {b} |-> files'[c]]
        /\ DOMAIN files' \cup DOMAIN mem = DOMAIN files \cup DOMAIN mem
    BY <1>2 DEF IsFunction
  <2>2. \A c \in DOMAIN files \cup DOMAIN mem :
           (IF c \in DOMAIN mem THEN mem[c] ELSE files'[c]) =
           (IF c \in DOMAIN mem THEN mem[c] ELSE files[c])
    BY <1>2
  <2>3. view' = [c \in DOMAIN files' \cup DOMAIN mem |-> IF c \in DOMAIN mem THEN mem[c] ELSE files'[c]]
    BY <1>1 DEF view, viewOf
  <2> QED BY <2>1, <2>2, <2>3 DEF view, viewOf
<1>10. Ordered' /\ Numbered'
  BY <1>0, <1>1, <1>5, <1>9, Zenon DEF Ordered, Numbered
<1>11. \A c : pending(c) /\ c # b => pending(c)'
  BY <1>1, <1>2, <1>5, Zenon DEF pending
<1>12. Pending'
  BY <1>0, <1>1, <1>3, <1>4, <1>11, Zenon DEF Pending, queued
<1> QED BY <1>6, <1>7, <1>8, <1>10, <1>12 DEF StoreInv

-----------------------------------------------------------------------------
(* Crash and restart                                                       *)

\* A crash takes nothing from a file: all of them are synced.
LEMMA CrashFiles ==
    ASSUME StoreInv, crash
    PROVE  files' = files
<1>1. \A b \in DOMAIN files : files[b].synced
  BY DEF StoreInv, Durable
<1>2. files' = [b \in DOMAIN files |-> files[b]]
  BY <1>1 DEF crash
<1>3. files = [b \in DOMAIN files |-> files[b]]
  BY DEF StoreInv, Typed, IsFunction
<1> QED BY <1>2, <1>3

\* A crash leaves the named files, which are part of an ordered whole and thus ordered.
LEMMA CrashStep ==
    ASSUME StoreInv, crash
    PROVE  StoreInv'
<1>0. Typed /\ Memory /\ Pending /\ Durable /\ Ordered /\ Numbered
  BY DEF StoreInv
<1>1. /\ phase' = "down" /\ mem' = Empty /\ writing' = Empty /\ queue' = <<>> /\ threads' = 0
      /\ current' = 0 /\ recordId' = 0 /\ crashes < MaxCrashes /\ crashes' = crashes + 1
      /\ UNCHANGED <<dir, next, parallel, resumed>>
  BY DEF crash
<1>2. files' = files
  BY CrashFiles
<1>3. DOMAIN Empty = {} /\ IsFunction(Empty)
  BY EmptyFacts
<1>4. Typed'
  <2>1. crashes' \in 0 .. MaxCrashes
    BY <1>0, <1>1, StoreAssumption DEF Typed, TypeOK
  <2>2. <<>> \in Seq(Blocks) /\ 0 \in 0 .. FlushThreads /\ 0 \in 0 .. MaxBlocks /\ 0 \in Nat
    BY StoreAssumption
  <2> QED BY <2>1, <2>2, <1>0, <1>1, <1>2, <1>3, Zenon DEF Typed, TypeOK
<1>5. ~Running' /\ ~Stopped'
  BY <1>1 DEF Running, Stopped
<1>6. Durable' /\ Memory'
  BY <1>0, <1>1, <1>2, <1>3, <1>5, Zenon DEF Durable, Memory
<1>7. Pending'
  <2>1. Cardinality({}) = 0
    BY FS_EmptySet
  <2>2. DOMAIN queue' = {} /\ DOMAIN writing' = {} /\ Cardinality(DOMAIN writing') <= threads'
    BY <1>1, <1>3, <2>1
  <2> QED BY <2>2 DEF Pending, queued
<1>8. \A b \in DOMAIN view' :
        b \in DOMAIN view /\ view'[b].recs = view[b].recs /\ view'[b].minId = view[b].minId
  <2>1. view' = viewOf(files, Empty)
    BY <1>1, <1>2 DEF view
  <2>2. DOMAIN viewOf(files, Empty) = DOMAIN files
        /\ \A b \in DOMAIN files : viewOf(files, Empty)[b] = files[b]
    <3>1. PICK e : e = Empty /\ DOMAIN e = {}
      BY <1>3
    <3>2. DOMAIN viewOf(files, e) = DOMAIN files \cup DOMAIN e
          /\ \A b \in DOMAIN files \ DOMAIN e : viewOf(files, e)[b] = files[b]
      BY ViewFacts
    <3> QED BY <3>1, <3>2
  <2>3. DOMAIN view' = DOMAIN files /\ \A b \in DOMAIN files : view'[b] = files[b]
    BY <2>1, <2>2
  <2>4. /\ DOMAIN view = DOMAIN files \cup DOMAIN mem
        /\ \A b \in DOMAIN mem : view[b] = mem[b]
        /\ \A b \in DOMAIN files \ DOMAIN mem : view[b] = files[b]
    BY ViewFacts DEF view
  <2> HIDE DEF view
  <2> QED BY <2>3, <2>4, <1>0 DEF Memory
<1>9. InOrder(view') /\ Before(view', next)
  BY <1>0, <1>8, OrderKept DEF Ordered
<1>10. IdOrder(view')
  BY <1>0, <1>8, IdsKept DEF Numbered
<1>11. Ordered' /\ Numbered'
  BY <1>1, <1>5, <1>9, <1>10 DEF Ordered, Numbered
<1> QED BY <1>4, <1>6, <1>7, <1>11 DEF StoreInv

\* The order of the numbers as the relation that well-founded induction speaks of.
LEMMA LessThan ==
    ASSUME NEW u \in Nat, NEW v \in Nat, u < v
    PROVE  <<u, v>> \in OpToRel(<, Nat)
BY DEF OpToRel

\* Every non-empty set of identifiers has a greatest one.
LEMMA Greatest ==
    ASSUME NEW S, S \subseteq Blocks, S # {}
    PROVE  \E m \in S : \A c \in S : c <= m
<1> DEFINE T == {MaxBlocks - b : b \in S}
<1>1. \A b \in S : b \in Nat /\ MaxBlocks - b \in Nat
  BY StoreAssumption DEF Blocks
<1>2. \A x \in T : \E b \in S : x = MaxBlocks - b
  BY Zenon
<1>3. \A b \in S : MaxBlocks - b \in T
  BY Zenon
<1>4. T \subseteq Nat /\ T # {}
  <2>1. PICK b : b \in S
    OBVIOUS
  <2> QED BY <2>1, <1>1, <1>2, <1>3, Zenon
<1>5. PICK x \in T : \A y \in T : ~(<<y, x>> \in OpToRel(<, Nat))
  BY ONLY <1>4, NatLessThanWellFounded, WFMin
<1>6. PICK m \in S : x = MaxBlocks - m
  BY <1>2
<1>7. ASSUME NEW c \in S PROVE c <= m
  <2>1. MaxBlocks - c \in T /\ MaxBlocks - c \in Nat /\ x \in Nat
    BY <1>1, <1>3, <1>4
  <2>2. ~(MaxBlocks - c < x)
    BY <2>1, <1>5, LessThan
  <2> QED BY <2>2, <1>1, <1>6, StoreAssumption
<1> QED BY <1>7

\* The block on which load() puts m_current
LEMMA LastFacts ==
    ASSUME Typed
    PROVE  /\ files = Empty => lastBlockId = 0 /\ DOMAIN files = {}
           /\ files # Empty => /\ lastBlockId \in DOMAIN files
                               /\ \A c \in DOMAIN files : c <= lastBlockId
           /\ lastBlockId \in Nat
           /\ \A c \in DOMAIN files : c < currentId
<1>1. files = Empty => lastBlockId = 0 /\ DOMAIN files = {}
  BY EmptyFacts DEF lastBlockId
<1>2. ASSUME files # Empty
      PROVE  lastBlockId \in DOMAIN files /\ \A c \in DOMAIN files : c <= lastBlockId
  <2>1. DOMAIN files # {} /\ DOMAIN files \subseteq Blocks
    BY <1>2, EmptyFacts DEF Typed, TypeOK
  <2>2. \E m \in DOMAIN files : \A c \in DOMAIN files : c <= m
    BY <2>1, Greatest
  <2>3. lastBlockId = CHOOSE b \in DOMAIN files : \A c \in DOMAIN files : c <= b
    BY <1>2 DEF lastBlockId
  <2> QED BY <2>2, <2>3, Zenon
<1>3. \A c \in DOMAIN files : c \in Nat
  BY TypedView
<1>4. lastBlockId \in Nat
  BY <1>1, <1>2, <1>3
<1>5. \A c \in DOMAIN files : c < currentId
  BY <1>1, <1>2, <1>3, <1>4 DEF currentId
<1> QED BY <1>1, <1>2, <1>4, <1>5

\* The rows of one event, and those between a row and the end of its event
LEMMA OffsetFacts ==
    ASSUME NEW r \in Nat \ {0}
    PROVE  /\ logOffset(r) \in Nat
           /\ logOffset(r) * RowsPerEvent \in Nat
           /\ r <= logOffset(r) * RowsPerEvent
           /\ logOffset(r) * RowsPerEvent < r + RowsPerEvent
<1>1. RowsPerEvent \in Nat \ {0} /\ r - 1 \in Nat
  BY StoreAssumption
<1> DEFINE d == (r - 1) \div RowsPerEvent
<1>2. d \in Nat /\ d * RowsPerEvent <= r - 1 /\ r - 1 < d * RowsPerEvent + RowsPerEvent
  BY <1>1
<1>3. logOffset(r) = d + 1
  BY DEF logOffset
<1> HIDE DEF d
<1>4. (d + 1) * RowsPerEvent = d * RowsPerEvent + RowsPerEvent /\ d * RowsPerEvent \in Nat
  BY <1>1, <1>2
<1> QED BY <1>1, <1>2, <1>3, <1>4

\* Two rows, one not beyond the last row of the other's event, have one log offset.
LEMMA SameEvent ==
    ASSUME NEW r \in Nat \ {0}, NEW q \in Nat \ {0}, q <= r, r <= logOffset(q) * RowsPerEvent
    PROVE  logOffset(r) = logOffset(q)
<1>1. RowsPerEvent \in Nat \ {0} /\ r - 1 \in Nat /\ q - 1 \in Nat
  BY StoreAssumption
<1> DEFINE d == (r - 1) \div RowsPerEvent
           e == (q - 1) \div RowsPerEvent
<1>2. /\ d \in Nat /\ d * RowsPerEvent <= r - 1 /\ r - 1 < d * RowsPerEvent + RowsPerEvent
      /\ e \in Nat /\ e * RowsPerEvent <= q - 1 /\ q - 1 < e * RowsPerEvent + RowsPerEvent
  BY <1>1
<1>3. logOffset(r) = d + 1 /\ logOffset(q) = e + 1
  BY DEF logOffset
<1> HIDE DEF d, e
<1>4. /\ (d + 1) * RowsPerEvent = d * RowsPerEvent + RowsPerEvent /\ d * RowsPerEvent \in Nat
      /\ (e + 1) * RowsPerEvent = e * RowsPerEvent + RowsPerEvent /\ e * RowsPerEvent \in Nat
  BY <1>1, <1>2
<1>5. ASSUME NEW x \in Nat, NEW y \in Nat, x * RowsPerEvent < y * RowsPerEvent PROVE x < y
  BY <1>1, <1>5
<1>6. d * RowsPerEvent < (e + 1) * RowsPerEvent
  BY <1>1, <1>2, <1>3, <1>4
<1>7. e * RowsPerEvent < (d + 1) * RowsPerEvent
  BY <1>1, <1>2, <1>4
<1>8. d < e + 1 /\ e < d + 1
  BY <1>2, <1>5, <1>6, <1>7
<1> QED BY <1>2, <1>3, <1>8

\* The source resumes behind every record that is in a file.
LEMMA CheckpointFacts ==
    ASSUME Typed, Durable, InOrder(files)
    PROVE  /\ checkpoint \in Nat
           /\ checkpoint * RowsPerEvent + 1 \in 1 .. MaxRecords + RowsPerEvent
           /\ Before(files, checkpoint * RowsPerEvent + 1)
           /\ files = Empty => checkpoint * RowsPerEvent = 0
           /\ files # Empty =>
                /\ last(files[lastBlockId].recs) \in Nat \ {0}
                /\ checkpoint = logOffset(last(files[lastBlockId].recs))
                /\ 1 <= Len(files[lastBlockId].recs)
                /\ Len(files[lastBlockId].recs) \in Nat
<1>1. CASE files = Empty
  <2>1. checkpoint = 0 /\ DOMAIN files = {}
    BY <1>1, LastFacts DEF checkpoint
  <2>2. 0 * RowsPerEvent = 0 /\ 0 + 1 \in 1 .. MaxRecords + RowsPerEvent
    BY StoreAssumption
  <2> QED BY <1>1, <2>1, <2>2 DEF Before
<1>2. CASE files # Empty
  <2> DEFINE s == files[lastBlockId].recs
             x == last(s)
  <2>1. lastBlockId \in DOMAIN files /\ \A c \in DOMAIN files : c <= lastBlockId
    BY <1>2, LastFacts
  <2>2. s \in Seq(Records) /\ s # <<>>
    BY <2>1, TypedView DEF IsView, Durable
  <2>3. Len(s) \in Nat /\ 1 <= Len(s) /\ Len(s) \in 1 .. Len(s) /\ x = s[Len(s)] /\ x \in Records
    BY <2>2 DEF last
  <2>4. x \in Nat \ {0} /\ x <= MaxRecords
    BY <2>3, StoreAssumption DEF Records
  <2>5. checkpoint = logOffset(x)
    BY <1>2 DEF checkpoint
  <2>6. \A a \in DOMAIN files : \A i \in 1 .. Len(files[a].recs) : files[a].recs[i] <= x
    <3>1. TAKE a \in DOMAIN files
    <3>2. TAKE i \in 1 .. Len(files[a].recs)
    <3>3. a \in Nat /\ lastBlockId \in Nat /\ a <= lastBlockId
      BY <2>1, TypedView
    <3>4. files[a].recs[i] \in Records
      BY TypedView DEF IsView
    <3>5. CASE a < lastBlockId
      <4>1. files[a].recs[i] < s[Len(s)]
        BY <3>5, <2>1, <2>3 DEF InOrder
      <4> QED BY <4>1, <2>3, <2>4, <3>4, StoreAssumption DEF Records
    <3>6. CASE a = lastBlockId /\ i < Len(s)
      <4>1. files[a].recs[i] < s[Len(s)]
        BY <3>6, <2>1, <2>3 DEF InOrder
      <4> QED BY <4>1, <2>3, <2>4, <3>4, StoreAssumption DEF Records
    <3>7. CASE a = lastBlockId /\ i = Len(s)
      BY <3>7, <2>3, <2>4
    <3> QED BY <3>3, <3>5, <3>6, <3>7, <2>3
  <2> HIDE DEF x
  <2>7. /\ logOffset(x) \in Nat /\ logOffset(x) * RowsPerEvent \in Nat
        /\ x <= logOffset(x) * RowsPerEvent
        /\ logOffset(x) * RowsPerEvent < x + RowsPerEvent
    BY <2>4, OffsetFacts
  <2>8. PICK n \in Nat : n = logOffset(x) * RowsPerEvent
    BY <2>7
  <2>9. n + 1 \in 1 .. MaxRecords + RowsPerEvent /\ x < n + 1
    BY <2>4, <2>7, <2>8, StoreAssumption
  <2>10. \A a \in DOMAIN files : \A i \in 1 .. Len(files[a].recs) : files[a].recs[i] \in Nat
    <3>1. \A a \in DOMAIN files : \A i \in 1 .. Len(files[a].recs) : files[a].recs[i] \in Records
      BY TypedView DEF IsView
    <3> QED BY <3>1, StoreAssumption DEF Records
  <2>11. Before(files, n + 1)
    BY <2>4, <2>6, <2>9, <2>10 DEF Before
  <2> QED BY <1>2, <2>3, <2>4, <2>5, <2>7, <2>8, <2>9, <2>11 DEF x
<1> QED BY <1>1, <1>2

\* The files a restart finds, as the known blocks
LEMMA DownView ==
    ASSUME StoreInv, ~Running
    PROVE  /\ InOrder(files) /\ IdOrder(files)
           /\ mem = Empty /\ writing = Empty /\ queue = <<>> /\ threads = 0
<1>1. mem = Empty /\ writing = Empty /\ queue = <<>> /\ threads = 0
  BY DEF StoreInv, Memory
<1>2. DOMAIN view = DOMAIN files /\ \A b \in DOMAIN files : view[b] = files[b]
  <2>1. /\ DOMAIN viewOf(files, mem) = DOMAIN files \cup DOMAIN mem
        /\ \A b \in DOMAIN files \ DOMAIN mem : viewOf(files, mem)[b] = files[b]
    BY ViewFacts
  <2>2. DOMAIN mem = {}
    BY <1>1, EmptyFacts
  <2> QED BY <2>1, <2>2 DEF view
<1>3. InOrder(view) /\ IdOrder(view)
  BY DEF StoreInv, Ordered, Numbered
<1> HIDE DEF view
<1>4. InOrder(files)
  BY <1>2, <1>3 DEF InOrder
<1>5. IdOrder(files)
  BY <1>2, <1>3 DEF IdOrder, nextId
<1> QED BY <1>1, <1>4, <1>5

\* m_recordId after load() is behind every identifier in the files.
LEMMA FirstIdFacts ==
    ASSUME Typed, IdOrder(files)
    PROVE  firstRecordId \in Nat /\ IdBound(files, firstRecordId)
<1>1. CASE files = Empty
  <2>1. DOMAIN files = {}
    BY <1>1, LastFacts
  <2> QED BY <1>1, <2>1 DEF firstRecordId, IdBound
<1>2. CASE files # Empty
  <2>1. lastBlockId \in DOMAIN files /\ \A c \in DOMAIN files : c <= lastBlockId
    BY <1>2, LastFacts
  <2>2. firstRecordId = nextId(files[lastBlockId])
    BY <1>2 DEF firstRecordId
  <2>3. \A c \in DOMAIN files : files[c].minId \in Nat /\ Len(files[c].recs) \in Nat /\ c \in Nat
    BY TypedView DEF IsView
  <2>4. ASSUME NEW c \in DOMAIN files PROVE nextId(files[c]) <= nextId(files[lastBlockId])
    <3>1. CASE c = lastBlockId
      BY <3>1, <2>3 DEF nextId
    <3>2. CASE c < lastBlockId
      <4>1. nextId(files[c]) <= files[lastBlockId].minId
        BY <3>2, <2>1 DEF IdOrder
      <4> QED BY <4>1, <2>1, <2>3 DEF nextId
    <3> QED BY <3>1, <3>2, <2>1, <2>3
  <2>5. nextId(files[lastBlockId]) \in Nat
    BY <2>1, <2>3 DEF nextId
  <2> QED BY <2>2, <2>4, <2>5 DEF IdBound
<1> QED BY <1>1, <1>2

\* The blocks after a restart: those of the files, and an empty m_current
LEMMA LoadFacts ==
    ASSUME StoreInv, load
    PROVE  /\ ~Running /\ ~Stopped /\ Running' /\ ~Stopped'
           /\ current' = currentId /\ currentId \in Blocks /\ currentId \notin DOMAIN files
           /\ DOMAIN mem' = {currentId}
           /\ mem'[currentId] \in BlockContents
           /\ mem'[currentId].prev = currentId - 1
           /\ mem'[currentId].minId = firstRecordId
           /\ mem'[currentId].recs = <<>>
           /\ IsFunction(mem')
           /\ firstRecordId \in Nat
           /\ \A c \in DOMAIN files : c < currentId /\ c \in Nat
<1>0. Typed /\ InOrder(files) /\ IdOrder(files) /\ ~Running /\ ~Stopped
  BY DownView DEF StoreInv, load, Running, Stopped
<1>1. /\ phase' = "running" /\ current' = currentId /\ currentId <= MaxBlocks
      /\ mem' = put(Empty, currentId, newBlock(lastBlockId, firstRecordId))
  BY DEF load
<1>2. Running' /\ ~Stopped'
  BY <1>1 DEF Running, Stopped
<1>3. lastBlockId \in Nat /\ (\A c \in DOMAIN files : c < currentId /\ c \in Nat)
  BY <1>0, LastFacts, TypedView
<1>4. currentId \in Blocks /\ lastBlockId \in 0 .. MaxBlocks /\ lastBlockId = currentId - 1
  BY <1>1, <1>3, StoreAssumption DEF currentId, Blocks
<1>5. currentId \notin DOMAIN files
  BY <1>3
<1>6. firstRecordId \in Nat
  BY <1>0, FirstIdFacts
<1> DEFINE x == newBlock(lastBlockId, firstRecordId)
<1>7. x \in BlockContents /\ x.prev = currentId - 1 /\ x.minId = firstRecordId /\ x.recs = <<>>
  <2>1. <<>> \in Seq(Records)
    OBVIOUS
  <2> QED BY <2>1, <1>4, <1>6 DEF newBlock, BlockContents
<1> HIDE DEF x
<1>8. DOMAIN put(Empty, currentId, x) = {currentId} /\ put(Empty, currentId, x)[currentId] = x
      /\ IsFunction(put(Empty, currentId, x))
  <2>1. PICK e : e = Empty /\ DOMAIN e = {}
    BY EmptyFacts
  <2>2. PICK c, y : c = currentId /\ y = x
    OBVIOUS
  <2>3. /\ DOMAIN put(e, c, y) = DOMAIN e \cup {c}
        /\ put(e, c, y)[c] = y
        /\ \A d \in DOMAIN e : d # c => put(e, c, y)[d] = e[d]
        /\ IsFunction(put(e, c, y))
    BY PutFacts
  <2> QED BY <2>1, <2>2, <2>3
<1>9. mem' = put(Empty, currentId, x)
  BY <1>1 DEF x
<1> QED BY <1>0, <1>1, <1>2, <1>3, <1>4, <1>5, <1>6, <1>7, <1>8, <1>9

\* load begins behind the greatest block, so that what follows keeps order and numbering.
LEMMA LoadStep ==
    ASSUME StoreInv, load
    PROVE  StoreInv'
<1>0. Typed /\ Durable /\ InOrder(files) /\ IdOrder(files)
      /\ mem = Empty /\ writing = Empty /\ queue = <<>> /\ threads = 0
  BY DownView DEF StoreInv, load, Running
<1>1. /\ UNCHANGED <<files, queue, writing, crashes, parallel>>
      /\ phase' = "running" /\ dir' = TRUE /\ recordId' = firstRecordId /\ threads' = 1
      /\ next' = checkpoint * RowsPerEvent + 1
      /\ resumed' = resumed \cup {checkpoint}
  BY DEF load
<1>2. PICK c \in Blocks : c = currentId
  BY LoadFacts
<1>3. /\ Running' /\ ~Stopped'
      /\ current' = c /\ c \notin DOMAIN files
      /\ DOMAIN mem' = {c}
      /\ mem'[c] \in BlockContents
      /\ mem'[c].prev = c - 1
      /\ mem'[c].minId = firstRecordId
      /\ mem'[c].recs = <<>>
      /\ IsFunction(mem')
      /\ firstRecordId \in Nat
      /\ \A b \in DOMAIN files : b < c /\ b \in Nat
  BY <1>2, LoadFacts
<1>4. checkpoint \in Nat /\ next' \in 1 .. MaxRecords + RowsPerEvent /\ Before(files, next')
  BY <1>0, <1>1, CheckpointFacts
<1>5. DOMAIN writing = {} /\ DOMAIN queue = {}
  BY <1>0, EmptyFacts
<1>6. Typed'
  <2>1. c \in 0 .. MaxBlocks /\ 1 \in 0 .. FlushThreads /\ c <= c
    BY StoreAssumption DEF Blocks
  <2>2. resumed' \subseteq Nat
    BY <1>0, <1>1, <1>4 DEF Typed, TypeOK
  <2>3. DOMAIN mem' \subseteq Blocks /\ (\A b \in DOMAIN mem' : mem'[b] \in BlockContents)
    BY <1>3
  <2>4. DOMAIN writing' \subseteq DOMAIN mem' /\ (\A b \in DOMAIN writing' : writing'[b] \in {"written", "synced"})
    BY <1>1, <1>5
  <2>5. DOMAIN files' \subseteq Blocks /\ \A b \in DOMAIN files' :
         files'[b] \in [prev : 0 .. MaxBlocks, minId : Nat, recs : Seq(Records), synced : BOOLEAN]
    BY <1>0, <1>1, Zenon DEF Typed, TypeOK
  <2>6. IsFunction(files') /\ IsFunction(writing')
    BY <1>0, <1>1, Zenon DEF Typed
  <2>7. phase' \in {"down", "running", "failed", "stopping", "stopFailed", "aborted"} /\ dir' \in BOOLEAN
    BY <1>1, Zenon
  <2>8. queue' \in Seq(Blocks) /\ crashes' \in 0 .. MaxCrashes /\ parallel' \in BOOLEAN
    BY <1>0, <1>1, Zenon DEF Typed, TypeOK
  <2>9. current' \in 0 .. MaxBlocks /\ recordId' \in Nat /\ threads' \in 0 .. FlushThreads
    BY <2>1, <1>1, <1>3, Zenon
  <2> QED BY <2>2, <2>3, <2>4, <2>5, <2>6, <2>7, <2>8, <2>9, <1>3, <1>4, Zenon DEF Typed, TypeOK
<1>7. Durable'
  BY <1>0, <1>1, Zenon DEF Durable
<1>8. Memory'
  <2>1. c <= c
    BY StoreAssumption DEF Blocks
  <2>2. \A b \in DOMAIN mem' \cap DOMAIN files' : FALSE
    BY <1>1, <1>3
  <2>3. \A b \in DOMAIN mem' : b <= current' /\ mem'[b].prev = b - 1
    BY <2>1, <1>3, Zenon
  <2>4. \A b \in DOMAIN mem', d \in DOMAIN files' : d \notin DOMAIN mem' => d < b
    BY <1>1, <1>3, Zenon
  <2>5. Running' /\ current' \in DOMAIN mem'
    BY <1>3, Zenon
  <2> QED BY <2>2, <2>3, <2>4, <2>5, Zenon DEF Memory
<1>9. Pending'
  <2>1. Cardinality({}) = 0
    BY FS_EmptySet
  <2>2. DOMAIN queue' = {} /\ DOMAIN writing' = {} /\ Cardinality(DOMAIN writing') <= threads'
    BY <1>1, <1>5, <2>1
  <2> QED BY <2>2 DEF Pending, queued
<1>10. DOMAIN view' = DOMAIN files \cup {c} /\ view'[c] = mem'[c]
       /\ \A b \in DOMAIN files : view'[b] = files[b]
  <2>1. PICK m : m = mem'
    OBVIOUS
  <2>2. /\ DOMAIN viewOf(files, m) = DOMAIN files \cup DOMAIN m
        /\ \A b \in DOMAIN m : viewOf(files, m)[b] = m[b]
        /\ \A b \in DOMAIN files \ DOMAIN m : viewOf(files, m)[b] = files[b]
    BY ViewFacts
  <2>3. view' = viewOf(files, m)
    BY <2>1, <1>1 DEF view
  <2> HIDE DEF view
  <2> QED BY <2>1, <2>2, <2>3, <1>3
<1>11. Ordered'
  <2>1. \A b \in DOMAIN view' :
          view'[b].recs = <<>> \/ (b \in DOMAIN files /\ view'[b].recs = files[b].recs)
    BY <1>3, <1>10
  <2>2. InOrder(view') /\ Before(view', next')
    BY <2>1, <1>0, <1>4, OrderKept
  <2> QED BY <2>2 DEF Ordered
<1>12. Numbered'
  <2>1. IsView(files) /\ IsView(view')
    <3>1. IsView(files)
      BY <1>0, TypedView
    <3>2. IsView(view')
      BY <3>1, <1>3, <1>10 DEF IsView, BlockContents
    <3> QED BY <3>1, <3>2
  <2>2. IdBound(files, firstRecordId)
    BY <1>0, FirstIdFacts
  <2>3. \A a \in DOMAIN view' : a # c =>
           a < c /\ a \in DOMAIN files /\ view'[a].recs = files[a].recs /\ view'[a].minId = files[a].minId
    BY <1>3, <1>10
  <2>4. c \in DOMAIN view' /\ firstRecordId <= view'[c].minId /\ nextId(view'[c]) <= firstRecordId
        /\ firstRecordId <= firstRecordId
    BY <1>3, <1>10 DEF nextId
  <2>5. IdOrder(view') /\ IdBound(view', firstRecordId)
    BY <2>1, <2>2, <2>3, <2>4, <1>0, <1>3, IdsGrown
  <2> QED BY <2>5, <1>1 DEF Numbered
<1> QED BY <1>6, <1>7, <1>8, <1>9, <1>11, <1>12 DEF StoreInv

-----------------------------------------------------------------------------
(* The invariant                                                           *)

\* The invariant holds before the first start.
LEMMA StoreInit == Init => StoreInv
<1> SUFFICES ASSUME Init PROVE StoreInv
  OBVIOUS
<1>0. DOMAIN Empty = {} /\ IsFunction(Empty)
  BY EmptyFacts
<1>1. /\ phase = "down" /\ dir \in BOOLEAN /\ files = Empty /\ mem = Empty /\ current = 0
      /\ recordId = 0 /\ queue = <<>> /\ threads = 0 /\ writing = Empty /\ next = 1
      /\ crashes = 0 /\ parallel = FALSE /\ resumed = {}
  BY DEF Init
<1>2. ~Running /\ ~Stopped
  BY <1>1 DEF Running, Stopped
<1>3. Typed
  <2>1. /\ <<>> \in Seq(Blocks) /\ 0 \in 0 .. FlushThreads /\ 0 \in 0 .. MaxBlocks /\ 0 \in Nat
        /\ 0 \in 0 .. MaxCrashes /\ 1 \in 1 .. MaxRecords + RowsPerEvent
    BY StoreAssumption
  <2> QED BY <2>1, <1>0, <1>1, Zenon DEF Typed, TypeOK
<1>4. Durable /\ Memory
  BY <1>0, <1>1, <1>2, Zenon DEF Durable, Memory
<1>5. Pending
  <2>1. Cardinality({}) = 0
    BY FS_EmptySet
  <2> QED BY <2>1, <1>0, <1>1 DEF Pending, queued
<1>6. Ordered /\ Numbered
  <2>1. DOMAIN view = {}
    BY <1>0, <1>1, ViewFacts DEF view
  <2> QED BY <2>1, <1>2 DEF Ordered, Numbered, InOrder, Before, IdOrder
<1> QED BY <1>3, <1>4, <1>5, <1>6 DEF StoreInv

\* Every step keeps the invariant.
LEMMA StoreStep ==
    ASSUME StoreInv, [Next]_vars
    PROVE  StoreInv'
<1>1. CASE insert \/ insertFull \/ flushLogs
  BY <1>1, WriterStep
<1>2. CASE createNewThread \/ threadLeaves
  BY <1>2, ThreadsStep
<1>3. CASE stop
  BY <1>3, StopStep
<1>4. CASE writeTmp
  BY <1>4, WriteTmpStep
<1>5. CASE \E b \in DOMAIN writing : syncTmp(b) \/ flushFails(b)
  BY <1>5, NoFileStep
<1>6. CASE \E b \in DOMAIN writing : renameTmp(b)
  BY <1>6, RenameStep
<1>7. CASE crash
  BY <1>7, CrashStep
<1>8. CASE load
  BY <1>8, LoadStep
<1>9. CASE loadAborts
  BY <1>9, NoFileStep
<1>10. CASE UNCHANGED vars
  <2>1. UNCHANGED <<phase, dir, files, mem, current, recordId, queue, threads, writing,
                    next, crashes, parallel, resumed>>
    BY <1>10 DEF vars, procVars
  <2>2. Typed'
    BY <2>1, Zenon DEF StoreInv, Typed, TypeOK
  <2>3. Running' = Running /\ (Stopped => Stopped')
    BY <2>1 DEF Running, Stopped
  <2>4. Durable' /\ Memory' /\ Ordered' /\ Numbered'
    BY <2>1, <2>3, QuietStep DEF StoreInv
  <2>5. Pending'
    BY <2>1, Zenon DEF StoreInv, Pending, queued, pending, Stopped
  <2> QED BY <2>2, <2>4, <2>5 DEF StoreInv
<1> QED BY <1>1, <1>2, <1>3, <1>4, <1>5, <1>6, <1>7, <1>8, <1>9, <1>10, Zenon DEF Next

\* The invariant holds for ever.
LEMMA StoreInvariant == Spec => []StoreInv
<1>1. Init => StoreInv
  BY StoreInit
<1>2. StoreInv /\ [Next]_vars => StoreInv'
  BY StoreStep
<1> QED BY <1>1, <1>2, PTL DEF Spec

\* Every variable keeps its type, whatever crashes, I/O errors and restarts there
\* are.
THEOREM StoreTypeCorrect == Spec => []TypeOK
<1>1. StoreInv => TypeOK
  BY DEF StoreInv, Typed
<1> QED BY <1>1, StoreInvariant, PTL

\* What the invariant says of the files alone
LEMMA FilesOrdered == StoreInv => StoredInOrder /\ IdsDisjoint
<1> SUFFICES ASSUME StoreInv PROVE StoredInOrder /\ IdsDisjoint
  OBVIOUS
<1>1. /\ DOMAIN view = DOMAIN files \cup DOMAIN mem
      /\ \A b \in DOMAIN mem : view[b] = mem[b]
      /\ \A b \in DOMAIN files \ DOMAIN mem : view[b] = files[b]
  BY ViewFacts DEF view
<1>2. Memory /\ InOrder(view) /\ IdOrder(view)
  BY DEF StoreInv, Ordered, Numbered
<1> HIDE DEF view
<1>3. \A b \in DOMAIN files : /\ b \in DOMAIN view
                              /\ view[b].recs = files[b].recs /\ view[b].minId = files[b].minId
  BY <1>1, <1>2 DEF Memory
<1>4. StoredInOrder
  BY <1>2, <1>3 DEF InOrder, StoredInOrder
<1>5. IdsDisjoint
  BY <1>2, <1>3 DEF IdOrder, IdsDisjoint, nextId
<1> QED BY <1>4, <1>5

\* Any number of flush threads, crashes and restarts: in the order of the block
\* identifiers the files hold the records in the order of the source, none twice.
THEOREM OrderTheorem == Spec => []StoredInOrder
BY FilesOrdered, StoreInvariant, PTL

\* No two block files hold the same record identifier, restarts included.
THEOREM IdsTheorem == Spec => []IdsDisjoint
BY FilesOrdered, StoreInvariant, PTL

\* No step replaces, changes or removes a block file: the rename of a flush thread
\* always makes a new name, and a crash finds every file synced.
THEOREM ImmutableTheorem == Spec => FilesImmutable
<1> DEFINE Kept == \A b \in DOMAIN files : b \in DOMAIN files' /\ files'[b] = files[b]
<1>1. ASSUME StoreInv, [Next]_vars PROVE [Kept]_vars
  <2>1. CASE \E b \in DOMAIN writing : renameTmp(b)
    BY <1>1, <2>1, RenameFacts
  <2>2. CASE crash
    BY <1>1, <2>2, CrashFiles
  <2>3. CASE UNCHANGED files
    BY <2>3
  <2>4. ASSUME insert \/ insertFull \/ flushLogs \/ createNewThread \/ stop \/ writeTmp
               \/ (\E b \in DOMAIN writing : syncTmp(b) \/ flushFails(b))
               \/ threadLeaves \/ load \/ loadAborts
        PROVE  UNCHANGED files
    BY <2>4, Zenon DEF insert, insertFull, flushLogs, createNewThread, stop, writeTmp, syncTmp,
       flushFails, threadLeaves, load, loadAborts
  <2>5. CASE UNCHANGED vars
    BY <2>5 DEF vars
  <2> HIDE DEF Kept
  <2> QED BY <1>1, <2>1, <2>2, <2>3, <2>4, <2>5, Zenon DEF Next
<1> QED BY <1>1, StoreInvariant, PTL DEF Spec, FilesImmutable

-----------------------------------------------------------------------------
(* One flush thread at a time                                              *)

\* The thread that start() made stays until BM_FAILED.
Served == phase = "running" => threads >= 1

\* Everything below a queued block is ahead of it, and everything below m_current
\* has a place.
Covered ==
    /\ \A i \in DOMAIN queue : \A c \in Blocks : c < queue[i] =>
         \/ c \in DOMAIN files
         \/ c \in DOMAIN writing
         \/ \E j \in DOMAIN queue : j < i /\ queue[j] = c
    /\ \A c \in Blocks : c < current =>
         c \in DOMAIN files \/ c \in DOMAIN writing \/ queued(c)

\* The files have no hole, and the block that gets one next is behind all of them.
Alone ==
    /\ threads <= 1
    /\ \A b \in DOMAIN files : \A c \in Blocks : c <= b => c \in DOMAIN files
    /\ \A b \in DOMAIN writing : \A c \in Blocks : c < b => c \in DOMAIN files
    /\ threads = 1 => Covered

\* Record r is stored, or a row of an event at which the source was resumed.
accounted(r) ==
    \/ stored(r)
    \/ /\ logOffset(r) \in resumed
       /\ \E q \in 1 .. r : logOffset(q) = logOffset(r) /\ stored(q)

inMemory(r) ==
    \E b \in DOMAIN mem : \E i \in 1 .. Len(mem[b].recs) : mem[b].recs[i] = r

NoneSkipped ==
    \A b \in DOMAIN files : \A r \in 1 .. last(files[b].recs) : accounted(r)

\* The source has passed no record that is neither accounted for nor in memory.
NonePassed == Running => \A r \in Nat \ {0} : r < next => accounted(r) \/ inMemory(r)

Solo == Alone /\ NoneSkipped /\ NonePassed /\ phase # "aborted"

SoloInv == Served /\ (~parallel => Solo)

\* load() gets through files without a hole.
LEMMA WalkWithoutHole ==
    ASSUME StoreInv, Alone
    PROVE  walkSucceeds
<1>1. \A b \in DOMAIN files : intact(b)
  BY DEF StoreInv, Durable, intact
<1>2. ASSUME NEW a \in DOMAIN files, NEW b \in DOMAIN files, adjacent(a, b)
      PROVE  files[b].prev = a
  <2>1. a \in Blocks /\ b \in Blocks /\ a < b /\ files[b].prev = b - 1
    BY <1>2 DEF StoreInv, Typed, TypeOK, Durable, adjacent
  <2>2. b - 1 \in Blocks /\ b - 1 <= b /\ b - 1 < b
    BY <2>1, StoreAssumption DEF Blocks
  <2>3. b - 1 \in DOMAIN files
    BY <2>2 DEF Alone
  <2>4. ~(a < b - 1)
    BY <1>2, <2>2, <2>3 DEF adjacent
  <2> QED BY <2>1, <2>4, StoreAssumption DEF Blocks
<1> QED BY <1>1, <1>2 DEF walkSucceeds

\* A record once accounted for stays so.
LEMMA AccountedKept ==
    ASSUME \A b \in DOMAIN files : b \in DOMAIN files' /\ files'[b] = files[b],
           resumed \subseteq resumed'
    PROVE  \A r : (stored(r) => stored(r)') /\ (accounted(r) => accounted(r)')
<1>1. \A r : stored(r) => stored(r)'
  BY Zenon DEF stored
<1>2. ASSUME NEW r, accounted(r) PROVE accounted(r)'
  BY <1>1, <1>2, Zenon DEF accounted, logOffset
<1> QED BY <1>1, <1>2

\* A step that changes neither blocks nor the place of the source
LEMMA NothingMoves ==
    ASSUME NoneSkipped, NonePassed, UNCHANGED <<files, mem, next, resumed>>, Running' => Running
    PROVE  NoneSkipped' /\ NonePassed'
<1>1. \A r : accounted(r)' <=> accounted(r)
  BY Zenon DEF accounted, logOffset, stored
<1>2. \A r : inMemory(r)' <=> inMemory(r)
  BY Zenon DEF inMemory
<1>3. NoneSkipped'
  BY <1>1 DEF NoneSkipped, last
<1>4. NonePassed'
  BY <1>1, <1>2, Zenon DEF NonePassed
<1> QED BY <1>3, <1>4

\* Blocks that move on towards their files
LEMMA CoveredKept ==
    ASSUME Covered, UNCHANGED <<queue, current>>,
           \A c \in DOMAIN files : c \in DOMAIN files',
           \A c \in DOMAIN writing : c \in DOMAIN writing' \/ c \in DOMAIN files'
    PROVE  Covered'
<1>1. \A c \in Blocks : c < current' => c \in DOMAIN files' \/ c \in DOMAIN writing' \/ queued(c)'
  BY DEF Covered, queued
<1>2. ASSUME NEW i \in DOMAIN queue', NEW c \in Blocks, c < queue'[i]
      PROVE  \/ c \in DOMAIN files'
             \/ c \in DOMAIN writing'
             \/ \E j \in DOMAIN queue' : j < i /\ queue'[j] = c
  BY <1>2 DEF Covered
<1> QED BY <1>1, <1>2, Zenon DEF Covered

\* m_current at the end of the queue
LEMMA AppendCovered ==
    ASSUME Typed, current \in Blocks, Covered, UNCHANGED <<files, writing>>,
           queue' = Append(queue, current), current' \in {current, current + 1}
    PROVE  Covered'
<1>0. queue \in Seq(Blocks) /\ current \in Nat
  BY StoreAssumption DEF Typed, TypeOK
<1>1. /\ DOMAIN queue' = DOMAIN queue \cup {Len(queue) + 1}
      /\ queue'[Len(queue) + 1] = current
      /\ \A i \in DOMAIN queue : queue'[i] = queue[i] /\ i < Len(queue) + 1
  BY <1>0
<1>2. \A c \in Blocks : queued(c) \/ c = current => queued(c)'
  BY <1>1, Zenon DEF queued
<1>3. \A c \in Blocks : c < current' => c < current \/ c = current
  BY <1>0, StoreAssumption DEF Blocks
<1>4. \A c \in Blocks : c < current' => c \in DOMAIN files' \/ c \in DOMAIN writing' \/ queued(c)'
  BY <1>2, <1>3, Zenon DEF Covered
<1>5. ASSUME NEW i \in DOMAIN queue', NEW c \in Blocks, c < queue'[i]
      PROVE  \/ c \in DOMAIN files'
             \/ c \in DOMAIN writing'
             \/ \E j \in DOMAIN queue' : j < i /\ queue'[j] = c
  <2>1. CASE i \in DOMAIN queue
    <3>1. c < queue[i]
      BY <1>1, <1>5, <2>1
    <3>2. CASE c \in DOMAIN files \/ c \in DOMAIN writing
      BY <3>2
    <3>3. ASSUME NEW j \in DOMAIN queue, j < i, queue[j] = c
          PROVE  j \in DOMAIN queue' /\ queue'[j] = c
      BY <3>3, <1>1
    <3> QED BY <3>1, <3>2, <3>3, <2>1 DEF Covered
  <2>2. CASE i = Len(queue) + 1
    <3>1. c < current
      BY <1>1, <1>5, <2>2
    <3>2. CASE c \in DOMAIN files \/ c \in DOMAIN writing
      BY <3>2
    <3>3. CASE queued(c)
      <4>1. PICK j \in DOMAIN queue : queue[j] = c
        BY <3>3 DEF queued
      <4>2. j \in DOMAIN queue' /\ j < i /\ queue'[j] = c
        BY <4>1, <2>2, <1>1
      <4> QED BY <4>2
    <3> QED BY <3>1, <3>2, <3>3 DEF Covered
  <2> QED BY <2>1, <2>2, <1>1
<1> QED BY <1>4, <1>5, Zenon DEF Covered

\* With one flush thread, the writer's step leaves every record it passes in memory.
LEMMA SoloWriter ==
    ASSUME StoreInv, Solo, NEW c \in Blocks, NewCurrent(c)
    PROVE  Solo'
<1>0. Typed /\ current \in Blocks /\ current \in DOMAIN mem /\ next \in Nat
      /\ \A b \in DOMAIN mem : mem[b].recs \in Seq(Records)
  BY WriterView, TypedView DEF StoreInv, Typed, TypeOK, BlockContents
<1>1. /\ UNCHANGED <<phase, files, threads, writing, resumed>> /\ current' = c
      /\ phase \in {"running", "failed"}
  BY DEF NewCurrent
<1>2. Covered => Covered'
  <2>1. CASE queue' = queue /\ c = current
    BY <2>1, <1>1, SMT DEF Covered, queued
  <2>2. CASE queue' = Append(queue, current) /\ c = current + 1
    BY <2>2, <1>0, <1>1, AppendCovered
  <2> QED BY <2>1, <2>2 DEF NewCurrent
<1>3. Alone'
  BY <1>1, <1>2, Zenon DEF Solo, Alone
<1>4. \A r : accounted(r) => accounted(r)'
  BY <1>1, AccountedKept
<1>5. NoneSkipped'
  BY <1>1, <1>4 DEF Solo, NoneSkipped, last
<1>6. NonePassed'
  <2>1. ASSUME NEW r, inMemory(r) PROVE inMemory(r)'
    <3>1. PICK b \in DOMAIN mem : \E i \in 1 .. Len(mem[b].recs) : mem[b].recs[i] = r
      BY <2>1 DEF inMemory
    <3>2. PICK i \in 1 .. Len(mem[b].recs) : mem[b].recs[i] = r
      BY <3>1
    <3>3. b \in DOMAIN mem' /\ i \in 1 .. Len(mem'[b].recs) /\ mem'[b].recs[i] = r
      <4>1. CASE b # c
        BY <4>1, <3>2 DEF NewCurrent
      <4>2. CASE b = c
        <5>1. mem'[c].recs = Append(mem[c].recs, next) /\ b \in DOMAIN mem'
          BY <4>2 DEF NewCurrent
        <5>2. mem[c].recs \in Seq(Records)
          BY <1>0, <4>2
        <5>3. i \in 1 .. Len(Append(mem[c].recs, next)) /\ Append(mem[c].recs, next)[i] = mem[c].recs[i]
          BY <5>2, <3>2, <4>2
        <5> QED BY <5>1, <5>3, <3>2, <4>2
      <4> QED BY <4>1, <4>2
    <3> QED BY <3>3, Zenon DEF inMemory
  <2>2. PICK n \in Nat : n = next
    BY <1>0
  <2>3. ASSUME NEW s \in Seq(Records), mem'[c].recs = Append(s, next)
        PROVE  inMemory(n)'
    <3>1. Len(s) + 1 \in 1 .. Len(Append(s, next)) /\ Append(s, next)[Len(s) + 1] = next
      OBVIOUS
    <3>2. c \in DOMAIN mem'
      BY DEF NewCurrent
    <3> QED BY <3>1, <3>2, <2>2, <2>3 DEF inMemory
  <2>4. next' = n \/ (next' = n + 1 /\ inMemory(n)')
    <3>1. CASE next' = next
      BY <3>1, <2>2
    <3>2. CASE next' = next + 1 /\ mem'[c].recs = Append(<<>>, next)
      <4>1. <<>> \in Seq(Records)
        OBVIOUS
      <4> QED BY <4>1, <3>2, <2>2, <2>3
    <3>3. CASE next' = next + 1 /\ c = current /\ mem'[c].recs = Append(mem[c].recs, next)
      BY <3>3, <1>0, <2>2, <2>3
    <3> QED BY <3>1, <3>2, <3>3 DEF NewCurrent
  <2>5. Running
    BY <1>1 DEF Running
  <2>6. \A r \in Nat \ {0} : r < next' => r < n \/ (r = n /\ inMemory(n)')
    BY <2>4
  <2>7. \A r \in Nat \ {0} : r < n => accounted(r) \/ inMemory(r)
    BY <2>2, <2>5 DEF Solo, NonePassed
  <2> QED BY <2>1, <2>6, <2>7, <1>4, Zenon DEF NonePassed
<1> QED BY <1>1, <1>3, <1>5, <1>6 DEF Solo

\* stop() and the steps of the thread that is alone, the rename apart
LEMMA SoloStop ==
    ASSUME StoreInv, Solo, stop
    PROVE  Solo'
<1>1. /\ UNCHANGED <<files, mem, threads, writing, current, next, resumed>> /\ phase' = "stopping"
      /\ phase \in {"running", "failed"} /\ (queue' = queue \/ queue' = Append(queue, current))
  BY DEF stop
<1>2. Running
  BY <1>1 DEF Running
<1>3. Typed /\ current \in Blocks
  BY <1>2 DEF StoreInv, Memory, Typed, TypeOK
<1>4. Covered => Covered'
  <2>1. CASE queue' = queue
    BY <2>1, <1>1, SMT DEF Covered, queued
  <2>2. CASE queue' = Append(queue, current)
    BY <2>2, <1>1, <1>3, AppendCovered
  <2> QED BY <2>1, <2>2, <1>1
<1>5. Alone'
  BY <1>1, <1>4, Zenon DEF Solo, Alone
<1>6. NoneSkipped' /\ NonePassed'
  BY <1>1, <1>2, NothingMoves DEF Solo
<1> QED BY <1>1, <1>5, <1>6 DEF Solo

\* With one flush thread, the block taken is the one behind the last file.
LEMMA SoloTake ==
    ASSUME StoreInv, Solo, writeTmp
    PROVE  Solo'
<1>0. Typed /\ Pending /\ Alone
  BY DEF StoreInv, Solo
<1>1. /\ queue # <<>> /\ idle > 0 /\ queue' = Tail(queue)
      /\ writing' = put(writing, Head(queue), "written")
      /\ UNCHANGED <<phase, files, mem, current, threads, next, resumed>>
  BY DEF writeTmp
<1>2. threads = 1 /\ DOMAIN writing = {}
  <2>1. threads \in Nat /\ IsFiniteSet(DOMAIN writing) /\ Cardinality(DOMAIN writing) \in Nat
    BY <1>0, CardFacts, StoreAssumption DEF Typed, TypeOK
  <2>2. threads = 1 /\ Cardinality(DOMAIN writing) = 0
    BY <2>1, <1>0, <1>1 DEF Alone, idle
  <2> QED BY <2>1, <2>2, FS_EmptySet
<1>3. PICK h \in Blocks : h = Head(queue) /\ h = queue[1]
  BY <1>0, <1>1, TakeFacts
<1>4. DOMAIN writing' = {h}
  <2>1. DOMAIN writing' = DOMAIN writing \cup {h}
    BY <1>0, <1>1, <1>2, <1>3, WritingMore
  <2> QED BY <2>1, <1>2
<1>5. /\ DOMAIN queue' = 1 .. Len(queue) - 1 /\ Len(queue) \in Nat \ {0}
      /\ DOMAIN queue = 1 .. Len(queue)
      /\ \A i \in DOMAIN queue' : i + 1 \in DOMAIN queue /\ queue'[i] = queue[i + 1]
  BY <1>0, <1>1, TakeFacts
<1>6. Covered
  BY <1>0, <1>2 DEF Alone
<1>7. \A c \in Blocks : c < h => c \in DOMAIN files
  <2>1. 1 \in DOMAIN queue /\ \A j \in DOMAIN queue : ~(j < 1)
    BY <1>5
  <2> QED BY <2>1, <1>2, <1>3, <1>6 DEF Covered
<1>8. ASSUME NEW c \in Blocks, NEW j \in DOMAIN queue, queue[j] = c
      PROVE  c = h \/ (j - 1 \in DOMAIN queue' /\ queue'[j - 1] = c)
  <2>1. CASE j = 1
    BY <2>1, <1>3, <1>8
  <2>2. CASE j # 1
    <3>1. j - 1 \in DOMAIN queue' /\ (j - 1) + 1 = j
      BY <2>2, <1>5
    <3> QED BY <3>1, <1>5, <1>8
  <2> QED BY <2>1, <2>2
<1>9. Covered'
  <2>1. ASSUME NEW c \in Blocks, c < current'
        PROVE  c \in DOMAIN files' \/ c \in DOMAIN writing' \/ queued(c)'
    <3>1. c \in DOMAIN files \/ queued(c)
      BY <2>1, <1>1, <1>2, <1>6 DEF Covered
    <3>2. CASE queued(c)
      <4>1. PICK j \in DOMAIN queue : queue[j] = c
        BY <3>2 DEF queued
      <4> QED BY <4>1, <1>4, <1>8 DEF queued
    <3> QED BY <3>1, <3>2, <1>1
  <2>2. ASSUME NEW i \in DOMAIN queue', NEW c \in Blocks, c < queue'[i]
        PROVE  \/ c \in DOMAIN files'
               \/ c \in DOMAIN writing'
               \/ \E j \in DOMAIN queue' : j < i /\ queue'[j] = c
    <3>1. i + 1 \in DOMAIN queue /\ c < queue[i + 1]
      BY <2>2, <1>5
    <3>2. c \in DOMAIN files \/ \E j \in DOMAIN queue : j < i + 1 /\ queue[j] = c
      BY <3>1, <1>2, <1>6 DEF Covered
    <3>3. CASE c \in DOMAIN files
      BY <3>3, <1>1
    <3>4. ASSUME NEW j \in DOMAIN queue, j < i + 1, queue[j] = c
          PROVE  c \in DOMAIN writing' \/ \E k \in DOMAIN queue' : k < i /\ queue'[k] = c
      <4>1. CASE c = h
        BY <4>1, <1>4
      <4>2. CASE j - 1 \in DOMAIN queue' /\ queue'[j - 1] = c
        <5>1. j - 1 < i
          BY <3>4, <1>5
        <5> QED BY <4>2, <5>1
      <4> QED BY <4>1, <4>2, <3>4, <1>8
    <3> QED BY <3>2, <3>3, <3>4
  <2> QED BY <2>1, <2>2, Zenon DEF Covered
<1>10. Alone'
  BY <1>0, <1>1, <1>4, <1>7, <1>9, Zenon DEF Alone
<1>11. NoneSkipped' /\ NonePassed'
  BY <1>1, NothingMoves DEF Solo, Running
<1> QED BY <1>1, <1>10, <1>11 DEF Solo

\* With one flush thread, syncing a block leaves the others alone.
LEMMA SoloSync ==
    ASSUME StoreInv, Solo, NEW b \in DOMAIN writing, syncTmp(b)
    PROVE  Solo'
<1>1. /\ UNCHANGED <<phase, files, mem, current, queue, threads, next, resumed>>
      /\ DOMAIN writing' = DOMAIN writing
  BY DEF syncTmp
<1>2. Alone'
  <2>1. Covered => Covered'
    BY <1>1, CoveredKept
  <2> QED BY <2>1, <1>1, Zenon DEF Solo, Alone
<1>3. NoneSkipped' /\ NonePassed'
  BY <1>1, NothingMoves DEF Solo, Running
<1> QED BY <1>1, <1>2, <1>3 DEF Solo

\* After an I/O error no thread is left to write a block behind the one that
\* failed.
LEMMA SoloLeaves ==
    ASSUME StoreInv, Solo, (\E b \in DOMAIN writing : flushFails(b)) \/ threadLeaves
    PROVE  Solo'
<1>0. Typed /\ Memory /\ Alone /\ threads \in Nat
  BY StoreAssumption DEF StoreInv, Solo, Typed, TypeOK
<1>1. /\ UNCHANGED <<files, mem, next, resumed>> /\ threads' = threads - 1
      /\ DOMAIN writing' \subseteq DOMAIN writing
      /\ phase' # "aborted"
  <2>1. CASE threadLeaves
    BY <2>1 DEF threadLeaves, Solo
  <2>2. ASSUME NEW b \in DOMAIN writing, flushFails(b)
        PROVE  <1>1!:
    BY <2>2 DEF flushFails, drop
  <2> QED BY <2>1, <2>2
<1>2. Running
  <2>1. CASE threadLeaves
    BY <2>1 DEF threadLeaves, failed, Running
  <2>2. ASSUME NEW b \in DOMAIN writing PROVE Running
    BY <1>0, EmptyFacts DEF Memory
  <2> QED BY <2>1, <2>2
<1>3. threads' <= 1 /\ threads' # 1
  BY <1>0, <1>1 DEF Alone
<1>4. Alone'
  BY <1>0, <1>1, <1>3, Zenon DEF Alone
<1>5. NoneSkipped' /\ NonePassed'
  BY <1>1, <1>2, NothingMoves DEF Solo
<1> QED BY <1>1, <1>4, <1>5 DEF Solo

\* The rename: all blocks before this one have their files, so every record up to
\* its last one is accounted for.
LEMMA SoloRename ==
    ASSUME StoreInv, Solo, NEW b \in DOMAIN writing, renameTmp(b)
    PROVE  Solo'
<1>0. Typed /\ Memory /\ Durable /\ Alone /\ threads \in Nat /\ InOrder(view) /\ Before(view, next)
  BY StoreAssumption DEF StoreInv, Solo, Typed, TypeOK, Ordered
<1>1. /\ UNCHANGED <<phase, mem, current, queue, next, resumed>>
      /\ writing' = drop(writing, b) /\ threads' \in {threads, threads - 1}
  BY DEF renameTmp, threadsAfter
<1>2. /\ b \in DOMAIN mem /\ b \notin DOMAIN files
      /\ DOMAIN files' = DOMAIN files \cup {b}
      /\ \A c \in DOMAIN files : files'[c] = files[c]
      /\ files'[b].recs = mem[b].recs
      /\ mem[b].recs # <<>>
  BY RenameFacts
<1>3. DOMAIN writing' = DOMAIN writing \ {b}
  BY <1>0, <1>1, WritingLess
<1>4. b \in Blocks /\ DOMAIN mem \subseteq Blocks /\ \A c \in Blocks : c \in Nat
  BY <1>0, <1>2, StoreAssumption DEF Typed, TypeOK, Blocks
<1>5. \A c \in Blocks : c < b => c \in DOMAIN files
  BY <1>0 DEF Alone
<1>6. Alone'
  <2>1. threads' <= 1 /\ (threads' = 1 => threads = 1)
    BY <1>0, <1>1 DEF Alone
  <2>2. \A c \in Blocks : c <= b => c < b \/ c = b
    BY <1>4
  <2>3. \A d \in DOMAIN files' : \A c \in Blocks : c <= d => c \in DOMAIN files'
    BY <2>2, <1>0, <1>2, <1>5, Zenon DEF Alone
  <2>4. \A d \in DOMAIN writing' : \A c \in Blocks : c < d => c \in DOMAIN files'
    BY <1>0, <1>2, <1>3, Zenon DEF Alone
  <2>5. \A c : c \in DOMAIN writing => c \in DOMAIN writing' \/ c \in DOMAIN files'
    BY <1>2, <1>3
  <2>6. Covered => Covered'
    <3>1. \A c \in DOMAIN files : c \in DOMAIN files'
      BY <1>2
    <3> QED BY <3>1, <2>5, <1>1, CoveredKept
  <2> QED BY <2>1, <2>3, <2>4, <2>6, <1>0, Zenon DEF Alone
<1>7. \A r : (stored(r) => stored(r)') /\ (accounted(r) => accounted(r)')
  <2>1. /\ \A c \in DOMAIN files : c \in DOMAIN files' /\ files'[c] = files[c]
        /\ resumed \subseteq resumed'
    BY <1>1, <1>2
  <2> QED BY <2>1, AccountedKept
<1>8. Running
  BY <1>0, EmptyFacts DEF Memory
<1>9. NonePassed'
  <2>1. \A r : inMemory(r) => inMemory(r)'
    BY <1>1, Zenon DEF inMemory
  <2> QED BY <2>1, <1>1, <1>7, <1>8, Zenon DEF Solo, NonePassed
<1>10. /\ \A c \in DOMAIN mem : c \in DOMAIN view /\ view[c] = mem[c]
       /\ \A c \in DOMAIN mem : mem[c].recs \in Seq(Records)
  <2>1. /\ DOMAIN viewOf(files, mem) = DOMAIN files \cup DOMAIN mem
        /\ \A c \in DOMAIN mem : viewOf(files, mem)[c] = mem[c]
    BY ViewFacts
  <2>2. \A c \in DOMAIN mem : mem[c].recs \in Seq(Records)
    BY <1>0, TypedView DEF IsView
  <2> QED BY <2>1, <2>2 DEF view
<1> HIDE DEF view
<1>11. ASSUME NEW r \in 1 .. last(mem[b].recs) PROVE accounted(r)'
  <2> DEFINE s == mem[b].recs
  <2>1. s \in Seq(Records) /\ Len(s) \in Nat \ {0} /\ Len(s) \in 1 .. Len(s) /\ last(s) = s[Len(s)]
        /\ last(s) \in Records
    BY <1>2, <1>10 DEF last
  <2>2. r \in Nat \ {0} /\ last(s) \in Nat /\ r <= last(s) /\ next \in Nat
    BY <2>1, <1>0, TypedView, StoreAssumption DEF Records
  <2>3. last(s) < next
    BY <2>1, <1>0, <1>2, <1>10 DEF Before
  <2>4. accounted(r) \/ inMemory(r)
    BY <2>2, <2>3, <1>8 DEF Solo, NonePassed
  <2>5. CASE inMemory(r)
    <3>1. PICK c \in DOMAIN mem : \E i \in 1 .. Len(mem[c].recs) : mem[c].recs[i] = r
      BY <2>5 DEF inMemory
    <3>2. PICK i \in 1 .. Len(mem[c].recs) : mem[c].recs[i] = r
      BY <3>1
    <3>3. ~(b < c)
      <4>1. b < c => s[Len(s)] < mem[c].recs[i]
        BY <2>1, <3>2, <1>0, <1>2, <1>10 DEF InOrder
      <4> QED BY <4>1, <2>1, <2>2, <3>2
    <3>4. c \in DOMAIN files' /\ files'[c].recs = mem[c].recs
      <4>1. CASE c = b
        BY <4>1, <1>2
      <4>2. CASE c < b
        <5>1. c \in DOMAIN files
          BY <4>2, <1>4, <1>5
        <5>2. files[c].recs = mem[c].recs
          BY <5>1, <1>0 DEF Memory
        <5> QED BY <5>1, <5>2, <1>2
      <4> QED BY <4>1, <4>2, <3>3, <1>4
    <3>5. stored(r)'
      BY <3>2, <3>4, Zenon DEF stored
    <3> QED BY <3>5 DEF accounted
  <2> QED BY <2>4, <2>5, <1>7
<1>12. NoneSkipped'
  <2>1. ASSUME NEW d \in DOMAIN files', NEW r \in 1 .. last(files'[d].recs) PROVE accounted(r)'
    <3>1. CASE d = b
      BY <3>1, <2>1, <1>2, <1>11
    <3>2. CASE d \in DOMAIN files
      <4>1. r \in 1 .. last(files[d].recs)
        BY <3>2, <2>1, <1>2
      <4>2. accounted(r)
        BY <3>2, <4>1 DEF Solo, NoneSkipped
      <4> QED BY <4>2, <1>7
    <3> QED BY <3>1, <3>2, <1>2
  <2> QED BY <2>1 DEF NoneSkipped, last
<1> QED BY <1>1, <1>6, <1>9, <1>12 DEF Solo

\* With one flush thread, a crash leaves files without holes.
LEMMA SoloCrash ==
    ASSUME StoreInv, Solo, crash
    PROVE  Solo'
<1>1. /\ phase' = "down" /\ writing' = Empty /\ threads' = 0 /\ UNCHANGED <<resumed, files>>
  BY CrashFiles DEF crash
<1>2. DOMAIN writing' = {} /\ threads' <= 1 /\ threads' # 1 /\ ~Running'
  BY <1>1, EmptyFacts DEF Running
<1>3. Alone'
  BY <1>1, <1>2, Zenon DEF Solo, Alone
<1>4. \A r : accounted(r) => accounted(r)'
  BY <1>1, AccountedKept
<1>5. NoneSkipped'
  BY <1>1, <1>4 DEF Solo, NoneSkipped, last
<1> QED BY <1>1, <1>2, <1>3, <1>5 DEF Solo, NonePassed

\* The source resumes behind the event of the last stored record: what it does not
\* deliver again is stored or belongs to that event.
LEMMA SoloLoad ==
    ASSUME StoreInv, Solo, load
    PROVE  Solo'
<1>0. Typed /\ Durable /\ InOrder(files) /\ writing = Empty /\ queue = <<>>
  BY DownView DEF StoreInv, load, Running
<1>1. /\ UNCHANGED <<files, queue, writing>>
      /\ phase' = "running" /\ threads' = 1 /\ current' = currentId
      /\ next' = checkpoint * RowsPerEvent + 1
      /\ resumed' = resumed \cup {checkpoint}
  BY DEF load
<1>2. DOMAIN writing' = {} /\ DOMAIN queue' = {}
  BY <1>0, <1>1, EmptyFacts
<1>3. \A c \in Blocks : c < currentId => c \in DOMAIN files
  <2>1. CASE files = Empty
    <3>1. lastBlockId = 0
      BY <2>1, <1>0, LastFacts
    <3> QED BY <3>1, StoreAssumption DEF currentId, Blocks
  <2>2. CASE files # Empty
    <3>1. lastBlockId \in DOMAIN files /\ lastBlockId \in Nat
      BY <2>2, <1>0, LastFacts
    <3>2. \A c \in Blocks : c < currentId => c <= lastBlockId
      BY <3>1, StoreAssumption DEF currentId, Blocks
    <3> QED BY <3>1, <3>2 DEF Solo, Alone
  <2> QED BY <2>1, <2>2
<1>4. Alone'
  <2>1. Covered'
    BY <1>1, <1>2, <1>3, Zenon DEF Covered
  <2>2. threads' <= 1
    BY <1>1
  <2> QED BY <2>1, <2>2, <1>1, <1>2, Zenon DEF Solo, Alone
<1>5. \A r : (stored(r) => stored(r)') /\ (accounted(r) => accounted(r)')
  BY <1>1, AccountedKept
<1>6. NoneSkipped'
  BY <1>1, <1>5 DEF Solo, NoneSkipped, last
<1>7. ASSUME NEW r \in Nat \ {0}, r < next' PROVE accounted(r)'
  <2>1. CASE files = Empty
    BY <2>1, <1>0, <1>1, <1>7, CheckpointFacts
  <2>2. CASE files # Empty
    <3> DEFINE s == files[lastBlockId].recs
    <3>1. PICK x \in Nat \ {0} : x = last(s)
      BY <2>2, <1>0, CheckpointFacts
    <3>2. lastBlockId \in DOMAIN files /\ checkpoint = logOffset(x)
          /\ Len(s) \in 1 .. Len(s) /\ s[Len(s)] = x
      BY <2>2, <3>1, <1>0, CheckpointFacts, LastFacts DEF last
    <3>3. CASE r <= x
      <4>1. r \in 1 .. last(files[lastBlockId].recs)
        BY <3>1, <3>3
      <4>2. accounted(r)
        BY <3>2, <4>1 DEF Solo, NoneSkipped
      <4> QED BY <4>2, <1>5
    <3>4. CASE x < r
      <4>1. logOffset(x) * RowsPerEvent \in Nat
        BY OffsetFacts
      <4>2. x <= r /\ r <= logOffset(x) * RowsPerEvent /\ x \in 1 .. r
        BY <3>2, <3>4, <4>1, <1>1, <1>7
      <4>3. logOffset(r) = logOffset(x)
        BY <4>2, SameEvent
      <4>4. stored(x)
        BY <3>2, Zenon DEF stored
      <4>5. stored(x)' /\ logOffset(r) \in resumed'
        BY <4>3, <4>4, <3>2, <1>1, <1>5
      <4> QED BY <4>2, <4>3, <4>5, Zenon DEF accounted, logOffset
    <3> QED BY <3>1, <3>3, <3>4
  <2> QED BY <2>1, <2>2
<1>8. NonePassed'
  BY <1>7, Zenon DEF NonePassed
<1> QED BY <1>1, <1>4, <1>6, <1>8 DEF Solo

\* A database that runs has a flush thread at every step.
LEMMA ServedStep ==
    ASSUME StoreInv, Served, [Next]_vars
    PROVE  Served'
<1>0. threads \in Nat
  BY StoreAssumption DEF StoreInv, Typed, TypeOK
<1>1. CASE insert \/ insertFull \/ flushLogs \/ writeTmp \/ \E b \in DOMAIN writing : syncTmp(b)
  BY <1>1, Zenon DEF Served, insert, insertFull, flushLogs, writeTmp, syncTmp
<1>2. CASE createNewThread
  BY <1>0, <1>2 DEF Served, createNewThread
<1>3. CASE stop \/ crash \/ loadAborts \/ threadLeaves \/ \E b \in DOMAIN writing : flushFails(b)
  <2>1. phase' # "running"
    BY <1>3 DEF stop, crash, loadAborts, threadLeaves, flushFails, failed
  <2> QED BY <2>1 DEF Served
<1>4. CASE \E b \in DOMAIN writing : renameTmp(b)
  BY <1>4 DEF Served, renameTmp, threadsAfter, failed
<1>5. CASE load
  BY <1>5 DEF Served, load
<1>6. CASE UNCHANGED vars
  BY <1>6, Zenon DEF Served, vars, procVars
<1> QED BY <1>1, <1>2, <1>3, <1>4, <1>5, <1>6, Zenon DEF Next

\* Every step keeps what holds with one flush thread.
LEMMA SoloStep ==
    ASSUME StoreInv, SoloInv, [Next]_vars
    PROVE  SoloInv'
<1>0. Served'
  BY ServedStep DEF SoloInv
<1> SUFFICES ASSUME ~parallel' PROVE Solo'
  BY <1>0 DEF SoloInv
<1>1. CASE createNewThread
  <2>1. phase = "running" /\ threads' = threads + 1 /\ ~(threads' > 1)
    BY <1>1, Zenon DEF createNewThread
  <2>2. threads \in Nat /\ threads >= 1
    BY <2>1, StoreAssumption DEF StoreInv, Typed, TypeOK, SoloInv, Served
  <2> QED BY <2>1, <2>2
<1>2. ASSUME ~createNewThread PROVE parallel' = parallel
  BY <1>2, Zenon DEF Next, vars, procVars, insert, insertFull, flushLogs, stop, writeTmp, syncTmp,
     renameTmp, flushFails, threadLeaves, crash, load, loadAborts
<1>3. CASE ~createNewThread
  <2>0. Solo
    BY <1>2, <1>3 DEF SoloInv
  <2>1. CASE insert \/ insertFull \/ flushLogs
    BY <2>0, <2>1, WriterEffect, SoloWriter
  <2>2. CASE stop
    BY <2>0, <2>2, SoloStop
  <2>3. CASE writeTmp
    BY <2>0, <2>3, SoloTake
  <2>4. CASE \E b \in DOMAIN writing : syncTmp(b)
    BY <2>0, <2>4, SoloSync
  <2>5. CASE (\E b \in DOMAIN writing : flushFails(b)) \/ threadLeaves
    BY <2>0, <2>5, SoloLeaves
  <2>6. CASE \E b \in DOMAIN writing : renameTmp(b)
    BY <2>0, <2>6, SoloRename
  <2>7. CASE crash
    BY <2>0, <2>7, SoloCrash
  <2>8. CASE load
    BY <2>0, <2>8, SoloLoad
  <2>9. CASE loadAborts
    BY <2>0, <2>9, WalkWithoutHole DEF loadAborts, Solo
  <2>10. CASE UNCHANGED vars
    <3>1. UNCHANGED <<phase, files, mem, current, queue, threads, writing, next, resumed>>
      BY <2>10 DEF vars, procVars
    <3>2. Alone'
      <4>1. Covered => Covered'
        BY <3>1, CoveredKept
      <4> QED BY <4>1, <2>0, <3>1, Zenon DEF Solo, Alone
    <3>3. NoneSkipped' /\ NonePassed'
      BY <2>0, <3>1, NothingMoves DEF Solo, Running
    <3> QED BY <2>0, <3>1, <3>2, <3>3 DEF Solo
  <2> QED BY <1>3, <2>1, <2>2, <2>3, <2>4, <2>5, <2>6, <2>7, <2>8, <2>9, <2>10, Zenon DEF Next
<1> QED BY <1>1, <1>3

\* What holds with one flush thread holds at first.
LEMMA SoloInit == Init => SoloInv
<1> SUFFICES ASSUME Init PROVE SoloInv
  OBVIOUS
<1>1. /\ phase = "down" /\ files = Empty /\ writing = Empty /\ threads = 0
  BY DEF Init
<1>2. DOMAIN files = {} /\ DOMAIN writing = {} /\ ~Running
  BY <1>1, EmptyFacts DEF Running
<1>3. Alone
  BY <1>1, <1>2 DEF Alone
<1> QED BY <1>1, <1>2, <1>3 DEF SoloInv, Served, Solo, NoneSkipped, NonePassed

\* What holds with one flush thread holds for ever.
LEMMA SoloInvariant == Spec => []SoloInv
<1>1. Init => SoloInv
  BY SoloInit
<1>2. StoreInv /\ SoloInv /\ [Next]_vars => SoloInv'
  BY SoloStep
<1> QED BY <1>1, <1>2, StoreInvariant, PTL DEF Spec

\* While one flush thread ran at a time, load() gets through the files whatever
\* crashes and I/O errors there were.
THEOREM LoadTheorem == Spec => []LoadsWhatOneThreadWrote
<1>1. SoloInv => LoadsWhatOneThreadWrote
  BY DEF SoloInv, Solo, LoadsWhatOneThreadWrote
<1> QED BY <1>1, SoloInvariant, PTL

\* While one flush thread ran at a time, no record below the newest stored one is
\* missing, but for rows of an event that a crash cut in two.
THEOREM SkipTheorem == Spec => []NothingSkipped
<1>1. SoloInv => NothingSkipped
  BY DEF SoloInv, Solo, NoneSkipped, accounted, NothingSkipped
<1> QED BY <1>1, SoloInvariant, PTL

=============================================================================
