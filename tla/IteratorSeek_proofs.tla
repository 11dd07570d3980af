------------------------ MODULE IteratorSeek_proofs ------------------------
(***************************************************************************)
(* What a seek finds and the uses that one by log offset leaves behind, for *)
(* every set of log offsets and keys and any number of blocks and records.  *)
(*                                                                         *)
(* A use is taken in one step and given back in another, with the writer     *)
(* rolling over, flushing and appending in between.  The proof needs where   *)
(* the search stands at every step: that a round of the binary search is on  *)
(* a block that exists, and that the search inside a solid block is on a     *)
(* record that exists, because a negative index ends the seek as "nothing    *)
(* found" without giving the block back.  The latter holds since a block     *)
(* that is not appending any more is not the last one, and only the last     *)
(* block may be empty.                                                      *)
(*                                                                         *)
(* That a seek is on the nearest record and misses no key rests on the order *)
(* of the records and on the bounds of each block, which append changes one *)
(* after the other (Recorded), on what the search inside a block has        *)
(* excluded (InBlock), and on the block that had the key when the seek      *)
(* began: it stays between the bounds of the search (Promise).              *)
(***************************************************************************)
EXTENDS IteratorSeek, SequenceTheorems, WellFoundedInduction, TLAPS

Forms == {"appending", "solid", "unloaded"}
Blk == [recs : Seq(Offsets), min : Nat, max : Nat, first : Nat, form : Forms]
Kinds == {"none", "checkpoint", "recordId", "timestamp"}
Steps == {"idle", "block", "open", "record", "found", "notFound", "died"}

\* The blocks: only the last may be empty, and it is the one appended to.
Blocks ==
    /\ blks \in Seq(Blk) /\ coming \in Nat /\ (coming # 0 => coming \in Offsets)
    /\ Len(blks) \in 1 .. MaxSeekBlocks
    /\ \A b \in 1 .. Len(blks) - 1 : Len(blks[b].recs) > 0
    /\ blks[Len(blks)].form = "appending"

Called == call.kind \in Kinds /\ call.key \in Nat /\ call.desc \in BOOLEAN

\* Where a seek stands.
Position ==
    /\ lo \in Int /\ hi \in Int /\ mid \in Int /\ top \in Int /\ idx \in Nat
    /\ seekPc \in Steps
    /\ seekPc = "block" =>
         /\ 1 <= lo /\ hi <= top /\ top \in 1 .. Len(blks) /\ mid \in 1 .. Len(blks)
         /\ call.kind = "checkpoint" => mid <= top
    /\ seekPc \in {"open", "record", "found"} => mid \in 1 .. Len(blks)
    /\ seekPc \in {"open", "record"} /\ solid => mid < Len(blks)
    /\ seekPc = "record" => call.kind = "checkpoint" /\ 0 <= lo /\ (solid => top >= 0)

Using(u) == [b \in 1 .. MaxSeekBlocks |-> IF b = u THEN 1 ELSE 0]

\* The uses that the seek holds at each of its steps: none between two rounds, and that
\* of the chosen block afterwards.
Holding ==
    /\ seekPc = "idle" => held = Using(0)
    /\ call.kind = "checkpoint" =>
         /\ seekPc \in {"block", "notFound"} => held = Using(0)
         /\ seekPc \in {"open", "record", "found"} => held = Using(mid)
         /\ seekPc = "found" => result.block = mid

SeekInv == Blocks /\ Called /\ Position /\ Holding

-----------------------------------------------------------------------------
(* What a step does to the blocks                                          *)

writerStep == appendMax \/ append \/ createNewBlock \/ flush
searchStep == seek \/ probeCheckpoint \/ chooseBlock \/ probeRecordId \/ noSuchId
              \/ walkTimestamp \/ load \/ loadFails \/ openCheckpoint \/ seekRecordId
              \/ seekTimestamp \/ probeRecord \/ pickRecord

\* The writer leaves the seek alone, and the seek the blocks, except that load changes
\* the form of one.
LEMMA Apart ==
    /\ SeekNext <=> writerStep \/ searchStep
    /\ writerStep => UNCHANGED <<seekPc, call, search, object, result, held, loadFailed>>
    /\ searchStep => load \/ UNCHANGED <<blks, coming>>
<1>1. SeekNext <=> writerStep \/ searchStep
  BY DEF SeekNext, writerStep, searchStep
<1>2. writerStep => UNCHANGED <<seekPc, call, search, object, result, held, loadFailed>>
  BY DEF writerStep, appendMax, append, createNewBlock, flush
<1>3. searchStep => load \/ UNCHANGED <<blks, coming>>
  BY DEF searchStep, seek, probeCheckpoint, probeCheckpointAs, chooseBlock, probeRecordId,
     noSuchId, walkTimestamp, loadFails, openCheckpoint, seekRecordId, seekTimestamp,
     probeRecord, pickRecord, pickRecordAs
<1> QED BY <1>1, <1>2, <1>3

\* Blocks are only added at the end, and an empty one never becomes the last but one.
LEMMA BlocksStep == SeekInv /\ [SeekNext]_seekVars => Blocks' /\ Len(blks') >= Len(blks)
<1> SUFFICES ASSUME SeekInv, [SeekNext]_seekVars
             PROVE  Blocks' /\ Len(blks') >= Len(blks)
  OBVIOUS
<1> USE SeekAssumption
<1>0. blks \in Seq(Blk) /\ coming \in Nat /\ Len(blks) \in 1 .. MaxSeekBlocks
      /\ (coming # 0 => coming \in Offsets)
  BY DEF SeekInv, Blocks
<1>1. CASE appendMax
  <2>1. PICK r \in Offsets : coming' = r /\ blks' = [blks EXCEPT ![last].max = r]
    BY <1>1 DEF appendMax
  <2>2. r \in Nat /\ last \in 1 .. Len(blks) /\ blks[last] \in Blk
    BY <1>0, <2>1 DEF last
  <2>3. blks' = [blks EXCEPT ![last] = [blks[last] EXCEPT !.max = r]]
    BY <2>1
  <2>4. [blks[last] EXCEPT !.max = r] \in Blk
    BY <2>2 DEF Blk
  <2>5. blks' \in Seq(Blk) /\ Len(blks') = Len(blks)
    BY <1>0, <2>2, <2>3, <2>4
  <2>6. /\ [blks[last] EXCEPT !.max = r].recs = blks[last].recs
        /\ [blks[last] EXCEPT !.max = r].form = blks[last].form
    BY <2>2 DEF Blk
  <2>7. \A b \in 1 .. Len(blks) : blks'[b].recs = blks[b].recs /\ blks'[b].form = blks[b].form
    BY <1>0, <2>2, <2>3, <2>6
  <2> QED BY <1>0, <2>1, <2>2, <2>5, <2>7 DEF SeekInv, Blocks
<1>2. CASE append
  <2> DEFINE new == [blks[last] EXCEPT !.recs = Append(@, coming),
                                       !.min = IF @ = 0 THEN coming ELSE @]
  <2>1. coming # 0 /\ coming' = 0 /\ blks' = [blks EXCEPT ![last].recs = Append(@, coming),
                                            ![last].min = IF @ = 0 THEN coming ELSE @]
    BY <1>2 DEF append
  <2>2. last \in 1 .. Len(blks) /\ blks[last] \in Blk /\ last = Len(blks)
    BY <1>0 DEF last
  <2>3. blks' = [blks EXCEPT ![last] = new]
    BY <1>0, <2>1, <2>2 DEF Blk
  <2>4. new \in Blk
    <3>1. PICK b \in Blk : b = blks[last]
      BY <2>2
    <3>2. PICK rs \in Seq(Offsets) : rs = Append(b.recs, coming)
      <4>1. PICK old \in Seq(Offsets) : old = b.recs
        BY DEF Blk
      <4>2. Append(old, coming) \in Seq(Offsets)
        BY <1>0, <2>1
      <4> QED BY <4>1, <4>2
    <3>3. PICK n \in Nat : n = IF b.min = 0 THEN coming ELSE b.min
      BY <1>0 DEF Blk
    <3>4. new = [b EXCEPT !.recs = rs, !.min = n]
      BY <3>1, <3>2, <3>3
    <3> QED BY <3>4 DEF Blk
  <2>5. blks' \in Seq(Blk) /\ Len(blks') = Len(blks)
    BY <1>0, <2>2, <2>3, <2>4
  <2>6. new.form = blks[last].form
    BY <2>2 DEF Blk
  <2>7. /\ \A b \in 1 .. Len(blks) - 1 : blks'[b] = blks[b]
        /\ blks'[last].form = blks[last].form
    BY <1>0, <2>2, <2>3, <2>6
  <2> QED BY <1>0, <2>1, <2>2, <2>5, <2>7 DEF SeekInv, Blocks
<1>3. CASE createNewBlock
  <2>1. PICK burnt \in {0, 1} : blks' = Append(blks, newBlk(lastRecordId(last) + 1 + burnt))
    BY <1>3 DEF createNewBlock
  <2>2. /\ coming' = coming /\ recordCount(last) > 0 /\ last < MaxSeekBlocks
    BY <1>3 DEF createNewBlock
  <2>3. last \in 1 .. Len(blks) /\ blks[last] \in Blk /\ last = Len(blks)
    BY <1>0 DEF last
  <2>4. PICK f \in Nat : f = lastRecordId(last) + 1 + burnt
    BY <2>2, <2>3 DEF lastRecordId, recordCount, Blk
  <2>5. newBlk(f) \in Blk /\ newBlk(f).form = "appending"
    BY DEF newBlk, Blk, Forms
  <2>6. /\ blks' \in Seq(Blk) /\ Len(blks') = Len(blks) + 1
        /\ blks'[Len(blks) + 1] = newBlk(f)
        /\ \A b \in 1 .. Len(blks) : blks'[b] = blks[b]
    BY <1>0, <2>1, <2>4, <2>5
  <2> QED BY <1>0, <2>2, <2>3, <2>5, <2>6 DEF SeekInv, Blocks, recordCount
<1>4. CASE flush \/ load
  <2>1. PICK b \in 1 .. Len(blks) - 1 : blks' = [blks EXCEPT ![b].form = "solid"]
    <3>1. CASE flush
      BY <3>1 DEF flush, last
    <3>2. CASE load
      <4>1. /\ seekPc = "open" /\ call.kind = "checkpoint" /\ object = "unloaded"
            /\ blks' = [blks EXCEPT ![mid].form = "solid"]
        BY <3>2 DEF load
      <4>2. mid \in 1 .. Len(blks) - 1
        BY <1>0, <4>1 DEF SeekInv, Position, solid
      <4> QED BY <4>1, <4>2
    <3> QED BY <1>4, <3>1, <3>2
  <2>2. coming' = coming
    BY <1>4 DEF flush, load
  <2>3. blks[b] \in Blk
    BY <1>0
  <2>4. blks' = [blks EXCEPT ![b] = [blks[b] EXCEPT !.form = "solid"]]
    BY <2>1
  <2>5. [blks[b] EXCEPT !.form = "solid"] \in Blk
    BY <2>3 DEF Blk, Forms
  <2>6. blks' \in Seq(Blk) /\ Len(blks') = Len(blks)
    BY <1>0, <2>4, <2>5
  <2>7. [blks[b] EXCEPT !.form = "solid"].recs = blks[b].recs
    BY <2>3 DEF Blk
  <2>8. /\ \A c \in 1 .. Len(blks) - 1 : blks'[c].recs = blks[c].recs
        /\ blks'[Len(blks)] = blks[Len(blks)]
    BY <1>0, <2>4, <2>7
  <2>9. /\ \A c \in 1 .. Len(blks) - 1 : Len(blks[c].recs) > 0
        /\ blks[Len(blks)].form = "appending"
    BY DEF SeekInv, Blocks
  <2> QED BY <1>0, <2>2, <2>6, <2>8, <2>9 DEF Blocks
<1>5. CASE UNCHANGED <<blks, coming>>
  BY <1>0, <1>5 DEF SeekInv, Blocks
<1>6. UNCHANGED seekVars => UNCHANGED <<blks, coming>>
  BY DEF seekVars
<1> QED BY <1>1, <1>2, <1>3, <1>4, <1>5, <1>6, Apart DEF writerStep

-----------------------------------------------------------------------------
(* What a step does to the uses                                            *)

\* Taking the use of a block when none is held, and giving back the only one.
LEMMA UseFacts ==
    ASSUME NEW b \in 1 .. MaxSeekBlocks
    PROVE  /\ [Using(0) EXCEPT ![b] = @ + 1] = Using(b)
           /\ [Using(b) EXCEPT ![b] = @ - 1] = Using(0)
<1> USE SeekAssumption
<1>1. Using(0)[b] = 0 /\ Using(b)[b] = 1
  BY DEF Using
<1>2. \A u, n : DOMAIN [Using(u) EXCEPT ![b] = n] = 1 .. MaxSeekBlocks
  BY DEF Using
<1>3. [Using(0) EXCEPT ![b] = 1] = Using(b)
  <2>1. \A x \in 1 .. MaxSeekBlocks : [Using(0) EXCEPT ![b] = 1][x] = Using(b)[x]
    BY DEF Using
  <2>2. [Using(0) EXCEPT ![b] = 1]
          = [x \in 1 .. MaxSeekBlocks |-> [Using(0) EXCEPT ![b] = 1][x]]
    BY <1>2
  <2>3. Using(b) = [x \in 1 .. MaxSeekBlocks |-> Using(b)[x]]
    BY DEF Using
  <2> QED BY <2>1, <2>2, <2>3
<1>4. [Using(b) EXCEPT ![b] = 0] = Using(0)
  <2>1. \A x \in 1 .. MaxSeekBlocks : [Using(b) EXCEPT ![b] = 0][x] = Using(0)[x]
    BY DEF Using
  <2>2. [Using(b) EXCEPT ![b] = 0]
          = [x \in 1 .. MaxSeekBlocks |-> [Using(b) EXCEPT ![b] = 0][x]]
    BY <1>2
  <2>3. Using(0) = [x \in 1 .. MaxSeekBlocks |-> Using(0)[x]]
    BY DEF Using
  <2> QED BY <2>1, <2>2, <2>3
<1> QED BY <1>1, <1>3, <1>4

\* A seek that gives up inside a block gives the block back.
LEMMA Gives ==
    ASSUME SeekInv, fails, call.kind = "checkpoint", seekPc \in {"open", "record"}
    PROVE  seekPc' = "notFound" /\ held' = Using(0)
<1>1. mid \in 1 .. MaxSeekBlocks /\ held = Using(mid)
  BY SeekAssumption DEF SeekInv, Blocks, Position, Holding
<1>2. held' = Using(0)
  BY <1>1, UseFacts DEF fails
<1> QED BY <1>2 DEF fails, ends

\* One that ends on a record keeps it.
LEMMA Keeps ==
    ASSUME SeekInv, NEW i \in Nat, finds(i), call.kind = "checkpoint",
           seekPc \in {"open", "record"}
    PROVE  /\ seekPc' = "found" /\ held' = Using(mid) /\ result'.block = mid
<1>1. held' = Using(mid)
  BY DEF SeekInv, Holding, finds
<1>2. ~(i < 0)
  OBVIOUS
<1>3. seekPc' = "found" /\ result' = [block |-> mid, index |-> i]
  BY <1>2 DEF finds, ends
<1> QED BY <1>1, <1>3

\* How a step inside a block may end the seek.
Ended ==
    \/ seekPc' = "notFound" /\ held' = Using(0)
    \/ seekPc' = "found" /\ held' = Using(mid) /\ result'.block = mid
    \/ seekPc' = "died"

\* The search in a solid block lands on a record at a place that is not negative; the
\* iterator of an appending block looks for itself.
LEMMA Lands ==
    ASSUME SeekInv, NEW i \in Int, solid => i >= 0, land(i), seekPc = "record"
    PROVE  Ended
<1>1. call.kind = "checkpoint" /\ seekPc \in {"open", "record"}
  BY DEF SeekInv, Position
<1>2. fails => Ended
  BY <1>1, Gives DEF Ended
<1>3. \A n \in Nat : finds(n) => Ended
  BY <1>1, Keeps DEF Ended
<1>4. dies => Ended
  BY DEF dies, Ended
<1>5. CASE solid
  <2>1. i \in Nat /\ finds(i)
    BY <1>5 DEF land
  <2> QED BY <2>1, <1>3
<1>6. CASE ~solid
  <2>1. PICK n \in Int : nextFrom(n)
    <3>1. (IF call.desc THEN i + 1 ELSE i - 1) \in Int
      OBVIOUS
    <3> QED BY <1>6, <3>1 DEF land
  <2>2. CASE n + 1 \in 0 .. count - 1
    BY <2>1, <2>2, <1>2, <1>3, <1>4 DEF nextFrom
  <2>3. CASE n + 1 \notin 0 .. count - 1
    BY <2>1, <2>3, <1>2, <1>4 DEF nextFrom
  <2> QED BY <2>2, <2>3
<1> QED BY <1>5, <1>6

\* A seek that has ended needs no more of the invariant.
LEMMA EndedStep ==
    ASSUME SeekInv, seekPc \in {"open", "record"}, call.kind = "checkpoint", Ended,
           UNCHANGED <<blks, call, mid, top, object>>, lo' \in Int, hi' \in Int, idx' \in Nat
    PROVE  Position' /\ Holding'
<1>1. mid \in 1 .. Len(blks) /\ mid \in Int /\ top \in Int
  BY DEF SeekInv, Position
<1>2. seekPc' \in {"notFound", "found", "died"}
  BY DEF Ended
<1>3. Position'
  BY <1>1, <1>2 DEF Position, Steps
<1>4. Holding'
  BY <1>2 DEF Ended, Holding
<1> QED BY <1>3, <1>4

-----------------------------------------------------------------------------
(* The steps of the seek                                                   *)

\* A block object that is not appending is not the last one.
LEMMA SolidEarlier ==
    ASSUME SeekInv, NEW b \in 1 .. Len(blks), blks[b].form # "appending"
    PROVE  b < Len(blks)
BY DEF SeekInv, Blocks

\* The rounds over the blocks and the choice behind them.
LEMMA BlockSteps ==
    ASSUME SeekInv, probeCheckpoint \/ chooseBlock
    PROVE  Position' /\ Holding'
<1> USE SeekAssumption
<1>0. /\ seekPc = "block" /\ call.kind = "checkpoint" /\ call' = call /\ blks' = blks
      /\ idx' = idx /\ top' = top
  BY DEF probeCheckpoint, probeCheckpointAs, chooseBlock
<1>1. /\ lo \in Int /\ hi \in Int /\ mid \in Int /\ top \in Int /\ idx \in Nat
      /\ 1 <= lo /\ hi <= top /\ top \in 1 .. Len(blks) /\ mid \in 1 .. top
      /\ held = Using(0) /\ Len(blks) \in 1 .. MaxSeekBlocks
  BY <1>0 DEF SeekInv, Blocks, Position, Holding
<1>2. \A b \in 1 .. Len(blks) : useBlock(b) = Using(b)
  <2> TAKE b \in 1 .. Len(blks)
  <2>1. b \in 1 .. MaxSeekBlocks
    BY <1>1
  <2> QED BY <1>1, <2>1, UseFacts DEF useBlock
<1>3. ASSUME NEW b \in 1 .. Len(blks), mid' = b, getBasicBlock(b), held' = useBlock(b),
             seekPc' = "open", lo' \in Int, hi' \in Int
      PROVE  Position' /\ Holding'
  <2>1. held' = Using(b)
    BY <1>2, <1>3
  <2>2. object' # "appending" => b < Len(blks)
    BY <1>3, SolidEarlier DEF getBasicBlock
  <2>3. Position'
    BY <1>0, <1>1, <1>3, <2>2 DEF Position, Steps, solid
  <2>4. Holding'
    BY <1>0, <1>3, <2>1 DEF Holding
  <2> QED BY <2>3, <2>4
<1>4. CASE probeCheckpoint
  <2> DEFINE m == (lo + hi) \div 2
             above == call.key > blks[m].max
             below == ~above /\ call.key < blks[m].min
  <2>1. /\ lo <= hi /\ mid' = m /\ getBasicBlock(m)
        /\ lo' = IF above THEN m + 1 ELSE lo
        /\ hi' = IF below THEN m - 1 ELSE hi
        /\ held' = IF above \/ below THEN held ELSE useBlock(m)
        /\ seekPc' = IF above \/ below THEN "block" ELSE "open"
    BY <1>4 DEF probeCheckpoint, probeCheckpointAs
  <2>2. PICK k \in 1 .. top : k = m
    BY <1>1, <2>1
  <2>3. lo' \in Int /\ hi' \in Int /\ 1 <= lo' /\ hi' <= top
    <3>1. lo' \in {lo, k + 1} /\ hi' \in {hi, k - 1}
      BY <2>1, <2>2
    <3> QED BY <1>1, <2>2, <3>1
  <2>4. k \in 1 .. Len(blks)
    BY <1>1
  <2>5. CASE above \/ below
    <3>1. held' = held /\ seekPc' = "block" /\ mid' = k
      BY <2>1, <2>2, <2>5
    <3>2. Position'
      BY <1>0, <1>1, <2>2, <2>3, <3>1 DEF Position, Steps
    <3>3. Holding'
      BY <1>0, <1>1, <3>1 DEF Holding
    <3> QED BY <3>2, <3>3
  <2>6. CASE ~(above \/ below)
    <3>1. held' = useBlock(k) /\ seekPc' = "open" /\ mid' = k /\ getBasicBlock(k)
      BY <2>1, <2>2, <2>6
    <3> QED BY <1>3, <2>3, <2>4, <3>1
  <2> QED BY <2>5, <2>6
<1>5. CASE chooseBlock
  <2> DEFINE m == IF lo > top THEN top ELSE IF hi < 1 THEN 1 ELSE mid
             n == IF call.desc THEN m - 1 ELSE m + 1
             atEdge == IF call.desc THEN m = 1 ELSE m = top
             Opens(b) == mid' = b /\ getBasicBlock(b) /\ held' = useBlock(b) /\ seekPc' = "open"
  <2>1. /\ lo' = lo /\ hi' = hi
        /\ \/ Opens(m)
           \/ ends(0, -1) /\ UNCHANGED <<mid, object, held>>
           \/ ~atEdge /\ Opens(n)
    BY <1>5 DEF chooseBlock
  <2>2. m \in 1 .. top
    BY <1>1
  <2>3. ~atEdge => n \in 1 .. top
    BY <1>1, <2>2
  <2>4. CASE Opens(m)
    BY <1>1, <1>3, <2>1, <2>2, <2>4
  <2>5. CASE ~atEdge /\ Opens(n)
    BY <1>1, <1>3, <2>1, <2>3, <2>5
  <2>6. CASE ends(0, -1) /\ UNCHANGED <<mid, object, held>>
    <3>1. seekPc' = "notFound" /\ held' = Using(0) /\ mid' = mid
      BY <1>1, <2>6 DEF ends
    <3>2. Position'
      BY <1>0, <1>1, <2>1, <3>1 DEF Position, Steps
    <3>3. Holding'
      BY <1>0, <3>1 DEF Holding
    <3> QED BY <3>2, <3>3
  <2> QED BY <2>1, <2>4, <2>5, <2>6
<1> QED BY <1>4, <1>5

\* Opening the block: it is loaded, given back, or its records are searched.
LEMMA OpenSteps ==
    ASSUME SeekInv, load \/ loadFails \/ openCheckpoint
    PROVE  Position' /\ Holding'
<1>0. /\ seekPc = "open" /\ call.kind = "checkpoint" /\ call' = call
      /\ mid' = mid /\ idx' = idx
  BY DEF load, loadFails, openCheckpoint, search
<1>1. /\ lo \in Int /\ hi \in Int /\ mid \in Int /\ top \in Int /\ idx \in Nat
      /\ mid \in 1 .. Len(blks) /\ held = Using(mid) /\ (solid => mid < Len(blks))
      /\ Len(blks) \in 1 .. MaxSeekBlocks
  BY <1>0 DEF SeekInv, Blocks, Position, Holding
<1>2. CASE load
  <2>1. /\ object = "unloaded" /\ UNCHANGED <<seekPc, lo, hi, top, held>>
        /\ blks' = [blks EXCEPT ![mid].form = "solid"]
    BY <1>2 DEF load, search
  <2>2. Len(blks') = Len(blks) /\ mid < Len(blks)
    BY <1>1, <2>1 DEF solid, SeekInv, Blocks
  <2>3. Position'
    BY <1>0, <1>1, <2>1, <2>2 DEF Position, Steps
  <2>4. Holding'
    BY <1>0, <1>1, <2>1 DEF Holding
  <2> QED BY <2>3, <2>4
<1>3. ASSUME fails, UNCHANGED <<blks, lo, hi, top, object>>
      PROVE  Position' /\ Holding'
  <2>1. Ended
    BY <1>0, <1>3, Gives DEF Ended
  <2> QED BY <1>0, <1>1, <1>3, <2>1, EndedStep
<1>4. CASE loadFails
  BY <1>3, <1>4 DEF loadFails, search
<1>5. CASE openCheckpoint /\ outOfRange
  BY <1>3, <1>5 DEF openCheckpoint
<1>6. CASE openCheckpoint /\ ~outOfRange
  <2>1. /\ lo' = 0 /\ hi' = count - 1 /\ top' = count - 1 /\ seekPc' = "record"
        /\ UNCHANGED <<held, blks, object>>
    BY <1>6 DEF openCheckpoint
  <2>2. count \in Nat /\ (solid => count > 0)
    <3>1. PICK b \in Blk : b = blks[mid]
      BY <1>1 DEF SeekInv, Blocks
    <3>2. Len(b.recs) \in Nat
      BY DEF Blk
    <3>3. solid => Len(blks[mid].recs) > 0
      BY <1>1 DEF SeekInv, Blocks
    <3> QED BY <3>1, <3>2, <3>3 DEF count, recordCount
  <2>3. Position'
    <3>1. PICK c \in Nat : c = count /\ (solid => c > 0)
      BY <2>2
    <3>2. lo' = 0 /\ hi' = c - 1 /\ top' = c - 1 /\ (solid' <=> solid)
      BY <2>1, <3>1 DEF solid
    <3> QED BY <1>0, <1>1, <2>1, <3>1, <3>2 DEF Position, Steps
  <2>4. Holding'
    BY <1>0, <1>1, <2>1 DEF Holding
  <2> QED BY <2>3, <2>4
<1> QED BY <1>2, <1>4, <1>5, <1>6

\* The rounds over the records and the choice behind them.
LEMMA RecordSteps ==
    ASSUME SeekInv, probeRecord \/ pickRecord
    PROVE  Position' /\ Holding'
<1>0. /\ seekPc = "record" /\ UNCHANGED <<blks, call, mid, top, object>>
  BY DEF probeRecord, pickRecord, pickRecordAs, search
<1>1. /\ lo \in Int /\ hi \in Int /\ mid \in Int /\ top \in Int /\ idx \in Nat
      /\ call.kind = "checkpoint" /\ 0 <= lo /\ (solid => top >= 0)
      /\ mid \in 1 .. Len(blks) /\ held = Using(mid) /\ (solid => mid < Len(blks))
  BY <1>0 DEF SeekInv, Position, Holding
<1>2. ASSUME Ended, lo' \in Int, hi' \in Int, idx' \in Nat
      PROVE  Position' /\ Holding'
  BY <1>0, <1>1, <1>2, EndedStep
<1>3. dies => Ended
  BY DEF dies, Ended
<1>4. fails => Ended
  BY <1>0, <1>1, Gives DEF Ended
<1>5. \A i \in Int : (solid => i >= 0) /\ land(i) => Ended
  BY <1>0, Lands
<1>6. CASE probeRecord
  <2> DEFINE m == (lo + hi) \div 2
  <2>1. PICK k \in Nat : k = m
    BY <1>1, <1>6 DEF probeRecord
  <2>2. CASE dies /\ UNCHANGED <<lo, hi, idx>>
    BY <1>1, <1>2, <1>3, <2>2
  <2>3. CASE \E o \in offsetsAt(m) :
              /\ idx' = m
              /\ lo' = IF call.key > o THEN m + 1 ELSE lo
              /\ hi' = IF call.key < o THEN m - 1 ELSE hi
              /\ IF o = call.key THEN land(m) ELSE UNCHANGED <<seekPc, result, held>>
    <3>1. PICK o \in offsetsAt(m) :
              /\ idx' = m
              /\ lo' = IF call.key > o THEN m + 1 ELSE lo
              /\ hi' = IF call.key < o THEN m - 1 ELSE hi
              /\ IF o = call.key THEN land(m) ELSE UNCHANGED <<seekPc, result, held>>
      BY <2>3
    <3>2. lo' \in {lo, k + 1} /\ hi' \in {hi, k - 1} /\ idx' = k
      BY <2>1, <3>1
    <3>3. lo' \in Int /\ 0 <= lo' /\ hi' \in Int /\ idx' \in Nat
      BY <1>1, <2>1, <3>2
    <3>4. CASE o = call.key
      <4>1. land(k)
        BY <2>1, <3>1, <3>4
      <4>2. Ended
        BY <1>5, <4>1
      <4> QED BY <1>2, <3>3, <4>2
    <3>5. CASE o # call.key
      <4>1. UNCHANGED <<seekPc, result, held>>
        BY <3>1, <3>5
      <4>2. Position'
        BY <1>0, <1>1, <3>3, <4>1 DEF Position, Steps, solid
      <4>3. Holding'
        BY <1>0, <1>1, <4>1 DEF Holding
      <4> QED BY <4>2, <4>3
    <3> QED BY <3>4, <3>5
  <2> QED BY <1>6, <2>2, <2>3 DEF probeRecord
<1>7. CASE pickRecord
  <2> DEFINE m == IF lo > top THEN top ELSE IF hi < 0 THEN 0 ELSE idx
             n == IF call.desc THEN m - 1 ELSE m + 1
             atEdge == m = IF call.desc THEN 0 ELSE top
  <2>1. /\ UNCHANGED <<lo, hi, idx>>
        /\ dies \/ fails \/ land(m) \/ (~atEdge /\ land(n))
    BY <1>7, Zenon DEF pickRecord, pickRecordAs, search
  <2>2. m \in Int /\ n \in Int /\ (solid => m >= 0) /\ (solid /\ ~atEdge => n >= 0)
    BY <1>1
  <2>3. Ended
    BY <1>3, <1>4, <1>5, <2>1, <2>2
  <2> QED BY <1>1, <1>2, <2>1, <2>3
<1> QED BY <1>6, <1>7

\* The other kinds of seek take uses that they do not give back.
LEMMA OtherSteps ==
    ASSUME SeekInv, probeRecordId \/ noSuchId \/ walkTimestamp \/ seekRecordId \/ seekTimestamp
    PROVE  Position' /\ Holding'
<1> USE SeekAssumption
<1>0. /\ lo \in Int /\ hi \in Int /\ mid \in Int /\ top \in Int /\ idx \in Nat
      /\ mid \in 1 .. Len(blks) /\ Len(blks) \in Nat
      /\ seekPc = "block" => 1 <= lo /\ hi <= top /\ top \in 1 .. Len(blks)
  BY DEF SeekInv, Blocks, Position, probeRecordId, noSuchId, walkTimestamp, seekRecordId,
     seekTimestamp
<1>1. /\ call' = call /\ call.kind # "checkpoint" /\ seekPc \in {"block", "open"}
      /\ UNCHANGED <<idx, top, blks>>
  BY DEF probeRecordId, noSuchId, walkTimestamp, seekRecordId, seekTimestamp, search
<1>2. \A b, i : ends(b, i) => seekPc' \in {"notFound", "found"}
  BY DEF ends
<1>3. CASE probeRecordId
  <2>1. PICK m \in Int : m = (lo + hi) \div 2
    BY <1>0
  <2>2. /\ seekPc = "block" /\ lo <= hi /\ mid' = m /\ getBasicBlock(m)
        /\ seekPc' = "block" \/ seekPc' = "open"
        /\ lo' \in {lo, m + 1} /\ hi' \in {hi, m - 1}
    BY <1>3, <2>1 DEF probeRecordId
  <2>3. m \in 1 .. top
    BY <1>0, <2>1, <2>2
  <2>4. object' # "appending" => m < Len(blks)
    BY <1>0, <2>2, <2>3, SolidEarlier DEF getBasicBlock
  <2>5. lo' \in Int /\ hi' \in Int /\ 1 <= lo' /\ hi' <= top
    BY <1>0, <2>2, <2>3
  <2>6. Position'
    BY <1>0, <1>1, <2>2, <2>3, <2>4, <2>5 DEF Position, Steps, solid
  <2> QED BY <1>1, <2>2, <2>6 DEF Holding
<1>4. CASE walkTimestamp
  <2>1. /\ seekPc = "block" /\ getBasicBlock(mid) /\ UNCHANGED <<lo, hi>>
        /\ \/ seekPc' = "open" /\ mid' = mid
           \/ seekPc' \in {"notFound", "found"} /\ mid' = mid
           \/ seekPc' = "block" /\ mid # Len(blks) /\ mid' = mid + 1
    BY <1>2, <1>4 DEF walkTimestamp, last
  <2>2. object' # "appending" => mid < Len(blks)
    BY <1>0, <2>1, SolidEarlier DEF getBasicBlock
  <2>3. mid' \in Int /\ mid' \in 1 .. Len(blks)
    BY <1>0, <2>1
  <2>4. Position'
    BY <1>0, <1>1, <2>1, <2>2, <2>3 DEF Position, Steps, solid
  <2> QED BY <1>1, <2>1, <2>4 DEF Holding
<1>5. CASE noSuchId \/ seekRecordId \/ seekTimestamp
  <2>1. fails \/ dies \/ (\E i : finds(i)) => seekPc' \in {"notFound", "found", "died"}
    BY <1>2 DEF fails, dies, finds
  <2>2. \A i : nextFrom(i) => seekPc' \in {"notFound", "found", "died"}
    BY <2>1 DEF nextFrom
  <2>3. seekPc' \in {"notFound", "found", "died"}
    <3>1. CASE noSuchId
      BY <1>2, <3>1 DEF noSuchId
    <3>2. CASE seekRecordId
      BY <2>1, <2>2, <3>2 DEF seekRecordId
    <3>3. CASE seekTimestamp
      BY <2>1, <3>3 DEF seekTimestamp
    <3> QED BY <1>5, <3>1, <3>2, <3>3
  <2>4. UNCHANGED <<lo, hi, mid, object>>
    BY <1>5 DEF noSuchId, seekRecordId, seekTimestamp, search
  <2>5. Position'
    BY <1>0, <1>1, <2>3, <2>4 DEF Position, Steps
  <2> QED BY <1>1, <2>3, <2>5 DEF Holding
<1> QED BY <1>3, <1>4, <1>5

-----------------------------------------------------------------------------
\* The invariant holds in an empty directory and after a restart.
LEMMA SeekInvInit == SeekInit => SeekInv
<1> SUFFICES ASSUME SeekInit PROVE SeekInv
  OBVIOUS
<1> USE SeekAssumption
<1>1. Blocks
  <2>1. CASE blks = <<newBlk(1)>>
    BY <2>1 DEF SeekInit, Blocks, newBlk, Blk, Forms
  <2>2. CASE \E rs \in RECORDS :
            /\ sorted(rs)
            /\ blks = <<[recs |-> rs, min |-> rs[1], max |-> rs[Len(rs)], first |-> 1,
                         form |-> "unloaded"],
                        newBlk(1 + Len(rs))>>
    <3>1. PICK rs \in RECORDS :
            blks = <<[recs |-> rs, min |-> rs[1], max |-> rs[Len(rs)], first |-> 1,
                      form |-> "unloaded"],
                     newBlk(1 + Len(rs))>>
      BY <2>2
    <3>2. PICK n \in 1 .. 2 : rs \in [1 .. n -> Offsets]
      BY DEF RECORDS
    <3>3. rs \in Seq(Offsets) /\ Len(rs) = n /\ rs[1] \in Nat /\ rs[n] \in Nat
      <4>1. rs \in [1 .. n -> Nat \ {0}] /\ n \in Nat
        <5>1. Offsets \subseteq Nat \ {0} /\ n \in Nat
          OBVIOUS
        <5>2. \A T : Offsets \subseteq T => rs \in [1 .. n -> T]
          BY <3>2, Zenon
        <5> QED BY <5>1, <5>2
      <4>2. rs \in Seq(Offsets)
        <5> HIDE SeekAssumption
        <5> QED BY <3>2, <4>1, SeqDef, Zenon
      <4> QED BY <3>2, <4>1, <4>2
    <3> DEFINE old == [recs |-> rs, min |-> rs[1], max |-> rs[Len(rs)], first |-> 1,
                       form |-> "unloaded"]
               new == newBlk(1 + Len(rs))
    <3>4. old \in Blk /\ new \in Blk /\ old.recs = rs /\ new.form = "appending"
      BY <3>2, <3>3 DEF newBlk, Blk, Forms
    <3>5. blks = <<old, new>>
      BY <3>1
    <3> HIDE DEF old, new
    <3>6. /\ blks \in Seq(Blk) /\ Len(blks) = 2 /\ blks[1] = old /\ blks[2] = new
      BY <3>4, <3>5
    <3> QED BY <3>2, <3>3, <3>4, <3>6 DEF SeekInit, Blocks
  <2> QED BY <2>1, <2>2 DEF SeekInit
<1>2. Position
  BY DEF SeekInit, Position, Steps, NoCall
<1>3. Holding
  BY DEF SeekInit, Holding, Using, NoCall
<1>4. Called
  BY DEF SeekInit, Called, Kinds, NoCall
<1> QED BY <1>1, <1>2, <1>3, <1>4 DEF SeekInv

\* Only seek() itself changes what is asked for.
LEMMA CallStep == SeekInv /\ [SeekNext]_seekVars => Called' /\ (seek \/ call' = call)
<1> SUFFICES ASSUME SeekInv, [SeekNext]_seekVars PROVE Called' /\ (seek \/ call' = call)
  OBVIOUS
<1>1. CASE seek
  <2>1. PICK kind \in {"checkpoint", "recordId", "timestamp"}, k \in SeekKeys, d \in BOOLEAN :
          call'.kind = kind /\ call'.key = k /\ call'.desc = d
    BY <1>1 DEF seek
  <2>2. k \in Nat
    BY SeekAssumption
  <2> QED BY <1>1, <2>1, <2>2 DEF Called, Kinds
<1>2. CASE call' = call
  BY <1>2 DEF SeekInv, Called
<1>3. seek \/ call' = call
  BY Zenon DEF SeekNext, seekVars, appendMax, append, createNewBlock, flush, probeCheckpoint,
     probeCheckpointAs, chooseBlock, probeRecordId, noSuchId, walkTimestamp, load, loadFails,
     openCheckpoint, seekRecordId, seekTimestamp, probeRecord, pickRecord, pickRecordAs
<1> QED BY <1>1, <1>2, <1>3

\* Every step keeps the invariant: the writer's since the blocks only grow, the
\* seek's by the lemmas above.
LEMMA SeekInvStep == SeekInv /\ [SeekNext]_seekVars => SeekInv'
<1> SUFFICES ASSUME SeekInv, [SeekNext]_seekVars PROVE SeekInv'
  OBVIOUS
<1>0. Called'
  BY CallStep
<1>1. Blocks' /\ Len(blks') >= Len(blks)
  BY BlocksStep
<1>2. CASE UNCHANGED <<seekPc, call, search, object, result, held, loadFailed>>
  <2>1. PICK n \in Nat : n = Len(blks')
    BY <1>1 DEF Blocks
  <2>2. Len(blks) \in Nat
    BY DEF SeekInv, Blocks
  <2>3. Position'
    BY <1>1, <1>2, <2>1, <2>2 DEF SeekInv, Position, search, solid
  <2>4. Holding'
    BY <1>2 DEF SeekInv, Holding, search
  <2> QED BY <1>0, <1>1, <2>3, <2>4 DEF SeekInv
<1>3. CASE seek
  <2>1. PICK n \in 1 .. MaxSeekBlocks : n = Len(blks)
    BY DEF SeekInv, Blocks
  <2>2. /\ seekPc = "idle" /\ seekPc' = "block" /\ lo' = 1 /\ hi' = n /\ mid' = 1 /\ top' = n
        /\ UNCHANGED <<blks, idx, held>>
    BY <1>3, <2>1 DEF seek, last
  <2>3. Position'
    BY <2>1, <2>2, SeekAssumption DEF SeekInv, Position, Steps
  <2>4. Holding'
    BY <2>2 DEF SeekInv, Holding
  <2> QED BY <1>0, <1>1, <2>3, <2>4 DEF SeekInv
<1>4. UNCHANGED seekVars => UNCHANGED <<seekPc, call, search, object, result, held, loadFailed>>
  BY DEF seekVars, search
<1> QED BY <1>0, <1>1, <1>2, <1>3, <1>4, Apart, BlockSteps, OpenSteps, RecordSteps, OtherSteps
        DEF SeekInv, searchStep

-----------------------------------------------------------------------------
\* The seek of databaseIterator by log offset (DATABASE_CHECKPOINT) gives back, with
\* unuse, every block that it passed over or failed in, and ends with one use of the
\* block it is on, however the database grows while it searches.
THEOREM UsesTheorem == SeekSpec => []UsesReturned
<1>1. SeekInv => UsesReturned
  <2> SUFFICES ASSUME SeekInv, call.kind = "checkpoint"
               PROVE  /\ seekPc = "notFound" => \A b \in DOMAIN held : held[b] = 0
                      /\ seekPc = "found" =>
                           \A b \in DOMAIN held : held[b] = IF b = result.block THEN 1 ELSE 0
    BY DEF UsesReturned
  <2>1. CASE seekPc = "notFound"
    <3>1. held = Using(0)
      BY <2>1 DEF SeekInv, Holding
    <3> QED BY <2>1, <3>1, SeekAssumption DEF Using
  <2>2. CASE seekPc = "found"
    <3>1. held = Using(mid) /\ result.block = mid
      BY <2>2 DEF SeekInv, Holding
    <3> QED BY <2>2, <3>1 DEF Using
  <2> QED BY <2>1, <2>2
<1> QED BY SeekInvInit, SeekInvStep, <1>1, PTL DEF SeekSpec

-----------------------------------------------------------------------------
(* The records, and where they lie                                         *)

\* Log offsets grow from record to record and from block to block.
InOrder(B) ==
    \A b, c \in 1 .. Len(B) : \A i \in 1 .. Len(B[b].recs), j \in 1 .. Len(B[c].recs) :
        b < c \/ (b = c /\ i <= j) => B[b].recs[i] <= B[c].recs[j]

\* The record r that append is copying comes behind all others.
Coming(B, r) ==
    r # 0 =>
        /\ B[Len(B)].max = r
        /\ \A b \in 1 .. Len(B) : \A i \in 1 .. Len(B[b].recs) : B[b].recs[i] <= r

\* The bounds of a block are those of its records.
Bounded(B, r) ==
    \A b \in 1 .. Len(B) :
        /\ Len(B[b].recs) = 0 => B[b].min = 0
        /\ Len(B[b].recs) > 0 => B[b].min = B[b].recs[1]
        /\ Len(B[b].recs) > 0 /\ (b < Len(B) \/ r = 0) => B[b].max = B[b].recs[Len(B[b].recs)]

\* The identifiers of a block lie before those of the blocks behind it.
Numbered(B) ==
    \A b, c \in 1 .. Len(B) : b < c => B[b].first + Len(B[b].recs) <= B[c].first

Recorded(B, r) == InOrder(B) /\ Coming(B, r) /\ Bounded(B, r) /\ Numbered(B)

\* The search in a solid block: what is below lo is below the key, what is above hi above.
InBlock ==
    seekPc = "record" /\ solid =>
        /\ top = count - 1 /\ hi <= top /\ count > 0
        /\ lo <= hi \/ (lo = hi + 1 /\ idx \in {hi, lo})
        /\ blk.recs[1] <= call.key /\ call.key <= blk.recs[count]
        /\ lo > 0 => blk.recs[lo] < call.key
        /\ hi < top => blk.recs[hi + 2] > call.key

\* A seek by log offset that began when a solid block held the key has not lost it; one
\* by record id is on the way to the only block that has it, one by time is in the first.
Promise ==
    call.promised /\ ~loadFailed =>
        /\ seekPc = "block" =>
             \/ /\ call.kind = "checkpoint"
                /\ \E g \in lo .. hi : g < top /\ covers(g, call.kind, call.key)
                /\ \A b \in 1 .. top : blks[b].form = "appending" => b \in call.shaky
             \/ /\ call.kind = "recordId"
                /\ \E g \in lo .. hi :
                     /\ covers(g, call.kind, call.key)
                     /\ blks[g].form = "appending" => ~call.desc
             \/ /\ call.kind = "timestamp" /\ mid = 1 /\ covers(1, call.kind, call.key)
                /\ blks[1].form # "unloaded" /\ (blks[1].form = "appending" => ~call.desc)
        /\ seekPc \in {"open", "record"} =>
             /\ covers(mid, call.kind, call.key)
             /\ call.kind = "checkpoint" => (object = "appending" => mid \in call.shaky)
             /\ call.kind # "checkpoint" => (object = "appending" => ~call.desc)
             /\ call.kind = "timestamp" => object # "unloaded"

FoundInv == Recorded(blks, coming) /\ InBlock /\ Promise /\ SeekNearest /\ SeekMissesNone

\* What a step may do to the blocks: those behind which another one follows keep their
\* records, the last one may get one more, and none becomes appending again.
Grown(A, B) ==
    /\ Len(B) >= Len(A)
    /\ \A b \in 1 .. Len(A) :
         /\ B[b].first = A[b].first
         /\ Len(B[b].recs) >= Len(A[b].recs)
         /\ \A i \in 1 .. Len(A[b].recs) : B[b].recs[i] = A[b].recs[i]
         /\ B[b].form = A[b].form \/ B[b].form = "solid"
         /\ b < Len(A) => B[b].recs = A[b].recs

\* The types of the parts of a block.
LEMMA BlkFacts ==
    ASSUME NEW A \in Seq(Blk), NEW b \in 1 .. Len(A)
    PROVE  /\ A[b].recs \in Seq(Offsets) /\ Len(A[b].recs) \in Nat
           /\ \A i \in 1 .. Len(A[b].recs) : A[b].recs[i] \in Nat \ {0} /\ A[b].recs[i] \in Offsets
           /\ A[b].min \in Nat /\ A[b].max \in Nat /\ A[b].first \in Nat
<1>1. PICK k \in Blk : k = A[b]
  OBVIOUS
<1>2. k.recs \in Seq(Offsets) /\ k.min \in Nat /\ k.max \in Nat /\ k.first \in Nat
  BY DEF Blk
<1>3. PICK rs \in Seq(Offsets) : rs = k.recs
  BY <1>2
<1>4. Len(rs) \in Nat /\ \A i \in 1 .. Len(rs) : rs[i] \in Offsets /\ rs[i] \in Nat \ {0}
  BY SeekAssumption
<1> QED BY <1>1, <1>2, <1>3, <1>4

\* m_maxLogOffset of the newest block with records is the greatest log offset.
LEMMA Newest ==
    ASSUME SeekInv, Recorded(blks, coming), coming = 0,
           NEW b \in 1 .. Len(blks), NEW i \in 1 .. Len(blks[b].recs)
    PROVE  blks[b].recs[i] <= newest
<1> DEFINE n == Len(blks)
<1>0. blks \in Seq(Blk) /\ n \in Nat \ {0}
  BY SeekAssumption DEF SeekInv, Blocks
<1>1. ASSUME NEW c \in 1 .. n, c >= b, Len(blks[c].recs) > 0
      PROVE  blks[b].recs[i] <= blks[c].max
  <2>1. PICK k \in Nat : k = Len(blks[c].recs)
    BY <1>0, BlkFacts
  <2>2. k \in 1 .. Len(blks[c].recs) /\ blks[c].max = blks[c].recs[k]
    BY <1>1, <2>1 DEF Recorded, Bounded
  <2>3. b < c \/ (b = c /\ i <= k)
    BY <1>0, <1>1, <2>1
  <2> QED BY <1>1, <2>2, <2>3 DEF Recorded, InOrder
<1>2. CASE Len(blks[n].recs) > 0
  BY <1>0, <1>1, <1>2 DEF newest, recordCount, last
<1>3. CASE ~(Len(blks[n].recs) > 0)
  <2>1. b \in 1 .. n - 1 /\ n > 1
    BY <1>0, <1>3, BlkFacts
  <2>2. Len(blks[n - 1].recs) > 0 /\ n - 1 \in 1 .. n /\ n - 1 >= b
    BY <1>0, <2>1 DEF SeekInv, Blocks
  <2>3. newest = blks[n - 1].max
    BY <1>3, <2>1 DEF newest, recordCount, last
  <2> QED BY <1>1, <2>2, <2>3
<1> QED BY <1>2, <1>3

\* appendMax moves the bound, and the order is kept.
LEMMA MaxKeeps ==
    ASSUME NEW A \in Seq(Blk), NEW B \in Seq(Blk), NEW n \in Nat \ {0}, Len(A) = n, Len(B) = n,
           NEW r \in Nat \ {0}, Recorded(A, 0),
           \A b \in 1 .. n : /\ B[b].recs = A[b].recs /\ B[b].min = A[b].min
                             /\ B[b].first = A[b].first /\ B[b].form = A[b].form
                             /\ b < n => B[b].max = A[b].max,
           B[n].max = r,
           \A b \in 1 .. n : \A i \in 1 .. Len(A[b].recs) : A[b].recs[i] <= r
    PROVE  Recorded(B, r) /\ Grown(A, B)
<1>1. InOrder(B)
  BY DEF Recorded, InOrder
<1>2. Coming(B, r)
  BY DEF Coming
<1>3. Bounded(B, r)
  BY DEF Recorded, Bounded
<1>4. Numbered(B)
  BY DEF Recorded, Numbered
<1>5. Grown(A, B)
  BY BlkFacts DEF Grown
<1> QED BY <1>1, <1>2, <1>3, <1>4, <1>5 DEF Recorded

\* append puts the record at the end, where everything else is smaller.
LEMMA AppendKeeps ==
    ASSUME NEW A \in Seq(Blk), NEW B \in Seq(Blk), NEW n \in Nat \ {0}, Len(A) = n, Len(B) = n,
           NEW r \in Nat \ {0}, Recorded(A, r), NEW k \in Nat, k = Len(A[n].recs),
           \A b \in 1 .. n - 1 : B[b] = A[b],
           B[n].recs = Append(A[n].recs, r), B[n].min = IF A[n].min = 0 THEN r ELSE A[n].min,
           B[n].max = A[n].max, B[n].first = A[n].first, B[n].form = A[n].form
    PROVE  Recorded(B, 0) /\ Grown(A, B)
<1>1. /\ Len(B[n].recs) = k + 1 /\ B[n].recs[k + 1] = r
      /\ \A i \in 1 .. k : B[n].recs[i] = A[n].recs[i]
  BY BlkFacts
<1>2. \A b \in 1 .. n - 1 : b \in 1 .. n /\ b # n /\ b < n
  OBVIOUS
<1> DEFINE old(b, i) == i \in 1 .. Len(A[b].recs) /\ B[b].recs[i] = A[b].recs[i]
<1>3. \A b \in 1 .. n : \A i \in 1 .. Len(B[b].recs) : (b = n /\ i = k + 1) \/ old(b, i)
  <2> SUFFICES ASSUME NEW b \in 1 .. n, NEW i \in 1 .. Len(B[b].recs), ~(b = n /\ i = k + 1)
               PROVE  old(b, i)
    OBVIOUS
  <2>1. CASE b = n
    <3>1. i \in 1 .. k
      BY <1>1, <2>1
    <3> QED BY <1>1, <2>1, <3>1
  <2>2. CASE b # n
    <3>1. B[b] = A[b]
      BY <2>2
    <3> QED BY <3>1
  <2> QED BY <2>1, <2>2
<1>4. \A b \in 1 .. n : Len(A[b].recs) \in Nat
  BY BlkFacts
<1> HIDE DEF old
<1>5. InOrder(B)
  <2> SUFFICES ASSUME NEW b \in 1 .. n, NEW c \in 1 .. n,
                      NEW i \in 1 .. Len(B[b].recs), NEW j \in 1 .. Len(B[c].recs),
                      b < c \/ (b = c /\ i <= j)
               PROVE  B[b].recs[i] <= B[c].recs[j]
    BY DEF InOrder
  <2>1. CASE c < n
    <3>1. B[c] = A[c] /\ B[b] = A[b]
      BY <2>1
    <3> QED BY <3>1 DEF Recorded, InOrder
  <2>2. CASE c = n /\ j \in 1 .. k
    <3>1. B[c].recs[j] = A[c].recs[j] /\ j \in 1 .. Len(A[c].recs)
      BY <1>1, <2>2
    <3>2. i # k + 1 \/ b # n
      BY <2>2
    <3>3. i \in 1 .. Len(A[b].recs) /\ B[b].recs[i] = A[b].recs[i]
      BY <1>3, <3>2 DEF old
    <3> QED BY <3>1, <3>3 DEF Recorded, InOrder
  <2>3. CASE c = n /\ j = k + 1
    <3>1. B[c].recs[j] = r
      BY <1>1, <2>3
    <3>2. CASE b = n /\ i = k + 1
      BY <1>1, <3>1, <3>2
    <3>3. CASE ~(b = n /\ i = k + 1)
      <4>1. i \in 1 .. Len(A[b].recs) /\ B[b].recs[i] = A[b].recs[i]
        BY <1>3, <3>3 DEF old
      <4> QED BY <3>1, <4>1 DEF Recorded, Coming
    <3> QED BY <3>2, <3>3
  <2> QED BY <1>1, <2>1, <2>2, <2>3
<1>6. Coming(B, 0)
  BY DEF Coming
<1>7. Bounded(B, 0)
  <2>1. /\ Len(B[n].recs) > 0 /\ B[n].max = B[n].recs[Len(B[n].recs)]
    BY <1>1 DEF Recorded, Coming
  <2>2. B[n].min = B[n].recs[1]
    <3>1. CASE k = 0
      BY <1>1, <3>1 DEF Recorded, Bounded
    <3>2. CASE k > 0
      <4>1. A[n].min = A[n].recs[1] /\ A[n].recs[1] \in Nat \ {0}
        BY <3>2, BlkFacts DEF Recorded, Bounded
      <4> QED BY <1>1, <3>2, <4>1
    <3> QED BY <3>1, <3>2
  <2>3. ASSUME NEW b \in 1 .. n - 1
        PROVE  /\ Len(B[b].recs) = 0 => B[b].min = 0
               /\ Len(B[b].recs) > 0 => B[b].min = B[b].recs[1]
               /\ Len(B[b].recs) > 0 => B[b].max = B[b].recs[Len(B[b].recs)]
    BY <1>2, <2>3 DEF Recorded, Bounded
  <2> QED BY <1>1, <2>1, <2>2, <2>3 DEF Bounded
<1>8. Numbered(B)
  BY <1>1, <1>2 DEF Recorded, Numbered
<1>9. Grown(A, B)
  <2> SUFFICES ASSUME NEW b \in 1 .. n
               PROVE  /\ B[b].first = A[b].first
                      /\ Len(B[b].recs) >= Len(A[b].recs)
                      /\ \A i \in 1 .. Len(A[b].recs) : B[b].recs[i] = A[b].recs[i]
                      /\ B[b].form = A[b].form
                      /\ b < n => B[b].recs = A[b].recs
    BY DEF Grown
  <2>1. CASE b = n
    <3>1. Len(B[n].recs) >= Len(A[n].recs)
      BY <1>1
    <3> QED BY <1>1, <2>1, <3>1
  <2>2. CASE b # n
    <3>1. B[b] = A[b]
      BY <2>2
    <3> QED BY <1>4, <3>1
  <2> QED BY <2>1, <2>2
<1> QED BY <1>5, <1>6, <1>7, <1>8, <1>9 DEF Recorded

\* createNewBlock adds an empty block; what was the last one is complete.
LEMMA CreateKeeps ==
    ASSUME NEW A \in Seq(Blk), NEW B \in Seq(Blk), NEW n \in Nat \ {0}, Len(A) = n,
           Len(B) = n + 1, Recorded(A, 0), \A b \in 1 .. n : B[b] = A[b],
           B[n + 1].recs = <<>>, B[n + 1].min = 0,
           B[n + 1].first >= A[n].first + Len(A[n].recs)
    PROVE  Recorded(B, 0) /\ Grown(A, B)
<1>0. \A b \in 1 .. n + 1 : b \in 1 .. n \/ b = n + 1
  OBVIOUS
<1>1. Len(B[n + 1].recs) = 0
  OBVIOUS
<1>2. \A b \in 1 .. n + 1 : (\E i \in 1 .. Len(B[b].recs) : TRUE) => b \in 1 .. n
  BY <1>0, <1>1
<1>3. InOrder(B)
  <2> SUFFICES ASSUME NEW b \in 1 .. n + 1, NEW c \in 1 .. n + 1,
                      NEW i \in 1 .. Len(B[b].recs), NEW j \in 1 .. Len(B[c].recs),
                      b < c \/ (b = c /\ i <= j)
               PROVE  B[b].recs[i] <= B[c].recs[j]
    BY DEF InOrder
  <2>1. b \in 1 .. n /\ c \in 1 .. n
    BY <1>2
  <2>2. B[b] = A[b] /\ B[c] = A[c]
    BY <2>1
  <2> QED BY <2>1, <2>2 DEF Recorded, InOrder
<1>4. Coming(B, 0)
  BY DEF Coming
<1>5. Bounded(B, 0)
  <2> SUFFICES ASSUME NEW b \in 1 .. n + 1
               PROVE  /\ Len(B[b].recs) = 0 => B[b].min = 0
                      /\ Len(B[b].recs) > 0 => B[b].min = B[b].recs[1]
                      /\ Len(B[b].recs) > 0 => B[b].max = B[b].recs[Len(B[b].recs)]
    BY DEF Bounded
  <2>1. CASE b = n + 1
    BY <1>1, <2>1
  <2>2. CASE b # n + 1
    <3>1. b \in 1 .. n /\ B[b] = A[b]
      BY <2>2
    <3> QED BY <3>1 DEF Recorded, Bounded
  <2> QED BY <2>1, <2>2
<1>6. Numbered(B)
  <2> SUFFICES ASSUME NEW b \in 1 .. n + 1, NEW c \in 1 .. n + 1, b < c
               PROVE  B[b].first + Len(B[b].recs) <= B[c].first
    BY DEF Numbered
  <2>1. b \in 1 .. n /\ B[b] = A[b]
    OBVIOUS
  <2>2. CASE c # n + 1
    <3>1. c \in 1 .. n /\ B[c] = A[c]
      BY <2>2
    <3> QED BY <2>1, <3>1 DEF Recorded, Numbered
  <2>3. CASE c = n + 1 /\ b = n
    BY <2>1, <2>3
  <2>4. CASE c = n + 1 /\ b # n
    <3>1. A[b].first + Len(A[b].recs) <= A[n].first
      BY <2>1, <2>4 DEF Recorded, Numbered
    <3>2. A[b].first \in Nat /\ Len(A[b].recs) \in Nat /\ A[n].first \in Nat
          /\ Len(A[n].recs) \in Nat
      BY <2>1, BlkFacts
    <3>3. B[n + 1].first \in Nat
      BY BlkFacts
    <3> QED BY <2>1, <2>4, <3>1, <3>2, <3>3
  <2> QED BY <2>2, <2>3, <2>4
<1>7. Grown(A, B)
  <2>1. \A b \in 1 .. n : Len(A[b].recs) \in Nat
    BY BlkFacts
  <2> QED BY <2>1 DEF Grown
<1> QED BY <1>3, <1>4, <1>5, <1>6, <1>7 DEF Recorded

\* flush and load change the form of a block and nothing else.
LEMMA FormKeeps ==
    ASSUME NEW A \in Seq(Blk), NEW B \in Seq(Blk), NEW n \in Nat \ {0}, Len(A) = n, Len(B) = n,
           NEW r \in Nat, Recorded(A, r),
           \A b \in 1 .. n : /\ B[b].recs = A[b].recs /\ B[b].min = A[b].min
                             /\ B[b].max = A[b].max /\ B[b].first = A[b].first
                             /\ B[b].form = A[b].form \/ B[b].form = "solid"
    PROVE  Recorded(B, r) /\ Grown(A, B)
<1>1. InOrder(B)
  BY DEF Recorded, InOrder
<1>2. Coming(B, r)
  BY DEF Recorded, Coming
<1>3. Bounded(B, r)
  BY DEF Recorded, Bounded
<1>4. Numbered(B)
  BY DEF Recorded, Numbered
<1>5. Grown(A, B)
  BY BlkFacts DEF Grown
<1> QED BY <1>1, <1>2, <1>3, <1>4, <1>5 DEF Recorded

\* Whatever the writer does, the records stay in order and the blocks only grow.
LEMMA RecordedStep ==
    ASSUME SeekInv, Recorded(blks, coming), [SeekNext]_seekVars
    PROVE  Recorded(blks', coming') /\ Grown(blks, blks')
<1> USE SeekAssumption
<1>0. /\ blks \in Seq(Blk) /\ coming \in Nat /\ Len(blks) \in 1 .. MaxSeekBlocks
      /\ Len(blks) \in Nat \ {0}
  BY DEF SeekInv, Blocks
<1>1. PICK B \in Seq(Blk) : B = blks'
  BY BlocksStep DEF Blocks
<1>2. PICK n \in Nat \ {0} : n = Len(blks)
  BY <1>0
<1>3. last = n /\ blks[n] \in Blk
  BY <1>0, <1>2 DEF last
<1>4. CASE appendMax
  <2>1. PICK r \in Offsets : /\ coming = 0 /\ r >= newest /\ coming' = r
                             /\ B = [blks EXCEPT ![n].max = r]
    BY <1>1, <1>3, <1>4 DEF appendMax
  <2>2. r \in Nat \ {0} /\ Len(B) = n
    BY <1>0, <1>2, <2>1
  <2>3. B[n] = [blks[n] EXCEPT !.max = r] /\ \A b \in 1 .. n : b # n => B[b] = blks[b]
    <3>1. B = [blks EXCEPT ![n] = [blks[n] EXCEPT !.max = r]]
      BY <2>1
    <3>2. DOMAIN blks = 1 .. n
      BY <1>0, <1>2
    <3> QED BY <3>1, <3>2
  <2>4. /\ B[n].max = r /\ B[n].recs = blks[n].recs /\ B[n].min = blks[n].min
        /\ B[n].first = blks[n].first /\ B[n].form = blks[n].form
    BY <1>3, <2>3 DEF Blk
  <2>5. \A b \in 1 .. n : /\ B[b].recs = blks[b].recs /\ B[b].min = blks[b].min
                          /\ B[b].first = blks[b].first /\ B[b].form = blks[b].form
                          /\ (b < n => B[b].max = blks[b].max)
    <3> TAKE b \in 1 .. n
    <3>1. CASE b = n
      BY <2>4, <3>1
    <3>2. CASE b # n
      BY <2>3, <3>2
    <3> QED BY <3>1, <3>2
  <2>6. newest \in Nat
    <3>1. \A b \in 1 .. n : blks[b].max \in Nat
      BY <1>0, <1>2, BlkFacts
    <3>2. n \in 1 .. n /\ (n > 1 => n - 1 \in 1 .. n)
      OBVIOUS
    <3> QED BY <1>3, <3>1, <3>2 DEF newest
  <2>7. ASSUME NEW b \in 1 .. n, NEW i \in 1 .. Len(blks[b].recs)
        PROVE  blks[b].recs[i] <= r
    <3>1. blks[b].recs[i] <= newest
      BY <1>2, <2>1, Newest
    <3>2. blks[b].recs[i] \in Nat
      BY <1>0, <1>2, BlkFacts
    <3> QED BY <2>1, <2>2, <2>6, <3>1, <3>2
  <2>8. Recorded(blks, 0)
    BY <2>1
  <2>9. Recorded(B, r) /\ Grown(blks, B)
    BY <1>0, <1>2, <2>2, <2>4, <2>5, <2>7, <2>8, MaxKeeps
  <2> QED BY <1>1, <2>1, <2>9
<1>5. CASE append
  <2>1. /\ coming # 0 /\ coming' = 0
        /\ B = [blks EXCEPT ![n].recs = Append(@, coming),
                            ![n].min = IF @ = 0 THEN coming ELSE @]
    BY <1>1, <1>3, <1>5 DEF append
  <2> DEFINE new == [blks[n] EXCEPT !.recs = Append(@, coming),
                                    !.min = IF @ = 0 THEN coming ELSE @]
  <2>2. B = [blks EXCEPT ![n] = new]
    BY <1>0, <1>2, <1>3, <2>1 DEF Blk
  <2>3. new.recs = Append(blks[n].recs, coming)
        /\ new.min = (IF blks[n].min = 0 THEN coming ELSE blks[n].min)
        /\ new.max = blks[n].max /\ new.first = blks[n].first /\ new.form = blks[n].form
    BY <1>3 DEF Blk
  <2> HIDE DEF new
  <2>4. Len(B) = n /\ B[n] = new /\ \A b \in 1 .. n - 1 : B[b] = blks[b]
    BY <1>0, <1>2, <2>2
  <2>5. PICK k \in Nat : k = Len(blks[n].recs)
    BY <1>0, <1>2, BlkFacts
  <2>6. Recorded(B, 0) /\ Grown(blks, B)
    <3>1. PICK c \in Nat \ {0} : c = coming
      BY <1>0, <2>1
    <3>2. /\ B[n].recs = Append(blks[n].recs, c)
          /\ B[n].min = (IF blks[n].min = 0 THEN c ELSE blks[n].min)
          /\ B[n].max = blks[n].max /\ B[n].first = blks[n].first
          /\ B[n].form = blks[n].form
      BY <2>3, <2>4, <3>1
    <3>3. Recorded(blks, c) /\ Len(blks) = n
      BY <1>2, <3>1
    <3> QED BY <1>0, <2>4, <2>5, <3>2, <3>3, AppendKeeps
  <2> QED BY <1>1, <2>1, <2>6
<1>6. CASE createNewBlock
  <2>1. PICK burnt \in {0, 1} : B = Append(blks, newBlk(lastRecordId(last) + 1 + burnt))
    BY <1>1, <1>6 DEF createNewBlock
  <2>2. coming = 0 /\ coming' = 0
    BY <1>6 DEF createNewBlock
  <2>3. blks[n].first \in Nat /\ Len(blks[n].recs) \in Nat
    BY <1>0, <1>2, BlkFacts
  <2>4. PICK f \in Nat : f = lastRecordId(last) + 1 + burnt
    BY <1>3, <2>3 DEF lastRecordId, recordCount
  <2>5. f >= blks[n].first + Len(blks[n].recs)
    BY <1>3, <2>1, <2>3, <2>4 DEF lastRecordId, recordCount
  <2>6. newBlk(f).recs = <<>> /\ newBlk(f).min = 0 /\ newBlk(f).first = f
    BY DEF newBlk
  <2>7. Len(B) = n + 1 /\ B[n + 1] = newBlk(f) /\ \A b \in 1 .. n : B[b] = blks[b]
    BY <1>0, <1>2, <2>1, <2>4
  <2> QED BY <1>0, <1>1, <1>2, <2>2, <2>5, <2>6, <2>7, CreateKeeps
<1>7. CASE flush \/ load
  <2>1. PICK b \in 1 .. n : B = [blks EXCEPT ![b].form = "solid"]
    <3>1. CASE flush
      <4>1. PICK b \in 1 .. n - 1 : B = [blks EXCEPT ![b].form = "solid"]
        BY <1>1, <1>3, <3>1 DEF flush
      <4>2. b \in 1 .. n
        OBVIOUS
      <4> QED BY <4>1, <4>2
    <3>2. CASE load
      BY <1>1, <1>2, <3>2 DEF load, SeekInv, Position
    <3> QED BY <1>7, <3>1, <3>2
  <2>2. coming' = coming
    BY <1>7 DEF flush, load
  <2>3. blks[b] \in Blk /\ Len(B) = n
    BY <1>0, <1>2, <2>1
  <2>4. B[b] = [blks[b] EXCEPT !.form = "solid"] /\ \A c \in 1 .. n : c # b => B[c] = blks[c]
    BY <1>0, <1>2, <2>1
  <2>5. /\ B[b].max = blks[b].max /\ B[b].recs = blks[b].recs /\ B[b].min = blks[b].min
        /\ B[b].first = blks[b].first /\ B[b].form = "solid"
    BY <2>3, <2>4 DEF Blk
  <2>6. \A c \in 1 .. n : /\ B[c].recs = blks[c].recs /\ B[c].min = blks[c].min
                          /\ B[c].max = blks[c].max /\ B[c].first = blks[c].first
                          /\ B[c].form = blks[c].form \/ B[c].form = "solid"
    BY <2>4, <2>5
  <2> QED BY <1>0, <1>1, <1>2, <2>2, <2>3, <2>6, FormKeeps
<1>8. CASE UNCHANGED <<blks, coming>>
  BY <1>0, <1>8, FormKeeps
<1>9. UNCHANGED seekVars => UNCHANGED <<blks, coming>>
  BY DEF seekVars
<1> QED BY <1>4, <1>5, <1>6, <1>7, <1>8, <1>9, Apart DEF writerStep

\* The records of a restart are in order, those of an empty directory too.
LEMMA RecordedInit == SeekInit => Recorded(blks, coming)
<1> SUFFICES ASSUME SeekInit PROVE Recorded(blks, 0)
  BY DEF SeekInit
<1> USE SeekAssumption
<1>0. blks \in Seq(Blk)
  BY SeekInvInit DEF SeekInv, Blocks
<1>1. CASE blks = <<newBlk(1)>>
  <2>1. Len(blks) = 1 /\ blks[1] = newBlk(1)
    BY <1>1
  <2>2. blks[1].recs = <<>> /\ blks[1].min = 0
    BY <2>1 DEF newBlk
  <2>3. Len(blks[1].recs) = 0
    BY <2>2
  <2> QED BY <2>1, <2>2, <2>3 DEF Recorded, InOrder, Coming, Bounded, Numbered
<1>2. CASE \E rs \in RECORDS :
            /\ sorted(rs)
            /\ blks = <<[recs |-> rs, min |-> rs[1], max |-> rs[Len(rs)], first |-> 1,
                         form |-> "unloaded"],
                        newBlk(1 + Len(rs))>>
  <2>1. PICK rs \in RECORDS :
            /\ sorted(rs)
            /\ blks = <<[recs |-> rs, min |-> rs[1], max |-> rs[Len(rs)], first |-> 1,
                         form |-> "unloaded"],
                        newBlk(1 + Len(rs))>>
    BY <1>2
  <2>2. PICK n \in 1 .. 2 : rs \in [1 .. n -> Offsets]
    BY DEF RECORDS
  <2>3. Len(blks) = 2 /\ blks[2] = newBlk(1 + Len(rs))
        /\ blks[1] = [recs |-> rs, min |-> rs[1], max |-> rs[Len(rs)], first |-> 1,
                      form |-> "unloaded"]
    BY <2>1
  <2>4. /\ blks[1].recs = rs /\ blks[1].min = rs[1] /\ blks[1].max = rs[Len(rs)]
        /\ blks[1].first = 1
    BY <2>3
  <2>5. blks[2].recs = <<>> /\ blks[2].min = 0 /\ blks[2].first = 1 + Len(rs)
    BY <2>3 DEF newBlk
  <2>6. Len(blks[2].recs) = 0
    BY <2>5
  <2>7. \A i, j \in 1 .. Len(rs) : rs[i] \in Nat /\ (i <= j => rs[i] <= rs[j])
    <3>1. 1 \in 1 .. Len(blks)
      BY <2>3
    <3>2. \A i \in 1 .. Len(rs) : rs[i] \in Nat
      BY <1>0, <2>4, <3>1, BlkFacts
    <3>3. DOMAIN rs = 1 .. Len(rs)
      <4>1. rs \in Seq(Offsets)
        BY <1>0, <2>4, <3>1, BlkFacts
      <4> QED BY <4>1
    <3> QED BY <2>1, <3>2, <3>3 DEF sorted
  <2>8. \A b \in 1 .. 2 : b = 1 \/ b = 2
    OBVIOUS
  <2>9. InOrder(blks)
    BY <2>3, <2>4, <2>6, <2>7, <2>8 DEF InOrder
  <2>10. Bounded(blks, 0)
    <3>1. Len(blks[1].recs) > 0
      <4>1. 1 \in 1 .. Len(blks) - 1
        BY <2>3
      <4> QED BY <4>1, SeekInvInit DEF SeekInv, Blocks
    <3> QED BY <2>3, <2>4, <2>5, <2>6, <2>8, <3>1 DEF Bounded
  <2>11. Numbered(blks)
    BY <2>3, <2>4, <2>5, <2>8 DEF Numbered
  <2> QED BY <2>9, <2>10, <2>11 DEF Recorded, Coming
<1> QED BY <1>1, <1>2 DEF SeekInit

\* covers, of any blocks.
Cov(B, b, kind, key) ==
    /\ Len(B[b].recs) > 0
    /\ CASE kind = "recordId" -> key \in B[b].first .. B[b].first + Len(B[b].recs) - 1
         [] kind = "timestamp" -> /\ TimeOf[B[b].recs[1]] <= key
                                  /\ ~ \A i \in 1 .. Len(B[b].recs) : TimeOf[B[b].recs[i]] < key
         [] OTHER -> key \in B[b].recs[1] .. B[b].recs[Len(B[b].recs)]

\* A block that covers a key goes on covering it, whatever is appended.
LEMMA CoversKept ==
    ASSUME NEW A \in Seq(Blk), NEW B \in Seq(Blk), Grown(A, B), InOrder(B),
           NEW b \in 1 .. Len(A), NEW kind, NEW key \in Nat, Cov(A, b, kind, key)
    PROVE  Cov(B, b, kind, key)
<1>0. Len(A[b].recs) > 0
  BY Zenon DEF Cov
<1>1. PICK k \in Nat \ {0} : k = Len(A[b].recs)
  BY <1>0, BlkFacts
<1>2. b \in 1 .. Len(B)
  BY DEF Grown
<1>3. PICK n \in Nat \ {0} : n = Len(B[b].recs) /\ n >= k
  BY <1>1, <1>2, BlkFacts DEF Grown
<1>4. A[b].first \in Nat /\ B[b].first = A[b].first
  BY BlkFacts DEF Grown
<1>5. \A i \in 1 .. k : B[b].recs[i] = A[b].recs[i] /\ B[b].recs[i] \in Nat
  <2> TAKE i \in 1 .. k
  <2>1. B[b].recs[i] = A[b].recs[i]
    BY <1>1 DEF Grown
  <2>2. A[b].recs[i] \in Nat
    BY <1>1, BlkFacts
  <2> QED BY <2>1, <2>2
<1>6. B[b].recs[k] <= B[b].recs[n] /\ B[b].recs[n] \in Nat
  <2>1. k \in 1 .. Len(B[b].recs) /\ n \in 1 .. Len(B[b].recs)
    BY <1>1, <1>3
  <2>2. B[b].recs[k] <= B[b].recs[n]
    BY <1>2, <1>3, <2>1 DEF InOrder
  <2> QED BY <1>2, <2>1, <2>2, BlkFacts
<1>7. CASE kind = "recordId"
  <2>1. key \in A[b].first .. A[b].first + k - 1
    BY <1>1, <1>7 DEF Cov
  <2>2. key \in B[b].first .. B[b].first + n - 1
    BY <1>3, <1>4, <2>1
  <2> QED BY <1>3, <1>7, <2>2 DEF Cov
<1>9. CASE kind = "timestamp"
  <2>1. /\ TimeOf[A[b].recs[1]] <= key
        /\ ~ \A i \in 1 .. k : TimeOf[A[b].recs[i]] < key
    BY <1>1, <1>9 DEF Cov
  <2>2. PICK i \in 1 .. k : ~(TimeOf[A[b].recs[i]] < key)
    BY <2>1
  <2>3. 1 \in 1 .. k /\ i \in 1 .. n
    BY <1>3
  <2>4. TimeOf[B[b].recs[1]] <= key /\ ~(TimeOf[B[b].recs[i]] < key)
    BY <1>5, <2>1, <2>2, <2>3
  <2> QED BY <1>3, <1>9, <2>3, <2>4 DEF Cov
<1>8. CASE kind \notin {"recordId", "timestamp"}
  <2>1. key \in A[b].recs[1] .. A[b].recs[k]
    BY <1>1, <1>8 DEF Cov
  <2>2. 1 \in 1 .. k /\ k \in 1 .. k
    OBVIOUS
  <2>3. key \in B[b].recs[1] .. B[b].recs[n]
    <3>1. B[b].recs[1] = A[b].recs[1] /\ B[b].recs[k] = A[b].recs[k]
      BY <1>5, <2>2
    <3>2. B[b].recs[1] \in Nat /\ B[b].recs[k] \in Nat
      BY <1>5, <2>2
    <3>3. B[b].recs[1] <= key /\ key <= B[b].recs[k]
      BY <2>1, <3>1, <3>2
    <3> QED BY <1>6, <3>2, <3>3
  <2> QED BY <1>3, <1>8, <2>3 DEF Cov
<1> QED BY <1>7, <1>8, <1>9

\* Cov is covers, before and after a step.
LEMMA CovCovers ==
    \A b, kind, key : /\ covers(b, kind, key) <=> Cov(blks, b, kind, key)
                      /\ covers(b, kind, key)' <=> Cov(blks', b, kind, key)
<1> SUFFICES ASSUME NEW b, NEW kind, NEW key
             PROVE  /\ covers(b, kind, key) <=> Cov(blks, b, kind, key)
                    /\ covers(b, kind, key)' <=> Cov(blks', b, kind, key)
  OBVIOUS
<1>1. CASE kind = "recordId"
  BY <1>1 DEF covers, Cov, recordCount, lastRecordId
<1>2. CASE kind = "timestamp"
  BY <1>2 DEF covers, Cov, recordCount, minTime, allEarlier
<1>3. CASE kind \notin {"recordId", "timestamp"}
  BY <1>3 DEF covers, Cov, recordCount
<1> QED BY <1>1, <1>2, <1>3

-----------------------------------------------------------------------------
(* The steps of the writer, and the first of the seek                      *)

\* The search and what it was promised outlive every change of the blocks.
LEMMA GrowthKeeps ==
    ASSUME SeekInv, InBlock, Promise, NEW B \in Seq(Blk), B = blks', Grown(blks, B),
           InOrder(B), UNCHANGED <<seekPc, call, lo, hi, mid, idx, top, loadFailed>>,
           object' = object \/ (seekPc = "open" /\ object' = "solid")
    PROVE  InBlock' /\ Promise'
<1> USE SeekAssumption
<1>0. /\ blks \in Seq(Blk) /\ Len(blks) \in Nat /\ call.key \in Nat /\ Called
      /\ seekPc = "block" => 1 <= lo /\ hi <= top /\ top \in 1 .. Len(blks)
      /\ seekPc \in {"open", "record"} => mid \in 1 .. Len(blks)
      /\ lo \in Int /\ hi \in Int /\ top \in Int /\ mid \in Int
  BY DEF SeekInv, Blocks, Called, Position
<1>1. \A b \in 1 .. Len(blks) : \A kind : covers(b, kind, call.key) => covers(b, kind, call.key)'
  <2> SUFFICES ASSUME NEW b \in 1 .. Len(blks), NEW kind, covers(b, kind, call.key)
               PROVE  Cov(B, b, kind, call.key)
    BY CovCovers
  <2>1. PICK key \in Nat : key = call.key
    BY <1>0
  <2>2. Cov(blks, b, kind, key)
    BY <2>1, CovCovers
  <2> QED BY <1>0, <2>1, <2>2, CoversKept
<1>2. \A b \in 1 .. Len(blks) : B[b].form = blks[b].form \/ B[b].form = "solid"
  BY DEF Grown
<1>3. InBlock'
  <2> SUFFICES ASSUME seekPc = "record", solid' PROVE InBlock'
    BY DEF InBlock
  <2>1. object' = object /\ solid
    BY DEF solid
  <2>2. mid \in 1 .. Len(blks) /\ mid < Len(blks)
    BY <1>0, <2>1 DEF SeekInv, Position
  <2>3. B[mid].recs = blks[mid].recs
    BY <1>0, <2>2 DEF Grown
  <2>4. blk'.recs = blk.recs /\ count' = count
    BY <2>3 DEF blk, count, recordCount
  <2> QED BY <2>1, <2>4 DEF InBlock
<1>4. Promise'
  <2> SUFFICES ASSUME call.promised, ~loadFailed PROVE Promise'
    BY DEF Promise
  <2>1. CASE seekPc = "block" /\ call.kind = "checkpoint"
    <3>1. PICK g \in lo .. hi : g < top /\ covers(g, call.kind, call.key)
      BY <2>1 DEF Promise
    <3>2. g \in 1 .. Len(blks)
      BY <1>0, <2>1
    <3>3. covers(g, call.kind, call.key)'
      BY <1>1, <3>1, <3>2
    <3>4. \A b \in 1 .. top : blks'[b].form = "appending" => b \in call.shaky
      <4> SUFFICES ASSUME NEW b \in 1 .. top, B[b].form = "appending" PROVE b \in call.shaky
        OBVIOUS
      <4>1. b \in 1 .. Len(blks)
        BY <1>0, <2>1
      <4>2. blks[b].form = "appending"
        BY <1>2, <4>1
      <4> QED BY <2>1, <4>2 DEF Promise
    <3> QED BY <2>1, <3>1, <3>3, <3>4 DEF Promise
  <2>2. CASE seekPc = "block" /\ call.kind = "recordId"
    <3>1. PICK g \in lo .. hi : /\ covers(g, call.kind, call.key)
                                /\ blks[g].form = "appending" => ~call.desc
      BY <2>2 DEF Promise
    <3>2. g \in 1 .. Len(blks)
      BY <1>0, <2>2
    <3>3. covers(g, call.kind, call.key)' /\ (blks'[g].form = "appending" => ~call.desc)
      BY <1>1, <1>2, <3>1, <3>2
    <3> QED BY <2>2, <3>3 DEF Promise
  <2>3. CASE seekPc = "block" /\ call.kind = "timestamp"
    <3>1. /\ mid = 1 /\ covers(1, call.kind, call.key) /\ blks[1].form # "unloaded"
          /\ (blks[1].form = "appending" => ~call.desc)
      BY <2>3 DEF Promise
    <3>2. 1 \in 1 .. Len(blks)
      BY <1>0, <2>3
    <3>3. /\ covers(1, call.kind, call.key)' /\ blks'[1].form # "unloaded"
          /\ (blks'[1].form = "appending" => ~call.desc)
      BY <1>1, <1>2, <3>1, <3>2
    <3> QED BY <2>3, <3>1, <3>3 DEF Promise
  <2>4. CASE seekPc \in {"open", "record"}
    <3>1. covers(mid, call.kind, call.key)'
      BY <1>0, <1>1, <2>4 DEF Promise
    <3> QED BY <2>4, <3>1 DEF Promise
  <2>5. CASE seekPc \notin {"block", "open", "record"}
    BY <2>5 DEF Promise
  <2>6. seekPc = "block" => call.kind \in {"checkpoint", "recordId", "timestamp"}
    BY DEF Promise
  <2> QED BY <2>1, <2>2, <2>3, <2>4, <2>5, <2>6
<1> QED BY <1>3, <1>4

\* What the seek is promised at its beginning.
LEMMA SeekPromise ==
    ASSUME SeekInv, seek
    PROVE  Promise'
<1>1. PICK kind \in {"checkpoint", "recordId", "timestamp"}, k \in SeekKeys, d \in BOOLEAN :
         LET good == {b \in 1 .. last : searchable(b, kind, d)} IN
         call' = [kind |-> kind, key |-> k, desc |-> d, shaky |-> 1 .. last \ good,
                  promised |-> \E b \in good : covers(b, kind, k)]
  BY DEF seek
<1> DEFINE good == {b \in 1 .. last : searchable(b, kind, d)}
<1>2. /\ call'.kind = kind /\ call'.key = k /\ call'.desc = d /\ call'.shaky = 1 .. last \ good
      /\ call'.promised = (\E b \in good : covers(b, kind, k))
  BY <1>1
<1>3. lo' = 1 /\ hi' = last /\ mid' = 1 /\ top' = last /\ seekPc' = "block" /\ blks' = blks
  BY DEF seek
<1>4. Len(blks) \in Nat \ {0} /\ last = Len(blks) /\ blks[last].form = "appending"
  BY SeekAssumption DEF SeekInv, Blocks, last
<1> SUFFICES ASSUME call'.promised PROVE Promise'
  BY DEF Promise
<1>5. PICK g \in 1 .. last : searchable(g, kind, d) /\ covers(g, kind, k)
  BY <1>2
<1>6. covers(g, kind, k)'
  BY <1>3, <1>5, CovCovers
<1>7. CASE kind = "checkpoint"
  <2>1. g < last
    BY <1>4, <1>5, <1>7 DEF searchable
  <2>2. \A b \in 1 .. last : blks[b].form = "appending" => b \in 1 .. last \ good
    BY <1>7 DEF searchable
  <2> QED BY <1>2, <1>3, <1>5, <1>6, <1>7, <2>1, <2>2 DEF Promise
<1>8. CASE kind = "recordId"
  <2>1. blks[g].form = "appending" => ~d
    BY <1>5 DEF searchable
  <2> QED BY <1>2, <1>3, <1>5, <1>6, <1>8, <2>1 DEF Promise
<1>9. CASE kind = "timestamp"
  <2>1. g = 1 /\ blks[1].form # "unloaded" /\ (blks[1].form = "appending" => ~d)
    BY <1>5, <1>9 DEF searchable
  <2> QED BY <1>2, <1>3, <1>6, <1>9, <2>1 DEF Promise
<1> QED BY <1>7, <1>8, <1>9

-----------------------------------------------------------------------------
(* The search for the block                                                *)

\* A block behind which another follows is bounded by its first and its last record.
LEMMA FullBounds ==
    ASSUME NEW A \in Seq(Blk), NEW r, Bounded(A, r), NEW m \in 1 .. Len(A), m < Len(A),
           Len(A[m].recs) > 0
    PROVE  /\ A[m].min = A[m].recs[1] /\ A[m].max = A[m].recs[Len(A[m].recs)]
           /\ 1 \in 1 .. Len(A[m].recs) /\ Len(A[m].recs) \in 1 .. Len(A[m].recs)
           /\ A[m].min \in Nat /\ A[m].max \in Nat
<1>1. Len(A[m].recs) \in Nat /\ A[m].min \in Nat /\ A[m].max \in Nat
  BY BlkFacts
<1> QED BY <1>1 DEF Bounded

\* Where a key lies that block g holds, seen from block m.
LEMMA OffsetRound ==
    ASSUME NEW A \in Seq(Blk), NEW r, InOrder(A), Bounded(A, r),
           \A b \in 1 .. Len(A) - 1 : Len(A[b].recs) > 0,
           NEW m \in 1 .. Len(A), m < Len(A), NEW g \in 1 .. Len(A), g < Len(A),
           NEW key \in Nat, Cov(A, g, "checkpoint", key)
    PROVE  /\ key > A[m].max => g > m
           /\ key < A[m].min => g < m
           /\ ~(key > A[m].max) /\ ~(key < A[m].min) => Cov(A, m, "checkpoint", key)
<1>0. m \in 1 .. Len(A) - 1 /\ g \in 1 .. Len(A) - 1
  OBVIOUS
<1>1. Len(A[m].recs) > 0 /\ Len(A[g].recs) > 0
  BY <1>0
<1>2. PICK a \in Nat, z \in Nat \ {0} : z = Len(A[m].recs) /\ a = A[m].recs[1]
  BY <1>1, FullBounds, BlkFacts
<1>3. PICK c \in Nat, y \in Nat \ {0} : y = Len(A[g].recs) /\ c = A[g].recs[1]
  BY <1>1, FullBounds, BlkFacts
<1>4. /\ A[m].min = a /\ A[m].max = A[m].recs[z] /\ A[m].max \in Nat
      /\ A[g].min = c /\ A[g].max = A[g].recs[y] /\ A[g].max \in Nat
  BY <1>1, <1>2, <1>3, FullBounds
<1>5. c <= key /\ key <= A[g].max
  <2>1. key \in A[g].recs[1] .. A[g].recs[y]
    BY <1>3 DEF Cov
  <2> QED BY <1>3, <1>4, <2>1
<1>6. key > A[m].max => g > m
  <2> SUFFICES ASSUME g <= m PROVE A[g].max <= A[m].max
    BY <1>4, <1>5
  <2>1. g < m \/ (g = m /\ y <= z)
    BY <1>2, <1>3
  <2>2. y \in 1 .. Len(A[g].recs) /\ z \in 1 .. Len(A[m].recs)
    BY <1>2, <1>3
  <2> QED BY <1>4, <2>1, <2>2 DEF InOrder
<1>7. key < A[m].min => g < m
  <2> SUFFICES ASSUME g >= m PROVE a <= c
    BY <1>4, <1>5
  <2>1. m < g \/ (m = g /\ 1 <= 1)
    OBVIOUS
  <2>2. 1 \in 1 .. Len(A[g].recs) /\ 1 \in 1 .. Len(A[m].recs)
    BY <1>2, <1>3
  <2> QED BY <1>2, <1>3, <2>1, <2>2 DEF InOrder
<1>8. ~(key > A[m].max) /\ ~(key < A[m].min) => Cov(A, m, "checkpoint", key)
  <2> SUFFICES ASSUME ~(key > A[m].max), ~(key < A[m].min)
               PROVE  Cov(A, m, "checkpoint", key)
    OBVIOUS
  <2>1. key \in A[m].recs[1] .. A[m].recs[z]
    BY <1>2, <1>4
  <2> QED BY <1>1, <1>2, <2>1 DEF Cov
<1> QED BY <1>6, <1>7, <1>8

\* A block that a round is above of lies before the one that holds the key, the one that
\* it is below of behind, and the last block is not looked at before them.
LEMMA ProbePromise ==
    ASSUME SeekInv, Recorded(blks, coming), Promise, probeCheckpoint
    PROVE  Promise'
<1> USE SeekAssumption
<1>0. /\ blks \in Seq(Blk) /\ Len(blks) \in Nat \ {0} /\ seekPc = "block"
      /\ call.kind = "checkpoint" /\ UNCHANGED <<blks, call, top, loadFailed>> /\ lo <= hi
      /\ lo \in Int /\ hi \in Int /\ top \in 1 .. Len(blks) /\ 1 <= lo /\ hi <= top
      /\ \A b \in 1 .. Len(blks) - 1 : Len(blks[b].recs) > 0
  BY DEF SeekInv, Blocks, Position, probeCheckpoint, probeCheckpointAs
<1>1. PICK key \in Nat : key = call.key
  BY DEF SeekInv, Called
<1> SUFFICES ASSUME call.promised, ~loadFailed PROVE Promise'
  BY <1>0 DEF Promise
<1>2. /\ \E g \in lo .. hi : g < top /\ covers(g, call.kind, call.key)
      /\ \A b \in 1 .. top : blks[b].form = "appending" => b \in call.shaky
  BY <1>0 DEF Promise
<1>3. PICK g \in lo .. hi : g < top /\ Cov(blks, g, "checkpoint", key)
  BY <1>0, <1>1, <1>2, CovCovers
<1>4. PICK m \in Int : m = (lo + hi) \div 2
  BY <1>0
<1>5. m \in 1 .. Len(blks) /\ m < top /\ m < Len(blks) /\ g \in 1 .. Len(blks) /\ g < Len(blks)
  BY <1>0, <1>3, <1>4
<1> DEFINE above == key > blks[m].max
           below == ~above /\ key < blks[m].min
<1>6. /\ mid' = m /\ getBasicBlock(m)
      /\ lo' = IF above THEN m + 1 ELSE lo
      /\ hi' = IF below THEN m - 1 ELSE hi
      /\ seekPc' = IF above \/ below THEN "block" ELSE "open"
  BY <1>1, <1>4 DEF probeCheckpoint, probeCheckpointAs
<1>7. /\ key > blks[m].max => g > m
      /\ key < blks[m].min => g < m
      /\ ~(key > blks[m].max) /\ ~(key < blks[m].min) => Cov(blks, m, "checkpoint", key)
  BY <1>0, <1>3, <1>5, OffsetRound DEF Recorded
<1>8. covers(g, call.kind, call.key)'
  BY <1>0, <1>1, <1>3, CovCovers
<1>9. CASE above \/ below
  <2>1. g \in lo' .. hi'
    BY <1>0, <1>3, <1>5, <1>6, <1>7, <1>9
  <2> QED BY <1>0, <1>2, <1>3, <1>6, <1>8, <1>9, <2>1 DEF Promise
<1>10. CASE ~(above \/ below)
  <2>1. Cov(blks, m, "checkpoint", key)
    BY <1>7, <1>10
  <2>2. covers(m, call.kind, call.key)'
    BY <1>0, <1>1, <2>1, CovCovers
  <2>3. object' = "appending" => m \in call.shaky
    <3>1. m \in 1 .. top
      BY <1>0, <1>5
    <3> QED BY <1>2, <1>6, <3>1 DEF getBasicBlock
  <2>4. seekPc' = "open" /\ mid' = m
    BY <1>6, <1>10
  <2> QED BY <1>0, <2>2, <2>3, <2>4 DEF Promise
<1> QED BY <1>9, <1>10

\* Where an identifier lies that block g has, seen from block m.
LEMMA IdRound ==
    ASSUME NEW A \in Seq(Blk), Numbered(A), NEW m \in 1 .. Len(A), NEW g \in 1 .. Len(A),
           NEW key \in Nat, Cov(A, g, "recordId", key),
           NEW z, z = A[m].first + Len(A[m].recs) - 1
    PROVE  /\ key > z => g > m
           /\ key < A[m].first => g < m
           /\ ~(key > z) /\ ~(key < A[m].first) => m = g
<1>1. PICK f \in Nat, k \in Nat : f = A[m].first /\ k = Len(A[m].recs)
  BY BlkFacts
<1>2. PICK e \in Nat, j \in Nat : e = A[g].first /\ j = Len(A[g].recs)
  BY BlkFacts
<1>3. key \in e .. e + j - 1
  BY <1>2 DEF Cov
<1>4. /\ m < g => f + k <= e
      /\ g < m => e + j <= f
  BY <1>1, <1>2 DEF Numbered
<1>5. z = f + k - 1 /\ z \in Int
  BY <1>1
<1>6. CASE m < g
  <2>1. ~(key < f) /\ key > z
    <3>1. f + k <= e
      BY <1>4, <1>6
    <3> QED BY <1>3, <1>5, <3>1
  <2> QED BY <1>1, <1>6, <2>1
<1>7. CASE g < m
  <2>1. key < f /\ ~(key > z)
    <3>1. e + j <= f
      BY <1>4, <1>7
    <3> QED BY <1>3, <1>5, <3>1
  <2> QED BY <1>1, <1>7, <2>1
<1>8. CASE m = g
  BY <1>1, <1>2, <1>3, <1>5, <1>8
<1> QED BY <1>6, <1>7, <1>8

\* The same for a seek by record id.
LEMMA ProbeIdPromise ==
    ASSUME SeekInv, Recorded(blks, coming), Promise, probeRecordId
    PROVE  Promise'
<1> USE SeekAssumption
<1>0. /\ blks \in Seq(Blk) /\ Len(blks) \in Nat \ {0} /\ seekPc = "block"
      /\ call.kind = "recordId" /\ UNCHANGED <<blks, call, top, loadFailed>> /\ lo <= hi
      /\ lo \in Int /\ hi \in Int /\ top \in 1 .. Len(blks) /\ 1 <= lo /\ hi <= top
  BY DEF SeekInv, Blocks, Position, probeRecordId
<1>1. PICK key \in Nat : key = call.key
  BY DEF SeekInv, Called
<1> SUFFICES ASSUME call.promised, ~loadFailed PROVE Promise'
  BY <1>0 DEF Promise
<1>2. PICK g \in lo .. hi : /\ covers(g, call.kind, call.key)
                            /\ blks[g].form = "appending" => ~call.desc
  BY <1>0 DEF Promise
<1>3. Cov(blks, g, "recordId", key)
  BY <1>0, <1>1, <1>2, CovCovers
<1>4. PICK m \in Int : m = (lo + hi) \div 2
  BY <1>0
<1>5. m \in 1 .. Len(blks) /\ g \in 1 .. Len(blks)
  BY <1>0, <1>4
<1> DEFINE z == blks[m].first + Len(blks[m].recs) - 1
           above == key > z
           below == ~above /\ key < blks[m].first
<1>6. /\ mid' = m /\ getBasicBlock(m)
      /\ lo' = IF above THEN m + 1 ELSE lo
      /\ hi' = IF below THEN m - 1 ELSE hi
      /\ seekPc' = IF above \/ below THEN "block" ELSE "open"
  BY <1>1, <1>4 DEF probeRecordId, lastRecordId, recordCount
<1>7. /\ key > z => g > m
      /\ key < blks[m].first => g < m
      /\ ~(key > z) /\ ~(key < blks[m].first) => m = g
  BY <1>0, <1>3, <1>5, IdRound DEF Recorded
<1>8. covers(g, call.kind, call.key)'
  BY <1>0, <1>1, <1>3, CovCovers
<1> HIDE DEF z
<1>9. CASE above \/ below
  <2>1. g \in lo' .. hi'
    BY <1>0, <1>2, <1>5, <1>6, <1>7, <1>9
  <2> QED BY <1>0, <1>2, <1>6, <1>8, <1>9, <2>1 DEF Promise
<1>10. CASE ~(above \/ below)
  <2>1. seekPc' = "open" /\ mid' = g
    BY <1>6, <1>7, <1>10
  <2>2. object' = "appending" => ~call.desc
    BY <1>2, <1>6, <1>7, <1>10 DEF getBasicBlock
  <2> QED BY <1>0, <1>8, <2>1, <2>2 DEF Promise
<1> QED BY <1>9, <1>10

\* A seek by time opens the first block at once when it covers the time.
LEMMA WalkPromise ==
    ASSUME SeekInv, Recorded(blks, coming), Promise, walkTimestamp
    PROVE  Promise' /\ (seekPc' = "notFound" => ~(call.promised /\ ~loadFailed))
<1> USE SeekAssumption
<1>0. /\ blks \in Seq(Blk) /\ Len(blks) \in Nat \ {0} /\ seekPc = "block"
      /\ call.kind = "timestamp" /\ UNCHANGED <<blks, call, loadFailed>>
  BY DEF SeekInv, Blocks, walkTimestamp
<1>1. PICK key \in Nat : key = call.key
  BY DEF SeekInv, Called
<1>2. CASE ~(call.promised /\ ~loadFailed)
  BY <1>0, <1>2 DEF Promise
<1>3. CASE call.promised /\ ~loadFailed
  <2>1. /\ mid = 1 /\ covers(1, call.kind, call.key) /\ blks[1].form # "unloaded"
        /\ (blks[1].form = "appending" => ~call.desc)
    BY <1>0, <1>3 DEF Promise
  <2>2. Cov(blks, 1, "timestamp", key)
    BY <1>0, <1>1, <2>1, CovCovers
  <2>3. 1 \in 1 .. Len(blks)
    BY <1>0
  <2>7. minTime(mid) <= call.key
    BY <1>1, <2>1, <2>2 DEF Cov, minTime, recordCount
  <2>8. seekPc' = "open" /\ mid' = 1 /\ object' = blks[1].form
    BY <2>1, <2>7 DEF walkTimestamp, getBasicBlock
  <2>9. covers(1, call.kind, call.key)'
    BY <1>0, <2>1, CovCovers
  <2> QED BY <1>0, <2>1, <2>8, <2>9 DEF Promise
<1> QED BY <1>2, <1>3

-----------------------------------------------------------------------------
(* The search in the block                                                 *)

\* What a step inside a block has to show.
After == InBlock' /\ Promise' /\ SeekNearest' /\ SeekMissesNone'

\* A seek by log offset in an appending block: whatever it reads there, the block that
\* covers the key is one that was not searchable.
LEMMA InAppending ==
    ASSUME SeekInv, Promise, call.kind = "checkpoint", seekPc \in {"open", "record"}, ~solid,
           UNCHANGED <<blks, call, mid, object, loadFailed>>, seekPc' # "block"
    PROVE  After
<1>1. ~solid' /\ (object = "appending") /\ object' = "appending"
  BY DEF solid
<1>2. InBlock' /\ SeekNearest'
  BY <1>1 DEF InBlock, SeekNearest
<1>3. call.promised /\ ~loadFailed =>
        covers(mid, call.kind, call.key)' /\ mid \in call.shaky
  BY <1>1, CovCovers DEF Promise
<1>4. Promise'
  BY <1>1, <1>3 DEF Promise
<1>5. SeekMissesNone'
  BY <1>3 DEF SeekMissesNone
<1> QED BY <1>2, <1>4, <1>5 DEF After

\* A seek that ends on record i of the block is right if that is the key, or if no record
\* lies between them.
LEMMA NearestEnd ==
    ASSUME SeekInv, NEW i \in Nat, finds(i), UNCHANGED <<blks, call, mid>>,
           NEW f, f = IF call.kind = "recordId" THEN blks[mid].first + i
                      ELSE blks[mid].recs[i + 1],
           IF call.desc THEN f <= call.key ELSE f >= call.key,
           \/ f = call.key
           \/ /\ call.kind # "recordId"
              /\ \A b \in 1 .. Len(blks) : \A j \in 1 .. Len(blks[b].recs) :
                   ~ IF call.desc THEN f < blks[b].recs[j] /\ blks[b].recs[j] <= call.key
                     ELSE call.key <= blks[b].recs[j] /\ blks[b].recs[j] < f
    PROVE  After
<1>0. blks \in Seq(Blk) /\ call.key \in Nat
  BY DEF SeekInv, Blocks, Called
<1>1. ~(i < 0)
  OBVIOUS
<1>2. seekPc' = "found" /\ result' = [block |-> mid, index |-> i]
  BY <1>1 DEF finds, ends
<1>3. InBlock' /\ Promise' /\ SeekMissesNone'
  BY <1>2 DEF InBlock, Promise, SeekMissesNone
<1> DEFINE key(b, j) == IF call.kind = "recordId" THEN blks[b].first + j
                        ELSE blks[b].recs[j + 1]
<1>4. \A b, j : keyOf(b, j)' = key(b, j)
  BY DEF keyOf
<1>5. keyOf(result.block, result.index)' = f
  BY <1>2 DEF keyOf
<1>6. last' = Len(blks) /\ \A b : recordCount(b)' = Len(blks[b].recs)
  BY DEF last, recordCount
<1>7. ASSUME NEW b \in 1 .. Len(blks), NEW j \in 0 .. Len(blks[b].recs) - 1
      PROVE  ~ IF call.desc THEN f < key(b, j) /\ key(b, j) <= call.key
               ELSE call.key <= key(b, j) /\ key(b, j) < f
  <2>1. PICK k \in Nat : k = Len(blks[b].recs)
    BY <1>0, BlkFacts
  <2>2. j \in Nat /\ j + 1 \in 1 .. Len(blks[b].recs)
    BY <2>1
  <2>3. key(b, j) \in Nat
    BY <1>0, <2>2, BlkFacts
  <2>4. CASE f = call.key
    BY <1>0, <2>3, <2>4
  <2>5. CASE f # call.key
    BY <2>2, <2>5
  <2> QED BY <2>4, <2>5
<1>8. SeekNearest'
  <2>1. /\ IF call.desc THEN f <= call.key ELSE f >= call.key
        /\ \A b \in 1 .. last' : \A j \in 0 .. recordCount(b)' - 1 :
             ~ IF call.desc THEN f < keyOf(b, j)' /\ keyOf(b, j)' <= call.key
               ELSE call.key <= keyOf(b, j)' /\ keyOf(b, j)' < f
    BY <1>4, <1>6, <1>7
  <2> QED BY <1>5, <2>1 DEF SeekNearest
<1> QED BY <1>3, <1>8 DEF After

\* The block is opened: a solid one that holds the key is searched.
LEMMA OpenFound ==
    ASSUME SeekInv, Recorded(blks, coming), Promise, openCheckpoint
    PROVE  After
<1> USE SeekAssumption
<1>0. /\ seekPc = "open" /\ call.kind = "checkpoint"
      /\ UNCHANGED <<blks, call, mid, object, loadFailed>>
      /\ seekPc' \in {"notFound", "record"}
  BY DEF openCheckpoint, fails, ends
<1>1. CASE ~solid
  BY <1>0, <1>1, InAppending
<1>2. CASE solid
  <2>1. mid \in 1 .. Len(blks) /\ mid < Len(blks) /\ blks \in Seq(Blk) /\ Len(blks) \in Nat
    BY <1>0, <1>2 DEF SeekInv, Blocks, Position
  <2>2. Len(blks[mid].recs) > 0
    BY <2>1 DEF SeekInv, Blocks
  <2>3. PICK c \in Nat \ {0} : c = count
    BY <2>1, <2>2, BlkFacts DEF count, recordCount
  <2>4. PICK a, z \in Nat : /\ a = blk.min /\ z = blk.max
                            /\ a = blk.recs[1] /\ z = blk.recs[c]
    BY <2>1, <2>2, <2>3, FullBounds DEF Recorded, blk, count, recordCount
  <2>5. PICK key \in Nat : key = call.key
    BY DEF SeekInv, Called
  <2>6. outOfRange <=> z < key \/ a > key
    BY <2>4, <2>5 DEF outOfRange
  <2>7. CASE outOfRange
    <3>1. seekPc' = "notFound"
      BY <2>7 DEF openCheckpoint, fails, ends
    <3>2. ~covers(mid, call.kind, call.key)
      <4> SUFFICES ASSUME covers(mid, call.kind, call.key) PROVE FALSE
        OBVIOUS
      <4>1. key \in a .. z
        BY <1>0, <2>3, <2>4, <2>5 DEF covers, blk, count
      <4> QED BY <2>6, <2>7, <4>1
    <3>3. ~(call.promised /\ ~loadFailed)
      BY <1>0, <3>2 DEF Promise
    <3> QED BY <1>0, <3>1, <3>3 DEF After, InBlock, Promise, SeekNearest, SeekMissesNone
  <2>8. CASE ~outOfRange
    <3>1. lo' = 0 /\ hi' = c - 1 /\ top' = c - 1 /\ seekPc' = "record"
      BY <2>3, <2>8 DEF openCheckpoint
    <3>2. count' = count /\ blk' = blk /\ (solid' <=> solid)
      BY <1>0 DEF count, blk, recordCount, solid
    <3>3. a <= key /\ key <= z
      BY <2>6, <2>8
    <3>4. InBlock'
      BY <1>0, <2>3, <2>4, <2>5, <3>1, <3>2, <3>3 DEF InBlock
    <3>5. Promise'
      BY <1>0, <3>1, CovCovers DEF Promise
    <3> QED BY <3>1, <3>4, <3>5 DEF After, SeekNearest, SeekMissesNone
  <2> QED BY <2>7, <2>8
<1> QED BY <1>1, <1>2

\* Where the search in a solid block stands, in numbers.
LEMMA InBlockFacts ==
    ASSUME SeekInv, InBlock, seekPc = "record", solid
    PROVE  /\ blks \in Seq(Blk) /\ mid \in 1 .. Len(blks) /\ call.kind = "checkpoint"
           /\ call.key \in Nat /\ lo \in Nat /\ hi \in Int /\ idx \in Nat
           /\ count \in Nat \ {0} /\ top = count - 1 /\ hi <= top
           /\ \A i \in 1 .. count : blk.recs[i] \in Nat
           /\ blk.recs = blks[mid].recs /\ count = Len(blks[mid].recs)
<1>1. /\ blks \in Seq(Blk) /\ mid \in 1 .. Len(blks) /\ call.kind = "checkpoint"
      /\ call.key \in Nat /\ lo \in Int /\ 0 <= lo /\ hi \in Int /\ idx \in Nat
  BY DEF SeekInv, Blocks, Called, Position
<1>2. count \in Nat /\ \A i \in 1 .. count : blk.recs[i] \in Nat
  BY <1>1, BlkFacts DEF count, recordCount, blk
<1>3. count > 0 /\ top = count - 1 /\ hi <= top
  BY DEF InBlock
<1>4. blk.recs = blks[mid].recs /\ count = Len(blks[mid].recs)
  BY DEF count, recordCount, blk
<1> QED BY <1>1, <1>2, <1>3, <1>4

\* A round over the records of a solid block halves the range and keeps what it shows.
LEMMA RoundFound ==
    ASSUME SeekInv, InBlock, Promise, probeRecord
    PROVE  After
<1>0. /\ seekPc = "record" /\ UNCHANGED <<blks, call, mid, top, object, loadFailed>>
      /\ lo <= hi
  BY DEF probeRecord
<1>1. CASE ~solid
  <2>1. call.kind = "checkpoint"
    BY <1>0 DEF SeekInv, Position
  <2>2. \A i : finds(i) \/ fails \/ dies => seekPc' # "block"
    BY DEF finds, fails, dies, ends
  <2>3. \A i : land(i) => seekPc' # "block"
    BY <2>2 DEF land, nextFrom
  <2>4. seekPc' # "block"
    BY <1>0, <2>2, <2>3 DEF probeRecord
  <2> QED BY <1>0, <1>1, <2>1, <2>4, InAppending
<1>2. CASE solid
  <2>0. /\ blks \in Seq(Blk) /\ mid \in 1 .. Len(blks) /\ call.kind = "checkpoint"
        /\ lo \in Nat /\ hi \in Int /\ top = count - 1 /\ hi <= top
        /\ \A i \in 1 .. count : blk.recs[i] \in Nat
        /\ blk.recs = blks[mid].recs
    BY <1>0, <1>2, InBlockFacts
  <2>1. PICK c \in Nat \ {0} : c = count
    BY <1>0, <1>2, InBlockFacts
  <2>2. PICK key \in Nat : key = call.key
    BY <1>0, <1>2, InBlockFacts
  <2>3. PICK m \in Nat : m = (lo + hi) \div 2
    BY <1>0, <2>0
  <2>4. lo <= m /\ m <= hi /\ m + 1 \in 1 .. c
    BY <1>0, <2>0, <2>1, <2>3
  <2>5. PICK o \in Nat : o = blk.recs[m + 1]
    BY <2>0, <2>1, <2>4
  <2>6. /\ idx' = m
        /\ lo' = IF key > o THEN m + 1 ELSE lo
        /\ hi' = IF key < o THEN m - 1 ELSE hi
        /\ IF o = key THEN land(m) ELSE UNCHANGED <<seekPc, result, held>>
    BY <1>2, <2>2, <2>3, <2>5 DEF probeRecord, offsetsAt, mayDie
  <2>7. CASE o = key
    <3>1. finds(m)
      BY <1>2, <2>6, <2>7 DEF land
    <3>2. /\ o = IF call.kind = "recordId" THEN blks[mid].first + m ELSE blks[mid].recs[m + 1]
          /\ IF call.desc THEN o <= call.key ELSE o >= call.key
      BY <2>0, <2>2, <2>5, <2>7
    <3> QED BY <1>0, <2>2, <2>7, <3>1, <3>2, NearestEnd
  <2>8. CASE o # key
    <3>1. seekPc' = "record"
      BY <1>0, <2>6, <2>8
    <3>2. count' = c /\ blk' = blk /\ solid' /\ top = c - 1
      BY <1>0, <1>2, <2>0, <2>1 DEF count, blk, recordCount, solid
    <3>3. /\ blk.recs[1] <= key /\ key <= blk.recs[c]
          /\ lo > 0 => blk.recs[lo] < key
          /\ hi < top => blk.recs[hi + 2] > key
      BY <1>0, <1>2, <2>1, <2>2 DEF InBlock
    <3>4. InBlock'
      <4>1. CASE key > o
        <5>1. lo' = m + 1 /\ hi' = hi
          <6>1. ~(key < o)
            BY <2>2, <2>5, <4>1
          <6> QED BY <2>6, <4>1, <6>1
        <5>2. /\ hi <= top
              /\ m + 1 <= hi \/ (m + 1 = hi + 1 /\ m \in {hi, m + 1})
          BY <2>0, <2>4
        <5> QED BY <1>0, <2>0, <2>1, <2>2, <2>5, <2>6, <3>1, <3>2, <3>3, <4>1, <5>1, <5>2
                DEF InBlock
      <4>2. CASE key < o
        <5>1. lo' = lo /\ hi' = m - 1
          BY <2>5, <2>6, <4>2
        <5>2. /\ m - 1 <= top
              /\ lo <= m - 1 \/ (lo = m - 1 + 1 /\ m \in {m - 1, lo})
          BY <2>0, <2>4, <3>2
        <5>3. m - 1 + 2 = m + 1
          OBVIOUS
        <5> QED BY <1>0, <2>0, <2>1, <2>2, <2>5, <2>6, <3>1, <3>2, <3>3, <4>2, <5>1, <5>2, <5>3
                DEF InBlock
      <4> QED BY <2>8, <4>1, <4>2
    <3>5. Promise'
      BY <1>0, <3>1, CovCovers DEF Promise
    <3> QED BY <3>1, <3>4, <3>5 DEF After, SeekNearest, SeekMissesNone
  <2> QED BY <2>7, <2>8
<1> QED BY <1>1, <1>2

\* Every record is at or before one of two neighbours, or at or behind the other.
LEMMA Between ==
    ASSUME NEW A \in Seq(Blk), InOrder(A), NEW m \in 1 .. Len(A), NEW l \in Nat \ {0},
           l + 1 \in 1 .. Len(A[m].recs), NEW b \in 1 .. Len(A), NEW i \in 1 .. Len(A[b].recs)
    PROVE  A[b].recs[i] <= A[m].recs[l] \/ A[m].recs[l + 1] <= A[b].recs[i]
<1>1. l \in 1 .. Len(A[m].recs)
  BY BlkFacts
<1>2. i \in Int
  BY BlkFacts
<1>3. CASE b < m \/ (b = m /\ i <= l)
  BY <1>1, <1>3 DEF InOrder
<1>4. CASE m < b \/ (m = b /\ l + 1 <= i)
  BY <1>4 DEF InOrder
<1> QED BY <1>2, <1>3, <1>4

\* Behind the rounds the key lies between two neighbours, and the seek takes the one in
\* its direction.
LEMMA PickFound ==
    ASSUME SeekInv, Recorded(blks, coming), InBlock, Promise, pickRecord
    PROVE  After
<1>0. /\ seekPc = "record" /\ UNCHANGED <<blks, call, mid, top, object, loadFailed>>
      /\ lo > hi
  BY DEF pickRecord, pickRecordAs, search
<1> DEFINE m == IF lo > top THEN top ELSE IF hi < 0 THEN 0 ELSE idx
           n == IF call.desc THEN m - 1 ELSE m + 1
           atEdge == m = IF call.desc THEN 0 ELSE top
           beyond(o) == IF call.desc THEN o > call.key ELSE o < call.key
<1>1. CASE ~solid
  <2>1. call.kind = "checkpoint"
    BY <1>0 DEF SeekInv, Position
  <2>2. \A i : finds(i) \/ fails \/ dies => seekPc' # "block"
    BY DEF finds, fails, dies, ends
  <2>3. \A i : land(i) => seekPc' # "block"
    BY <2>2 DEF land, nextFrom
  <2>4. dies \/ fails \/ land(m) \/ land(n)
    BY Zenon DEF pickRecord, pickRecordAs
  <2>5. seekPc' # "block"
    BY <2>2, <2>3, <2>4
  <2> QED BY <1>0, <1>1, <2>1, <2>5, InAppending
<1>2. CASE solid
  <2>0. /\ blks \in Seq(Blk) /\ mid \in 1 .. Len(blks) /\ call.kind = "checkpoint"
        /\ lo \in Nat /\ hi \in Int /\ top = count - 1 /\ hi <= top /\ idx \in Nat
        /\ \A i \in 1 .. count : blk.recs[i] \in Nat
        /\ blk.recs = blks[mid].recs /\ count = Len(blks[mid].recs)
    BY <1>0, <1>2, InBlockFacts
  <2>1. PICK c \in Nat \ {0} : c = count
    BY <1>0, <1>2, InBlockFacts
  <2>2. PICK key \in Nat : key = call.key
    BY <1>0, <1>2, InBlockFacts
  <2>3. /\ lo = hi + 1 /\ idx \in {hi, lo}
        /\ blk.recs[1] <= key /\ key <= blk.recs[c]
        /\ lo > 0 => blk.recs[lo] < key
        /\ hi < top => blk.recs[hi + 2] > key
    BY <1>0, <1>2, <2>0, <2>1, <2>2 DEF InBlock
  <2>4. lo # 0
    <3> SUFFICES ASSUME lo = 0 PROVE FALSE
      OBVIOUS
    <3>1. hi + 2 = 1 /\ hi < top /\ 1 \in 1 .. c
      BY <2>0, <2>1, <2>3
    <3>2. blk.recs[1] > key /\ blk.recs[1] <= key
      BY <2>3, <3>1
    <3> QED BY <2>0, <2>1, <3>1, <3>2
  <2>5. lo # c
    <3> SUFFICES ASSUME lo = c PROVE FALSE
      OBVIOUS
    <3>1. blk.recs[c] < key /\ key <= blk.recs[c] /\ c \in 1 .. c
      BY <2>3
    <3> QED BY <2>0, <2>1, <3>1
  <2>6. PICK l \in Nat \ {0} : l = lo /\ hi = l - 1 /\ l + 1 \in 1 .. c /\ l \in 1 .. c
    BY <2>0, <2>1, <2>3, <2>4, <2>5
  <2>7. PICK a, z \in Nat : a = blk.recs[l] /\ z = blk.recs[l + 1] /\ a < key /\ key < z
    <3>1. hi + 2 = l + 1 /\ hi < top
      BY <2>0, <2>1, <2>6
    <3> QED BY <2>0, <2>1, <2>3, <2>6, <3>1
  <2>8. m = idx /\ (idx = l - 1 \/ idx = l)
    BY <2>0, <2>1, <2>3, <2>6
  <2>9. LET o == blk.recs[m + 1] IN
        \/ ~beyond(o) /\ land(m)
        \/ beyond(o) /\ atEdge /\ fails
        \/ beyond(o) /\ ~atEdge /\ land(n)
    <3>1. offsetsAt(m) = {blk.recs[m + 1]} /\ ~mayDie(m)
      BY <1>2 DEF offsetsAt, mayDie
    <3>2. \E o \in offsetsAt(m) :
            \/ ~beyond(o) /\ land(m)
            \/ beyond(o) /\ atEdge /\ fails
            \/ beyond(o) /\ ~atEdge /\ land(n)
            \/ ~solid
            \/ mayDie(m)
      BY Zenon DEF pickRecord, pickRecordAs
    <3> HIDE DEF m, n, atEdge, beyond
    <3> QED BY <1>2, <3>1, <3>2, Zenon
  <2>10. CASE call.desc
    <3>1. land(l - 1)
      <4>1. CASE idx = l
        <5>1. m = l /\ beyond(blk.recs[m + 1]) /\ ~atEdge /\ n = l - 1
          BY <2>2, <2>7, <2>8, <2>10, <4>1
        <5> QED BY <2>9, <5>1
      <4>2. CASE idx = l - 1
        <5>1. m = l - 1 /\ m + 1 = l
          BY <2>8, <4>2
        <5>2. ~beyond(blk.recs[m + 1])
          BY <2>2, <2>7, <2>10, <5>1
        <5> QED BY <2>9, <5>1, <5>2
      <4> QED BY <2>8, <4>1, <4>2
    <3>2. finds(l - 1) /\ l - 1 \in Nat /\ l - 1 + 1 = l
      BY <1>2, <3>1 DEF land
    <3>3. a = blks[mid].recs[l - 1 + 1] /\ a <= call.key
      <4>1. a = blks[mid].recs[l - 1 + 1]
        BY <2>0, <2>7, <3>2
      <4>2. a <= key
        BY <2>7
      <4> QED BY <2>2, <4>1, <4>2
    <3>4. ASSUME NEW b \in 1 .. Len(blks), NEW j \in 1 .. Len(blks[b].recs)
          PROVE  ~(a < blks[b].recs[j] /\ blks[b].recs[j] <= call.key)
      <4>1. blks[b].recs[j] <= a \/ z <= blks[b].recs[j]
        BY <2>0, <2>1, <2>6, <2>7, Between DEF Recorded
      <4>2. PICK x \in Nat : x = blks[b].recs[j]
        BY <2>0, BlkFacts
      <4>3. a < key /\ key < z /\ (x <= a \/ z <= x)
        BY <2>7, <4>1, <4>2
      <4> QED BY <2>2, <4>2, <4>3
    <3> QED BY <1>0, <2>0, <2>10, <3>2, <3>3, <3>4, NearestEnd
  <2>11. CASE ~call.desc
    <3>1. land(l)
      <4>1. CASE idx = l
        <5>1. m = l /\ ~beyond(blk.recs[m + 1])
          BY <2>2, <2>7, <2>8, <2>11, <4>1
        <5> QED BY <2>9, <5>1
      <4>2. CASE idx = l - 1
        <5>1. m = l - 1 /\ m + 1 = l
          BY <2>8, <4>2
        <5>2. beyond(blk.recs[m + 1]) /\ ~atEdge /\ n = l
          BY <2>0, <2>1, <2>2, <2>6, <2>7, <2>11, <5>1
        <5> QED BY <2>9, <5>2
      <4> QED BY <2>8, <4>1, <4>2
    <3>2. finds(l)
      BY <1>2, <3>1 DEF land
    <3>3. z = blks[mid].recs[l + 1] /\ z >= call.key
      BY <2>0, <2>2, <2>7
    <3>4. ASSUME NEW b \in 1 .. Len(blks), NEW j \in 1 .. Len(blks[b].recs)
          PROVE  ~(call.key <= blks[b].recs[j] /\ blks[b].recs[j] < z)
      <4>1. blks[b].recs[j] <= a \/ z <= blks[b].recs[j]
        BY <2>0, <2>1, <2>6, <2>7, Between DEF Recorded
      <4>2. PICK x \in Nat : x = blks[b].recs[j]
        BY <2>0, BlkFacts
      <4>3. a < key /\ key < z /\ (x <= a \/ z <= x)
        BY <2>7, <4>1, <4>2
      <4> QED BY <2>2, <4>2, <4>3
    <3> QED BY <1>0, <2>0, <2>11, <3>2, <3>3, <3>4, NearestEnd
  <2> QED BY <2>10, <2>11
<1> QED BY <1>1, <1>2

-----------------------------------------------------------------------------
(* The seeks by record id and by time inside a block                       *)

\* A seek by record id ends on that very record, and finds it in a block that has it.
LEMMA IdFound ==
    ASSUME SeekInv, Promise, seekRecordId
    PROVE  After
<1> USE SeekAssumption
<1>0. /\ seekPc = "open" /\ call.kind = "recordId"
      /\ UNCHANGED <<blks, call, mid, object, loadFailed>>
      /\ blks \in Seq(Blk) /\ mid \in 1 .. Len(blks)
  BY DEF seekRecordId, search, SeekInv, Blocks, Position
<1>1. PICK key \in Nat, f \in Nat, c \in Nat : key = call.key /\ f = blk.first /\ c = count
  BY <1>0, BlkFacts DEF SeekInv, Called, blk, count, recordCount
<1>2. PICK i \in Int : i = key - f
  BY <1>1
<1>3. IF i \notin 0 .. c THEN fails ELSE IF solid THEN finds(i) ELSE nextFrom(i - 1)
  BY <1>1, <1>2 DEF seekRecordId
<1>4. ASSUME finds(i), i \in Nat PROVE After
  <2>1. key = blks[mid].first + i
    BY <1>1, <1>2 DEF blk
  <2> QED BY <1>0, <1>1, <1>4, <2>1, NearestEnd
<1>5. CASE i \in 0 .. c /\ solid
  BY <1>3, <1>4, <1>5
<1>6. CASE call.promised /\ ~loadFailed /\ ~(i \in 0 .. c /\ solid)
  <2>1. covers(mid, call.kind, call.key) /\ (object = "appending" => ~call.desc)
    BY <1>0, <1>6 DEF Promise
  <2>2. key \in f .. f + c - 1
    BY <1>0, <1>1, <2>1 DEF covers, lastRecordId, blk, count
  <2>3. i \in 0 .. c /\ i - 1 + 1 = i /\ i \in 0 .. c - 1 /\ i \in Nat
    BY <1>1, <1>2, <2>2
  <2>4. ~solid /\ ~call.desc
    BY <1>6, <2>1, <2>3 DEF solid
  <2>5. nextFrom(i - 1)
    BY <1>3, <2>3, <2>4
  <2>6. finds(i)
    BY <1>1, <2>3, <2>4, <2>5 DEF nextFrom
  <2> QED BY <1>4, <2>3, <2>6
<1>7. CASE ~(call.promised /\ ~loadFailed) /\ ~(i \in 0 .. c /\ solid)
  <2>1. CASE solid
    <3>1. fails
      BY <1>3, <1>7, <2>1
    <3>2. seekPc' = "notFound"
      BY <3>1 DEF fails, ends
    <3> QED BY <1>0, <1>7, <3>2 DEF After, InBlock, Promise, SeekNearest, SeekMissesNone
  <2>2. CASE ~solid
    <3>1. \A j : finds(j) \/ fails \/ dies => seekPc' \in {"found", "notFound", "died"}
      BY DEF finds, fails, dies, ends
    <3>2. \A j : nextFrom(j) => seekPc' \in {"found", "notFound", "died"}
      BY <3>1 DEF nextFrom
    <3>3. seekPc' \in {"found", "notFound", "died"}
      BY <1>3, <2>2, <3>1, <3>2
    <3>4. ~solid'
      BY <1>0, <2>2 DEF solid
    <3> QED BY <1>0, <1>7, <3>3, <3>4 DEF After, InBlock, Promise, SeekNearest, SeekMissesNone
  <2> QED BY <2>1, <2>2
<1> QED BY <1>5, <1>6, <1>7

\* A set of indexes that is not empty has a least and a greatest one.
LEMMA Extremes ==
    ASSUME NEW c \in Nat, NEW S, S \subseteq 0 .. c - 1, S # {}
    PROVE  /\ \E i \in S : \A j \in S : i <= j
           /\ \E i \in S : \A j \in S : i >= j
<1>0. \A i \in S : i \in Nat /\ i <= c /\ c - i \in Nat
  OBVIOUS
<1>1. \E i \in S : \A j \in S : i <= j
  <2>1. S \subseteq Nat
    BY <1>0
  <2>2. PICK i \in S : \A j \in S : ~(<<j, i>> \in OpToRel(<, Nat))
    BY ONLY <2>1, S # {}, NatLessThanWellFounded, WFMin
  <2>3. ASSUME NEW j \in S PROVE i <= j
    <3>1. ~(j < i)
      BY <1>0, <2>2 DEF OpToRel
    <3> QED BY <1>0, <3>1
  <2> QED BY <2>3
<1>2. \E i \in S : \A j \in S : i >= j
  <2> DEFINE T == {c - i : i \in S}
  <2>1. \A x \in T : \E i \in S : x = c - i
    BY Zenon
  <2>2. \A i \in S : c - i \in T
    BY Zenon
  <2>3. T \subseteq Nat /\ T # {}
    <3>1. PICK i : i \in S
      OBVIOUS
    <3> QED BY <3>1, <1>0, <2>1, <2>2, Zenon
  <2>4. PICK x \in T : \A y \in T : ~(<<y, x>> \in OpToRel(<, Nat))
    BY ONLY <2>3, NatLessThanWellFounded, WFMin
  <2>5. PICK i \in S : x = c - i
    BY <2>1
  <2>6. ASSUME NEW j \in S PROVE i >= j
    <3>1. c - j \in T /\ c - j \in Nat /\ x \in Nat
      BY <1>0, <2>2, <2>3
    <3>2. ~(c - j < x)
      BY <2>4, <3>1 DEF OpToRel
    <3> HIDE DEF T
    <3> QED BY <1>0, <2>5, <3>2
  <2> QED BY <2>6
<1> QED BY <1>1, <1>2

\* A seek by time finds a record in a block that covers the time.
LEMMA TimeFound ==
    ASSUME SeekInv, Promise, seekTimestamp
    PROVE  After
<1> USE SeekAssumption
<1>0. /\ seekPc = "open" /\ call.kind = "timestamp"
      /\ UNCHANGED <<blks, call, mid, object, loadFailed>>
      /\ blks \in Seq(Blk) /\ mid \in 1 .. Len(blks)
  BY DEF seekTimestamp, search, SeekInv, Blocks, Position
<1>1. PICK key \in Nat, c \in Nat : key = call.key /\ c = count
  BY <1>0, BlkFacts DEF SeekInv, Called, count, recordCount
<1>2. /\ blk.recs = blks[mid].recs /\ c = Len(blks[mid].recs)
      /\ \A i \in 1 .. c : TimeOf[blk.recs[i]] \in Nat
  <2>1. blk.recs = blks[mid].recs /\ c = Len(blks[mid].recs)
    BY <1>1 DEF blk, count, recordCount
  <2>2. \A i \in 1 .. c : blk.recs[i] \in Offsets
    BY <1>0, <2>1, BlkFacts
  <2> QED BY <2>1, <2>2
<1> DEFINE time(i) == TimeOf[blk.recs[i + 1]]
           at == {i \in 0 .. c - 1 : IF call.desc THEN time(i) <= call.key
                                     ELSE time(i) >= call.key}
           i == CHOOSE i \in at : \A j \in at : IF call.desc THEN i >= j ELSE i <= j
           out == allEarlier(mid, call.key) \/ minTime(mid) > call.key
           bad == object = "unloaded" \/ (call.desc /\ ~solid)
<1>3. IF out THEN fails ELSE IF bad THEN dies ELSE finds(i)
  BY <1>1 DEF seekTimestamp
<1>4. seekPc' \in {"found", "notFound", "died"}
  BY <1>3 DEF fails, dies, finds, ends
<1>5. InBlock' /\ Promise' /\ SeekNearest'
  BY <1>0, <1>4 DEF InBlock, Promise, SeekNearest
<1>6. call.promised /\ ~loadFailed => seekPc' = "found"
  <2> SUFFICES ASSUME call.promised, ~loadFailed PROVE seekPc' = "found"
    OBVIOUS
  <2>1. /\ covers(mid, call.kind, call.key) /\ (object = "appending" => ~call.desc)
        /\ object # "unloaded"
    BY <1>0 DEF Promise
  <2>2. Cov(blks, mid, "timestamp", key)
    BY <1>0, <1>1, <2>1, CovCovers
  <2>3. /\ c > 0 /\ TimeOf[blk.recs[1]] <= key
        /\ ~ \A n \in 1 .. c : TimeOf[blk.recs[n]] < key
    BY <1>2, <2>2 DEF Cov
  <2>4. minTime(mid) <= key /\ minTime(mid) \in Nat
    <3>1. 1 \in 1 .. c /\ recordCount(mid) = c
      BY <1>2, <2>3 DEF recordCount
    <3>2. minTime(mid) = TimeOf[blk.recs[1]]
      BY <1>2, <2>3, <3>1 DEF minTime
    <3> QED BY <1>2, <2>3, <3>1, <3>2
  <2>5. ~allEarlier(mid, call.key)
    BY <1>1, <1>2, <2>3 DEF allEarlier, recordCount
  <2>6. finds(i)
    BY <1>1, <1>3, <2>1, <2>4, <2>5 DEF solid
  <2>7. at \subseteq 0 .. c - 1 /\ at # {}
    <3>1. CASE call.desc
      <4>1. 0 + 1 = 1 /\ 0 \in 0 .. c - 1
        BY <2>3
      <4>2. 0 \in at
        BY <1>1, <2>3, <3>1, <4>1
      <4> QED BY <4>2
    <3>2. CASE ~call.desc
      <4>1. PICK n \in 1 .. c : ~(TimeOf[blk.recs[n]] < key)
        BY <2>3
      <4>2. TimeOf[blk.recs[n]] >= key
        BY <1>2, <4>1
      <4>3. n - 1 \in 0 .. c - 1 /\ (n - 1) + 1 = n
        OBVIOUS
      <4>4. n - 1 \in at
        BY <1>1, <3>2, <4>2, <4>3
      <4> QED BY <4>4
    <3> QED BY <3>1, <3>2
  <2>8. \E n \in at : \A j \in at : IF call.desc THEN n >= j ELSE n <= j
    <3> HIDE DEF at
    <3>1. CASE call.desc
      BY <2>7, <3>1, Extremes
    <3>2. CASE ~call.desc
      BY <2>7, <3>2, Extremes
    <3> QED BY <3>1, <3>2
  <2>9. i \in at
    <3> HIDE DEF at
    <3> QED BY <2>8, Zenon
  <2>10. ~(i < 0)
    <3> HIDE DEF at, i
    <3>1. i \in 0 .. c - 1
      BY <2>7, <2>9
    <3> QED BY <3>1
  <2> QED BY <2>6, <2>10 DEF finds, ends
<1>7. SeekMissesNone'
  BY <1>0, <1>6 DEF SeekMissesNone
<1> QED BY <1>5, <1>7 DEF After

-----------------------------------------------------------------------------
\* The other steps of the search: none ends a seek to which a record was promised.
LEMMA BlockFound ==
    ASSUME SeekInv, Recorded(blks, coming), Promise,
           probeCheckpoint \/ probeRecordId \/ walkTimestamp \/ chooseBlock \/ noSuchId
    PROVE  After
<1>0. /\ seekPc = "block" /\ call' = call /\ loadFailed' = loadFailed
      /\ seekPc' \in {"block", "open", "notFound"}
  BY DEF probeCheckpoint, probeCheckpointAs, probeRecordId, walkTimestamp, chooseBlock,
     noSuchId, ends
<1>1. InBlock' /\ SeekNearest'
  BY <1>0 DEF InBlock, SeekNearest
<1>2. CASE probeCheckpoint
  <2>1. seekPc' # "notFound"
    BY <1>2 DEF probeCheckpoint, probeCheckpointAs
  <2> QED BY <1>0, <1>1, <1>2, <2>1, ProbePromise DEF After, SeekMissesNone
<1>3. CASE probeRecordId
  <2>1. seekPc' # "notFound"
    BY <1>3 DEF probeRecordId
  <2> QED BY <1>0, <1>1, <1>3, <2>1, ProbeIdPromise DEF After, SeekMissesNone
<1>4. CASE walkTimestamp
  BY <1>0, <1>1, <1>4, WalkPromise DEF After, SeekMissesNone
<1>5. CASE chooseBlock \/ noSuchId
  <2>1. lo > hi /\ call.kind # "timestamp" /\ lo \in Int /\ hi \in Int
    BY <1>5 DEF chooseBlock, noSuchId, SeekInv, Position
  <2>2. ~(call.promised /\ ~loadFailed)
    BY <1>0, <2>1 DEF Promise
  <2> QED BY <1>0, <1>1, <2>2 DEF After, Promise, SeekMissesNone
<1> QED BY <1>2, <1>3, <1>4, <1>5

\* The invariant of the search holds at the beginning.
LEMMA FoundInit == SeekInit => FoundInv
<1> SUFFICES ASSUME SeekInit PROVE FoundInv
  OBVIOUS
<1>1. seekPc = "idle"
  BY DEF SeekInit
<1> QED BY <1>1, RecordedInit DEF FoundInv, InBlock, Promise, SeekNearest, SeekMissesNone

\* Every step keeps it.
LEMMA FoundStep == SeekInv /\ FoundInv /\ [SeekNext]_seekVars => FoundInv'
<1> SUFFICES ASSUME SeekInv, FoundInv, [SeekNext]_seekVars PROVE FoundInv'
  OBVIOUS
<1>0. Recorded(blks, coming) /\ InBlock /\ Promise /\ SeekNearest /\ SeekMissesNone
  BY DEF FoundInv
<1>1. Recorded(blks', coming') /\ Grown(blks, blks')
  BY <1>0, RecordedStep
<1> SUFFICES After
  BY <1>1 DEF FoundInv, After
<1>2. ASSUME UNCHANGED <<seekPc, call, search, loadFailed>>,
             object' = object \/ (seekPc = "open" /\ object' = "solid")
      PROVE  InBlock' /\ Promise'
  <2>1. PICK B \in Seq(Blk) : B = blks'
    BY BlocksStep DEF Blocks
  <2>2. Grown(blks, B) /\ InOrder(B)
    BY <1>1, <2>1 DEF Recorded
  <2>3. UNCHANGED <<seekPc, call, lo, hi, mid, idx, top, loadFailed>>
    BY <1>2 DEF search
  <2> QED BY <1>0, <1>2, <2>1, <2>2, <2>3, GrowthKeeps
<1>3. CASE writerStep
  <2>1. UNCHANGED <<seekPc, call, search, object, result, held, loadFailed>>
    BY <1>3, Apart
  <2>2. seekPc' \notin {"found", "notFound", "died"}
    BY <1>3, <2>1 DEF writerStep, appendMax, append, createNewBlock, flush, writes
  <2>3. SeekNearest' /\ SeekMissesNone'
    BY <2>2 DEF SeekNearest, SeekMissesNone
  <2> QED BY <1>2, <2>1, <2>3 DEF After
<1>4. CASE UNCHANGED seekVars
  <2>1. UNCHANGED <<seekPc, call, search, object, loadFailed, blks, result>>
    BY <1>4 DEF seekVars, search
  <2>2. SeekNearest'
    BY <1>0, <2>1 DEF SeekNearest, solid, keyOf, last, recordCount
  <2>3. SeekMissesNone'
    BY <1>0, <2>1, CovCovers DEF SeekMissesNone
  <2> QED BY <1>2, <2>1, <2>2, <2>3 DEF After
<1>5. CASE seek
  <2>1. seekPc' = "block"
    BY <1>5 DEF seek
  <2> QED BY <1>5, <2>1, SeekPromise DEF After, InBlock, SeekNearest, SeekMissesNone
<1>6. CASE load
  <2>1. seekPc' = "open" /\ seekPc = "open" /\ object' = "solid"
        /\ UNCHANGED <<seekPc, call, search, loadFailed>>
    BY <1>6 DEF load
  <2> QED BY <1>2, <2>1 DEF After, SeekNearest, SeekMissesNone
<1>7. CASE loadFails
  <2>1. seekPc' = "notFound" /\ loadFailed' = TRUE
    BY <1>7 DEF loadFails, fails, ends
  <2> QED BY <2>1 DEF After, InBlock, Promise, SeekNearest, SeekMissesNone
<1>8. CASE probeCheckpoint \/ probeRecordId \/ walkTimestamp \/ chooseBlock \/ noSuchId
  BY <1>0, <1>8, BlockFound
<1> QED BY <1>0, <1>3, <1>4, <1>5, <1>6, <1>7, <1>8, Apart, OpenFound, RoundFound, PickFound,
           IdFound, TimeFound DEF searchStep

\* A seek of databaseIterator that ends on a record of a solid block is on the record
\* nearest to the key, by log offset or record id: no other of the database, and
\* none appended while it searched, lies between the two.
THEOREM NearestTheorem == SeekSpec => []SeekNearest
<1>1. FoundInv => SeekNearest
  BY DEF FoundInv
<1> QED BY SeekInvInit, SeekInvStep, FoundInit, FoundStep, <1>1, PTL DEF SeekSpec

\* A seek for a key that lay in a searchable block when it began does not miss it,
\* whatever the writer appends, rolls over and flushes meanwhile: unless a file cannot
\* be read, or a block in which the search does not work holds the key too.
THEOREM MissesTheorem == SeekSpec => []SeekMissesNone
<1>1. FoundInv => SeekMissesNone
  BY DEF FoundInv
<1> QED BY SeekInvInit, SeekInvStep, FoundInit, FoundStep, <1>1, PTL DEF SeekSpec
=============================================================================
