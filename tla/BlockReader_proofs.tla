------------------------- MODULE BlockReader_proofs -------------------------
(***************************************************************************)
(* A reader that follows a growing chain of blocks never sees a key twice   *)
(* or leaves out a block, for any number of records and blocks.             *)
(*                                                                         *)
(* That the keys grow from one block to the next depends on the writer:     *)
(* every block ends at or before the first identifier of its successor      *)
(* (IdsGrow), and a finished block has records (Chain), so that the reader, *)
(* which leaves finished blocks only, stands on a record that exists when   *)
(* it does (Place).  Trail says what the last record handed out has to do   *)
(* with the place of the reader.                                            *)
(***************************************************************************)
EXTENDS BlockReader, TLAPS

Chain ==
    /\ linked = 1 .. current - 1
    /\ linked \subseteq finished
    /\ \A b \in Blocks : b > current => records[b] = <<>>
    /\ \A b \in finished : recordCount(b) > 0
    /\ writerPc = "link" => current \in finished

IdsGrow ==
    /\ \A b \in 1 .. current - 1 : minId[b] + recordCount(b) <= minId[b + 1]
    /\ minId[current] + recordCount(current) <= recordId

Place ==
    /\ block <= current
    /\ seekedId < recordCount(block) \/ seekedId = 0
    /\ readerPc = "follow" => block \in finished

\* record d was handed out where the reader stands, or just before
isHere(d) == d.block = block /\ d.index = seekedId /\ d.key = minId[block] + seekedId

isBefore(d) ==
    /\ d.key < minId[block] + seekedId
    /\ \/ d.block = block /\ seekedId = d.index + 1
       \/ block = d.block + 1 /\ seekedId = 0

lastDelivered == delivered[Len(delivered)]

Trail ==
    /\ readerPc = "closed" => delivered = <<>>
    /\ readerPc = "value" => delivered = <<>> \/ isBefore(lastDelivered)
    /\ readerPc \in {"idle", "testFinished", "follow"} =>
          delivered # <<>> /\ isHere(lastDelivered)

ReaderInv == TypeOK /\ Chain /\ IdsGrow /\ Place /\ Trail /\ KeysIncrease

-----------------------------------------------------------------------------
\* Every step of insert, finishBlock, createNewBlock and next() keeps the types.
LEMMA ReaderTypeStep ==
    ASSUME ReaderInv, Next
    PROVE  TypeOK'
<1> USE ReaderAssumption DEF Blocks, recordCount
<1>a. TypeOK /\ Chain /\ Place
  BY DEF ReaderInv
<1>1. CASE insert
  <2>1. Append(records[current], inserted + 1) \in Seq(Nat)
    BY <1>a DEF TypeOK
  <2>2. records' \in [Blocks -> Seq(Nat)]
    BY <1>1, <1>a, <2>1 DEF insert, TypeOK
  <2>3. retrying' \in BOOLEAN
    BY <1>1 DEF insert
  <2> QED
    BY <1>1, <1>a, <2>2, <2>3 DEF insert, TypeOK, readerVars
<1>2. CASE \E by \in {"insert", "alloc", "flushLogs"} : finishBlock(by)
  <2>1. retrying' \in BOOLEAN
    BY <1>2 DEF finishBlock
  <2> QED
    BY <1>2, <1>a, <2>1 DEF finishBlock, TypeOK, readerVars
<1>3. CASE createNewBlock
  BY <1>3, <1>a DEF createNewBlock, TypeOK, readerVars
<1>4. CASE value
  <2> DEFINE d == [block |-> block, index |-> seekedId, key |-> minId[block] + seekedId,
                   record |-> IF seekedId < recordCount(block)
                                THEN records[block][seekedId + 1] ELSE 0]
  <2>1. d \in [block : Blocks, index : Nat, key : Nat, record : Nat]
    <3>1. PICK k \in Nat : k = minId[block] + seekedId
      BY <1>a DEF TypeOK
    <3>2. PICK r \in Nat : r = IF seekedId < recordCount(block)
                                THEN records[block][seekedId + 1] ELSE 0
      <4>1. PICK rs \in Seq(Nat) : rs = records[block]
        BY <1>a DEF TypeOK
      <4>2. seekedId \in Nat /\ (seekedId < Len(rs) => rs[seekedId + 1] \in Nat)
        BY <1>a DEF TypeOK
      <4> QED BY <4>1, <4>2 DEF recordCount
    <3>3. block \in Blocks /\ seekedId \in Nat
      BY <1>a DEF TypeOK
    <3> QED BY <3>1, <3>2, <3>3
  <2>2. delivered' = Append(delivered, d)
    BY <1>4 DEF value
  <2> HIDE DEF d
  <2>3. delivered' \in Seq([block : Blocks, index : Nat, key : Nat, record : Nat])
    BY <1>a, <2>1, <2>2 DEF TypeOK
  <2> QED
    BY <1>4, <1>a, <2>3 DEF value, TypeOK, writerVars
<1>5. CASE seekFirst \/ nextDescending \/ nextInBlock \/ nextAtEnd \/ testFinished
  <2>1. /\ readerPc' \in {readerPc, "value", "idle", "testFinished", "follow"}
        /\ result' \in {result, "OK", "ENDED", "BLOCKED"}
        /\ seekedId' \in {seekedId, seekedId + 1}
        /\ UNCHANGED <<writerVars, flags, block, delivered>>
    BY <1>5, Zenon DEF seekFirst, nextDescending, nextInBlock, nextAtEnd, testFinished
  <2> QED
    BY <1>a, <2>1 DEF TypeOK, writerVars
<1>6. CASE followNext
  <2>1. block \in linked => block + 1 \in Blocks
    BY <1>a DEF TypeOK, Chain
  <2>2. /\ readerPc' \in {"value", "idle"} /\ result' \in {"OK", "BLOCKED"}
        /\ block' \in Blocks /\ seekedId' \in {0, seekedId}
        /\ UNCHANGED <<writerVars, flags, delivered>>
    <3>1. CASE block \in linked
      BY <1>6, <2>1, <3>1 DEF followNext
    <3>2. CASE block \notin linked
      BY <1>6, <1>a, <3>2 DEF followNext, TypeOK
    <3> QED BY <3>1, <3>2
  <2>3. seekedId' \in Nat
    BY <1>a, <2>2 DEF TypeOK
  <2> QED
    BY <1>a, <2>2, <2>3, Zenon DEF TypeOK, writerVars
<1> QED
  BY <1>1, <1>2, <1>3, <1>4, <1>5, <1>6 DEF Next, Writer, Reader

\* The writer keeps the chain of blocks and their identifiers in order, and moves
\* nothing under the reader: append and createNewBlock only add.
LEMMA WriterStep ==
    ASSUME ReaderInv, Writer
    PROVE  Chain' /\ IdsGrow' /\ Place' /\ Trail' /\ KeysIncrease'
<1> USE ReaderAssumption DEF recordCount
<1>a. TypeOK /\ Chain /\ IdsGrow /\ Place /\ Trail /\ KeysIncrease
  BY DEF ReaderInv
<1>b. /\ current \in Blocks /\ current \in Nat /\ block \in Blocks
      /\ records \in [Blocks -> Seq(Nat)] /\ minId \in [Blocks -> Nat]
      /\ recordId \in Nat /\ seekedId \in Nat
      /\ \A b \in Blocks : Len(records[b]) \in Nat
      /\ \A b \in 1 .. current - 1 : b \in Blocks /\ b + 1 \in Blocks /\ b # current
  BY <1>a DEF TypeOK, Blocks
<1>1. CASE insert
  <2>1. /\ records' = [records EXCEPT ![current] = Append(@, inserted + 1)]
        /\ recordId' = recordId + 1
        /\ UNCHANGED <<minId, finished, linked, current, writerPc, readerVars>>
    BY <1>1 DEF insert
  <2>2. /\ Len(records'[current]) = Len(records[current]) + 1
        /\ \A b \in Blocks : b # current => records'[b] = records[b]
    BY <1>b, <2>1
  <2>3. Chain'
    BY <1>a, <1>b, <2>1, <2>2 DEF Chain
  <2>4. IdsGrow'
    BY <1>a, <1>b, <2>1, <2>2 DEF IdsGrow
  <2>5. Place'
    BY <1>a, <1>b, <2>1, <2>2 DEF Place, readerVars
  <2>6. Trail' /\ KeysIncrease'
    BY <1>a, <2>1 DEF Trail, KeysIncrease, lastDelivered, isHere, isBefore, readerVars
  <2> QED BY <2>3, <2>4, <2>5, <2>6
<1>2. CASE \E by \in {"insert", "alloc", "flushLogs"} : finishBlock(by)
  <2>1. /\ finished' = finished \cup {current}
        /\ recordId' \in {recordId, recordId + 1}
        /\ Len(records[current]) > 0
        /\ UNCHANGED <<records, minId, linked, current, readerVars>>
    BY <1>2 DEF finishBlock
  <2>2. Chain' /\ IdsGrow' /\ Place'
    BY <1>a, <1>b, <2>1 DEF Chain, IdsGrow, Place, readerVars
  <2>3. Trail' /\ KeysIncrease'
    BY <1>a, <2>1 DEF Trail, KeysIncrease, lastDelivered, isHere, isBefore, readerVars
  <2> QED BY <2>2, <2>3
<1>3. CASE createNewBlock
  <2>1. /\ current < MaxBlocks /\ current' = current + 1
        /\ minId' = [minId EXCEPT ![current + 1] = recordId]
        /\ linked' = linked \cup {current}
        /\ writerPc = "link" /\ writerPc' = "idle"
        /\ UNCHANGED <<records, finished, recordId, readerVars>>
    BY <1>3 DEF createNewBlock
  <2>2. /\ current + 1 \in Blocks /\ minId'[current + 1] = recordId
        /\ \A b \in Blocks : b # current + 1 => minId'[b] = minId[b]
    BY <1>b, <2>1 DEF Blocks
  <2>3. records[current + 1] = <<>> /\ Len(records[current + 1]) = 0
    BY <1>a, <1>b, <2>2 DEF Chain
  <2>4. current \in finished
    BY <1>a, <2>1 DEF Chain
  <2>5. Chain'
    <3>1. linked' = 1 .. current' - 1
      <4>1. linked = 1 .. current - 1
        BY <1>a DEF Chain
      <4>2. (1 .. current - 1) \cup {current} = 1 .. current
        BY <1>b DEF Blocks
      <4>3. current' - 1 = current
        BY <1>b, <2>1
      <4> QED
        BY <2>1, <4>1, <4>2, <4>3
    <3>2. linked' \subseteq finished'
      BY <1>a, <2>1, <2>4 DEF Chain
    <3>3. \A b \in Blocks : b > current' => records'[b] = <<>>
      BY <1>a, <1>b, <2>1 DEF Chain, Blocks
    <3>4. \A b \in finished' : Len(records'[b]) > 0
      BY <1>a, <2>1 DEF Chain
    <3> QED
      BY <2>1, <3>1, <3>2, <3>3, <3>4 DEF Chain
  <2>6. IdsGrow'
    <3>1. ASSUME NEW b \in 1 .. current
          PROVE  minId'[b] + Len(records[b]) <= minId'[b + 1]
      <4>1. CASE b = current
        BY <1>a, <1>b, <2>2, <4>1 DEF IdsGrow
      <4>2. CASE b # current
        <5>1. b \in 1 .. current - 1
          BY <1>b, <4>2
        <5>2. b # current + 1 /\ b + 1 # current + 1 /\ b \in Blocks /\ b + 1 \in Blocks
          BY <1>b, <5>1
        <5>3. minId'[b] = minId[b] /\ minId'[b + 1] = minId[b + 1]
          BY <2>2, <5>2
        <5> QED
          BY <1>a, <5>1, <5>3 DEF IdsGrow
      <4> QED BY <4>1, <4>2
    <3>2. 1 .. current' - 1 = 1 .. current
      BY <1>b, <2>1
    <3>3. minId'[current'] + Len(records'[current']) <= recordId'
      BY <1>b, <2>1, <2>2, <2>3
    <3> QED
      BY <2>1, <3>1, <3>2, <3>3 DEF IdsGrow
  <2>7. Place'
    BY <1>a, <1>b, <2>1 DEF Place, readerVars
  <2>8. minId'[block] = minId[block]
    BY <1>a, <1>b, <2>2 DEF Place
  <2>9. Trail' /\ KeysIncrease'
    BY <1>a, <2>1, <2>8 DEF Trail, KeysIncrease, lastDelivered, isHere, isBefore, readerVars
  <2> QED BY <2>5, <2>6, <2>7, <2>9
<1> QED
  BY <1>1, <1>2, <1>3 DEF Writer

\* next() moves by one record, or from a finished block to the first of the next.
LEMMA ReaderStep ==
    ASSUME ReaderInv, Reader
    PROVE  Chain' /\ IdsGrow' /\ Place' /\ Trail' /\ KeysIncrease'
<1> USE ReaderAssumption DEF recordCount
<1>a. TypeOK /\ Chain /\ IdsGrow /\ Place /\ Trail /\ KeysIncrease
  BY DEF ReaderInv
<1>b. /\ current \in Blocks /\ current \in Nat /\ block \in Blocks /\ block \in Nat
      /\ records \in [Blocks -> Seq(Nat)] /\ minId \in [Blocks -> Nat]
      /\ seekedId \in Nat
      /\ \A b \in Blocks : Len(records[b]) \in Nat /\ minId[b] \in Nat
  BY <1>a DEF TypeOK, Blocks
<1>c. UNCHANGED writerVars
  BY DEF Reader, seekFirst, value, nextDescending, nextInBlock, nextAtEnd, testFinished,
         followNext
<1>d. Chain' /\ IdsGrow'
  BY <1>a, <1>c DEF Chain, IdsGrow, writerVars
<1>1. CASE value
  <2> DEFINE D == [block : Blocks, index : Nat, key : Nat, record : Nat]
             d == [block |-> block, index |-> seekedId, key |-> minId[block] + seekedId,
                   record |-> IF seekedId < recordCount(block)
                                THEN records[block][seekedId + 1] ELSE 0]
  <2>1. /\ readerPc = "value" /\ readerPc' = "idle"
        /\ delivered' = Append(delivered, d)
        /\ UNCHANGED <<block, seekedId>>
    BY <1>1 DEF value
  <2>2. delivered \in Seq(D) /\ delivered' \in Seq(D)
    BY <1>a, ReaderTypeStep DEF TypeOK, Next
  <2>3. d.block = block /\ d.index = seekedId /\ d.key = minId[block] + seekedId
    OBVIOUS
  <2> HIDE DEF d
  <2>4. /\ Len(delivered') = Len(delivered) + 1
        /\ delivered'[Len(delivered')] = d
        /\ \A i \in 1 .. Len(delivered) : delivered'[i] = delivered[i]
        /\ Len(delivered) \in Nat
    BY <2>1, <2>2
  <2>5. Place'
    BY <1>a, <1>c, <2>1 DEF Place, writerVars
  <2>6. delivered' # <<>>
    BY <2>2, <2>4
  <2>7. Trail'
    BY <1>c, <2>1, <2>3, <2>4, <2>6 DEF Trail, isHere, lastDelivered, writerVars
  <2>8. KeysIncrease'
    <3> SUFFICES ASSUME NEW i \in 1 .. Len(delivered)
                 PROVE  /\ delivered'[i].key < delivered'[i + 1].key
                        /\ \/ /\ delivered'[i + 1].block = delivered'[i].block
                              /\ delivered'[i + 1].index = delivered'[i].index + 1
                           \/ /\ delivered'[i + 1].block = delivered'[i].block + 1
                              /\ delivered'[i + 1].index = 0
      BY <2>4 DEF KeysIncrease
    <3>1. CASE i < Len(delivered)
      <4>1. i \in 1 .. Len(delivered) - 1 /\ i + 1 \in 1 .. Len(delivered)
        BY <2>4, <3>1
      <4>2. delivered'[i] = delivered[i] /\ delivered'[i + 1] = delivered[i + 1]
        BY <2>4, <4>1
      <4> QED
        BY <1>a, <4>1, <4>2 DEF KeysIncrease
    <3>2. CASE i = Len(delivered)
      <4>1. delivered'[i] = lastDelivered /\ delivered'[i + 1] = d
        BY <2>4, <3>2 DEF lastDelivered
      <4>2. delivered # <<>>
        BY <3>2
      <4>3. isBefore(lastDelivered)
        BY <1>a, <2>1, <4>2 DEF Trail
      <4> QED
        BY <2>3, <4>1, <4>3 DEF isBefore
    <3> QED BY <2>4, <3>1, <3>2
  <2> QED BY <1>d, <2>5, <2>7, <2>8
<1>2. CASE seekFirst
  <2>1. /\ readerPc = "closed" /\ readerPc' = "value"
        /\ UNCHANGED <<block, seekedId, delivered>>
    BY <1>2 DEF seekFirst
  <2>2. Place' /\ Trail' /\ KeysIncrease'
    BY <1>a, <1>c, <2>1 DEF Place, Trail, KeysIncrease, writerVars
  <2> QED BY <1>d, <2>2
<1>3. CASE nextDescending \/ nextAtEnd \/ testFinished
  <2>1. /\ readerPc \in {"idle", "testFinished"}
        /\ readerPc' \in {"idle", "testFinished", "follow"}
        /\ readerPc' = "follow" => block \in finished
        /\ UNCHANGED <<block, seekedId, delivered>>
    BY <1>3 DEF nextDescending, nextAtEnd, testFinished
  <2>2. Place' /\ Trail' /\ KeysIncrease'
    BY <1>a, <1>c, <2>1 DEF Place, Trail, KeysIncrease, writerVars, isHere, lastDelivered
  <2> QED BY <1>d, <2>2
<1>4. CASE nextInBlock
  <2>1. /\ readerPc = "idle" /\ readerPc' = "value"
        /\ seekedId' = seekedId + 1 /\ seekedId + 1 < Len(records[block])
        /\ UNCHANGED <<block, delivered>>
    BY <1>4 DEF nextInBlock
  <2>2. Place' /\ KeysIncrease'
    BY <1>a, <1>c, <2>1 DEF Place, KeysIncrease, writerVars
  <2>3. Trail'
    <3>1. isHere(lastDelivered)
      BY <1>a, <2>1 DEF Trail
    <3>2. isBefore(lastDelivered)'
      BY <1>b, <1>c, <2>1, <3>1 DEF isHere, isBefore, lastDelivered, writerVars
    <3> QED
      BY <2>1, <3>2 DEF Trail
  <2> QED BY <1>d, <2>2, <2>3
<1>5. CASE followNext
  <2>1. CASE block \in linked
    <3>1. /\ readerPc = "follow" /\ readerPc' = "value"
          /\ block' = block + 1 /\ seekedId' = 0
          /\ UNCHANGED delivered
      BY <1>5, <2>1 DEF followNext
    <3>2. block \in 1 .. current - 1
      BY <1>a, <2>1 DEF Chain
    <3>a. KeysIncrease'
      BY <1>a, <3>1 DEF KeysIncrease
    <3>b. block + 1 <= current
      BY <1>b, <3>2
    <3>3. Place'
      BY <1>c, <3>1, <3>b DEF Place, writerVars
    <3>4. minId[block] + seekedId < minId[block + 1]
      <4>1. Len(records[block]) > 0 /\ seekedId < Len(records[block])
        BY <1>a, <1>b, <3>1 DEF Chain, Place
      <4>2. minId[block] + Len(records[block]) <= minId[block + 1]
        BY <1>a, <3>2 DEF IdsGrow
      <4>3. minId[block + 1] \in Nat
        BY <1>b, <3>2 DEF Blocks
      <4> QED BY <1>b, <4>1, <4>2, <4>3
    <3>5. Trail'
      <4>1. isHere(lastDelivered)
        BY <1>a, <3>1 DEF Trail
      <4>2. isBefore(lastDelivered)'
        <5>1. minId'[block'] + seekedId' = minId[block + 1]
          BY <1>b, <1>c, <3>1, <3>2 DEF writerVars, Blocks
        <5> QED
          BY <1>b, <3>1, <3>4, <4>1, <5>1 DEF isHere, isBefore, lastDelivered
      <4> QED
        BY <3>1, <4>2 DEF Trail
    <3> QED BY <1>d, <3>a, <3>3, <3>5
  <2>2. CASE block \notin linked
    <3>1. /\ readerPc = "follow" /\ readerPc' = "idle"
          /\ UNCHANGED <<block, seekedId, delivered>>
      BY <1>5, <2>2 DEF followNext
    <3>2. Place' /\ Trail' /\ KeysIncrease'
      BY <1>a, <1>c, <3>1 DEF Place, Trail, KeysIncrease, writerVars, isHere, lastDelivered
    <3> QED BY <1>d, <3>2
  <2> QED BY <2>1, <2>2
<1> QED
  BY <1>1, <1>2, <1>3, <1>4, <1>5 DEF Reader

-----------------------------------------------------------------------------
\* An empty database with a reader that is not open satisfies the invariant.
LEMMA ReaderInvInit == Init => ReaderInv
<1> SUFFICES ASSUME Init PROVE ReaderInv
  OBVIOUS
<1> USE ReaderAssumption DEF Init, recordCount
<1>0. 1 \in Blocks /\ <<>> \in Seq(Nat) /\ Len(<<>>) = 0
  BY DEF Blocks
<1>1. TypeOK
  <2>1. records \in [Blocks -> Seq(Nat)] /\ minId \in [Blocks -> Nat]
    BY <1>0
  <2>2. delivered \in Seq([block : Blocks, index : Nat, key : Nat, record : Nat])
    OBVIOUS
  <2> QED
    BY <1>0, <2>1, <2>2 DEF TypeOK
<1>2. Chain
  BY <1>0 DEF Chain, Blocks
<1>3. IdsGrow
  BY <1>0 DEF IdsGrow, Blocks
<1>4. Place /\ Trail /\ KeysIncrease
  BY <1>0 DEF Place, Trail, KeysIncrease
<1> QED
  BY <1>1, <1>2, <1>3, <1>4 DEF ReaderInv

\* Every step of the writer and the reader keeps the invariant.
LEMMA ReaderInvStep == ReaderInv /\ [Next]_vars => ReaderInv'
<1> SUFFICES ASSUME ReaderInv, [Next]_vars PROVE ReaderInv'
  OBVIOUS
<1>1. CASE Next
  BY <1>1, ReaderTypeStep, WriterStep, ReaderStep DEF Next, ReaderInv
<1>2. CASE UNCHANGED vars
  <2>1. UNCHANGED <<writerVars, readerVars>>
    BY <1>2 DEF vars
  <2>2. TypeOK' /\ Chain'
    BY <2>1, Zenon DEF writerVars, readerVars, ReaderInv, TypeOK, Chain, recordCount
  <2>3. IdsGrow' /\ Place'
    BY <2>1, Zenon DEF writerVars, readerVars, ReaderInv, IdsGrow, Place, recordCount
  <2>4. KeysIncrease'
    BY <2>1, Zenon DEF writerVars, readerVars, ReaderInv, KeysIncrease
  <2>5. Trail'
    BY <2>1, Zenon DEF writerVars, readerVars, ReaderInv, Trail, isHere, isBefore,
                       lastDelivered
  <2> QED BY <2>2, <2>3, <2>4, <2>5 DEF ReaderInv
<1> QED
  BY <1>1, <1>2

\* For any number of records and blocks the variables of the writer and of the
\* iterator keep their types; the reader never leaves the blocks that exist.
THEOREM ReaderTypeCorrect == Spec => []TypeOK
<1>1. ReaderInv => TypeOK
  BY DEF ReaderInv
<1> QED
  BY <1>1, ReaderInvInit, ReaderInvStep, PTL DEF Spec

\* For any number of records, blocks and roll-overs: the keys a reader gets only
\* grow, no block is left out and nothing is left out inside a block
\* (databaseIterator::next against insert, flushLogs and createNewBlock).
THEOREM KeysTheorem == Spec => []KeysIncrease
<1>1. ReaderInv => KeysIncrease
  BY DEF ReaderInv
<1> QED
  BY <1>1, ReaderInvInit, ReaderInvStep, PTL DEF Spec
=============================================================================
