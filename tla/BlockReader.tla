----------------------------- MODULE BlockReader -----------------------------
(***************************************************************************)
(* A consumer reads the stream while the writer appends to it:             *)
(* databaseIterator::next (database/databaseIterator.cpp) over             *)
(* appendingBlockIterator (database/appendingBlock.h), against             *)
(* database::insert, allocMemForRecord, flushLogs and createNewBlock        *)
(* (database/database.cpp) and appendingBlock::append.                      *)
(*                                                                         *)
(* The n-th record inserted is the number n and 0 is what the slot of a     *)
(* record that was not written yet contains.  The reader has no filter.     *)
(* Replacing a finished block by its solid form (FlushPipeline) changes     *)
(* neither its records nor its successor, so blocks are not distinguished   *)
(* by form here.                                                            *)
(***************************************************************************)
EXTENDS Integers, Sequences

CONSTANTS
    MaxRecords,     \* bound on the records inserted
    MaxBlocks,      \* bound on the blocks created
    FlagSets        \* values of m_flag with which a reader may be opened, as
                    \* sets of bits

ASSUME ReaderAssumption ==
    /\ MaxRecords \in Nat
    /\ MaxBlocks \in Nat \ {0}
    /\ FlagSets \subseteq SUBSET (0 .. 2)

\* iterator.h: the flags as sets of bits
ITER_FLAG_DESC == {0, 2}

Blocks == 1 .. MaxBlocks

VARIABLES
    records,    \* records of each block, in order; m_recordCount is the length
    minId,      \* m_minRecordId of each block
    finished,   \* blocks with BLOCK_FLAG_FINISHED
    linked,     \* blocks whose next is set
    current,    \* m_current
    recordId,   \* m_recordId: identifier the next insert takes
    inserted,   \* number of records inserted
    writerPc,   \* where the writer stands
    retrying,   \* insert() repeats itself after createNewBlock
    flags,      \* m_flag of the reader
    readerPc,   \* where the reader stands
    block,      \* block the reader is on
    seekedId,   \* m_seekedId: index of the reader's record in its block
    result,     \* status of the reader's last next()
    delivered   \* history: what the reader got: block, index, key and record

writerVars == <<records, minId, finished, linked, current, recordId, inserted,
                writerPc, retrying>>
readerVars == <<flags, readerPc, block, seekedId, result, delivered>>
vars == <<writerVars, readerVars>>

\* m_flag & f
has(f) == flags \cap f # {}

recordCount(b) == Len(records[b])

Init ==
    /\ records = [b \in Blocks |-> <<>>]
    /\ minId = [b \in Blocks |-> 0]
    /\ finished = {}
    /\ linked = {}
    /\ current = 1
    /\ recordId = 0
    /\ inserted = 0
    /\ writerPc = "idle"
    /\ retrying = FALSE
    /\ flags \in FlagSets
    /\ readerPc = "closed"
    /\ block = 1
    /\ seekedId = 0
    /\ result = "UNINIT"
    /\ delivered = <<>>

-----------------------------------------------------------------------------
(* The writer                                                              *)

\* insert: the record takes an identifier and append accepts it.  m_recordCount
\* is incremented after the record is in place.
insert ==
    /\ writerPc = "idle"
    /\ inserted < MaxRecords
    /\ records' = [records EXCEPT ![current] = Append(@, inserted + 1)]
    /\ recordId' = recordId + 1
    /\ inserted' = inserted + 1
    /\ retrying' = FALSE
    /\ UNCHANGED <<minId, finished, linked, current, writerPc, readerVars>>

\* The block does not take the record (insert has used up an identifier by
\* then, allocMemForRecord has not) or flushLogs is called: the block is marked
\* finished.
finishBlock(by) ==
    /\ writerPc = "idle"
    /\ ~retrying
    /\ recordCount(current) > 0
    /\ by = "insert" => inserted < MaxRecords
    /\ finished' = finished \cup {current}
    /\ recordId' = IF by = "insert" THEN recordId + 1 ELSE recordId
    /\ retrying' = (by = "insert")
    /\ writerPc' = "link"
    /\ UNCHANGED <<records, minId, linked, current, inserted, readerVars>>

\* createNewBlock: the new block starts at m_recordId and becomes the successor
\* of the old one.
createNewBlock ==
    /\ writerPc = "link"
    /\ current < MaxBlocks
    /\ minId' = [minId EXCEPT ![current + 1] = recordId]
    /\ linked' = linked \cup {current}
    /\ current' = current + 1
    /\ writerPc' = "idle"
    /\ UNCHANGED <<records, finished, recordId, inserted, retrying, readerVars>>

Writer ==
    \/ insert
    \/ \E by \in {"insert", "alloc", "flushLogs"} : finishBlock(by)
    \/ createNewBlock

-----------------------------------------------------------------------------
(* The reader                                                              *)

\* A seek has found the first record of the first block.
seekFirst ==
    /\ readerPc = "closed"
    /\ recordCount(1) > 0
    /\ readerPc' = "value"
    /\ result' = "OK"
    /\ UNCHANGED <<writerVars, flags, block, seekedId, delivered>>

\* value() and key(): the consumer reads what the iterator points to.
value ==
    /\ readerPc = "value"
    /\ delivered' = Append(delivered,
           [block |-> block, index |-> seekedId, key |-> minId[block] + seekedId,
            record |-> IF seekedId < recordCount(block)
                         THEN records[block][seekedId + 1] ELSE 0])
    /\ readerPc' = "idle"
    /\ UNCHANGED <<writerVars, flags, block, seekedId, result>>

\* next(): any of the bits of ITER_FLAG_DESC makes the iterator go backwards.
\* Backwards from the first record of the first block is the end.
nextDescending ==
    /\ readerPc = "idle"
    /\ has(ITER_FLAG_DESC)
    /\ seekedId = 0
    /\ block = 1
    /\ result' = "ENDED"
    /\ UNCHANGED <<writerVars, flags, readerPc, block, seekedId, delivered>>

\* realNext, m_seekedId + 1 < m_recordCount
nextInBlock ==
    /\ readerPc = "idle"
    /\ ~has(ITER_FLAG_DESC)
    /\ seekedId + 1 < recordCount(block)
    /\ seekedId' = seekedId + 1
    /\ result' = "OK"
    /\ readerPc' = "value"
    /\ UNCHANGED <<writerVars, flags, block, delivered>>

\* realNext, no record after this one yet; the flag is read afterwards.
nextAtEnd ==
    /\ readerPc = "idle"
    /\ ~has(ITER_FLAG_DESC)
    /\ seekedId + 1 >= recordCount(block)
    /\ readerPc' = "testFinished"
    /\ UNCHANGED <<writerVars, flags, block, seekedId, result, delivered>>

\* Mutant: a blocked iterator hands out its record again.
testFinished_Again ==
    /\ readerPc = "testFinished"
    /\ readerPc' = IF block \in finished THEN "follow" ELSE "value"
    /\ UNCHANGED <<writerVars, flags, block, seekedId, result, delivered>>

\* Mutant: the end of a finished block is taken for a wait.
testFinished_NeverEnds ==
    /\ readerPc = "testFinished"
    /\ readerPc' = "idle"
    /\ result' = "BLOCKED"
    /\ UNCHANGED <<writerVars, flags, block, seekedId, delivered>>

testFinished ==
    /\ readerPc = "testFinished"
    /\ IF block \in finished
         THEN readerPc' = "follow" /\ UNCHANGED result
         ELSE readerPc' = "idle" /\ result' = "BLOCKED"
    /\ UNCHANGED <<writerVars, flags, block, seekedId, delivered>>

\* databaseIterator::next after ENDED: without a successor the reader is
\* blocked, otherwise resetBlock puts it on the successor's first record with
\* status OK, whether that record exists or not.
followNext ==
    /\ readerPc = "follow"
    /\ IF block \in linked
         THEN /\ block' = block + 1
              /\ seekedId' = 0
              /\ result' = "OK"
              /\ readerPc' = "value"
         ELSE /\ result' = "BLOCKED"
              /\ readerPc' = "idle"
              /\ UNCHANGED <<block, seekedId>>
    /\ UNCHANGED <<writerVars, flags, delivered>>

Reader == seekFirst \/ value \/ nextDescending \/ nextInBlock \/ nextAtEnd
          \/ testFinished \/ followNext

Next == Writer \/ Reader

Spec == Init /\ [][Next]_vars

\* A consumer polls: it calls next() again after BLOCKED.
FairSpec == Spec /\ WF_vars(Reader) /\ WF_vars(createNewBlock)

-----------------------------------------------------------------------------
(* Properties                                                              *)

TypeOK ==
    /\ records \in [Blocks -> Seq(Nat)]
    /\ minId \in [Blocks -> Nat]
    /\ finished \subseteq Blocks
    /\ linked \subseteq Blocks
    /\ current \in Blocks
    /\ recordId \in Nat
    /\ inserted \in Nat
    /\ writerPc \in {"idle", "link"}
    /\ retrying \in BOOLEAN
    /\ flags \in FlagSets
    /\ readerPc \in {"closed", "value", "idle", "testFinished", "follow"}
    /\ block \in Blocks
    /\ seekedId \in Nat
    /\ result \in {"UNINIT", "OK", "BLOCKED", "ENDED"}
    /\ delivered \in Seq([block : Blocks, index : Nat, key : Nat, record : Nat])

\* A consumer never sees a key twice or going backwards, through any number of
\* roll-overs and although every roll-over of insert burns an identifier; inside
\* a block nothing is left out, and no whole block is.
KeysIncrease ==
    \A i \in 1 .. (Len(delivered) - 1) :
        /\ delivered[i].key < delivered[i + 1].key
        /\ \/ /\ delivered[i + 1].block = delivered[i].block
              /\ delivered[i + 1].index = delivered[i].index + 1
           \/ /\ delivered[i + 1].block = delivered[i].block + 1
              /\ delivered[i + 1].index = 0

\* unittest/testAppendDatabase.cpp reads back with next() and asserts that it
\* gets every inserted record in order: no record is left out and none is
\* handed out before it was written.
ReadsEveryRecord == \A i \in DOMAIN delivered : delivered[i].record = i

\* A consumer that keeps polling gets to the end of the stream again and
\* again: no roll-over strands it on a finished block.
CatchesUp ==
    (inserted > 0 /\ ~has(ITER_FLAG_DESC)) ~>
        (block = current /\ seekedId + 1 >= recordCount(current))
=============================================================================
