---------------------------- MODULE IteratorSeek ----------------------------
(***************************************************************************)
(* The seeks of database/databaseIterator.cpp, by log offset ("checkpoint"), *)
(* record id and timestamp, with the seeks inside a block of solidBlock.cpp  *)
(* and appendingBlock.h, while the writer appends, rolls over and flushes.   *)
(* No filter is set.                                                        *)
(*                                                                         *)
(* A record is the log offset of its event, whose time need not grow with    *)
(* it; ids count from the block's first.  The blocks are 1 .. Len(blks);     *)
(* only the last may be empty.  The fields of a block only grow, so a step   *)
(* reads those of one block at once, except that append sets m_maxLogOffset  *)
(* first.                                                                   *)
(***************************************************************************)
EXTENDS Integers, Sequences, FiniteSets

CONSTANTS
    Offsets,         \* log offsets of records
    TimeOf,          \* the timestamp of the event at each of them
    SeekKeys,        \* keys asked for
    MaxSeekBlocks,   \* bound: blocks
    MaxSeekRecords   \* bound: records

ASSUME SeekAssumption ==
    /\ Offsets \subseteq Nat \ {0} /\ SeekKeys \subseteq Nat
    /\ TimeOf \in [Offsets -> Nat \ {0}]
    /\ MaxSeekBlocks \in Nat /\ MaxSeekBlocks >= 2  \* a restart begins with two
    /\ MaxSeekRecords \in Nat

VARIABLES
    blks,      \* blocks: recs, min, max, first, form
    coming,    \* the record append is copying, or 0
    seekPc,
    call,      \* kind, key and direction of the seek; history: whether a searchable
               \* block held the key, and the blocks that were not searchable
    lo, hi,    \* s, e
    mid,       \* the block m, and m_current
    idx,       \* m inside a block
    top,       \* _e
    object,    \* form of the block object m_current points to
    result,    \* block and index the seek ended on
    held,      \* uses of each block that the seek has not taken back
    loadFailed \* history: a block could not be loaded

seekVars == <<blks, coming, seekPc, call, lo, hi, mid, idx, top, object, result, held,
             loadFailed>>
search == <<lo, hi, mid, idx, top>>

newBlk(first) == [recs |-> <<>>, min |-> 0, max |-> 0, first |-> first, form |-> "appending"]
NoCall == [kind |-> "none", key |-> 0, desc |-> FALSE, promised |-> FALSE, shaky |-> {}]
Nowhere == [block |-> 0, index |-> 0]

RECORDS == UNION {[1 .. n -> Offsets] : n \in 1 .. 2}
sorted(rs) == \A i, j \in DOMAIN rs : i < j => rs[i] <= rs[j]

\* An empty directory, or a restart with one block whose file is not read yet.
SeekInit ==
    /\ \/ blks = <<newBlk(1)>>
       \/ \E rs \in RECORDS :
            /\ sorted(rs)
            /\ blks = <<[recs |-> rs, min |-> rs[1], max |-> rs[Len(rs)], first |-> 1,
                         form |-> "unloaded"],
                        newBlk(1 + Len(rs))>>
    /\ coming = 0 /\ seekPc = "idle" /\ call = NoCall
    /\ lo = 0 /\ hi = 0 /\ mid = 0 /\ idx = 0 /\ top = 0 /\ object = "none" /\ result = Nowhere
    /\ held = [b \in 1 .. MaxSeekBlocks |-> 0] /\ loadFailed = FALSE

last == Len(blks)
recordCount(b) == Len(blks[b].recs)
lastRecordId(b) == blks[b].first + recordCount(b) - 1

\* m_minTime is the time of the first record; allEarlier is m_maxTime < time.  append
\* sets both with the record.
minTime(b) == IF recordCount(b) = 0 THEN 0 ELSE TimeOf[blks[b].recs[1]]
allEarlier(b, time) == \A i \in 1 .. recordCount(b) : TimeOf[blks[b].recs[i]] < time

-----------------------------------------------------------------------------
(* The writer                                                              *)

\* Nothing more is written once the seek has ended.
writes == seekPc \notin {"found", "notFound", "died"}
total == LET count[b \in 0 .. last] == IF b = 0 THEN 0 ELSE count[b - 1] + recordCount(b)
         IN count[last]
newest == IF recordCount(last) > 0 THEN blks[last].max
          ELSE IF last > 1 THEN blks[last - 1].max ELSE 0

appendMax ==
    /\ writes /\ coming = 0 /\ total < MaxSeekRecords
    /\ \E r \in Offsets :
         /\ r >= newest
         /\ coming' = r
         /\ blks' = [blks EXCEPT ![last].max = r]
    /\ UNCHANGED <<seekPc, call, search, object, result, held, loadFailed>>

append ==
    /\ writes /\ coming # 0
    /\ blks' = [blks EXCEPT ![last].recs = Append(@, coming),
                            ![last].min = IF @ = 0 THEN coming ELSE @]
    /\ coming' = 0
    /\ UNCHANGED <<seekPc, call, search, object, result, held, loadFailed>>

\* insert has taken an id for the record that did not fit, flushLogs has not.
createNewBlock ==
    /\ writes /\ coming = 0 /\ recordCount(last) > 0 /\ last < MaxSeekBlocks
    /\ \E burnt \in {0, 1} : blks' = Append(blks, newBlk(lastRecordId(last) + 1 + burnt))
    /\ UNCHANGED <<coming, seekPc, call, search, object, result, held, loadFailed>>

flush ==
    /\ writes
    /\ \E b \in 1 .. last - 1 :
         /\ blks[b].form = "appending"
         /\ blks' = [blks EXCEPT ![b].form = "solid"]
    /\ UNCHANGED <<coming, seekPc, call, search, object, result, held, loadFailed>>

-----------------------------------------------------------------------------
(* Which block                                                             *)

\* The key lies between the first and the last record of block b, or the time between
\* those that the block keeps as its first and its highest.
covers(b, kind, key) ==
    /\ recordCount(b) > 0
    /\ CASE kind = "recordId" -> key \in blks[b].first .. lastRecordId(b)
         [] kind = "timestamp" -> minTime(b) <= key /\ ~allEarlier(b, key)
         [] OTHER -> key \in blks[b].recs[1] .. blks[b].recs[recordCount(b)]

\* The blocks in which a seek works: solid ones, and for an ascending seek by id or
\* time the appending one; a seek by time looks into the first block only, and
\* cannot read it while it is not loaded.
searchable(b, kind, desc) ==
    /\ kind = "timestamp" => b = 1 /\ blks[b].form # "unloaded"
    /\ blks[b].form = "appending" => ~desc /\ kind # "checkpoint"

seek ==
    /\ seekPc = "idle"
    /\ \E kind \in {"checkpoint", "recordId", "timestamp"}, k \in SeekKeys, d \in BOOLEAN :
         LET good == {b \in 1 .. last : searchable(b, kind, d)} IN
         call' = [kind |-> kind, key |-> k, desc |-> d, shaky |-> 1 .. last \ good,
                  promised |-> \E b \in good : covers(b, kind, k)]
    /\ lo' = 1 /\ hi' = last /\ mid' = 1 /\ top' = last
    /\ seekPc' = "block"
    /\ UNCHANGED <<blks, coming, idx, object, result, held, loadFailed>>

\* The seek returns, and is on record i of block b if i is not negative.
ends(b, i) ==
    /\ seekPc' = IF i < 0 THEN "notFound" ELSE "found"
    /\ result' = IF i < 0 THEN Nowhere ELSE [block |-> b, index |-> i]

getBasicBlock(b) == object' = blks[b].form
useBlock(b) == [held EXCEPT ![b] = @ + 1]

\* One round of the binary search by log offset: a block passed over is given back.
probeCheckpointAs(givenBack) ==
    /\ seekPc = "block" /\ call.kind = "checkpoint" /\ lo <= hi
    /\ LET m == (lo + hi) \div 2
           above == call.key > blks[m].max
           below == ~above /\ call.key < blks[m].min
       IN /\ mid' = m /\ getBasicBlock(m)
          /\ lo' = IF above THEN m + 1 ELSE lo
          /\ hi' = IF below THEN m - 1 ELSE hi
          /\ held' = IF givenBack /\ (above \/ below) THEN held ELSE useBlock(m)
          /\ seekPc' = IF above \/ below THEN "block" ELSE "open"
    /\ UNCHANGED <<blks, coming, call, idx, top, result, loadFailed>>

\* Mutant: the block passed over keeps its use.
probeCheckpoint_Kept == probeCheckpointAs(FALSE)

probeCheckpoint == probeCheckpointAs(TRUE)

\* Behind the loop: the nearest block, or its neighbour in the direction of the seek.
chooseBlock ==
    /\ seekPc = "block" /\ call.kind = "checkpoint" /\ lo > hi
    /\ LET m == IF lo > top THEN top ELSE IF hi < 1 THEN 1 ELSE mid
           n == IF call.desc THEN m - 1 ELSE m + 1
           behind == blks[m].max < call.key
           before == ~behind /\ blks[m].min > call.key
           onward == (behind /\ ~call.desc) \/ (before /\ call.desc)
           atEdge == IF call.desc THEN m = 1 ELSE m = top
           fits == IF call.desc THEN blks[n].max <= call.key ELSE blks[n].min >= call.key
       IN IF ~onward
            THEN mid' = m /\ getBasicBlock(m) /\ held' = useBlock(m) /\ seekPc' = "open"
                 /\ UNCHANGED result
            ELSE IF atEdge \/ ~fits
            THEN ends(0, -1) /\ UNCHANGED <<mid, object, held>>
            ELSE mid' = n /\ getBasicBlock(n) /\ held' = useBlock(n) /\ seekPc' = "open"
                 /\ UNCHANGED result
    /\ UNCHANGED <<blks, coming, call, lo, hi, idx, top, loadFailed>>

\* One round of the binary search by record id; no block is given back.
probeRecordId ==
    /\ seekPc = "block" /\ call.kind = "recordId" /\ lo <= hi
    /\ LET m == (lo + hi) \div 2
           above == call.key > lastRecordId(m)
           below == ~above /\ call.key < blks[m].first
       IN /\ mid' = m /\ getBasicBlock(m) /\ held' = useBlock(m)
          /\ lo' = IF above THEN m + 1 ELSE lo
          /\ hi' = IF below THEN m - 1 ELSE hi
          /\ seekPc' = IF above \/ below THEN "block" ELSE "open"
    /\ UNCHANGED <<blks, coming, call, idx, top, result, loadFailed>>

noSuchId ==
    /\ seekPc = "block" /\ call.kind = "recordId" /\ lo > hi
    /\ held' = [held EXCEPT ![mid] = @ - 1]
    /\ ends(0, -1)
    /\ UNCHANGED <<blks, coming, call, search, object, loadFailed>>

\* The blocks from the first on, to one that begins at the time or before it.
walkTimestamp ==
    /\ seekPc = "block" /\ call.kind = "timestamp"
    /\ getBasicBlock(mid)
    /\ IF minTime(mid) <= call.key
         THEN seekPc' = "open" /\ held' = useBlock(mid) /\ UNCHANGED <<mid, result>>
         ELSE IF mid = last
         THEN ends(0, -1) /\ held' = useBlock(mid) /\ UNCHANGED mid
         ELSE mid' = mid + 1 /\ UNCHANGED <<seekPc, held, result>>
    /\ UNCHANGED <<blks, coming, call, lo, hi, idx, top, loadFailed>>

-----------------------------------------------------------------------------
(* Where in the block                                                      *)

blk == blks[mid]
count == recordCount(mid)
solid == object # "appending"

\* The iterator is deleted: the use of the block goes with it.
fails == ends(0, -1) /\ held' = [held EXCEPT ![mid] = @ - 1]
finds(i) == ends(mid, i) /\ UNCHANGED held
\* A null pointer is followed, or memory outside the records.
dies == seekPc' = "died" /\ UNCHANGED <<result, held>>

\* next() of an appending block's iterator; seekedId has no sign and -1 is before the
\* first record; realPrev asks the filter although there is none.
nextFrom(seekedId) ==
    IF call.desc THEN IF seekedId = 0 THEN fails ELSE dies
    ELSE IF seekedId + 1 \in 0 .. count - 1 THEN finds(seekedId + 1) ELSE fails

load ==
    /\ seekPc = "open" /\ call.kind = "checkpoint" /\ object = "unloaded"
    /\ object' = "solid"
    /\ blks' = [blks EXCEPT ![mid].form = "solid"]
    /\ UNCHANGED <<coming, seekPc, call, search, result, held, loadFailed>>

loadFails ==
    /\ seekPc = "open" /\ call.kind = "checkpoint" /\ object = "unloaded"
    /\ fails /\ loadFailed' = TRUE
    /\ UNCHANGED <<blks, coming, call, search, object>>

\* Mutant: the key of the last record counts as outside.
outOfRange_Last == blk.max <= call.key \/ blk.min > call.key

outOfRange == blk.max < call.key \/ blk.min > call.key

openCheckpoint ==
    /\ seekPc = "open" /\ call.kind = "checkpoint" /\ object # "unloaded"
    /\ IF outOfRange
         THEN fails /\ UNCHANGED <<lo, hi, top>>
         ELSE /\ lo' = 0 /\ hi' = count - 1 /\ top' = count - 1 /\ seekPc' = "record"
              /\ UNCHANGED <<result, held>>
    /\ UNCHANGED <<blks, coming, call, mid, idx, object, loadFailed>>

seekRecordId ==
    /\ seekPc = "open" /\ call.kind = "recordId"
    /\ LET i == call.key - blk.first IN
         IF i \notin 0 .. count THEN fails
         ELSE IF solid THEN finds(i) ELSE nextFrom(i - 1)
    /\ UNCHANGED <<blks, coming, call, search, object, loadFailed>>

seekTimestamp ==
    /\ seekPc = "open" /\ call.kind = "timestamp"
    /\ LET time(i) == TimeOf[blk.recs[i + 1]]
           at == {i \in 0 .. count - 1 : IF call.desc THEN time(i) <= call.key
                                         ELSE time(i) >= call.key}
           first == CHOOSE i \in at : \A j \in at : IF call.desc THEN i >= j ELSE i <= j
       IN IF allEarlier(mid, call.key) \/ minTime(mid) > call.key THEN fails
          ELSE IF object = "unloaded" \/ (call.desc /\ ~solid) THEN dies
          ELSE finds(first)
    /\ UNCHANGED <<blks, coming, call, search, object, loadFailed>>

\* The log offsets that the search may read for index i.  In an appending block
\* getRecord subtracts the block's first id from what is an index already, and
\* reads in front of the array: anything, less than the key or not.
offsetsAt(i) ==
    IF solid THEN {blk.recs[i + 1]}
    ELSE IF i >= blk.first THEN {blk.recs[i - blk.first + 1]}
    ELSE {call.key - 1, call.key, call.key + 1}
mayDie(i) == ~solid /\ i < blk.first

\* The search is on record i; the iterator of an appending block goes there by next().
land(i) == IF solid THEN finds(i) ELSE nextFrom(IF call.desc THEN i + 1 ELSE i - 1)

probeRecord ==
    /\ seekPc = "record" /\ lo <= hi
    /\ LET m == (lo + hi) \div 2 IN
         \/ \E o \in offsetsAt(m) :
              /\ idx' = m
              /\ lo' = IF call.key > o THEN m + 1 ELSE lo
              /\ hi' = IF call.key < o THEN m - 1 ELSE hi
              /\ IF o = call.key THEN land(m) ELSE UNCHANGED <<seekPc, result, held>>
         \/ mayDie(m) /\ dies /\ UNCHANGED <<lo, hi, idx>>
    /\ UNCHANGED <<blks, coming, call, mid, top, object, loadFailed>>

\* Behind the loop: the record the search ended on or the next in the direction
\* of the seek.
pickRecordAs(anyRecord) ==
    /\ seekPc = "record" /\ lo > hi
    /\ LET m == IF lo > top THEN top ELSE IF hi < 0 THEN 0 ELSE idx
           n == IF call.desc THEN m - 1 ELSE m + 1
           atEdge == m = IF call.desc THEN 0 ELSE top
           beyond(o) == ~anyRecord /\ IF call.desc THEN o > call.key ELSE o < call.key
       IN \E o \in offsetsAt(m) :
            \/ ~beyond(o) /\ land(m)
            \/ beyond(o) /\ atEdge /\ fails
            \/ beyond(o) /\ ~atEdge /\ solid /\ land(n)
            \/ /\ beyond(o) /\ ~atEdge /\ ~solid
               /\ \/ \E q \in offsetsAt(n) : IF beyond(q) THEN fails ELSE land(n)
                  \/ mayDie(n) /\ dies
            \/ mayDie(m) /\ dies
    /\ UNCHANGED <<blks, coming, call, search, object, loadFailed>>

\* Mutant: the record the search ended on is taken whatever its offset.
pickRecord_Any == pickRecordAs(TRUE)

pickRecord == pickRecordAs(FALSE)

-----------------------------------------------------------------------------
SeekNext ==
    \/ appendMax \/ append \/ createNewBlock \/ flush
    \/ seek \/ probeCheckpoint \/ chooseBlock \/ probeRecordId \/ noSuchId \/ walkTimestamp
    \/ load \/ loadFails \/ openCheckpoint \/ seekRecordId \/ seekTimestamp
    \/ probeRecord \/ pickRecord

SeekSpec == SeekInit /\ [][SeekNext]_seekVars

-----------------------------------------------------------------------------
keyOf(b, i) == IF call.kind = "recordId" THEN blks[b].first + i ELSE blks[b].recs[i + 1]

\* A seek by log offset or record id that ends on a record of a solid block is on the
\* right side of the key and nothing in the database, not even what was appended
\* meanwhile, lies between (databaseCheckpointIterator and databaseRecordIdIterator).
\* A seek by time promises less: it takes the first record on the right side in the
\* order of the log, and a later one may be nearer.
SeekNearest ==
    seekPc = "found" /\ solid /\ call.kind # "timestamp" =>
        LET found == keyOf(result.block, result.index) IN
        /\ IF call.desc THEN found <= call.key ELSE found >= call.key
        /\ \A b \in 1 .. last : \A i \in 0 .. recordCount(b) - 1 :
             ~ IF call.desc THEN found < keyOf(b, i) /\ keyOf(b, i) <= call.key
               ELSE call.key <= keyOf(b, i) /\ keyOf(b, i) < found

\* A key that lay inside a searchable block when the seek began is not missed,
\* however the database grows meanwhile, unless a block whose file cannot be read
\* or one that is not searchable holds the key too.
SeekMissesNone ==
    seekPc \in {"notFound", "died"} /\ call.promised /\ ~loadFailed =>
        \E b \in call.shaky : covers(b, call.kind, call.key)

\* A seek by log offset gives back every block but the one it ends on.
UsesReturned ==
    call.kind = "checkpoint" =>
        /\ seekPc = "notFound" => \A b \in DOMAIN held : held[b] = 0
        /\ seekPc = "found" => \A b \in DOMAIN held : held[b] = IF b = result.block THEN 1 ELSE 0
=============================================================================
