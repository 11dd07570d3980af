------------------------------ MODULE RedoLog ------------------------------
(***************************************************************************)
(* The redo file of a block and what a start makes of it: appendingBlock    *)
(* (openRedoFile, writeRedo, finishRedo, closeRedo, recoveryFromRedo),      *)
(* database::flush and database::recoveryFromRedo, with the option `redo'   *)
(* on.  The block is the first of its process: m_redoFd is 0, a valid       *)
(* handle, and 0 is still the standard input of the process.                *)
(*                                                                         *)
(* A file is the sequence of what was written to it: "head", records, the   *)
(* "mark" of finishRedo, and "torn", a part of one of them that is short of *)
(* the whole by more than the mark.  One step is one operation on a file;   *)
(* each may fail, and the process may die before each and in a write.       *)
(***************************************************************************)
EXTENDS Integers, Sequences

CONSTANTS
    MaxRedoRecords, \* bound on the records of the block
    MaxFinishFails, \* bound on the times finishRedo fails
    NoFile          \* the file does not exist

ASSUME RedoAssumption ==
    /\ MaxRedoRecords \in Nat /\ MaxFinishFails \in Nat
    /\ NoFile \notin Seq(Nat)
    /\ NoFile \notin Seq([kind : {"head", "record", "mark", "torn"}, record : Nat])

VARIABLES
    redoFd,      \* m_redoFd: "stdin" for 0, "redo" or "invalid"
    redoFile,    \* the redo file
    blockFile,   \* the block file: the records in it
    taken,       \* records the block has, each acknowledged by append
    job,         \* what is written: "record", "finish" or "close"; "none"
    redoPc,      \* where the process stands
    status,      \* m_status: "running" or "failed"
    finishFails  \* calls of finishRedo by finishAppendingBlock that failed

redoVars == <<redoFd, redoFile, blockFile, taken, job, redoPc, status, finishFails>>
redoFiles == <<redoFile, blockFile>>

RedoInit ==
    /\ redoFd = "stdin"
    /\ redoFile = NoFile /\ blockFile = NoFile
    /\ taken = <<>>
    /\ job = "none" /\ redoPc = "current" /\ status = "running"
    /\ finishFails = 0

-----------------------------------------------------------------------------
(* Records and the end of the block                                        *)

item(kind) == [kind |-> kind, record |-> IF kind = "record" THEN Len(taken) + 1 ELSE 0]

begin(what) ==
    /\ job' = what
    /\ redoPc' = IF redoFd = "invalid" THEN "open" ELSE "write"

\* appendingBlock::append
appendRecord ==
    /\ redoPc = "current" /\ status = "running"
    /\ Len(taken) < MaxRedoRecords
    /\ begin("record")
    /\ UNCHANGED <<redoFd, redoFiles, taken, status, finishFails>>

\* finishAppendingBlock, from createNewBlock or from stop
finishBlock ==
    /\ redoPc = "current" /\ taken # <<>>
    /\ finishFails <= MaxFinishFails
    /\ begin("finish")
    /\ UNCHANGED <<redoFd, redoFiles, taken, status, finishFails>>

outcomeAs(ok, recordFailed) ==
    /\ job' = "none"
    /\ taken' = IF job = "record" /\ ok THEN Append(taken, Len(taken) + 1) ELSE taken
    /\ finishFails' = finishFails + (IF job = "finish" /\ ~ok THEN 1 ELSE 0)
    /\ redoPc' = CASE job = "close" -> "remove"
                   [] job = "finish" /\ ok -> "queued"
                   [] OTHER -> "current"
    /\ status' \in CASE ok \/ job = "close" -> {status}
                     [] job = "record" -> {recordFailed}
                     [] OTHER -> {status, "failed"}

\* Mutant: insert goes on after a record whose redo has failed.
outcome_GoesOn(ok) == outcomeAs(ok, status)

\* The outcome of writeRedo and finishRedo.  A record that fails, or a block that
\* is full and cannot be left, fails the database; after a flushLogs that failed
\* it goes on with the old block.  flush does not look at the outcome.
outcome(ok) == outcomeAs(ok, "failed")

\* openRedoFile: the file is created when it does not exist
openRedoFile ==
    /\ redoPc = "open"
    /\ \/ /\ redoFd' = "redo"
          /\ redoFile' = IF redoFile = NoFile THEN <<>> ELSE redoFile
          /\ redoPc' = IF redoFile' = <<>> THEN "head" ELSE "write"
          /\ UNCHANGED <<taken, job, status, finishFails>>
       \/ outcome(FALSE) /\ UNCHANGED <<redoFd, redoFile>>
    /\ UNCHANGED blockFile

written(kind) == IF redoFd = "redo" THEN Append(redoFile, item(kind)) ELSE redoFile

\* openRedoFile: m_minLogOffset is written to an empty file
writeHead ==
    /\ redoPc = "head"
    /\ \/ /\ redoFile' = written("head")
          /\ redoPc' = "write"
          /\ UNCHANGED <<redoFd, taken, job, status, finishFails>>
       \/ /\ redoFile' \in {redoFile, written("torn")}
          /\ redoFd' = "invalid"
          /\ outcome(FALSE)
    /\ UNCHANGED blockFile

\* writeRedo writes the record, finishRedo the mark
writeItem ==
    /\ redoPc = "write"
    /\ \/ /\ redoFile' = written(IF job = "record" THEN "record" ELSE "mark")
          /\ redoPc' = "sync"
          /\ UNCHANGED <<redoFd, taken, job, status, finishFails>>
       \/ /\ redoFile' \in {redoFile, written("torn")}
          /\ redoFd' = IF job = "record" THEN redoFd ELSE "invalid"
          /\ outcome(FALSE)
    /\ UNCHANGED blockFile

\* the fsync of writeRedo, when it is due, and of closeRedo
syncRedo ==
    /\ redoPc = "sync"
    /\ \/ outcome(TRUE) /\ redoFd' = IF job = "record" THEN redoFd ELSE "invalid"
       \/ outcome(FALSE) /\ UNCHANGED redoFd
    /\ UNCHANGED redoFiles

-----------------------------------------------------------------------------
(* database::flush                                                         *)

\* the block file is written and renamed, then finishRedo is called again
flushBlock ==
    /\ redoPc = "queued"
    /\ blockFile' = taken
    /\ begin("close")
    /\ UNCHANGED <<redoFd, redoFile, taken, status, finishFails>>

removeRedo ==
    /\ redoPc = "remove"
    /\ redoFile' = NoFile
    /\ redoPc' = "flushed"
    /\ UNCHANGED <<redoFd, blockFile, taken, job, status, finishFails>>

-----------------------------------------------------------------------------
(* The end of the process and the next start                               *)

crash ==
    /\ redoPc # "down"
    /\ redoPc' = "down"
    /\ redoFile' \in {redoFile} \cup (IF redoPc \in {"head", "write"} THEN {written("torn")} ELSE {})
    /\ job' = "none"
    /\ UNCHANGED <<redoFd, blockFile, taken, status, finishFails>>

\* appendingBlock::recoveryFromRedo: the part of the file in front of the first
\* thing that is not a whole record.  The mark is eight bytes and compared with
\* four: it is taken for a record that was cut off.  Behind a torn head nothing is
\* where it is looked for, and the cut may be anywhere.
complete(file) ==
    LET stop == {i \in 2 .. Len(file) : file[i].kind # "record"}
        cut == {i \in stop : \A k \in stop : i <= k}
    IN IF Head(file).kind = "torn" THEN {SubSeq(file, 1, i) : i \in 1 .. Len(file)}
       ELSE IF stop = {} THEN {file}
       ELSE {SubSeq(file, 1, i - 1) : i \in cut}

\* shorter than the head
headless(file) == file = <<>> \/ (Len(file) = 1 /\ Head(file).kind = "torn")

\* database::recoveryFromRedo: without a block file the redo file is removed.  A
\* redo file that is shorter than its head is taken for one that has ended: the
\* block without records that was made from it becomes the block file, unless
\* that fails.  Every other one is cut, and left.
recoveryFromRedo ==
    /\ redoPc = "down"
    /\ redoPc' = "loaded"
    /\ CASE redoFile = NoFile -> UNCHANGED redoFiles
         [] blockFile = NoFile /\ redoFile # NoFile ->
              redoFile' = NoFile /\ UNCHANGED blockFile
         [] blockFile # NoFile /\ headless(redoFile) ->
              \/ blockFile' = <<>> /\ redoFile' = NoFile
              \/ UNCHANGED redoFiles
         [] OTHER -> redoFile' \in complete(redoFile) /\ UNCHANGED blockFile
    /\ UNCHANGED <<redoFd, taken, job, status, finishFails>>

RedoNext ==
    \/ appendRecord \/ finishBlock \/ openRedoFile \/ writeHead \/ writeItem \/ syncRedo
    \/ flushBlock \/ removeRedo \/ crash \/ recoveryFromRedo

RedoSpec == RedoInit /\ [][RedoNext]_redoVars

-----------------------------------------------------------------------------
(* Properties                                                              *)

\* The redo file holds records of the block in order and once each, at most one that
\* was not acknowledged, and while the process runs all that were since the first
\* of them: failed writes, syncs and finishes, the torn parts they leave and the
\* cuts of a start make no record twice and no gap (append, writeRedo, finishRedo,
\* recoveryFromRedo, insert's BM_FAILED).
RedoHoldsRun ==
    redoFile # NoFile =>
        LET at == {i \in DOMAIN redoFile : redoFile[i].kind = "record"} IN
        /\ \A i, j \in at : i < j => redoFile[i].record < redoFile[j].record
        /\ \A i \in at : redoFile[i].record <= Len(taken) + 1
        /\ redoPc \notin {"down", "loaded"} =>
             \A i \in at : \A n \in redoFile[i].record .. Len(taken) :
                \E j \in at : redoFile[j].record = n

\* A block file stays as it was written, whatever a start finds beside it.
FlushedKept == [][blockFile # NoFile => blockFile' = blockFile]_redoVars
=============================================================================
