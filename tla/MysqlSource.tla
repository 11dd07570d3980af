---------------------------- MODULE MysqlSource ----------------------------
(***************************************************************************)
(* The path of a change from the MySQL server to the store: the reader of   *)
(* the binary log (mysqlBinlogReader), the event parser (BinlogEventParser),*)
(* the queue between the reading thread and the main thread (arrayQueue),   *)
(* mysqlDataSource and the main loop of DBStream.cpp.                       *)
(*                                                                         *)
(* The log of the server is a constant.  The connection may be lost between *)
(* any two events; the reader then asks again for the log from the position *)
(* it has noted.  The process may crash; the store keeps the beginning of   *)
(* what was inserted and the source resumes at the last kept record.        *)
(*                                                                         *)
(* A position in a log file is the number of the next event, the first is   *)
(* FirstPos (4 in the log); the eventOffset of an event is the position     *)
(* behind it, 0 for the events the server makes up for a new dump.          *)
(***************************************************************************)
EXTENDS Integers, FiniteSets, Sequences, SequencesExt

CONSTANTS
    BinLog,       \* log files: sequences of [type, table, rows]
    Volumn,       \* size of m_outputQueue, a power of 2
    MaxLost,      \* bound: connections lost
    MaxRestarts   \* bound: crashes of the process

ASSUME SourceAssumption == Volumn \in Nat \ {0, 1} /\ Len(BinLog) > 0

\* What the server writes: before the rows of a statement, in the same file, come the
\* begin of their transaction and the map of their table.  A statement over several
\* tables, or one that fires triggers, has the maps of all of them before its rows.
ASSUME BinLogAssumption ==
    /\ BinLog \in Seq(Seq([type : STRING, table : STRING, rows : Nat]))
    /\ \A f \in DOMAIN BinLog : \A i \in DOMAIN BinLog[f] : BinLog[f][i].type = "rows" =>
         \E j \in 1 .. i - 1 :
            BinLog[f][j].type = "map" /\ BinLog[f][j].table = BinLog[f][i].table
    /\ \A f \in DOMAIN BinLog : \A i \in DOMAIN BinLog[f] : BinLog[f][i].type = "rows" =>
         \E j \in 1 .. i - 1 :
            /\ BinLog[f][j].type = "begin"
            /\ \A k \in j + 1 .. i - 1 : BinLog[f][k].type # "xid"

VARIABLES
    conn,      \* m_conn: "up", "lost" or "null", and what the server sends next
    reader,    \* m_currFileID, m_currentPos, m_currentFileRotateCount
    parser,    \* m_currentFileID, m_tableMap
    evt,       \* the event between readBinlog and the parser
    parsed,    \* m_parsedRecords not yet taken, or a BEGIN or COMMIT status
    async,     \* m_async
    threadPc,  \* the reading thread
    queue,     \* m_queue, m_head, m_tail of m_outputQueue
    mainPc,    \* the main thread
    inHand,    \* what the main thread has popped
    running,   \* m_running of the data source, running of DBStream.cpp, and whether
               \* the signal handler joins, or has joined, the reading thread
    stored,    \* records inserted, with their transaction id
    txnId,     \* m_tnxId of the store
    commits,   \* the numbers of the stored records at which commit() was called while
               \* their block was m_current
    loaded,    \* what load() found: count records, m_maxTxnId max in the last block; back:
               \* it has given m_tnxId a value below the transaction of the last record
    lost, restarts   \* how often it happened

readSide == <<conn, reader, parser, evt>>
storeSide == <<inHand, stored, txnId, commits, loaded>>
fixed == <<async, lost, restarts>>

sourceVars == <<readSide, parsed, threadPc, queue, mainPc, running, storeSide, fixed>>

FirstPos == 1
NoItem == [kind |-> "none"]

-----------------------------------------------------------------------------
(* The server                                                              *)

made(type, f) == [type |-> type, made |-> TRUE, file |-> f, off |-> 0]

\* COM_BINLOG_DUMP: a rotate event names the file, a format event follows unless
\* the file's own is sent
dump(f, pos) ==
    [state |-> "up", file |-> f, pos |-> pos,
     due |-> <<made("rotate", f)>>
             \o (IF pos > FirstPos THEN <<made("format", f)>> ELSE <<>>)]

down(how) == [state |-> how, file |-> 1, pos |-> FirstPos, due |-> <<>>]

endOfFile(c) == c.pos > Len(BinLog[c.file])
endOfLog(c) == c.due = <<>> /\ endOfFile(c) /\ c.file = Len(BinLog)

nextEvent(c) ==
    IF c.due # <<>> THEN Head(c.due)
    ELSE IF endOfFile(c) THEN made("rotate", c.file + 1)
    ELSE [type |-> BinLog[c.file][c.pos].type, made |-> FALSE, file |-> c.file,
          off |-> c.pos + 1]

afterEvent(c) ==
    IF c.due # <<>> THEN [c EXCEPT !.due = Tail(@)]
    ELSE IF endOfFile(c) THEN [c EXCEPT !.file = @ + 1, !.pos = FirstPos]
    ELSE [c EXCEPT !.pos = @ + 1]

-----------------------------------------------------------------------------
(* The reader of the log                                                   *)

\* readBinlog: a rotate event for the file being read is one more dump of it
again(r, e) == e.type = "rotate" /\ e.made /\ e.file = r.file

\* the file and the position noted after the event
noted(r, e) ==
    IF again(r, e) THEN [r EXCEPT !.rotates = @ + 1]
    ELSE IF e.type = "rotate" /\ e.made
      THEN [file |-> e.file, pos |-> FirstPos, rotates |-> 0]
    ELSE [r EXCEPT !.pos = IF e.off >= @ THEN e.off
                           ELSE IF e.type \in {"format", "rotate"} THEN @ ELSE @ + 1]

\* the thread that reads: the reading thread, or the main thread in syncRead
reading == IF async THEN threadPc = "read" ELSE mainPc = "read" /\ parsed = <<>>
step(pc) == IF async THEN threadPc' = pc /\ UNCHANGED mainPc
            ELSE mainPc' = pc /\ UNCHANGED threadPc

\* the process is gone; nothing of it runs until it is started again
die == mainPc' = "died" /\ threadPc' = "done"

\* readRemoteBinlog and readBinlog: one event is received and its position noted
readEvent ==
    /\ reading /\ running.source
    /\ conn.state = "up" /\ ~endOfLog(conn)
    /\ LET e == nextEvent(conn) IN
         /\ conn' = afterEvent(conn)
         /\ reader' = noted(reader, e)
         /\ IF again(reader, e) /\ reader.rotates >= 1
              THEN UNCHANGED <<evt, threadPc, mainPc>>
              ELSE evt' = e /\ step("parse")
    /\ UNCHANGED <<parser, parsed, fixed, queue, storeSide, running>>

newConn(c) ==
    /\ conn' = c
    /\ UNCHANGED <<reader, parser, evt, parsed, threadPc, queue, mainPc, running,
                   storeSide, async, restarts>>

\* readRemoteBinlog fails with CR_SERVER_LOST
loseConnection ==
    /\ reading
    /\ conn.state = "up"
    /\ lost < MaxLost
    /\ lost' = lost + 1
    /\ newConn(down("lost"))

\* readBinlogWrap: one of the attempts of connectAndDumpBinlog succeeds
reconnect ==
    /\ reading
    /\ conn.state = "lost"
    /\ newConn(dump(reader.file, reader.pos))
    /\ UNCHANGED lost

\* connectAndDumpBinlog returns 0 although startDumpBinlog has failed and the
\* connection is closed
dumpRefused ==
    /\ reading
    /\ conn.state = "lost"
    /\ newConn(down("null"))
    /\ UNCHANGED lost

\* READ_FAILED: the reading thread ends; syncRead returns no record and is called
\* again
readBinlogFails(c) ==
    /\ conn' = c
    /\ step(IF async THEN "done" ELSE "loop")
    /\ running' = IF async THEN [running EXCEPT !.source = FALSE] ELSE running
    /\ UNCHANGED <<reader, parser, evt, parsed, async, restarts, queue, storeSide>>

\* no attempt succeeds
giveUp ==
    /\ reading
    /\ conn.state = "lost"
    /\ readBinlogFails(down("null"))
    /\ UNCHANGED lost

\* the server answers with another error, which is not tried again; its dump is over
serverError ==
    /\ reading
    /\ conn.state = "up"
    /\ lost < MaxLost
    /\ lost' = lost + 1
    /\ readBinlogFails(down("lost"))

\* cli_safe_read without a connection
readNull ==
    /\ reading
    /\ conn.state = "null"
    /\ die
    /\ UNCHANGED <<readSide, parsed, fixed, queue, storeSide, running>>

-----------------------------------------------------------------------------
(* The parser                                                              *)

\* what an event becomes; no step reads the place of a begin or a commit
recordsAt(f, off) ==
    LET e == BinLog[f][off - 1] IN
    CASE e.type = "rows" -> [n \in 1 .. e.rows |-> [kind |-> "row", off |-> <<f, off>>, n |-> n]]
      [] e.type \in {"ddl", "rollback", "begin", "xid"} ->
           <<[kind |-> e.type, off |-> <<f, off>>, n |-> 1]>>
      [] OTHER -> <<>>

\* what the store keeps; copyRecord aborts on a rollback record
isRecord(item) == item.kind \in {"row", "ddl"}

tableOf(e) == BinLog[e.file][e.off - 1].table

\* Mutant: the table map is dropped with every rotate event.
updateFile_Reset(p, file) == [file |-> file, map |-> "none"]

\* the file that offsets are made with from now on
updateFile(p, file) == [p EXCEPT !.file = file]

\* BinlogEventParser::parser.  updateFile takes the next file only; the rows of an
\* event are read with the table map before it.
parse ==
    /\ IF async THEN threadPc = "parse" ELSE mainPc = "parse"
    /\ CASE evt.type = "rotate" /\ evt.made ->
              IF evt.file = parser.file \/ evt.file = parser.file + 1 \/ parser.file = 0
                THEN /\ parser' = updateFile(parser, evt.file)
                     /\ step(IF async THEN "push" ELSE "read")
                     /\ UNCHANGED <<parsed, running>>
                ELSE \* ILLEGAL, without an error text that would end the main loop
                     /\ step(IF async THEN "done" ELSE "loop")
                     /\ running' = IF async THEN [running EXCEPT !.source = FALSE] ELSE running
                     /\ UNCHANGED <<parser, parsed>>
         [] evt.type = "rows" /\ parser.map # tableOf(evt) ->
              die /\ UNCHANGED <<parser, parsed, running>>
         [] OTHER ->
              /\ parsed' = IF evt.made THEN <<>> ELSE recordsAt(parser.file, evt.off)
              /\ parser' = IF evt.type = "map" THEN [parser EXCEPT !.map = tableOf(evt)] ELSE parser
              /\ step(IF async THEN "push" ELSE "read")
              /\ UNCHANGED running
    /\ evt' = NoItem
    /\ UNCHANGED <<conn, reader, fixed, queue, storeSide>>

\* the rows of an event cannot be read: no definition of the table, other columns or
\* broken data.  The error text ends the main loop.
parseFails ==
    /\ IF async THEN threadPc = "parse" ELSE mainPc = "parse"
    /\ evt.type = "rows" /\ parser.map = tableOf(evt)
    /\ step(IF async THEN "done" ELSE "stop")
    /\ running' = IF async THEN [running EXCEPT !.source = FALSE] ELSE running
    /\ evt' = NoItem
    /\ UNCHANGED <<conn, reader, parser, parsed, fixed, queue, storeSide>>

-----------------------------------------------------------------------------
(* The reading thread and the queue                                        *)

\* nextPos
next(pos) == (pos + 1) % Volumn

readLoopWhen(ready) ==
    /\ async
    /\ threadPc = "push" /\ ready
    /\ threadPc' = IF running.source THEN "read" ELSE "done"
    /\ parsed' = <<>>
    /\ UNCHANGED <<readSide, fixed, queue, mainPc, storeSide, running>>

\* Mutant: a thread that waits for room does not notice the stop.
readLoop_Waits == readLoopWhen(parsed = <<>>)

\* readThread: the next turn of its loop, or its end
readLoop == readLoopWhen(parsed = <<>> \/ ~running.source)

\* the source is stopped while the thread waits for an event: the next one, or a
\* heartbeat, brings it back to the test of m_running
readStopped ==
    /\ async
    /\ threadPc = "read" /\ ~running.source
    /\ threadPc' = "done"
    /\ UNCHANGED <<readSide, parsed, fixed, queue, mainPc, storeSide, running>>

pushCellWhen(room) ==
    /\ async
    /\ threadPc = "push" /\ parsed # <<>>
    /\ room
    /\ queue' = [queue EXCEPT !.cells[next(queue.head)] = Head(parsed)]
    /\ threadPc' = "pushed"
    /\ UNCHANGED <<readSide, parsed, fixed, mainPc, storeSide, running>>

\* Mutant: a full queue is not noticed.
pushCell_Full == pushCellWhen(TRUE)

\* pushWithCond: the cell is written when there is room; a full queue is tried
\* again after a timeout
pushCell == pushCellWhen(next(queue.head) # queue.tail)

\* m_head = next
pushHead ==
    /\ async
    /\ threadPc = "pushed"
    /\ queue' = [queue EXCEPT !.head = next(@)]
    /\ parsed' = Tail(parsed)
    /\ threadPc' = "push"
    /\ UNCHANGED <<readSide, fixed, mainPc, storeSide, running>>

-----------------------------------------------------------------------------
(* The main thread                                                         *)

\* while (ds->running() && running)
mainLoop ==
    /\ mainPc = "loop" /\ running.handler # "join"
    /\ mainPc' = IF running.source /\ running.app THEN "read" ELSE "stop"
    /\ UNCHANGED <<readSide, parsed, fixed, threadPc, queue, storeSide, running>>

popCellWhen(filled) ==
    /\ async
    /\ mainPc = "read" /\ running.handler # "join"
    /\ IF filled
         THEN inHand' = queue.cells[next(queue.tail)] /\ mainPc' = "popped"
         ELSE ~running.source /\ mainPc' = "loop" /\ UNCHANGED inHand
    /\ UNCHANGED <<readSide, parsed, fixed, threadPc, queue, running, stored, txnId, commits, loaded>>

\* Mutant: a queue with one cell is taken for an empty one.
popCell_One == popCellWhen(queue.head \notin {queue.tail, next(queue.tail)})

\* popWithCond: v = m_queue[next]; an empty queue is tried again while the source
\* runs
popCell == popCellWhen(queue.head # queue.tail)

giveAs(item, id) ==
    /\ txnId' = id
    /\ stored' = IF isRecord(item) THEN Append(stored, [rec |-> item, txn |-> txnId])
                 ELSE stored
    /\ commits' = IF item.kind = "xid" /\ Len(stored) > loaded.count
                    THEN commits \cup {Len(stored)} ELSE commits
    /\ UNCHANGED loaded

\* Mutant: begin does not take a new id.
give_NoBegin(item) == giveAs(item, txnId)

\* store::begin, store::commit and store::insert; commit() notes the transaction of the
\* last record of m_current, which is empty when there was no insert since load()
give(item) == giveAs(item, IF item.kind = "begin" THEN txnId + 1 ELSE txnId)

\* the main thread after an item
goOn(item, pc) == IF item.kind = "rollback" THEN die ELSE mainPc' = pc /\ UNCHANGED threadPc

\* m_tail = next; a record is returned and inserted, begin and commit are told
\* to the store
popTail ==
    /\ async
    /\ mainPc = "popped" /\ running.handler # "join"
    /\ queue' = [queue EXCEPT !.tail = next(@)]
    /\ give(inHand)
    /\ inHand' = NoItem
    /\ goOn(inHand, IF isRecord(inHand) \/ ~running.source THEN "loop" ELSE "read")
    /\ UNCHANGED <<readSide, parsed, fixed, running>>

\* syncRead: what the parser has left comes first
takeParsed ==
    /\ ~async
    /\ mainPc = "read" /\ parsed # <<>>
    /\ give(Head(parsed))
    /\ parsed' = Tail(parsed)
    /\ goOn(Head(parsed), IF isRecord(Head(parsed)) THEN "loop" ELSE "read")
    /\ UNCHANGED <<readSide, fixed, queue, inHand, running>>

\* store.insert fails: the main loop is left.  The record stays where it is, which
\* nobody reads any more.
insertFails ==
    /\ running.handler # "join"
    /\ \/ mainPc = "popped" /\ isRecord(inHand)
       \/ ~async /\ mainPc = "read" /\ parsed # <<>> /\ isRecord(Head(parsed))
    /\ mainPc' = "stop"
    /\ UNCHANGED <<readSide, parsed, fixed, threadPc, queue, storeSide, running>>

\* sigHandler, which interrupts the main thread and calls stop() itself
signal ==
    /\ running.app
    /\ mainPc \in {"loop", "read", "parse", "popped"}
    /\ running' = [source |-> FALSE, app |-> FALSE, handler |-> IF async THEN "join" ELSE "none"]
    /\ UNCHANGED <<readSide, parsed, fixed, threadPc, queue, mainPc, storeSide>>

\* the handler returns when the reading thread has ended
handlerJoins ==
    /\ running.handler = "join" /\ threadPc = "done"
    /\ running' = [running EXCEPT !.handler = "joined"]
    /\ UNCHANGED <<readSide, parsed, fixed, threadPc, queue, mainPc, storeSide>>

\* mysqlDataSource::stop: the thread is joined; std::thread throws when the handler
\* has done so before
stopSource ==
    /\ mainPc = "stop" /\ running.handler # "join"
    /\ running' = [running EXCEPT !.source = FALSE]
    /\ mainPc' = IF running.handler = "joined" THEN "died"
                 ELSE IF ~async \/ threadPc = "done" THEN "stopped" ELSE "stop"
    /\ UNCHANGED <<readSide, parsed, fixed, threadPc, queue, storeSide>>

-----------------------------------------------------------------------------
(* Start and restart                                                       *)

\* mysqlDataSource::start at a log position: seekBinlogByCheckpoint asks for the
\* dump and says READ_OK even when it got none; the thread is created
startAt(at, mode) ==
    /\ conn' \in {dump(at[1], at[2]), down("null")}
    /\ reader' = [file |-> at[1], pos |-> at[2], rotates |-> 0]
    /\ parser' = [file |-> 0, map |-> "none"]
    /\ evt' = NoItem /\ inHand' = NoItem /\ parsed' = <<>>
    /\ async' = mode
    /\ threadPc' = IF mode THEN "read" ELSE "done"
    /\ mainPc' = "loop"
    /\ queue' = [cells |-> [i \in 0 .. Volumn - 1 |-> NoItem], head |-> 0, tail |-> 0]
    /\ running' = [source |-> TRUE, app |-> TRUE, handler |-> "none"]

SourceInit ==
    /\ conn \in {dump(1, FirstPos), down("null")}
    /\ reader = [file |-> 1, pos |-> FirstPos, rotates |-> 0]
    /\ parser = [file |-> 0, map |-> "none"]
    /\ evt = NoItem /\ inHand = NoItem /\ parsed = <<>>
    /\ async \in BOOLEAN
    /\ threadPc = IF async THEN "read" ELSE "done"
    /\ mainPc = "loop"
    /\ queue = [cells |-> [i \in 0 .. Volumn - 1 |-> NoItem], head |-> 0, tail |-> 0]
    /\ running = [source |-> TRUE, app |-> TRUE, handler |-> "none"]
    /\ stored = <<>> /\ txnId = 1
    /\ commits = {} /\ loaded = [count |-> 0, max |-> 0, back |-> FALSE]
    /\ lost = 0 /\ restarts = 0

\* The m_maxTxnId of the last block when record k is its last: 0 until a commit, and
\* again when the block is recovered from its redo log, else the transaction of the
\* last record that a commit found in it.  A block that was there before keeps its own.
maxTxnIds(k) ==
    IF k = loaded.count THEN {loaded.max}
    ELSE {0} \cup {stored[i].txn : i \in {c \in loaded.count + 1 .. k :
                       c \in commits /\ \A d \in c + 1 .. k : d \notin commits}}

\* database::load with k records, max in the last block
load(k, max) ==
    /\ stored' = SubSeq(stored, 1, k)
    /\ txnId' = max + 1
    /\ commits' = {}
    /\ loaded' = [count |-> k, max |-> max,
                  back |-> loaded.back \/ max + 1 < stored[k].txn]

\* The process ends or dies; the store keeps the first k records, those of its last
\* start at least, and the source goes on at the position of the last one.
restart ==
    /\ restarts < MaxRestarts
    /\ \E k \in 1 .. Len(stored) : \E max \in maxTxnIds(k) :
         /\ k >= loaded.count
         /\ startAt(stored[k].rec.off, async)
         /\ load(k, max)
    /\ restarts' = restarts + 1
    /\ UNCHANGED lost

-----------------------------------------------------------------------------
readerStep == readEvent \/ reconnect \/ parse \/ readLoop \/ readStopped \/ pushCell \/ pushHead

mainStep == mainLoop \/ popCell \/ popTail \/ takeParsed \/ handlerJoins \/ stopSource

SourceNext ==
    \/ readerStep \/ mainStep
    \/ loseConnection \/ dumpRefused \/ giveUp \/ serverError \/ readNull
    \/ parseFails \/ insertFails \/ signal \/ restart

SourceSpec == SourceInit /\ [][SourceNext]_sourceVars

\* Both threads are run by the operating system.  A reconnect is tried up to 31
\* times; it is assumed to succeed when it is neither refused nor given up.
SourceFairness == WF_sourceVars(readerStep) /\ WF_sourceVars(mainStep)

-----------------------------------------------------------------------------
(* Properties                                                              *)

\* the log as the parser hands it on, and the records in it
LogItems ==
    UNION {UNION {Range(recordsAt(f, i + 1)) : i \in DOMAIN BinLog[f]} : f \in DOMAIN BinLog}

LogRecords == {x \in LogItems : isRecord(x)}

\* the order of the log
before(x, y) ==
    \/ x.off[1] < y.off[1]
    \/ x.off[1] = y.off[1] /\ x.off[2] < y.off[2]
    \/ x.off = y.off /\ x.n < y.n

\* Whatever is lost between two events, and wherever the process is started again,
\* the store gets the records of the log once and in the order of the log, and
\* leaves none out but the rest of an event of which a restart found the first
\* rows only (readBinlog, connectAndDumpBinlog, readThread, arrayQueue, start).
StoredFollowsLog ==
    \A i \in 1 .. Len(stored) :
        /\ stored[i].rec \in LogRecords
        /\ i > 1 => before(stored[i - 1].rec, stored[i].rec)
        /\ \A r \in LogRecords :
             before(r, stored[i].rec) /\ (i > 1 => before(stored[i - 1].rec, r)) =>
                 restarts > 0 /\ i > 1 /\ r.off = stored[i - 1].rec.off

\* the transaction of a row: the number of commits before it
transactionOf(off) ==
    <<off[1], Cardinality({i \in 1 .. off[2] - 1 : BinLog[off[1]][i].type = "xid"})>>

\* Rows of different transactions never get one transaction id, although begin
\* and the rows reach the store through the queue and a reconnect or a restart
\* may fall into a transaction, unless load() went back: a last block that was left
\* inside a transaction has m_maxTxnId 0, or that of a transaction some way before,
\* and ids that are in use are given again (asyncRead, database::begin,
\* database::insert, database::load, appendingBlock::commit).
TransactionsApart ==
    ~loaded.back =>
        \A i, j \in 1 .. Len(stored) :
            /\ stored[i].rec.kind = "row" /\ stored[j].rec.kind = "row"
            /\ stored[i].txn = stored[j].txn
            => transactionOf(stored[i].rec.off) = transactionOf(stored[j].rec.off)

\* Stopping ends both threads, even when the queue is full, the reading thread
\* waits for room and the main thread that would make some sits in the signal
\* handler (asyncPushRecord, sigHandler, stop).
StopEnds ==
    /\ (mainPc = "stop") ~> (mainPc \in {"stopped", "died", "loop"})
    /\ (running.handler = "join") ~> (running.handler # "join")

\* Every record of the log reaches the store unless the program is stopped or
\* the connection cannot be made again (readThread, asyncRead, syncRead).
AllStored ==
    <>(\/ stored # <<>> /\ \A r \in LogRecords : ~before(Last(stored).rec, r)
       \/ mainPc = "died" \/ conn.state = "null" \/ ~running.source \/ ~running.app)

\* t is the table of the last map in file f before event i
lastMap(f, i, t) ==
    \E j \in 1 .. i - 1 :
        /\ BinLog[f][j].type = "map" /\ BinLog[f][j].table = t
        /\ \A k \in j + 1 .. i - 1 : BinLog[f][k].type # "map"

\* When rows are parsed, the table map the parser holds is the last one the log has
\* before them, and it holds none only when the program was started again between
\* that map and the rows: a reconnect there, after which the map is not sent again,
\* leaves the parser its map, and a rotation leaves it none that is stale.  So the
\* assertion on the table of the rows fails after such a restart, and where the log
\* itself has the map of another table last, as for a statement over several tables;
\* it does not fail for anything lost on the way (parseTableMap, updateFile,
\* parseRowLogevent).
RowsFindTableMap ==
    (evt # NoItem /\ evt.type = "rows") =>
        \/ lastMap(evt.file, evt.off - 1, parser.map)
        \/ restarts > 0 /\ parser.map = "none"
=============================================================================
