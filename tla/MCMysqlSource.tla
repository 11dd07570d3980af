--------------------------- MODULE MCMysqlSource ---------------------------
(***************************************************************************)
(* The parts of the MySQL source, each by itself: the stream of changes, the *)
(* search for a start time and the table definitions.  A behaviour is one   *)
(* of one part; the other two do nothing.                                   *)
(***************************************************************************)
EXTENDS MysqlSource, BinlogSeek, MetaCatalog

VARIABLE part   \* the part that runs

sourcePartsVars == <<sourceVars, seekVars, catalogVars, part>>

-----------------------------------------------------------------------------
(* A log of two files: a transaction with two statements, a DDL statement  *)
(* and a transaction in the second file, the maps of two tables before its *)
(* rows                                                                    *)

ev(type) == [type |-> type, table |-> "none", rows |-> 0]
mapOf(t) == [type |-> "map", table |-> t, rows |-> 0]
rowsOf(t, n) == [type |-> "rows", table |-> t, rows |-> n]

MCBinLog ==
    << <<ev("format"), ev("begin"), mapOf("a"), rowsOf("a", 2), mapOf("b"),
         rowsOf("b", 1), ev("xid"), ev("rotate")>>,
       <<ev("format"), ev("ddl"), ev("begin"), mapOf("b"), mapOf("a"),
         rowsOf("a", 1), rowsOf("a", 1), ev("xid")>> >>

-----------------------------------------------------------------------------
(* Logs of three files, or two with a hole between them, with up to two    *)
(* transactions or a statement in each and times in order                  *)

timed(type, t) == [type |-> type, time |-> t]

Transactions == {<<timed("begin", b), timed("xid", t)>> : b, t \in 1 .. 3}

\* the first of two transactions takes no time
Bodies == {b \in {<<>>} \cup {<<timed("ddl", t)>> : t \in 1 .. 3} \cup Transactions
                 \cup {u \o v : u, v \in Transactions} :
             /\ \A i, k \in 1 .. Len(b) : i < k =>
                  /\ isCommit(b[i]) /\ isCommit(b[k]) => b[i].time <= b[k].time
                  /\ k = i + 1 /\ b[i].type = "begin" => b[i].time <= b[k].time
             /\ Len(b) = 4 => b[1].time = b[2].time}

\* a file without commits begins at any time, another with its first event
LogFiles == {f \in [fmt : 1 .. 3, events : Bodies] :
                f.events # <<>> => f.fmt = Head(f.events).time}

lastTimeOf(f) == IF f.events = <<>> THEN f.fmt ELSE Last(f.events).time

MCSeekLogs ==
    UNION {{l \in [d -> LogFiles] : \A f, g \in d : f < g => lastTimeOf(l[f]) <= l[g].fmt} :
           d \in {{1, 2, 3}, {1, 3}}}

-----------------------------------------------------------------------------
(* The log is read from where the server had one table; since then nothing *)
(* has changed, or the table was altered, renamed or dropped with its      *)
(* database, or a database was added                                       *)

schema(dbs, n, m) == [dbs |-> dbs, defs |-> [x \in Names |-> IF x = n THEN m ELSE NoMeta]]

MCBeginnings ==
    LET d == CHOOSE x \in Dbs : TRUE
        t == CHOOSE x \in Tables : TRUE
        u == CHOOSE x \in Tables : x # t
        begun == schema({d}, <<d, t>>, 0)
    IN {begun} \X {begun, schema({d}, <<d, t>>, 1), schema({d}, <<d, u>>, 0),
                   schema({}, <<d, t>>, NoMeta), schema(Dbs, <<d, t>>, 0)}

-----------------------------------------------------------------------------
\* the source does not run
SourceIdle ==
    /\ conn = down("null")
    /\ reader = [file |-> 1, pos |-> FirstPos, rotates |-> 0]
    /\ parser = [file |-> 0, map |-> "none"]
    /\ evt = NoItem /\ inHand = NoItem /\ parsed = <<>>
    /\ async = TRUE /\ threadPc = "done" /\ mainPc = "died"
    /\ queue = [cells |-> [i \in 0 .. Volumn - 1 |-> NoItem], head |-> 0, tail |-> 0]
    /\ running = [source |-> FALSE, app |-> FALSE, handler |-> "none"]
    /\ stored = <<>> /\ txnId = 1 /\ lost = 0 /\ restarts = 0
    /\ commits = {} /\ loaded = [count |-> 0, max |-> 0, back |-> FALSE]

SeekIdle ==
    /\ seekLog = <<>> /\ wanted = 0 /\ strick = FALSE /\ lo = 0 /\ hi = 0 /\ probed = 0
    /\ firstTime = 0 /\ curOff = 1 /\ beginOff = 1 /\ target = <<0, 1>> /\ seekPc = "none"

CatalogIdle ==
    dbLines = <<>> /\ tableLines = <<>> /\ truth = <<>> /\ astray = <<>>

MCSourceInit ==
    \/ part = "stream" /\ SourceInit /\ SeekIdle /\ CatalogIdle
    \/ part = "seek" /\ SourceIdle /\ SeekInit /\ CatalogIdle
    \/ part = "catalog" /\ SourceIdle /\ SeekIdle /\ CatalogInit

MCSourceNext ==
    \/ part = "stream" /\ SourceNext /\ UNCHANGED <<part, seekVars, catalogVars>>
    \/ part = "seek" /\ SeekNext /\ UNCHANGED <<part, sourceVars, catalogVars>>
    \/ part = "catalog" /\ CatalogNext /\ UNCHANGED <<part, sourceVars, seekVars>>

MCSourceSpec == MCSourceInit /\ [][MCSourceNext]_sourcePartsVars /\ SourceFairness
=============================================================================
