----------------------------- MODULE BinlogSeek -----------------------------
(***************************************************************************)
(* Where reading begins when the source is started at a time and not at a   *)
(* log position: mysqlBinlogReader::seekBinlogByTimestamp.  A binary search *)
(* over the files looks at the time of the first commit in a file; a scan   *)
(* of the chosen file stops at the first event that is not older.           *)
(*                                                                         *)
(* A log file is its number, the time of its format event and its events; a *)
(* position is the number of the next event.  Commits (xid) and statements  *)
(* (ddl) are in the order of their times; a begin may be older than the     *)
(* commits before it.                                                       *)
(***************************************************************************)
EXTENDS Integers, FiniteSets, Sequences

CONSTANTS
    SeekLogs,   \* logs: functions from file numbers to [fmt, events]
    Times       \* times that are asked for

FirstFile(log) == CHOOSE f \in DOMAIN log : \A g \in DOMAIN log : f <= g
LastFile(log) == CHOOSE f \in DOMAIN log : \A g \in DOMAIN log : g <= f

isCommit(e) == e.type \in {"xid", "ddl"}

\* getFirstLogeventTimestamp: the first commit, else the format event
firstTimeOf(file) ==
    LET commits == {i \in 1 .. Len(file.events) : isCommit(file.events[i])}
    IN IF commits = {} THEN file.fmt
       ELSE file.events[CHOOSE i \in commits : \A k \in commits : i <= k].time

\* What a server writes: numbered files from a first to a last one, perhaps with a
\* hole; a transaction is its begin and its commit; no file begins before a commit
\* of an earlier one.
ServerLog(log) ==
    /\ DOMAIN log \subseteq Nat \ {0}
    /\ \E a, b \in DOMAIN log : DOMAIN log \subseteq a .. b
    /\ \A f \in DOMAIN log :
         /\ log[f] \in [fmt : Nat, events : Seq([type : {"begin", "xid", "ddl"}, time : Nat])]
         /\ \A i \in DOMAIN log[f].events :
              /\ log[f].events[i].type = "xid" => i > 1 /\ log[f].events[i - 1].type = "begin"
              /\ isCommit(log[f].events[i]) =>
                   \A g \in DOMAIN log : f < g => log[f].events[i].time <= firstTimeOf(log[g])

ASSUME BinlogSeekAssumption ==
    /\ \A log \in SeekLogs : ServerLog(log)
    /\ Times \subseteq Nat

VARIABLES
    seekLog,    \* the server's log
    wanted,     \* timestamp
    strick,     \* no loose mode
    lo, hi,     \* s and e of the binary search
    probed,     \* idx
    firstTime,  \* timestampOfFile
    curOff,     \* currentOffset
    beginOff,   \* beginOffset
    target,     \* m_currFile, m_currentPos
    seekPc

seekVars == <<seekLog, wanted, strick, lo, hi, probed, firstTime, curOff, beginOff,
              target, seekPc>>

\* showBinaryLogs has listed the files
SeekInit ==
    /\ seekLog \in SeekLogs
    /\ wanted \in Times
    /\ strick \in BOOLEAN
    /\ lo = FirstFile(seekLog) /\ hi = LastFile(seekLog)
    /\ probed = 0 /\ firstTime = 0
    /\ curOff = 1 /\ beginOff = 1
    /\ target = <<0, 1>>
    /\ seekPc = "probe"

\* one turn of the search
probe ==
    /\ seekPc = "probe" /\ lo <= hi
    /\ probed' = (lo + hi) \div 2
    /\ IF probed' \notin DOMAIN seekLog
         THEN seekPc' = "notExist" /\ UNCHANGED <<lo, hi, firstTime>>
         ELSE /\ firstTime' = firstTimeOf(seekLog[probed'])
              /\ IF wanted < firstTime' THEN hi' = probed' - 1 /\ UNCHANGED lo
                 ELSE lo' = probed' + 1 /\ UNCHANGED hi
              /\ UNCHANGED seekPc
    /\ UNCHANGED <<seekLog, wanted, strick, curOff, beginOff, target>>

chooseBefore(early) ==
    /\ seekPc = "probe" /\ lo > hi
    /\ IF early /\ probed = FirstFile(seekLog) /\ strick
         THEN seekPc' = "notExist" /\ UNCHANGED target
         ELSE /\ target' = <<IF early /\ probed # FirstFile(seekLog) THEN probed - 1
                             ELSE probed, 1>>
              /\ seekPc' = "scan"
    /\ UNCHANGED <<seekLog, wanted, strick, lo, hi, probed, firstTime, curOff, beginOff>>

\* Mutant: a file that begins at the wanted time is the one.
chooseFile_Equal == chooseBefore(wanted < firstTime)

\* seekBinlogFile behind the search
chooseFile == chooseBefore(wanted <= firstTime)

events == <<[type |-> "format", time |-> seekLog[target[1]].fmt]>> \o seekLog[target[1]].events

\* seekBinlogInFile: one event
scanEvent ==
    /\ seekPc = "scan" /\ curOff <= Len(events)
    /\ IF events[curOff].time >= wanted
         THEN /\ target' = <<target[1], beginOff>>
              /\ seekPc' = "ok"
              /\ UNCHANGED <<curOff, beginOff>>
         ELSE /\ beginOff' = IF events[curOff].type = "begin" THEN curOff ELSE beginOff
              /\ curOff' = curOff + 1
              /\ UNCHANGED <<target, seekPc>>
    /\ UNCHANGED <<seekLog, wanted, strick, lo, hi, probed, firstTime>>

\* the end of the file: a rotate event leads to the next one, a heartbeat comes at
\* the end of the log
scanEnd ==
    /\ seekPc = "scan" /\ curOff > Len(events)
    /\ IF target[1] # LastFile(seekLog)
         THEN target' = <<target[1] + 1, 1>> /\ seekPc' = "ok"
         ELSE seekPc' = (IF strick THEN "failed" ELSE "ok") /\ UNCHANGED target
    /\ UNCHANGED <<seekLog, wanted, strick, lo, hi, probed, firstTime, curOff, beginOff>>

\* the server cannot be reached or an event not be read
seekFails ==
    /\ seekPc \in {"probe", "scan"}
    /\ seekPc' = "failed"
    /\ UNCHANGED <<seekLog, wanted, strick, lo, hi, probed, firstTime, curOff, beginOff,
                   target>>

SeekNext == probe \/ chooseFile \/ scanEvent \/ scanEnd \/ seekFails

SeekSpec == SeekInit /\ [][SeekNext]_seekVars

-----------------------------------------------------------------------------
(* Properties                                                              *)

eventAt(p) == IF p[2] = 1 THEN [type |-> "format"] ELSE seekLog[p[1]].events[p[2] - 1]

Positions == UNION {{<<f, i>> : i \in 1 .. Len(seekLog[f].events) + 1} : f \in DOMAIN seekLog}

notBehind(p, q) == p[1] < q[1] \/ (p[1] = q[1] /\ p[2] <= q[2])

\* The search may stop at a file that begins at the wanted time without a look at
\* the one before it, which may end with commits of that time.
PassedOver(p) ==
    \E f \in DOMAIN seekLog :
        /\ p[1] < f /\ f # LastFile(seekLog)
        /\ firstTimeOf(seekLog[f]) = wanted

\* Reading begins outside a transaction (beginOffset), at or before the begin of
\* every transaction and at or before every statement that is not older than the
\* wanted time, whatever the times of the files' first commits are; only commits
\* of exactly that time may be left out, when a later file that is not the last
\* one begins with it (seekBinlogFile, seekBinlogInFile).
SeekLosesNone ==
    seekPc = "ok" =>
        /\ target \in Positions /\ eventAt(target).type # "xid"
        /\ \A p \in Positions :
             /\ isCommit(eventAt(p))
             /\ eventAt(p).time > wanted \/ (eventAt(p).time = wanted /\ ~PassedOver(p))
             => notBehind(target, IF eventAt(p).type = "ddl" THEN p ELSE <<p[1], p[2] - 1>>)
=============================================================================
