--------------------------- MODULE Source_proofs ---------------------------
(***************************************************************************)
(* The MySQL source, for every log, every size of the queue and every       *)
(* number of failures.                                                      *)
(*                                                                         *)
(* The search by time (BinlogSeek): the bounds of the binary search only    *)
(* exclude files that were looked at, so no commit of a file before the     *)
(* chosen one is asked for, but for those of exactly the wanted time.       *)
(*                                                                         *)
(* The table map (MysqlSource): what the server sends next, what the reader *)
(* has noted and the file of the parser agree, so the map the parser holds  *)
(* is the last one sent, or a restart lost it.                              *)
(*                                                                         *)
(* The stream of records (MysqlSource): the queue followed by what the      *)
(* parser holds is a piece of the log; the store is what comes before that  *)
(* piece.  A step appends to the piece, moves an item inside it, gives its  *)
(* first item to the store or, at a restart, drops it.  The begin that a    *)
(* row's transaction starts with takes a new id before the row comes; a     *)
(* load that gives no id below that of the last record keeps it so.         *)
(*                                                                         *)
(* The table definitions (MetaCatalog): a version put for a later statement *)
(* does not change what an earlier offset is answered, and the newest       *)
(* versions are what the server has.                                        *)
(***************************************************************************)
EXTENDS MysqlSource, BinlogSeek, MetaCatalog, WellFoundedInduction, TLAPS

-----------------------------------------------------------------------------
(* The search by time                                                      *)
LogEvent == [type : {"begin", "xid", "ddl"}, time : Nat]

\* The log that is searched, as a server writes it (showBinaryLogs).
SearchedLog == ServerLog(seekLog) /\ wanted \in Nat

First == FirstFile(seekLog)
End == LastFile(seekLog)
begins(f) == firstTimeOf(seekLog[f])

\* The binary search: what lies outside its bounds has been looked at, and the last
\* probe was just outside them.
Search ==
    /\ lo \in Int /\ hi \in Int /\ First <= lo /\ lo <= hi + 1 /\ hi <= End
    /\ lo = First \/ (lo - 1 \in DOMAIN seekLog /\ begins(lo - 1) <= wanted)
    /\ hi = End \/ (hi + 1 \in DOMAIN seekLog /\ wanted < begins(hi + 1))
    /\ \/ lo = First /\ hi = End
       \/ /\ probed = lo - 1 /\ lo # First /\ firstTime = begins(probed)
          /\ lo > hi /\ probed # First =>
               probed - 1 \in DOMAIN seekLog /\ begins(probed - 1) <= wanted
       \/ probed = hi + 1 /\ hi # End /\ firstTime = begins(probed)
    /\ curOff = 1 /\ beginOff = 1

\* No commit of an earlier file is asked for, but for those that may be passed over.
EarlierOld(file) ==
    \A g \in DOMAIN seekLog : g < file =>
        \A i \in DOMAIN seekLog[g].events :
            isCommit(seekLog[g].events[i]) =>
                /\ seekLog[g].events[i].time <= wanted
                /\ seekLog[g].events[i].time = wanted => PassedOver(<<g, i + 1>>)

\* The scan of the chosen file: nothing behind it is asked for, and beginOff is at
\* its last begin.
Scan ==
    /\ \E f \in DOMAIN seekLog :
         /\ target = <<f, 1>> /\ EarlierOld(f)
         /\ f = End \/ f + 1 \in DOMAIN seekLog \/ wanted < begins(f)
    /\ curOff \in 1 .. Len(events) + 1 /\ beginOff \in 1 .. curOff
    /\ \A i \in 1 .. curOff - 1 :
         events[i].time < wanted /\ (events[i].type = "begin" => i <= beginOff)
    /\ beginOff = 1 \/ (beginOff < curOff /\ events[beginOff].type = "begin")

BinlogSeekInv ==
    /\ SearchedLog
    /\ seekPc = "probe" => Search
    /\ seekPc = "scan" => Scan
    /\ SeekLosesNone

-----------------------------------------------------------------------------
\* A set of numbers that is not empty has a smallest one.
LEMMA SmallestOf ==
    ASSUME NEW S, S \subseteq Nat, S # {}
    PROVE  \E i \in S : \A k \in S : i <= k
<1>1. PICK i \in S : \A k \in S : ~ <<k, i>> \in OpToRel(<, Nat)
  BY ONLY S \subseteq Nat, S # {}, NatLessThanWellFounded, WFMin
<1>2. ASSUME NEW k \in S PROVE i <= k
  <2>1. k \in Nat /\ i \in Nat
    OBVIOUS
  <2>2. ~(k < i)
    BY <1>1, <2>1 DEF OpToRel
  <2> QED BY <2>1, <2>2
<1> QED BY <1>2

\* An element of a sequence of log events is a log event.
LEMMA EventOf ==
    ASSUME NEW S, NEW s \in Seq(S), NEW i \in 1 .. Len(s)
    PROVE  s[i] \in S
  OBVIOUS

\* The files of a log: there is a first and a last one, and every file has a time at
\* which it begins (getFirstLogeventTimestamp).
LEMMA LogFacts ==
    ASSUME SearchedLog
    PROVE  /\ First \in DOMAIN seekLog /\ End \in DOMAIN seekLog
           /\ \A f \in DOMAIN seekLog :
                /\ f \in Nat \ {0} /\ First <= f /\ f <= End
                /\ begins(f) \in Nat
                /\ \/ begins(f) = seekLog[f].fmt
                   \/ \E i \in 1 .. Len(seekLog[f].events) : begins(f) = seekLog[f].events[i].time
                /\ seekLog[f].fmt \in Nat
                /\ seekLog[f].events \in Seq(LogEvent)
<1>1. /\ DOMAIN seekLog \subseteq Nat \ {0}
      /\ \E a, b \in DOMAIN seekLog : DOMAIN seekLog \subseteq a .. b
      /\ \A f \in DOMAIN seekLog :
           seekLog[f] \in [fmt : Nat, events : Seq(LogEvent)]
  BY Zenon DEF SearchedLog, ServerLog, LogEvent
<1>2. PICK a \in DOMAIN seekLog, b \in DOMAIN seekLog : DOMAIN seekLog \subseteq a .. b
  BY <1>1
<1>3. /\ First \in DOMAIN seekLog /\ \A g \in DOMAIN seekLog : First <= g
  <2>1. \A g \in DOMAIN seekLog : a <= g
    BY <1>1, <1>2
  <2> QED BY <2>1, Zenon DEF First, FirstFile
<1>4. /\ End \in DOMAIN seekLog /\ \A g \in DOMAIN seekLog : g <= End
  <2>1. \A g \in DOMAIN seekLog : g <= b
    BY <1>1, <1>2
  <2> QED BY <2>1, Zenon DEF End, LastFile
<1>5. ASSUME NEW f \in DOMAIN seekLog
      PROVE  /\ seekLog[f].fmt \in Nat
             /\ seekLog[f].events \in Seq(LogEvent)
             /\ begins(f) \in Nat
             /\ \/ begins(f) = seekLog[f].fmt
                \/ \E i \in 1 .. Len(seekLog[f].events) : begins(f) = seekLog[f].events[i].time
  <2> DEFINE es == seekLog[f].events
             S == {i \in 1 .. Len(es) : isCommit(es[i])}
  <2>1. /\ seekLog[f].fmt \in Nat
        /\ es \in Seq(LogEvent)
    BY <1>1
  <2>2. CASE S = {}
    BY <2>1, <2>2 DEF begins, firstTimeOf
  <2>3. CASE S # {}
    <3>1. S \subseteq Nat
      OBVIOUS
    <3>2. \E i \in S : \A k \in S : i <= k
      BY ONLY <2>3, <3>1, SmallestOf
    <3> DEFINE m == CHOOSE i \in S : \A k \in S : i <= k
    <3>3. m \in S
      BY ONLY <3>2, Zenon
    <3>4. begins(f) = es[m].time
      BY <2>3 DEF begins, firstTimeOf
    <3> HIDE DEF m
    <3>5. m \in 1 .. Len(es)
      BY <3>3
    <3> HIDE DEF es
    <3>6. es[m] \in LogEvent
      BY ONLY <2>1, <3>5, EventOf
    <3>7. es[m].time \in Nat
      BY <3>6 DEF LogEvent
    <3> QED BY <2>1, <3>4, <3>5, <3>7 DEF es
  <2> QED BY <2>1, <2>2, <2>3
<1> QED BY <1>1, <1>3, <1>4, <1>5, Zenon

\* The commits of a file are not newer than the beginning of a later one.
LEMMA CommitsBefore ==
    ASSUME SearchedLog, NEW f \in DOMAIN seekLog, NEW g \in DOMAIN seekLog, f < g,
           NEW i \in DOMAIN seekLog[f].events, isCommit(seekLog[f].events[i])
    PROVE  seekLog[f].events[i].time \in Nat /\ seekLog[f].events[i].time <= begins(g)
<1>1. seekLog[f].events[i].time <= begins(g)
  BY Zenon DEF SearchedLog, ServerLog, begins
<1>2. seekLog[f].events \in Seq(LogEvent)
  BY LogFacts
<1>3. seekLog[f].events[i] \in LogEvent
  <2>1. i \in 1 .. Len(seekLog[f].events)
    BY <1>2
  <2> QED BY ONLY <1>2, <2>1, EventOf
<1>4. seekLog[f].events[i].time \in Nat
  BY <1>3 DEF LogEvent
<1> QED BY <1>1, <1>4

\* A file may be scanned from its beginning when the files before it hold nothing but
\* commits that are older than the wanted time, or of that time and passed over.
LEMMA OldBefore ==
    ASSUME SearchedLog, NEW f \in DOMAIN seekLog,
           begins(f) <= wanted, begins(f) = wanted => f # End
    PROVE  EarlierOld(f)
<1> SUFFICES ASSUME NEW g \in DOMAIN seekLog, g < f, NEW i \in DOMAIN seekLog[g].events,
                    isCommit(seekLog[g].events[i])
             PROVE  /\ seekLog[g].events[i].time <= wanted
                    /\ seekLog[g].events[i].time = wanted => PassedOver(<<g, i + 1>>)
  BY Zenon DEF EarlierOld
<1>1. seekLog[g].events[i].time \in Nat /\ seekLog[g].events[i].time <= begins(f)
  BY CommitsBefore
<1>2. begins(f) \in Nat /\ wanted \in Nat
  BY LogFacts DEF SearchedLog
<1>3. seekLog[g].events[i].time <= wanted
  BY <1>1, <1>2
<1>4. ASSUME seekLog[g].events[i].time = wanted PROVE PassedOver(<<g, i + 1>>)
  <2>1. begins(f) = wanted
    BY <1>1, <1>2, <1>4
  <2>2. <<g, i + 1>>[1] = g
    OBVIOUS
  <2> QED BY <2>1, <2>2, Zenon DEF PassedOver, begins, End
<1> QED BY <1>3, <1>4

\* Reading may begin at a position.
LosesNone(at) ==
    /\ at \in Positions /\ eventAt(at).type # "xid"
    /\ \A p \in Positions :
         /\ isCommit(eventAt(p))
         /\ eventAt(p).time > wanted \/ (eventAt(p).time = wanted /\ ~PassedOver(p))
         => notBehind(at, IF eventAt(p).type = "ddl" THEN p ELSE <<p[1], p[2] - 1>>)

\* A position in a file is good when the files before hold nothing that is asked for,
\* it is not inside a transaction and not behind anything asked for in the file.
LEMMA GoodStart ==
    ASSUME SearchedLog, NEW f \in DOMAIN seekLog, EarlierOld(f),
           NEW k \in 1 .. Len(seekLog[f].events) + 1,
           k > 1 => seekLog[f].events[k - 1].type = "begin",
           \A i \in 1 .. Len(seekLog[f].events) :
             isCommit(seekLog[f].events[i]) /\ seekLog[f].events[i].time >= wanted =>
               k <= i + 1 /\ (seekLog[f].events[i].type = "xid" => k <= i)
    PROVE  LosesNone(<<f, k>>)
<1>1. Len(seekLog[f].events) \in Nat /\ f \in Nat
  BY LogFacts
<1>2. <<f, k>> \in Positions
  BY <1>1 DEF Positions
<1>3. eventAt(<<f, k>>).type # "xid"
  <2>1. CASE k = 1
    BY <2>1 DEF eventAt
  <2>2. CASE k # 1
    BY <2>2 DEF eventAt
  <2> QED BY <2>1, <2>2
<1>4. ASSUME NEW p \in Positions, isCommit(eventAt(p)),
             eventAt(p).time > wanted \/ (eventAt(p).time = wanted /\ ~PassedOver(p))
      PROVE  notBehind(<<f, k>>, IF eventAt(p).type = "ddl" THEN p ELSE <<p[1], p[2] - 1>>)
  <2>0. PICK g \in DOMAIN seekLog : \E j \in 1 .. Len(seekLog[g].events) + 1 : p = <<g, j>>
    BY Zenon DEF Positions
  <2>1. PICK j \in 1 .. Len(seekLog[g].events) + 1 : p = <<g, j>>
    BY <2>0
  <2>2. g \in Nat /\ seekLog[g].events \in Seq(LogEvent) /\ Len(seekLog[g].events) \in Nat
    BY LogFacts
  <2>3. p[1] = g /\ p[2] = j
    BY <2>1
  <2>4. j # 1
    <3> SUFFICES ASSUME j = 1 PROVE FALSE
      OBVIOUS
    <3>1. eventAt(p) = [type |-> "format"]
      BY <2>3 DEF eventAt
    <3> QED BY <1>4, <3>1 DEF isCommit
  <2> DEFINE i == j - 1
  <2>5. i \in 1 .. Len(seekLog[g].events) /\ i + 1 = j
    BY <2>2, <2>4
  <2>6. eventAt(p) = seekLog[g].events[i]
    BY <2>3, <2>4, Zenon DEF eventAt
  <2> HIDE DEF i
  <2>7. seekLog[g].events[i] \in LogEvent
    BY ONLY <2>2, <2>5, EventOf
  <2>8. /\ seekLog[g].events[i].time \in Nat /\ wanted \in Nat
        /\ seekLog[g].events[i].type \in {"begin", "xid", "ddl"}
    BY <2>7 DEF LogEvent, SearchedLog
  <2>9. seekLog[g].events[i].time >= wanted
    BY <1>4, <2>6, <2>8
  <2>10. ~(g < f)
    <3> SUFFICES ASSUME g < f PROVE FALSE
      OBVIOUS
    <3>1. i \in DOMAIN seekLog[g].events
      BY <2>2, <2>5
    <3>2. /\ seekLog[g].events[i].time <= wanted
          /\ seekLog[g].events[i].time = wanted => PassedOver(<<g, i + 1>>)
      BY <1>4, <2>6, <3>1, Zenon DEF EarlierOld
    <3>3. seekLog[g].events[i].time = wanted
      BY <2>8, <2>9, <3>2
    <3>4. PassedOver(p)
      BY <2>1, <2>5, <3>2, <3>3
    <3> QED BY <1>4, <2>6, <2>8, <3>3, <3>4
  <2>11. CASE f < g
    BY <2>3, <2>11 DEF notBehind
  <2>12. CASE f = g
    <3>1. k <= j /\ (seekLog[g].events[i].type = "xid" => k <= j - 1)
      BY <1>4, <2>5, <2>6, <2>9, <2>12
    <3>2. CASE seekLog[g].events[i].type = "ddl"
      BY <2>3, <2>6, <2>12, <3>1, <3>2 DEF notBehind
    <3>3. CASE seekLog[g].events[i].type = "xid"
      <4>1. (IF eventAt(p).type = "ddl" THEN p ELSE <<p[1], p[2] - 1>>) = <<g, j - 1>>
        BY <2>3, <2>6, <3>3
      <4> QED BY <2>12, <3>1, <3>3, <4>1 DEF notBehind
    <3> QED BY <1>4, <2>6, <3>2, <3>3 DEF isCommit
  <2> QED BY <1>1, <2>2, <2>10, <2>11, <2>12
<1> QED BY <1>2, <1>3, <1>4, Zenon DEF LosesNone

\* How the two parts of a file's events fit together.
LEMMA ScannedEvents ==
    ASSUME SearchedLog, NEW f \in DOMAIN seekLog, target[1] = f
    PROVE  /\ Len(events) = Len(seekLog[f].events) + 1
           /\ events[1].type = "format" /\ events[1].time = seekLog[f].fmt
           /\ \A i \in 1 .. Len(seekLog[f].events) :
                events[i + 1] = seekLog[f].events[i] /\ events[i + 1] \in LogEvent
           /\ \A i \in 1 .. Len(events) : events[i].time \in Nat
<1>1. seekLog[f].events \in Seq(LogEvent) /\ seekLog[f].fmt \in Nat
  BY LogFacts
<1> DEFINE h == [type |-> "format", time |-> seekLog[f].fmt]
<1>2. events = <<h>> \o seekLog[f].events
  BY DEF events
<1>4. h.type = "format" /\ h.time \in Nat /\ h.time = seekLog[f].fmt
  BY <1>1
<1> HIDE DEF h
<1>6. \A i \in 1 .. Len(seekLog[f].events) :
        (<<h>> \o seekLog[f].events)[i + 1] = seekLog[f].events[i]
  BY <1>1
<1>7. \A i \in 1 .. Len(seekLog[f].events) : seekLog[f].events[i] \in LogEvent
  BY <1>1, EventOf
<1>8. events[1] = h /\ Len(events) = Len(seekLog[f].events) + 1
  BY <1>1, <1>2
<1>10. \A i \in 1 .. Len(events) : events[i].time \in Nat
  <2> SUFFICES ASSUME NEW i \in 1 .. Len(events) PROVE events[i].time \in Nat
    OBVIOUS
  <2>1. CASE i = 1
    BY <1>4, <1>8, <2>1
  <2>2. CASE i # 1
    <3>1. i - 1 \in 1 .. Len(seekLog[f].events) /\ (i - 1) + 1 = i
      BY <1>1, <1>8, <2>2
    <3>2. events[i] = seekLog[f].events[i - 1] /\ seekLog[f].events[i - 1] \in LogEvent
      BY <1>2, <1>6, <1>7, <3>1
    <3> QED BY <3>2 DEF LogEvent
  <2> QED BY <2>1, <2>2
<1> QED BY <1>2, <1>4, <1>6, <1>7, <1>8, <1>10

\* The invariant in a state with the same log, from what the step leaves behind.
LEMMA BinlogSeekKept ==
    ASSUME BinlogSeekInv, seekLog' = seekLog, wanted' = wanted,
           seekPc' = "probe" => Search', seekPc' = "scan" => Scan',
           seekPc' = "ok" => LosesNone(target')
    PROVE  BinlogSeekInv'
<1>1. SearchedLog'
  BY DEF BinlogSeekInv, SearchedLog
<1>2. SeekLosesNone'
  BY DEF SeekLosesNone, LosesNone, Positions, eventAt, PassedOver, notBehind
<1> QED BY <1>1, <1>2, Zenon DEF BinlogSeekInv

\* A turn of the search (seekBinlogFile) keeps the files outside the bounds looked at.
LEMMA ProbeStep ==
    ASSUME BinlogSeekInv, probe
    PROVE  BinlogSeekInv'
<1>1. /\ SearchedLog /\ Search
      /\ lo \in Int /\ hi \in Int /\ First <= lo /\ lo <= hi /\ hi <= End
      /\ seekLog' = seekLog /\ wanted' = wanted /\ curOff' = 1 /\ beginOff' = 1
  BY DEF BinlogSeekInv, probe, Search
<1>2. First' = First /\ End' = End /\ \A f : begins(f)' = begins(f)
  BY <1>1 DEF First, End, begins
<1>3. PICK m \in Int : m = probed' /\ lo <= m /\ m <= hi /\ (m = hi => lo = hi)
  <2>1. /\ (lo + hi) \div 2 \in Int /\ lo <= (lo + hi) \div 2 /\ (lo + hi) \div 2 <= hi
        /\ (lo + hi) \div 2 = hi => lo = hi
    BY <1>1
  <2> QED BY <2>1 DEF probe
<1>4. CASE m \notin DOMAIN seekLog
  <2>1. seekPc' = "notExist"
    BY <1>3, <1>4 DEF probe
  <2> QED BY <1>1, <2>1, BinlogSeekKept
<1>5. CASE m \in DOMAIN seekLog
  <2>1. /\ seekPc' = "probe" /\ firstTime' = begins(m)
        /\ IF wanted < begins(m) THEN hi' = m - 1 /\ lo' = lo ELSE lo' = m + 1 /\ hi' = hi
    BY <1>3, <1>5 DEF probe, begins
  <2>2. begins(m) \in Nat /\ wanted \in Nat /\ First \in Nat /\ End \in Nat
    BY <1>1, <1>5, LogFacts DEF SearchedLog
  <2>3. CASE wanted < begins(m)
    <3>1. /\ hi' + 1 = m /\ hi' \in Int /\ lo' = lo /\ lo <= hi' + 1 /\ hi' <= End /\ hi' # End
          /\ probed' = hi' + 1
      <4>1. /\ hi' = m - 1 /\ lo' = lo /\ probed' = m /\ m \in Int
            /\ lo <= m /\ m <= hi /\ hi <= End /\ hi \in Int
        BY <1>1, <1>3, <2>1, <2>3
      <4> QED BY ONLY <4>1, <2>2
    <3>2. Search'
      BY <1>1, <1>2, <1>3, <1>5, <2>1, <2>3, <3>1 DEF Search
    <3> QED BY <1>1, <2>1, <3>2, BinlogSeekKept
  <2>4. CASE ~(wanted < begins(m))
    <3>1. /\ lo' - 1 = m /\ lo' \in Int /\ hi' = hi /\ First <= lo' /\ lo' # First
          /\ lo' <= hi + 1 /\ probed' = lo' - 1 /\ begins(m) <= wanted
      <4>1. /\ lo' = m + 1 /\ hi' = hi /\ probed' = m /\ m \in Int
            /\ First <= lo /\ lo <= m /\ m <= hi /\ hi \in Int /\ lo \in Int
        BY <1>1, <1>3, <2>1, <2>4
      <4> QED BY ONLY <4>1, <2>2, <2>4
    <3>2. ASSUME lo' > hi', probed' # First
          PROVE  probed' - 1 \in DOMAIN seekLog /\ begins(probed' - 1) <= wanted
      <4>1. m = lo
        <5>1. /\ lo' = m + 1 /\ hi \in Int /\ m \in Int /\ lo' > hi /\ m <= hi
          BY <1>1, <1>3, <2>1, <2>4, <3>1, <3>2
        <5>2. m = hi
          BY ONLY <5>1
        <5> QED BY <1>3, <5>2
      <4> QED BY <1>1, <1>3, <3>2, <4>1 DEF Search
    <3>3. Search'
      BY <1>1, <1>2, <1>3, <1>5, <2>1, <3>1, <3>2 DEF Search
    <3> QED BY <1>1, <2>1, <3>3, BinlogSeekKept
  <2> QED BY <2>3, <2>4
<1> QED BY <1>4, <1>5

\* Behind the search the chosen file is there, its successor too, and nothing before it
\* is asked for.
LEMMA ChooseStep ==
    ASSUME BinlogSeekInv, chooseFile
    PROVE  BinlogSeekInv'
<1>1. /\ SearchedLog /\ Search
      /\ lo \in Int /\ hi \in Int /\ lo = hi + 1 /\ First <= lo /\ hi <= End
      /\ seekLog' = seekLog /\ wanted' = wanted /\ curOff' = 1 /\ beginOff' = 1
  <2>1. /\ SearchedLog /\ Search /\ lo > hi
        /\ seekLog' = seekLog /\ wanted' = wanted /\ curOff' = 1 /\ beginOff' = 1
    BY DEF BinlogSeekInv, chooseFile, chooseBefore, Search
  <2> QED BY <2>1 DEF Search
<1>2. /\ First \in DOMAIN seekLog /\ End \in DOMAIN seekLog /\ wanted \in Nat
      /\ \A f \in DOMAIN seekLog : f \in Nat \ {0} /\ First <= f /\ f <= End /\ begins(f) \in Nat
  BY <1>1, LogFacts DEF SearchedLog
<1>3. CASE seekPc' # "scan"
  <2>1. seekPc' = "notExist"
    BY <1>3 DEF chooseFile, chooseBefore
  <2> QED BY <1>1, <2>1, BinlogSeekKept
<1>4. CASE seekPc' = "scan"
  <2>1. PICK f : /\ target' = <<f, 1>>
                 /\ f = IF wanted <= firstTime /\ probed # First THEN probed - 1 ELSE probed
    BY <1>4 DEF chooseFile, chooseBefore, First
  <2>2. EarlierOld(First)
    BY <1>2 DEF EarlierOld
  <2>3. /\ f \in DOMAIN seekLog /\ EarlierOld(f)
        /\ f = End \/ f + 1 \in DOMAIN seekLog \/ wanted < begins(f)
    <3>1. CASE probed = lo - 1 /\ lo # First /\ firstTime = begins(probed)
      <4>1. probed \in DOMAIN seekLog /\ begins(probed) <= wanted /\ probed = hi
        BY <1>1, <3>1 DEF Search
      <4>2. probed = End \/ probed + 1 \in DOMAIN seekLog
        BY <1>1, <4>1 DEF Search
      <4>3. CASE begins(probed) = wanted /\ probed # First
        <5>1. /\ f = probed - 1 /\ f + 1 = probed
              /\ f \in DOMAIN seekLog /\ begins(f) <= wanted
          BY <1>1, <1>2, <2>1, <3>1, <4>1, <4>3 DEF Search
        <5>2. f # End
          BY <1>2, <4>1, <5>1
        <5> QED BY <1>1, <4>1, <5>1, <5>2, OldBefore
      <4>4. CASE begins(probed) # wanted
        <5>1. f = probed
          BY <1>2, <2>1, <3>1, <4>1, <4>4
        <5> QED BY <1>1, <4>1, <4>2, <4>4, <5>1, OldBefore
      <4>5. CASE probed = First
        BY <2>1, <2>2, <4>1, <4>2, <4>5
      <4> QED BY <4>3, <4>4, <4>5
    <3>2. CASE probed = hi + 1 /\ hi # End /\ firstTime = begins(probed)
      <4>1. probed \in DOMAIN seekLog /\ wanted < begins(probed) /\ probed = lo
        BY <1>1, <3>2 DEF Search
      <4>2. CASE probed = First
        BY <2>1, <2>2, <4>1, <4>2
      <4>3. CASE probed # First
        <5>1. /\ f = probed - 1 /\ f + 1 = probed
              /\ f \in DOMAIN seekLog /\ begins(f) <= wanted
          BY <1>1, <1>2, <2>1, <3>2, <4>1, <4>3 DEF Search
        <5>2. f # End
          BY <1>2, <4>1, <5>1
        <5> QED BY <1>1, <4>1, <5>1, <5>2, OldBefore
      <4> QED BY <4>2, <4>3
    <3>3. ~(lo = First /\ hi = End)
      BY <1>1, <1>2
    <3> QED BY <1>1, <3>1, <3>2, <3>3 DEF Search
  <2>4. Scan'
    <3>1. f \in DOMAIN seekLog' /\ target'[1] = f
      BY <1>1, <2>1, <2>3
    <3>2. EarlierOld(f)' /\ (f = End \/ f + 1 \in DOMAIN seekLog \/ wanted < begins(f))'
      BY <1>1, <2>3 DEF EarlierOld, PassedOver, End, begins
    <3>3. Len(events') \in Nat
      <4>1. SearchedLog'
        BY <1>1 DEF SearchedLog
      <4>2. seekLog'[f].events \in Seq(LogEvent)
        BY <1>1, <2>3, LogFacts
      <4>3. events' = <<[type |-> "format", time |-> seekLog'[f].fmt]>> \o seekLog'[f].events
        BY <3>1 DEF events
      <4> QED BY <4>2, <4>3
    <3>4. curOff' \in 1 .. Len(events') + 1 /\ beginOff' \in 1 .. curOff' /\ 1 .. curOff' - 1 = {}
      BY <1>1, <3>3
    <3> QED BY <1>1, <2>1, <3>1, <3>2, <3>4 DEF Scan
  <2> QED BY <1>1, <1>4, <2>4, BinlogSeekKept
<1> QED BY <1>3, <1>4

\* What the invariant says of a scan (seekBinlogInFile), with the file named.
LEMMA ScanFacts ==
    ASSUME BinlogSeekInv, seekPc = "scan"
    PROVE  /\ SearchedLog /\ wanted \in Nat
           /\ \E f \in DOMAIN seekLog :
                /\ target = <<f, 1>> /\ target[1] = f /\ EarlierOld(f)
                /\ f = End \/ f + 1 \in DOMAIN seekLog \/ wanted < begins(f)
           /\ Len(events) \in Nat
           /\ curOff \in 1 .. Len(events) + 1 /\ beginOff \in 1 .. curOff
           /\ \A i \in 1 .. curOff - 1 :
                events[i].time < wanted /\ (events[i].type = "begin" => i <= beginOff)
           /\ beginOff = 1 \/ (beginOff < curOff /\ events[beginOff].type = "begin")
<1>1. SearchedLog /\ Scan /\ wanted \in Nat
  BY DEF BinlogSeekInv, SearchedLog
<1>2. PICK f \in DOMAIN seekLog :
        /\ target = <<f, 1>> /\ EarlierOld(f)
        /\ f = End \/ f + 1 \in DOMAIN seekLog \/ wanted < begins(f)
  BY <1>1 DEF Scan
<1>3. target[1] = f
  BY <1>2
<1>4. Len(events) \in Nat
  BY <1>1, <1>3, ScannedEvents, LogFacts
<1> QED BY <1>1, <1>2, <1>3, <1>4 DEF Scan

\* An event is looked at: an older one is passed, at another the scan ends and reading
\* begins at the last begin.
LEMMA ScanEventStep ==
    ASSUME BinlogSeekInv, scanEvent
    PROVE  BinlogSeekInv'
<1>1. seekPc = "scan" /\ curOff <= Len(events) /\ seekLog' = seekLog /\ wanted' = wanted
  BY DEF scanEvent
<1>2. PICK f \in DOMAIN seekLog :
        /\ target = <<f, 1>> /\ target[1] = f /\ EarlierOld(f)
        /\ f = End \/ f + 1 \in DOMAIN seekLog \/ wanted < begins(f)
  BY <1>1, ScanFacts
<1>3. /\ SearchedLog /\ wanted \in Nat /\ Len(events) \in Nat
      /\ curOff \in 1 .. Len(events) + 1 /\ beginOff \in 1 .. curOff
      /\ \A i \in 1 .. curOff - 1 :
           events[i].time < wanted /\ (events[i].type = "begin" => i <= beginOff)
      /\ beginOff = 1 \/ (beginOff < curOff /\ events[beginOff].type = "begin")
  BY <1>1, ScanFacts
<1>4. /\ Len(events) = Len(seekLog[f].events) + 1 /\ Len(seekLog[f].events) \in Nat
      /\ \A i \in 1 .. Len(seekLog[f].events) :
           events[i + 1] = seekLog[f].events[i] /\ events[i + 1] \in LogEvent
      /\ \A i \in 1 .. Len(events) : events[i].time \in Nat
  BY <1>2, <1>3, ScannedEvents, LogFacts
<1>5. CASE events[curOff].time >= wanted
  <2>1. target' = <<f, beginOff>> /\ seekPc' = "ok"
    BY <1>2, <1>5 DEF scanEvent
  <2>2. beginOff \in 1 .. Len(seekLog[f].events) + 1
    BY <1>1, <1>3, <1>4
  <2>3. ASSUME beginOff > 1 PROVE seekLog[f].events[beginOff - 1].type = "begin"
    <3>1. beginOff - 1 \in 1 .. Len(seekLog[f].events) /\ (beginOff - 1) + 1 = beginOff
      BY <2>2, <2>3
    <3>2. events[beginOff] = seekLog[f].events[beginOff - 1]
      BY <1>4, <3>1
    <3> QED BY <1>3, <2>3, <3>2
  <2>4. ASSUME NEW i \in 1 .. Len(seekLog[f].events),
               isCommit(seekLog[f].events[i]), seekLog[f].events[i].time >= wanted
        PROVE  beginOff <= i + 1 /\ (seekLog[f].events[i].type = "xid" => beginOff <= i)
    <3>1. events[i + 1] = seekLog[f].events[i] /\ events[i + 1].time \in Nat
      BY <1>4
    <3>2. curOff <= i + 1
      <4> SUFFICES ASSUME ~(curOff <= i + 1) PROVE FALSE
        OBVIOUS
      <4>1. i + 1 \in 1 .. curOff - 1
        BY <1>3
      <4>2. events[i + 1].time < wanted
        BY <1>3, <4>1
      <4> QED BY <1>3, <2>4, <3>1, <4>2
    <3>3. ASSUME seekLog[f].events[i].type = "xid" PROVE beginOff <= i
      <4>1. i > 1 /\ seekLog[f].events[i - 1].type = "begin"
        <5>1. i \in DOMAIN seekLog[f].events
          BY <1>3, LogFacts
        <5> QED BY <1>3, <3>3, <5>1, Zenon DEF SearchedLog, ServerLog
      <4>2. beginOff # i + 1
        <5> SUFFICES ASSUME beginOff = i + 1 PROVE FALSE
          OBVIOUS
        <5>1. events[i + 1].type = "begin"
          BY <1>3, <4>1
        <5> QED BY <3>1, <3>3, <5>1
      <4>3. beginOff <= curOff /\ beginOff \in Nat /\ curOff \in Nat /\ i \in Nat
        BY <1>3
      <4>4. CASE curOff = i + 1
        BY ONLY <4>2, <4>3, <4>4
      <4>5. CASE curOff <= i
        BY ONLY <4>3, <4>5
      <4> QED BY ONLY <3>2, <4>3, <4>4, <4>5
    <3> QED BY <1>3, <3>2, <3>3
  <2>5. LosesNone(<<f, beginOff>>)
    <3>1. beginOff > 1 => seekLog[f].events[beginOff - 1].type = "begin"
      BY <2>3
    <3> QED BY <1>2, <1>3, <2>2, <3>1, <2>4, GoodStart
  <2> QED BY <1>1, <2>1, <2>5, BinlogSeekKept
<1>6. CASE ~(events[curOff].time >= wanted)
  <2>1. /\ target' = target /\ seekPc' = "scan" /\ events' = events
        /\ curOff' = curOff + 1
        /\ beginOff' = IF events[curOff].type = "begin" THEN curOff ELSE beginOff
    BY <1>1, <1>6 DEF scanEvent, events
  <2>2. events[curOff].time < wanted
    BY <1>1, <1>3, <1>4, <1>6
  <2>3. curOff' \in 1 .. Len(events') + 1 /\ beginOff' \in 1 .. curOff'
    BY <1>1, <1>3, <2>1
  <2>4. ASSUME NEW i \in 1 .. curOff' - 1
        PROVE  events[i].time < wanted /\ (events[i].type = "begin" => i <= beginOff')
    <3>1. CASE i = curOff
      BY <1>3, <2>1, <2>2, <3>1
    <3>2. CASE i # curOff
      <4>1. i \in 1 .. curOff - 1 /\ i < curOff
        BY <1>3, <2>1, <3>2
      <4>2. events[i].time < wanted /\ (events[i].type = "begin" => i <= beginOff)
        BY <1>3, <4>1
      <4> QED BY <1>3, <2>1, <4>1, <4>2
    <3> QED BY <3>1, <3>2
  <2>5. beginOff' = 1 \/ (beginOff' < curOff' /\ events[beginOff'].type = "begin")
    <3>1. curOff \in Nat /\ beginOff \in 1 .. curOff
      BY <1>3
    <3>2. CASE events[curOff].type = "begin"
      BY ONLY <2>1, <3>1, <3>2
    <3>3. CASE events[curOff].type # "begin"
      <4>1. beginOff' = beginOff /\ beginOff < curOff'
        BY ONLY <2>1, <3>1, <3>3
      <4> QED BY <1>3, <4>1
    <3> QED BY <3>2, <3>3
  <2>6. EarlierOld(f)' /\ (f = End \/ f + 1 \in DOMAIN seekLog \/ wanted < begins(f))'
    BY <1>1, <1>2 DEF EarlierOld, PassedOver, End, begins
  <2>7. Scan'
    BY <1>1, <1>2, <2>1, <2>3, <2>4, <2>5, <2>6 DEF Scan
  <2> QED BY <1>1, <2>1, <2>7, BinlogSeekKept
<1> QED BY <1>5, <1>6

\* At the end of a file everything in it is too old; the next one is there, and reading
\* begins with it, or at the beginning of the last file.
LEMMA ScanEndStep ==
    ASSUME BinlogSeekInv, scanEnd
    PROVE  BinlogSeekInv'
<1>1. seekPc = "scan" /\ curOff > Len(events) /\ seekLog' = seekLog /\ wanted' = wanted
  BY DEF scanEnd
<1>2. PICK f \in DOMAIN seekLog :
        /\ target = <<f, 1>> /\ target[1] = f /\ EarlierOld(f)
        /\ f = End \/ f + 1 \in DOMAIN seekLog \/ wanted < begins(f)
  BY <1>1, ScanFacts
<1>3. /\ SearchedLog /\ wanted \in Nat /\ Len(events) \in Nat /\ curOff \in Nat
      /\ \A i \in 1 .. curOff - 1 : events[i].time < wanted
  BY <1>1, ScanFacts
<1>4. /\ Len(events) = Len(seekLog[f].events) + 1 /\ Len(seekLog[f].events) \in Nat
      /\ \A i \in 1 .. Len(seekLog[f].events) :
           events[i + 1] = seekLog[f].events[i] /\ events[i + 1] \in LogEvent
      /\ \A i \in 1 .. Len(events) : events[i].time \in Nat
  BY <1>2, <1>3, ScannedEvents, LogFacts
<1>5. \A i \in 1 .. Len(events) : events[i].time < wanted
  BY <1>1, <1>3
<1>6. \A i \in 1 .. Len(seekLog[f].events) :
        seekLog[f].events[i].time < wanted /\ seekLog[f].events[i].time \in Nat
  <2> SUFFICES ASSUME NEW i \in 1 .. Len(seekLog[f].events)
               PROVE  seekLog[f].events[i].time < wanted /\ seekLog[f].events[i].time \in Nat
    OBVIOUS
  <2>1. i + 1 \in 1 .. Len(events) /\ events[i + 1] = seekLog[f].events[i]
    BY <1>4
  <2>2. events[i + 1].time < wanted /\ events[i + 1].time \in Nat
    BY <1>4, <1>5, <2>1
  <2> QED BY <2>1, <2>2
<1>7. CASE f = End
  <2>1. target' = <<f, 1>>
    BY <1>2, <1>7 DEF scanEnd, End
  <2>2. LosesNone(<<f, 1>>)
    <3>1. 1 \in 1 .. Len(seekLog[f].events) + 1 /\ ~(1 > 1)
      BY <1>4
    <3>2. \A i \in 1 .. Len(seekLog[f].events) :
            isCommit(seekLog[f].events[i]) /\ seekLog[f].events[i].time >= wanted =>
              1 <= i + 1 /\ (seekLog[f].events[i].type = "xid" => 1 <= i)
      OBVIOUS
    <3> QED BY <1>2, <1>3, <3>1, <3>2, GoodStart
  <2>3. seekPc' \in {"failed", "ok"}
    BY <1>2, <1>7 DEF scanEnd, End
  <2> QED BY <1>1, <2>1, <2>2, <2>3, BinlogSeekKept
<1>8. CASE f # End
  <2>1. target' = <<f + 1, 1>> /\ seekPc' = "ok"
    BY <1>2, <1>8 DEF scanEnd, End
  <2>2. ~(wanted < begins(f))
    <3>1. /\ begins(f) \in Nat
          /\ \/ begins(f) = seekLog[f].fmt
             \/ \E i \in 1 .. Len(seekLog[f].events) : begins(f) = seekLog[f].events[i].time
      BY <1>3, LogFacts
    <3>2. seekLog[f].fmt < wanted
      <4>1. events[1].time = seekLog[f].fmt
        BY <1>2, <1>3, ScannedEvents
      <4>2. 1 \in 1 .. Len(events)
        BY <1>4
      <4> QED BY <1>5, <4>1, <4>2
    <3>3. begins(f) < wanted
      BY <1>6, <3>1, <3>2
    <3> QED BY <1>3, <3>1, <3>3
  <2>3. f + 1 \in DOMAIN seekLog /\ f \in Nat
    BY <1>2, <1>3, <1>8, <2>2, LogFacts
  <2>4. EarlierOld(f + 1)
    <3> SUFFICES ASSUME NEW g \in DOMAIN seekLog, g < f + 1,
                        NEW i \in DOMAIN seekLog[g].events, isCommit(seekLog[g].events[i])
                 PROVE  /\ seekLog[g].events[i].time <= wanted
                        /\ seekLog[g].events[i].time = wanted => PassedOver(<<g, i + 1>>)
      BY Zenon DEF EarlierOld
    <3>1. g \in Nat /\ (g < f \/ g = f)
      BY <1>3, <2>3, LogFacts
    <3>2. CASE g < f
      BY <1>2, <3>2, Zenon DEF EarlierOld
    <3>3. CASE g = f
      <4>1. i \in 1 .. Len(seekLog[f].events)
        BY <1>3, <3>3, LogFacts
      <4>2. seekLog[g].events[i].time < wanted /\ seekLog[g].events[i].time \in Nat
        BY <1>6, <3>3, <4>1
      <4> QED BY <1>3, <4>2
    <3> QED BY <3>1, <3>2, <3>3
  <2>5. LosesNone(<<f + 1, 1>>)
    <3>1. Len(seekLog[f + 1].events) \in Nat
      BY <1>3, <2>3, LogFacts
    <3>2. 1 \in 1 .. Len(seekLog[f + 1].events) + 1 /\ ~(1 > 1)
      BY <3>1
    <3>3. \A i \in 1 .. Len(seekLog[f + 1].events) :
            isCommit(seekLog[f + 1].events[i]) /\ seekLog[f + 1].events[i].time >= wanted =>
              1 <= i + 1 /\ (seekLog[f + 1].events[i].type = "xid" => 1 <= i)
      OBVIOUS
    <3> QED BY <1>3, <2>3, <2>4, <3>2, <3>3, GoodStart
  <2> QED BY <1>1, <2>1, <2>5, BinlogSeekKept
<1> QED BY <1>7, <1>8

\* A seek that succeeds begins outside a transaction and leaves no commit out that is
\* asked for, but those of exactly the wanted time that may be passed over
\* (seekBinlogByTimestamp), for any number of files, with holes too, and of events.
THEOREM BinlogSeekTheorem == SeekSpec => []SeekLosesNone
<1>1. SeekInit => BinlogSeekInv
  <2> SUFFICES ASSUME SeekInit PROVE BinlogSeekInv
    OBVIOUS
  <2>1. SearchedLog
    BY BinlogSeekAssumption DEF SeekInit, SearchedLog
  <2>2. First \in Nat /\ End \in Nat /\ First <= End
    BY <2>1, LogFacts
  <2>3. lo = First /\ hi = End /\ curOff = 1 /\ beginOff = 1 /\ seekPc = "probe"
    BY DEF SeekInit, First, End
  <2>4. Search
    BY <2>2, <2>3 DEF Search
  <2> QED BY <2>1, <2>3, <2>4 DEF BinlogSeekInv, SeekLosesNone
<1>2. BinlogSeekInv /\ [SeekNext]_seekVars => BinlogSeekInv'
  <2> SUFFICES ASSUME BinlogSeekInv, [SeekNext]_seekVars PROVE BinlogSeekInv'
    OBVIOUS
  <2>1. CASE seekFails
    <3>1. seekPc' = "failed" /\ seekLog' = seekLog /\ wanted' = wanted
      BY <2>1 DEF seekFails
    <3> QED BY <3>1, BinlogSeekKept
  <2>2. CASE UNCHANGED seekVars
    <3>1. SearchedLog' = SearchedLog
      BY <2>2 DEF seekVars, SearchedLog
    <3>2. Search' = Search
      BY <2>2 DEF seekVars, Search, First, End, begins
    <3>3. Scan' = Scan
      <4>1. \A f : EarlierOld(f)' = EarlierOld(f)
        BY <2>2 DEF seekVars, EarlierOld, PassedOver
      <4>2. events' = events /\ End' = End /\ \A f : begins(f)' = begins(f)
        BY <2>2 DEF seekVars, events, End, begins
      <4> QED BY <2>2, <4>1, <4>2 DEF seekVars, Scan
    <3>4. SeekLosesNone' = SeekLosesNone
      <4>1. /\ Positions' = Positions
            /\ \A q : eventAt(q)' = eventAt(q) /\ PassedOver(q)' = PassedOver(q)
        BY <2>2 DEF seekVars, Positions, eventAt, PassedOver
      <4> QED BY <2>2, <4>1 DEF seekVars, SeekLosesNone
    <3> QED BY <2>2, <3>1, <3>2, <3>3, <3>4 DEF seekVars, BinlogSeekInv
  <2> QED BY <2>1, <2>2, ProbeStep, ChooseStep, ScanEventStep, ScanEndStep DEF SeekNext
<1>3. BinlogSeekInv => SeekLosesNone
  BY DEF BinlogSeekInv
<1> QED BY <1>1, <1>2, <1>3, PTL DEF SeekSpec

-----------------------------------------------------------------------------
(* The stream of changes: rows find their table map                        *)

\* A place in the log, and what the parser makes of events.
Place == (1 .. Len(BinLog)) \X (Nat \ {0})
Rec == [kind : {"row", "ddl"}, off : Place, n : Nat]
Logged == [kind : {"row", "ddl", "rollback", "begin", "xid"}, off : Place, n : Nat]
Item == Logged \cup {NoItem}
Made == [type : {"rotate", "format"}, made : {TRUE}, file : Nat, off : {0}]

\* The cell of an item is written, the item still to be taken from m_parsedRecords.
Pushed == threadPc = "pushed" => async /\ parsed # <<>>

\* What is between the parser and the store, and in the store.
ItemsOK ==
    /\ parsed \in Seq(Item) /\ inHand \in Item
    /\ queue \in [cells : [0 .. Volumn - 1 -> Item], head : 0 .. Volumn - 1, tail : 0 .. Volumn - 1]
    /\ stored \in Seq([rec : Rec, txn : Nat]) /\ txnId \in Nat
    /\ loaded \in [count : Nat, max : Nat, back : BOOLEAN]
    /\ Pushed

\* There is an event to parse, and the thread that reads is about to.
Parsing == evt # NoItem
AtParse == IF async THEN threadPc = "parse" ELSE mainPc = "parse"

\* It is at hand until it is parsed or the process dies of another item.
AtHand ==
    /\ AtParse => Parsing
    /\ Parsing => AtParse \/ (async /\ threadPc = "done")

\* The tables of the log, and the parser's m_tableMap before the first map.
TableNames == STRING \cup {"none"}

ReadTypes ==
    /\ conn \in [state : {"up", "lost", "null"}, file : 1 .. Len(BinLog), pos : Nat \ {0},
                 due : Seq(Made)]
    /\ reader \in [file : 1 .. Len(BinLog), pos : Nat \ {0}, rotates : Nat]
    /\ parser \in [file : 0 .. Len(BinLog), map : TableNames]
    /\ async \in BOOLEAN /\ restarts \in Nat

\* The server sends from the noted position on, behind what it makes up.
ConnOK ==
    conn.state = "up" =>
        /\ conn.file = reader.file /\ conn.pos = reader.pos
        /\ conn.due \in {<<>>, <<made("format", reader.file)>>, <<made("rotate", reader.file)>>,
                         <<made("rotate", reader.file), made("format", reader.file)>>}

\* The event just before the noted position, as the server sends it.
lastEvent ==
    [type |-> BinLog[reader.file][reader.pos - 1].type, made |-> FALSE,
     file |-> reader.file, off |-> reader.pos]

EvtOK ==
    /\ AtHand
    /\ Parsing => \/ evt = made("rotate", reader.file)
                  \/ evt = made("format", reader.file)
                  \/ reader.pos - 1 \in DOMAIN BinLog[reader.file] /\ evt = lastEvent

\* The parser is in the file that is read, or a rotate event is yet to tell it.
Early ==
    /\ parser.file = 0 /\ reader.rotates = 0
    /\ conn.state = "up" => conn.due # <<>> /\ Head(conn.due) = made("rotate", reader.file)

FileOK ==
    IF ~Parsing THEN parser.file = reader.file \/ Early
    ELSE IF evt.made /\ evt.type = "rotate"
      THEN parser.file \in {0, reader.file, reader.file - 1}
    ELSE parser.file = reader.file

\* The parser's table map is the last one before the rows that come before the next is sent.
Fits(from) ==
    \A i \in DOMAIN BinLog[reader.file] :
        /\ from <= i /\ BinLog[reader.file][i].type = "rows"
        /\ \A j \in from .. i - 1 : BinLog[reader.file][j].type # "map"
        => lastMap(reader.file, i, parser.map) \/ (restarts > 0 /\ parser.map = "none")

MapOK == Fits(IF Parsing /\ ~evt.made THEN reader.pos - 1 ELSE reader.pos)

ReadOK == ReadTypes /\ ConnOK /\ EvtOK /\ FileOK /\ MapOK

SourceInv == ItemsOK /\ ReadOK

-----------------------------------------------------------------------------
\* Every event of the log is a record, and the rows of an event are a number.
LEMMA LogShape ==
    /\ Len(BinLog) \in Nat /\ Len(BinLog) > 0 /\ DOMAIN BinLog = 1 .. Len(BinLog)
    /\ \A f \in 1 .. Len(BinLog) :
         /\ Len(BinLog[f]) \in Nat /\ DOMAIN BinLog[f] = 1 .. Len(BinLog[f])
         /\ \A i \in 1 .. Len(BinLog[f]) :
              BinLog[f][i].type \in STRING /\ BinLog[f][i].table \in STRING
              /\ BinLog[f][i].rows \in Nat
<1> DEFINE E == [type : STRING, table : STRING, rows : Nat]
<1>1. \A e \in E : e.type \in STRING /\ e.table \in STRING /\ e.rows \in Nat
  OBVIOUS
<1>2. BinLog \in Seq(Seq(E)) /\ Len(BinLog) > 0
  BY BinLogAssumption, SourceAssumption
<1> HIDE DEF E
<1>3. Len(BinLog) \in Nat /\ DOMAIN BinLog = 1 .. Len(BinLog)
  BY <1>2
<1>4. ASSUME NEW f \in 1 .. Len(BinLog)
      PROVE  /\ Len(BinLog[f]) \in Nat /\ DOMAIN BinLog[f] = 1 .. Len(BinLog[f])
             /\ \A i \in 1 .. Len(BinLog[f]) :
                  BinLog[f][i].type \in STRING /\ BinLog[f][i].table \in STRING
                  /\ BinLog[f][i].rows \in Nat
  <2>1. BinLog[f] \in Seq(E)
    BY ONLY <1>2, EventOf
  <2>2. Len(BinLog[f]) \in Nat /\ DOMAIN BinLog[f] = 1 .. Len(BinLog[f])
    BY <2>1
  <2>3. \A i \in 1 .. Len(BinLog[f]) : BinLog[f][i] \in E
    BY ONLY <2>1, EventOf
  <2> QED BY <1>1, <2>2, <2>3
<1> QED BY <1>2, <1>3, <1>4

\* What the parser makes of an event of the log (BinlogEventParser).
LEMMA RecordsAtType ==
    ASSUME NEW f \in 1 .. Len(BinLog), NEW off \in Nat, off - 1 \in DOMAIN BinLog[f]
    PROVE  recordsAt(f, off) \in Seq(Item)
<1>1. /\ BinLog[f][off - 1].type \in STRING /\ BinLog[f][off - 1].rows \in Nat
      /\ <<f, off>> \in Place
  <2>1. off - 1 \in 1 .. Len(BinLog[f])
    BY LogShape
  <2>2. off \in Nat \ {0}
    BY <2>1, LogShape
  <2> QED BY <2>1, <2>2, LogShape DEF Place
<1> DEFINE e == BinLog[f][off - 1]
<1>2. CASE e.type = "rows"
  <2>1. recordsAt(f, off) = [n \in 1 .. e.rows |-> [kind |-> "row", off |-> <<f, off>>, n |-> n]]
    BY <1>2 DEF recordsAt
  <2>2. \A n \in 1 .. e.rows : [kind |-> "row", off |-> <<f, off>>, n |-> n] \in Item
    BY <1>1 DEF Item, Logged
  <2> QED BY <1>1, <2>1, <2>2
<1>3. CASE e.type \in {"ddl", "rollback", "begin", "xid"}
  <2>1. recordsAt(f, off) = <<[kind |-> e.type, off |-> <<f, off>>, n |-> 1]>>
    BY <1>3 DEF recordsAt
  <2>2. [kind |-> e.type, off |-> <<f, off>>, n |-> 1] \in Item
    BY <1>1, <1>3 DEF Item, Logged
  <2> QED BY <2>1, <2>2
<1>4. CASE e.type \notin {"rows", "ddl", "rollback", "begin", "xid"}
  <2>1. recordsAt(f, off) = <<>>
    BY <1>4 DEF recordsAt
  <2> QED BY <2>1
<1> QED BY <1>2, <1>3, <1>4

\* The items that are records are those with a place.
LEMMA RecordItems ==
    ASSUME NEW x \in Item
    PROVE  isRecord(x) => x \in Rec
  BY DEF Item, Logged, NoItem, Rec, isRecord

\* nextPos stays in the ring.
LEMMA NextInRing == ASSUME NEW i \in 0 .. Volumn - 1 PROVE next(i) \in 0 .. Volumn - 1
<1>1. Volumn \in Nat \ {0, 1} /\ i + 1 \in Nat
  BY SourceAssumption
<1> QED BY <1>1 DEF next

-----------------------------------------------------------------------------
\* The records: what is taken over, given on or kept is of the same kind.
LEMMA GiveItem ==
    ASSUME NEW x \in Item, ItemsOK, give(x)
    PROVE  stored' \in Seq([rec : Rec, txn : Nat]) /\ txnId' \in Nat
<1>1. /\ txnId \in Nat /\ stored \in Seq([rec : Rec, txn : Nat])
      /\ txnId' = IF x.kind = "begin" THEN txnId + 1 ELSE txnId
      /\ stored' = IF isRecord(x) THEN Append(stored, [rec |-> x, txn |-> txnId]) ELSE stored
  BY DEF give, giveAs, ItemsOK
<1>2. isRecord(x) => [rec |-> x, txn |-> txnId] \in [rec : Rec, txn : Nat]
  BY <1>1, RecordItems
<1> DEFINE R == [rec : Rec, txn : Nat]
<1>3. stored \in Seq(R) /\ (isRecord(x) => [rec |-> x, txn |-> txnId] \in R)
  BY <1>1, <1>2
<1> HIDE DEF R
<1>4. stored' \in Seq(R)
  BY <1>1, <1>3
<1>5. txnId' \in Nat
  BY <1>1
<1> QED BY <1>4, <1>5 DEF R

\* What the parser leaves behind when it parses the event at hand.
LEMMA ParsedItems ==
    ASSUME ItemsOK, ReadOK, parse
    PROVE  parsed' \in Seq(Item)
<1>1. Parsing /\ parsed \in Seq(Item)
  BY DEF parse, AtParse, AtHand, ReadOK, EvtOK, ItemsOK
<1>2. CASE parsed' = parsed
  BY <1>1, <1>2
<1>3. CASE parsed' = IF evt.made THEN <<>> ELSE recordsAt(parser.file, evt.off)
  <2>1. CASE evt.made
    BY <1>3, <2>1
  <2>2. CASE ~evt.made
    <3>1. reader.pos - 1 \in DOMAIN BinLog[reader.file] /\ evt = lastEvent
      BY <1>1, <2>2 DEF ReadOK, EvtOK, made
    <3>2. evt.off = reader.pos /\ parser.file = reader.file
      BY <1>1, <2>2, <3>1 DEF ReadOK, FileOK, lastEvent
    <3>3. reader.file \in 1 .. Len(BinLog) /\ reader.pos \in Nat
      BY DEF ReadOK, ReadTypes
    <3>4. recordsAt(reader.file, reader.pos) \in Seq(Item)
      BY ONLY <3>1, <3>3, RecordsAtType
    <3> QED BY <1>3, <2>2, <3>2, <3>4
  <2> QED BY <2>1, <2>2
<1> QED BY <1>2, <1>3 DEF parse

\* Only the reading thread takes what it has pushed from the parsed records.
LEMMA PushedStep ==
    ASSUME Pushed, SourceNext
    PROVE  Pushed'
<1>1. CASE \/ loseConnection \/ reconnect \/ dumpRefused \/ mainLoop \/ popCell \/ insertFails
           \/ handlerJoins \/ stopSource \/ signal
  <2>1. UNCHANGED <<threadPc, async, parsed>>
    BY <1>1, Zenon DEF loseConnection, reconnect, dumpRefused, newConn, mainLoop, popCell,
         popCellWhen, insertFails, handlerJoins, stopSource, signal, fixed
  <2> QED BY <2>1 DEF Pushed
<1>2. CASE \/ readEvent \/ giveUp \/ serverError \/ readNull \/ parse \/ parseFails \/ popTail
           \/ takeParsed
  <2>1. CASE readEvent \/ giveUp \/ serverError \/ readNull \/ parse \/ parseFails
    <3>1. async' = async /\ (threadPc' \in {"parse", "done", "push", "read"}
                             \/ (threadPc' = threadPc /\ (parsed' = parsed \/ ~async)))
      BY <2>1 DEF readEvent, giveUp, serverError, readBinlogFails, readNull, parse, parseFails,
                  step, die, fixed
    <3> QED BY <3>1 DEF Pushed
  <2>2. CASE popTail
    BY <2>2 DEF popTail, goOn, die, fixed, Pushed
  <2>3. CASE takeParsed
    BY <2>3 DEF takeParsed, goOn, die, fixed, Pushed
  <2> QED BY <1>2, <2>1, <2>2, <2>3
<1>3. CASE readLoop \/ readStopped \/ pushHead \/ restart
  <2>1. threadPc' \in {"push", "done", "read"}
    BY <1>3 DEF readLoop, readLoopWhen, readStopped, pushHead, restart, startAt
  <2> QED BY <2>1 DEF Pushed
<1>4. CASE pushCell
  BY <1>4 DEF pushCell, pushCellWhen, fixed, Pushed
<1> QED BY <1>1, <1>2, <1>3, <1>4 DEF SourceNext, readerStep, mainStep

\* The m_maxTxnId of a block is a transaction, or 0.
LEMMA LoadedMax ==
    ASSUME stored \in Seq([rec : Rec, txn : Nat]), loaded \in [count : Nat, max : Nat, back : BOOLEAN],
           NEW k \in 1 .. Len(stored), NEW max \in maxTxnIds(k)
    PROVE  max \in Nat
<1> DEFINE R == [rec : Rec, txn : Nat]
<1>1. loaded.max \in Nat /\ loaded.count \in Nat
  OBVIOUS
<1>2. \A i \in 1 .. Len(stored) : stored[i].txn \in Nat
  <2> TAKE i \in 1 .. Len(stored)
  <2>1. stored[i] \in R
    <3>1. stored \in Seq(R)
      OBVIOUS
    <3> HIDE DEF R
    <3> QED BY ONLY <3>1, EventOf
  <2> QED BY <2>1
<1>3. Len(stored) \in Nat
  <2>1. stored \in Seq(R)
    OBVIOUS
  <2> HIDE DEF R
  <2> QED BY <2>1
<1>4. CASE k = loaded.count
  BY <1>1, <1>4 DEF maxTxnIds
<1>5. CASE k # loaded.count /\ max # 0
  <2>1. PICK i \in loaded.count + 1 .. k : max = stored[i].txn
    BY <1>5 DEF maxTxnIds
  <2>2. i \in 1 .. Len(stored)
    BY <1>1, <1>3
  <2> QED BY <1>2, <2>1, <2>2
<1> QED BY <1>4, <1>5

\* Every step keeps the records what they are.
LEMMA ItemsStep ==
    ASSUME ItemsOK, ReadOK, SourceNext
    PROVE  ItemsOK'
<1> DEFINE Q == [cells : [0 .. Volumn - 1 -> Item], head : 0 .. Volumn - 1, tail : 0 .. Volumn - 1]
<1>1. /\ parsed \in Seq(Item) /\ inHand \in Item /\ queue \in Q
      /\ stored \in Seq([rec : Rec, txn : Nat]) /\ txnId \in Nat
      /\ loaded \in [count : Nat, max : Nat, back : BOOLEAN]
  BY DEF ItemsOK
<1>0. Pushed'
  BY PushedStep DEF ItemsOK
<1>2. NoItem \in Item /\ <<>> \in Seq(Item)
  BY DEF NoItem, Item
<1>3. parsed # <<>> => Head(parsed) \in Item /\ Tail(parsed) \in Seq(Item)
  BY <1>1
<1>4. /\ next(queue.head) \in 0 .. Volumn - 1 /\ next(queue.tail) \in 0 .. Volumn - 1
      /\ \A i \in 0 .. Volumn - 1 : queue.cells[i] \in Item
  BY <1>1, NextInRing
<1>5. CASE \/ readEvent \/ loseConnection \/ reconnect \/ dumpRefused \/ giveUp \/ serverError
           \/ readNull \/ parseFails \/ insertFails
           \/ mainLoop \/ signal \/ handlerJoins \/ stopSource \/ readStopped
  <2>1. UNCHANGED <<parsed, inHand, queue, stored, txnId, loaded>>
    BY <1>5, Zenon DEF readEvent, loseConnection, reconnect, dumpRefused, giveUp, serverError,
         readBinlogFails, readNull, parseFails, insertFails, mainLoop, signal, handlerJoins,
         stopSource, readStopped, newConn, storeSide
  <2> QED BY <1>0, <1>1, <2>1 DEF ItemsOK
<1>6. CASE parse
  <2>1. parsed' \in Seq(Item)
    BY <1>6, ParsedItems
  <2>2. UNCHANGED <<inHand, queue, stored, txnId, loaded>>
    BY <1>6 DEF parse, storeSide
  <2> QED BY <1>0, <1>1, <2>1, <2>2 DEF ItemsOK
<1>7. CASE readLoop
  <2>1. parsed' = <<>> /\ UNCHANGED <<inHand, queue, stored, txnId, loaded>>
    BY <1>7 DEF readLoop, readLoopWhen, storeSide
  <2> QED BY <1>0, <1>1, <1>2, <2>1 DEF ItemsOK
<1>8. CASE pushCell
  <2>1. /\ parsed # <<>> /\ UNCHANGED <<parsed, inHand, stored, txnId, loaded>>
        /\ queue' = [queue EXCEPT !.cells[next(queue.head)] = Head(parsed)]
    BY <1>8 DEF pushCell, pushCellWhen, storeSide
  <2>2. queue' = [queue EXCEPT !.cells = [queue.cells EXCEPT ![next(queue.head)] = Head(parsed)]]
    BY <2>1
  <2>3. [queue.cells EXCEPT ![next(queue.head)] = Head(parsed)] \in [0 .. Volumn - 1 -> Item]
    <3>1. queue.cells \in [0 .. Volumn - 1 -> Item] /\ Head(parsed) \in Item
      BY <1>1, <1>3, <2>1
    <3> QED BY ONLY <3>1
  <2>4. queue' \in Q
    BY <1>1, <2>2, <2>3
  <2> QED BY <1>0, <1>1, <2>1, <2>4 DEF ItemsOK
<1>9. CASE pushHead
  <2>1. /\ parsed' = Tail(parsed) /\ UNCHANGED <<inHand, stored, txnId, loaded>>
        /\ queue' = [queue EXCEPT !.head = next(queue.head)]
    BY <1>9 DEF pushHead, storeSide
  <2>2. queue' \in Q
    BY <1>1, <1>4, <2>1
  <2>3. parsed' \in Seq(Item)
    <3>1. parsed # <<>>
      BY <1>9 DEF pushHead, ItemsOK, Pushed
    <3> QED BY <1>3, <2>1, <3>1
  <2> QED BY <1>0, <1>1, <2>1, <2>2, <2>3 DEF ItemsOK
<1>10. CASE popCell
  <2>1. /\ inHand' \in {inHand, queue.cells[next(queue.tail)]}
        /\ UNCHANGED <<parsed, queue, stored, txnId, loaded>>
    BY <1>10 DEF popCell, popCellWhen
  <2>2. inHand' \in Item
    BY <1>1, <1>4, <2>1
  <2> QED BY <1>0, <1>1, <2>1, <2>2 DEF ItemsOK
<1>11. CASE popTail
  <2>1. /\ give(inHand) /\ inHand' = NoItem /\ parsed' = parsed /\ loaded' = loaded
        /\ queue' = [queue EXCEPT !.tail = next(queue.tail)]
    BY <1>11 DEF popTail, give, giveAs
  <2>2. queue' \in Q
    BY <1>1, <1>4, <2>1
  <2>3. stored' \in Seq([rec : Rec, txn : Nat]) /\ txnId' \in Nat
    BY <1>1, <2>1, GiveItem
  <2> QED BY <1>0, <1>1, <1>2, <2>1, <2>2, <2>3 DEF ItemsOK
<1>12. CASE takeParsed
  <2>1. /\ parsed # <<>> /\ give(Head(parsed)) /\ parsed' = Tail(parsed)
        /\ UNCHANGED <<queue, inHand, loaded>>
    BY <1>12 DEF takeParsed, give, giveAs
  <2>2. stored' \in Seq([rec : Rec, txn : Nat]) /\ txnId' \in Nat
    BY <1>3, <2>1, GiveItem
  <2> QED BY <1>0, <1>1, <1>3, <2>1, <2>2 DEF ItemsOK
<1>13. CASE restart
  <2>0. PICK k \in 1 .. Len(stored) : \E max \in maxTxnIds(k) :
          startAt(stored[k].rec.off, async) /\ load(k, max)
    BY <1>13 DEF restart
  <2>1. PICK max \in maxTxnIds(k) :
          /\ parsed' = <<>> /\ inHand' = NoItem
          /\ queue' = [cells |-> [i \in 0 .. Volumn - 1 |-> NoItem], head |-> 0, tail |-> 0]
          /\ stored' = SubSeq(stored, 1, k) /\ txnId' = max + 1
          /\ loaded' = [count |-> k, max |-> max,
                        back |-> loaded.back \/ max + 1 < stored[k].txn]
    BY <2>0 DEF startAt, load
  <2>2. 0 \in 0 .. Volumn - 1
    BY SourceAssumption
  <2>3. queue' \in Q
    BY <1>2, <2>1, <2>2
  <2> DEFINE R == [rec : Rec, txn : Nat]
  <2>4. stored[k] \in R /\ SubSeq(stored, 1, k) \in Seq(R)
    <3>1. stored \in Seq(R)
      BY <1>1
    <3> HIDE DEF R
    <3> QED BY <3>1
  <2>5. max \in Nat
    BY <1>1, LoadedMax
  <2>6. txnId' \in Nat /\ loaded' \in [count : Nat, max : Nat, back : BOOLEAN]
    <3>1. loaded.back \in BOOLEAN /\ k \in Nat
      BY <1>1
    <3>2. (loaded.back \/ max + 1 < stored[k].txn) \in BOOLEAN
      OBVIOUS
    <3> QED BY <2>1, <2>5, <3>1, <3>2
  <2> QED BY <1>0, <1>2, <2>1, <2>3, <2>4, <2>6 DEF ItemsOK
<1> QED BY <1>5, <1>6, <1>7, <1>8, <1>9, <1>10, <1>11, <1>12, <1>13
        DEF SourceNext, readerStep, mainStep

-----------------------------------------------------------------------------
\* Steps that leave the reading side alone keep what is known of it.
LEMMA ReadKept ==
    ASSUME ReadOK, UNCHANGED <<conn, reader, parser, evt, async, restarts>>, AtHand'
    PROVE  ReadOK'
<1>0. Parsing' <=> Parsing
  BY DEF Parsing
<1>1. ReadTypes' /\ ConnOK'
  BY DEF ReadOK, ReadTypes, ConnOK
<1>2. EvtOK'
  BY <1>0 DEF ReadOK, EvtOK, lastEvent
<1>3. FileOK'
  BY <1>0 DEF ReadOK, FileOK, Early
<1>4. MapOK'
  BY <1>0 DEF ReadOK, MapOK, Fits
<1> QED BY <1>1, <1>2, <1>3, <1>4 DEF ReadOK

\* The queue, the main loop, the signal handler and the end of the process.
LEMMA OtherSteps ==
    ASSUME ReadOK,
           \/ readLoop \/ readStopped \/ pushCell \/ pushHead \/ mainLoop \/ popCell \/ popTail
           \/ takeParsed \/ insertFails \/ handlerJoins \/ stopSource \/ readNull \/ signal
    PROVE  ReadOK'
<1>0. AtHand
  BY DEF ReadOK, EvtOK
<1>1. CASE readLoop \/ readStopped \/ pushCell \/ pushHead
  <2>1. /\ UNCHANGED <<conn, reader, parser, evt, async, restarts>>
        /\ async /\ threadPc \notin {"parse", "done"} /\ threadPc' # "parse"
    BY <1>1 DEF readLoop, readLoopWhen, readStopped, pushCell, pushCellWhen, pushHead,
                readSide, fixed
  <2>2. AtHand'
    BY <1>0, <2>1 DEF AtHand, AtParse, Parsing
  <2> QED BY <2>1, <2>2, ReadKept
<1>2. CASE mainLoop \/ popCell \/ popTail \/ takeParsed \/ insertFails \/ stopSource
  <2>1. /\ UNCHANGED <<conn, reader, parser, evt, async, restarts>>
        /\ threadPc' \in {threadPc, "done"} /\ mainPc # "parse" /\ mainPc' # "parse"
    <3>1. CASE mainLoop \/ popCell \/ insertFails \/ stopSource
      BY <3>1 DEF mainLoop, popCell, popCellWhen, insertFails, stopSource, readSide, fixed
    <3>2. CASE popTail \/ takeParsed
      BY <3>2 DEF popTail, takeParsed, goOn, die, readSide, fixed
    <3> QED BY <1>2, <3>1, <3>2
  <2>2. AtHand'
    BY <1>0, <2>1 DEF AtHand, AtParse, Parsing
  <2> QED BY <2>1, <2>2, ReadKept
<1>3. CASE handlerJoins \/ signal
  <2>1. /\ UNCHANGED <<conn, reader, parser, evt, async, restarts>>
        /\ UNCHANGED <<threadPc, mainPc>>
    BY <1>3 DEF handlerJoins, signal, readSide, fixed
  <2>2. AtHand'
    BY <1>0, <2>1 DEF AtHand, AtParse, Parsing
  <2> QED BY <2>1, <2>2, ReadKept
<1>4. CASE readNull
  <2>1. /\ UNCHANGED <<conn, reader, parser, evt, async, restarts>>
        /\ reading /\ mainPc' = "died" /\ threadPc' = "done"
    BY <1>4 DEF readNull, readSide, fixed, die
  <2>2. AtHand'
    BY <1>0, <2>1 DEF AtHand, AtParse, Parsing, reading
  <2> QED BY <2>1, <2>2, ReadKept
<1> QED BY <1>1, <1>2, <1>3, <1>4

\* While the thread reads there is no event to parse.
LEMMA ReadingNotParsing == EvtOK /\ reading => ~Parsing
  BY DEF EvtOK, AtHand, reading, AtParse

\* Sequences of one and of two elements.
LEMMA ShortSeqs ==
    ASSUME NEW S, NEW x \in S, NEW y \in S
    PROVE  /\ <<x>> \o <<>> = <<x>> /\ <<x>> \o <<y>> = <<x, y>>
           /\ <<x>> \in Seq(S) /\ <<x, y>> \in Seq(S)
           /\ <<x>> # <<>> /\ <<x, y>> # <<>>
           /\ Head(<<x>>) = x /\ Head(<<x, y>>) = x
           /\ Tail(<<x>>) = <<>> /\ Tail(<<x, y>>) = <<y>>
<1>1. <<x>> \o <<>> = <<x>>
  OBVIOUS
<1>2. <<x>> \o <<y>> = <<x, y>>
  <2> DEFINE s == <<x>> \o <<y>>
             t == <<x, y>>
  <2>1. s \in Seq(S) /\ Len(s) = 2 /\ s[1] = x /\ s[2] = y
    OBVIOUS
  <2>2. t \in Seq(S) /\ Len(t) = 2 /\ t[1] = x /\ t[2] = y
    OBVIOUS
  <2> HIDE DEF s, t
  <2>3. \A i \in 1 .. Len(s) : s[i] = t[i]
    <3>1. 1 .. 2 = {1, 2}
      OBVIOUS
    <3> QED BY <2>1, <2>2, <3>1
  <2>4. s = t
    BY <2>1, <2>2, <2>3
  <2> QED BY <2>4 DEF s, t
<1>3. <<x>> \in Seq(S) /\ <<x, y>> \in Seq(S)
  OBVIOUS
<1>4. <<x>> # <<>> /\ <<x, y>> # <<>>
  OBVIOUS
<1>5. Head(<<x>>) = x /\ Head(<<x, y>>) = x
  OBVIOUS
<1>6. Tail(<<x>>) = <<>>
  OBVIOUS
<1>7. Tail(<<x, y>>) = <<y>>
  OBVIOUS
<1> QED BY ONLY <1>1, <1>2, <1>3, <1>4, <1>5, <1>6, <1>7

\* The connection as a new dump leaves it, and without one.
LEMMA DumpType ==
    ASSUME NEW f \in 1 .. Len(BinLog), NEW pos \in Nat \ {0}, NEW c,
           c = dump(f, pos) \/ (\E how \in {"lost", "null"} : c = down(how))
    PROVE  /\ c \in [state : {"up", "lost", "null"}, file : 1 .. Len(BinLog), pos : Nat \ {0},
                     due : Seq(Made)]
           /\ c.state = "up" =>
                /\ c.file = f /\ c.pos = pos
                /\ c.due \in {<<made("rotate", f)>>, <<made("rotate", f), made("format", f)>>}
                /\ c.due # <<>> /\ Head(c.due) = made("rotate", f)
<1>1. 1 \in 1 .. Len(BinLog) /\ f \in Nat
  BY LogShape
<1>2. made("rotate", f) \in Made /\ made("format", f) \in Made
  BY <1>1 DEF made, Made
<1>3. CASE c = dump(f, pos)
  <2>1. \/ c = [state |-> "up", file |-> f, pos |-> pos, due |-> <<made("rotate", f)>>]
        \/ c = [state |-> "up", file |-> f, pos |-> pos,
                due |-> <<made("rotate", f), made("format", f)>>]
    <3>1. /\ <<made("rotate", f)>> \o <<>> = <<made("rotate", f)>>
          /\ <<made("rotate", f)>> \o <<made("format", f)>> =
               <<made("rotate", f), made("format", f)>>
      BY ONLY <1>2, ShortSeqs
    <3>2. CASE pos > FirstPos
      BY ONLY <1>3, <3>1, <3>2 DEF dump
    <3>3. CASE ~(pos > FirstPos)
      BY ONLY <1>3, <3>1, <3>3 DEF dump
    <3> QED BY ONLY <3>2, <3>3
  <2>2. /\ <<made("rotate", f)>> \in Seq(Made)
        /\ <<made("rotate", f), made("format", f)>> \in Seq(Made)
        /\ <<made("rotate", f)>> # <<>> /\ <<made("rotate", f), made("format", f)>> # <<>>
        /\ Head(<<made("rotate", f)>>) = made("rotate", f)
        /\ Head(<<made("rotate", f), made("format", f)>>) = made("rotate", f)
    BY ONLY <1>2, ShortSeqs
  <2>3. c.state = "up" /\ c.file = f /\ c.pos = pos
        /\ c.due \in {<<made("rotate", f)>>, <<made("rotate", f), made("format", f)>>}
    BY ONLY <2>1
  <2>4. c \in [state : {"up", "lost", "null"}, file : 1 .. Len(BinLog), pos : Nat \ {0},
               due : Seq(Made)]
    <3> DEFINE T == Seq(Made)
               D == <<made("rotate", f)>>
               F == <<made("rotate", f), made("format", f)>>
    <3>1. D \in T /\ F \in T
      BY ONLY <2>2
    <3>2. \/ c = [state |-> "up", file |-> f, pos |-> pos, due |-> D]
          \/ c = [state |-> "up", file |-> f, pos |-> pos, due |-> F]
      BY ONLY <2>1
    <3> HIDE DEF T, D, F
    <3>3. c \in [state : {"up", "lost", "null"}, file : 1 .. Len(BinLog), pos : Nat \ {0}, due : T]
      BY ONLY <3>1, <3>2, f \in 1 .. Len(BinLog), pos \in Nat \ {0}
    <3> QED BY <3>3 DEF T
  <2> QED BY ONLY <2>2, <2>3, <2>4
<1>4. ASSUME NEW how \in {"lost", "null"}, c = down(how)
      PROVE  /\ c \in [state : {"up", "lost", "null"}, file : 1 .. Len(BinLog), pos : Nat \ {0},
                       due : Seq(Made)]
             /\ c.state # "up"
  <2>1. c = [state |-> how, file |-> 1, pos |-> 1, due |-> <<>>]
    BY <1>4 DEF down, FirstPos
  <2>2. <<>> \in Seq(Made)
    OBVIOUS
  <2> QED BY <1>1, <2>1, <2>2
<1> QED BY <1>3, <1>4

\* The connection is lost, made again or given up: reading goes on at the noted position.
LEMMA ConnectionSteps ==
    ASSUME ReadOK, loseConnection \/ reconnect \/ dumpRefused \/ giveUp \/ serverError
    PROVE  ReadOK'
<1>0. EvtOK
  BY DEF ReadOK
<1>1. /\ ~Parsing /\ ~Parsing' /\ ~AtParse'
      /\ UNCHANGED <<reader, parser, evt, async, restarts>>
      /\ conn' = dump(reader.file, reader.pos) \/ \E how \in {"lost", "null"} : conn' = down(how)
  <2>1. CASE loseConnection \/ reconnect \/ dumpRefused
    <3>1. /\ reading /\ UNCHANGED <<reader, parser, evt, async, restarts, threadPc, mainPc>>
          /\ conn' = dump(reader.file, reader.pos) \/ \E how \in {"lost", "null"} : conn' = down(how)
      BY <2>1 DEF loseConnection, reconnect, dumpRefused, newConn
    <3> QED BY <1>0, <3>1, ReadingNotParsing DEF Parsing, AtParse, reading
  <2>2. CASE giveUp \/ serverError
    <3>1. /\ reading /\ UNCHANGED <<reader, parser, evt, async, restarts>>
          /\ \E how \in {"lost", "null"} : conn' = down(how)
          /\ step(IF async THEN "done" ELSE "loop")
      BY <2>2 DEF giveUp, serverError, readBinlogFails, fixed
    <3> QED BY <1>0, <3>1, ReadingNotParsing DEF Parsing, AtParse, step
  <2> QED BY <2>1, <2>2
<1>2. reader.file \in 1 .. Len(BinLog) /\ reader.pos \in Nat \ {0}
  BY DEF ReadOK, ReadTypes
<1>3. /\ conn' \in [state : {"up", "lost", "null"}, file : 1 .. Len(BinLog), pos : Nat \ {0},
                    due : Seq(Made)]
      /\ conn'.state = "up" =>
           /\ conn'.file = reader.file /\ conn'.pos = reader.pos
           /\ conn'.due \in {<<made("rotate", reader.file)>>,
                             <<made("rotate", reader.file), made("format", reader.file)>>}
           /\ conn'.due # <<>> /\ Head(conn'.due) = made("rotate", reader.file)
  <2>1. conn' = dump(reader.file, reader.pos) \/ \E how \in {"lost", "null"} : conn' = down(how)
    BY <1>1
  <2> QED BY ONLY <1>2, <2>1, DumpType
<1>4. ReadTypes' /\ ConnOK'
  BY <1>1, <1>3 DEF ReadOK, ReadTypes, ConnOK, made
<1>5. EvtOK'
  BY <1>1 DEF EvtOK, AtHand
<1>6. FileOK'
  BY <1>1, <1>3 DEF ReadOK, FileOK, Early, made
<1>7. MapOK'
  BY <1>1 DEF ReadOK, MapOK, Fits
<1> QED BY <1>4, <1>5, <1>6, <1>7 DEF ReadOK

\* An event has arrived.
Arrived == Parsing /\ AtParse

\* A step of the thread that reads (step) makes it parse.
LEMMA StepToParse == step("parse") /\ async' = async => AtParse'
  BY DEF step, AtParse

\* An event is one.
LEMMA EventIs ==
    ASSUME NEW t, NEW m, NEW f, NEW off
    PROVE  [type |-> t, made |-> m, file |-> f, off |-> off] # NoItem
  BY DEF NoItem

\* Whatever map there is fits the beginning of a file.
LEMMA FitsBeginning ==
    ASSUME NEW f \in 1 .. Len(BinLog), NEW i \in DOMAIN BinLog[f], BinLog[f][i].type = "rows"
    PROVE  \E j \in 1 .. i - 1 : BinLog[f][j].type = "map"
<1>1. f \in DOMAIN BinLog
  BY LogShape
<1> QED BY <1>1, BinLogAssumption

\* What a received event does to the connection and the noted position
\* (readRemoteBinlog, readBinlog), by what the server has due.
LEMMA Received ==
    ASSUME ReadOK, readEvent
    PROVE  /\ ~Parsing /\ UNCHANGED <<parser, async, restarts>>
           /\ ReadTypes' /\ ConnOK'
           /\ \/ /\ conn.due # <<>> /\ Head(conn.due) = made("rotate", reader.file)
                 /\ reader'.file = reader.file /\ reader'.pos = reader.pos
                 /\ \/ reader.rotates >= 1 /\ UNCHANGED <<evt, threadPc, mainPc>>
                    \/ evt' = made("rotate", reader.file) /\ Arrived'
              \/ /\ conn.due # <<>> /\ Head(conn.due) = made("format", reader.file)
                 /\ reader'.file = reader.file /\ reader'.pos = reader.pos
                 /\ evt' = made("format", reader.file) /\ Arrived'
              \/ /\ conn.due = <<>>
                 /\ reader'.file = reader.file + 1 /\ reader'.pos = 1
                 /\ evt' = made("rotate", reader.file + 1) /\ Arrived'
              \/ /\ conn.due = <<>> /\ reader.pos \in DOMAIN BinLog[reader.file]
                 /\ reader'.file = reader.file /\ reader'.pos = reader.pos + 1
                 /\ evt' = [type |-> BinLog[reader.file][reader.pos].type, made |-> FALSE,
                            file |-> reader.file, off |-> reader.pos + 1]
                 /\ Arrived'
<1> DEFINE f == reader.file
           p == reader.pos
           e == nextEvent(conn)
           T == Seq(Made)
<1>1. /\ ~Parsing /\ UNCHANGED <<parser, async, restarts>>
      /\ conn.state = "up" /\ ~endOfLog(conn)
      /\ conn' = afterEvent(conn) /\ reader' = noted(reader, e)
      /\ IF again(reader, e) /\ reader.rotates >= 1
           THEN UNCHANGED <<evt, threadPc, mainPc>>
           ELSE evt' = e /\ step("parse")
  BY ReadingNotParsing DEF ReadOK, readEvent, fixed
<1>2. /\ conn \in [state : {"up", "lost", "null"}, file : 1 .. Len(BinLog), pos : Nat \ {0}, due : T]
      /\ reader \in [file : 1 .. Len(BinLog), pos : Nat \ {0}, rotates : Nat]
      /\ ReadTypes
  BY DEF ReadOK, ReadTypes
<1>3. /\ conn.file = f /\ conn.pos = p
      /\ conn.due \in {<<>>, <<made("format", f)>>, <<made("rotate", f)>>,
                       <<made("rotate", f), made("format", f)>>}
  BY <1>1 DEF ReadOK, ConnOK
<1>4. f \in Nat /\ f >= 1 /\ p \in Nat /\ p >= 1 /\ f \in 1 .. Len(BinLog)
  BY <1>2, LogShape
<1>5. /\ made("rotate", f) \in Made /\ made("format", f) \in Made
      /\ made("rotate", f).type = "rotate" /\ made("rotate", f).made /\ made("rotate", f).file = f
      /\ made("format", f).type = "format" /\ made("format", f).off = 0
  BY <1>4 DEF made, Made
<1>6. ReadTypes' /\ ConnOK' <=>
        /\ conn' \in [state : {"up", "lost", "null"}, file : 1 .. Len(BinLog), pos : Nat \ {0}, due : T]
        /\ reader' \in [file : 1 .. Len(BinLog), pos : Nat \ {0}, rotates : Nat]
        /\ ConnOK'
  BY <1>1, <1>2 DEF ReadTypes
<1>7. CASE conn.due \in {<<made("rotate", f)>>, <<made("rotate", f), made("format", f)>>}
  <2>1. /\ conn.due # <<>> /\ Head(conn.due) = made("rotate", f)
        /\ Tail(conn.due) \in {<<>>, <<made("format", f)>>} /\ Tail(conn.due) \in T
    <3>1. /\ <<made("rotate", f)>> # <<>> /\ <<made("rotate", f), made("format", f)>> # <<>>
          /\ Head(<<made("rotate", f)>>) = made("rotate", f)
          /\ Head(<<made("rotate", f), made("format", f)>>) = made("rotate", f)
          /\ Tail(<<made("rotate", f)>>) = <<>>
          /\ Tail(<<made("rotate", f), made("format", f)>>) = <<made("format", f)>>
          /\ <<made("format", f)>> \in T
      BY ONLY <1>5, ShortSeqs
    <3>2. <<>> \in T
      OBVIOUS
    <3> HIDE DEF T, f
    <3> QED BY ONLY <1>7, <3>1, <3>2
  <2>2. e = made("rotate", f) /\ conn' = [conn EXCEPT !.due = Tail(conn.due)]
    BY ONLY <1>1, <2>1 DEF nextEvent, afterEvent
  <2>3. again(reader, e) /\ reader' = [reader EXCEPT !.rotates = reader.rotates + 1]
    BY ONLY <1>1, <1>5, <2>2 DEF again, noted
  <2>4. reader'.file = f /\ reader'.pos = p /\ reader.rotates \in Nat
        /\ reader' \in [file : 1 .. Len(BinLog), pos : Nat \ {0}, rotates : Nat]
    BY ONLY <1>2, <2>3
  <2>5. /\ conn'.due = Tail(conn.due) /\ conn'.file = f /\ conn'.pos = p
        /\ conn' \in [state : {"up", "lost", "null"}, file : 1 .. Len(BinLog), pos : Nat \ {0}, due : T]
    <3> HIDE DEF T
    <3> QED BY ONLY <1>2, <1>3, <2>1, <2>2
  <2>6. ConnOK'
    <3> HIDE DEF T, f, p
    <3>1. conn'.due \in {<<>>, <<made("format", f)>>, <<made("rotate", f)>>,
                         <<made("rotate", f), made("format", f)>>}
      BY ONLY <2>1, <2>5
    <3> QED BY ONLY <2>4, <2>5, <3>1 DEF ConnOK, made
  <2>20. evt' = e /\ step("parse") => Arrived'
    BY <1>1, <2>2, StepToParse, EventIs DEF Arrived, Parsing, made
  <2> QED BY <1>1, <1>6, <2>1, <2>2, <2>3, <2>4, <2>5, <2>6, <2>20
<1>8. CASE conn.due = <<made("format", f)>>
  <2>1. conn.due # <<>> /\ Head(conn.due) = made("format", f) /\ Tail(conn.due) = <<>>
    <3>1. /\ <<made("format", f)>> # <<>> /\ Head(<<made("format", f)>>) = made("format", f)
          /\ Tail(<<made("format", f)>>) = <<>>
      BY ONLY <1>5, ShortSeqs
    <3> QED BY ONLY <1>8, <3>1
  <2>2. e = made("format", f) /\ conn' = [conn EXCEPT !.due = <<>>]
    BY ONLY <1>1, <2>1 DEF nextEvent, afterEvent
  <2>3. ~again(reader, e) /\ reader' = [reader EXCEPT !.pos = p]
    <3>1. e.type = "format" /\ e.off = 0
      BY <1>5, <2>2
    <3>2. ~(e.off >= reader.pos)
      BY <1>4, <3>1
    <3> QED BY ONLY <1>1, <3>1, <3>2 DEF again, noted
  <2>4. reader' = reader
    BY ONLY <1>2, <2>3
  <2>5. /\ conn'.due = <<>> /\ conn'.file = f /\ conn'.pos = p
        /\ conn' \in [state : {"up", "lost", "null"}, file : 1 .. Len(BinLog), pos : Nat \ {0}, due : T]
    <3>1. <<>> \in T
      OBVIOUS
    <3> HIDE DEF T
    <3> QED BY ONLY <1>2, <1>3, <2>2, <3>1
  <2>6. ConnOK'
    BY ONLY <2>4, <2>5 DEF ConnOK
  <2>20. evt' = e /\ step("parse") => Arrived'
    BY <1>1, <2>2, StepToParse, EventIs DEF Arrived, Parsing, made
  <2> QED BY <1>1, <1>2, <1>6, <2>1, <2>2, <2>3, <2>4, <2>5, <2>6, <2>20
<1>9. CASE conn.due = <<>> /\ endOfFile(conn)
  <2>1. conn.file # Len(BinLog)
    BY ONLY <1>1, <1>9 DEF endOfLog
  <2>2. f + 1 \in 1 .. Len(BinLog) /\ f + 1 # f
    BY <1>3, <1>4, <2>1, LogShape
  <2>3. e = made("rotate", f + 1) /\ conn' = [conn EXCEPT !.file = f + 1, !.pos = 1]
    BY ONLY <1>1, <1>3, <1>9 DEF nextEvent, afterEvent, FirstPos
  <2>4. e.type = "rotate" /\ e.made /\ e.file = f + 1
    BY ONLY <2>3 DEF made
  <2>5. ~again(reader, e) /\ reader' = [file |-> f + 1, pos |-> 1, rotates |-> 0]
    BY ONLY <1>1, <2>2, <2>4 DEF again, noted, FirstPos
  <2>6. /\ reader'.file = f + 1 /\ reader'.pos = 1
        /\ reader' \in [file : 1 .. Len(BinLog), pos : Nat \ {0}, rotates : Nat]
    BY ONLY <2>2, <2>5
  <2>7. /\ conn'.due = <<>> /\ conn'.file = f + 1 /\ conn'.pos = 1
        /\ conn' \in [state : {"up", "lost", "null"}, file : 1 .. Len(BinLog), pos : Nat \ {0}, due : T]
    <3> DEFINE c == [conn EXCEPT !.file = f + 1]
    <3>1. 1 \in Nat \ {0}
      OBVIOUS
    <3> HIDE DEF T
    <3>2. /\ c \in [state : {"up", "lost", "null"}, file : 1 .. Len(BinLog), pos : Nat \ {0}, due : T]
          /\ c.due = <<>> /\ c.file = f + 1
      BY ONLY <1>2, <1>9, <2>2
    <3>3. conn' = [c EXCEPT !.pos = 1]
      BY ONLY <2>3
    <3> HIDE DEF c
    <3> QED BY ONLY <3>1, <3>2, <3>3
  <2>8. ConnOK'
    BY ONLY <2>6, <2>7 DEF ConnOK
  <2>20. evt' = e /\ step("parse") => Arrived'
    BY <1>1, <2>3, StepToParse, EventIs DEF Arrived, Parsing, made
  <2> QED BY <1>1, <1>6, <1>9, <2>3, <2>5, <2>6, <2>7, <2>8, <2>20
<1>10. CASE conn.due = <<>> /\ ~endOfFile(conn)
  <2>1. p \in DOMAIN BinLog[f]
    BY <1>3, <1>4, <1>10, LogShape DEF endOfFile
  <2>2. /\ e = [type |-> BinLog[f][p].type, made |-> FALSE, file |-> f, off |-> p + 1]
        /\ conn' = [conn EXCEPT !.pos = p + 1]
    BY ONLY <1>1, <1>3, <1>10 DEF nextEvent, afterEvent
  <2>3. ~e.made /\ e.off = p + 1
    BY ONLY <2>2
  <2>4. ~again(reader, e) /\ reader' = [reader EXCEPT !.pos = p + 1]
    <3>1. e.off >= reader.pos
      BY <1>4, <2>3
    <3> QED BY ONLY <1>1, <2>3, <3>1 DEF again, noted
  <2>5. /\ reader'.file = f /\ reader'.pos = p + 1
        /\ reader' \in [file : 1 .. Len(BinLog), pos : Nat \ {0}, rotates : Nat]
    <3>1. p + 1 \in Nat \ {0}
      BY <1>4
    <3> QED BY ONLY <1>2, <2>4, <3>1
  <2>6. /\ conn'.due = <<>> /\ conn'.file = f /\ conn'.pos = p + 1
        /\ conn' \in [state : {"up", "lost", "null"}, file : 1 .. Len(BinLog), pos : Nat \ {0}, due : T]
    <3>1. p + 1 \in Nat \ {0}
      BY <1>4
    <3> HIDE DEF T
    <3> QED BY ONLY <1>2, <1>3, <1>10, <2>2, <3>1
  <2>7. ConnOK'
    BY ONLY <2>5, <2>6 DEF ConnOK
  <2>20. evt' = e /\ step("parse") => Arrived'
    BY <1>1, <2>2, StepToParse, EventIs DEF Arrived, Parsing, made
  <2> QED BY <1>1, <1>6, <1>10, <2>1, <2>2, <2>4, <2>5, <2>6, <2>7, <2>20
<1> QED BY <1>3, <1>7, <1>8, <1>9, <1>10

\* An event is received: what is known of the parser and its table map is kept.
LEMMA ReadEventStep ==
    ASSUME ReadOK, readEvent
    PROVE  ReadOK'
<1>1. ReadTypes' /\ ConnOK' /\ ~Parsing /\ UNCHANGED <<parser, async, restarts>>
  BY Received
<1>2. /\ reader.file \in 1 .. Len(BinLog) /\ reader.pos \in Nat \ {0} /\ reader.rotates \in Nat
      /\ reader'.file \in 1 .. Len(BinLog)
      /\ parser.file = reader.file \/ Early
      /\ Fits(reader.pos) /\ evt = NoItem /\ conn.state = "up"
  BY <1>1 DEF ReadOK, ReadTypes, FileOK, MapOK, Parsing, readEvent
<1>3. CASE /\ conn.due # <<>> /\ Head(conn.due) = made("rotate", reader.file)
           /\ reader'.file = reader.file /\ reader'.pos = reader.pos
           /\ \/ reader.rotates >= 1 /\ UNCHANGED <<evt, threadPc, mainPc>>
              \/ evt' = made("rotate", reader.file) /\ Arrived'
  <2>1. Fits(reader.pos)'
    BY <1>1, <1>2, <1>3 DEF Fits
  <2>2. CASE reader.rotates >= 1 /\ UNCHANGED <<evt, threadPc, mainPc>>
    <3>1. ~Parsing' /\ ~AtParse'
      BY <1>1, <2>2 DEF Parsing, ReadOK, EvtOK, AtHand, AtParse
    <3>2. parser.file = reader.file
      BY <1>2, <2>2 DEF Early
    <3> QED BY <1>1, <1>2, <1>3, <2>1, <2>2, <3>1, <3>2 DEF ReadOK, EvtOK, AtHand, Arrived, FileOK, MapOK
  <2>3. CASE evt' = made("rotate", reader.file) /\ Arrived'
    <3>1. evt'.made /\ evt'.type = "rotate"
      BY <2>3 DEF made
    <3>2. parser.file \in {0, reader.file}
      BY <1>2 DEF Early
    <3> QED BY <1>1, <1>3, <2>1, <2>3, <3>1, <3>2 DEF ReadOK, EvtOK, AtHand, Arrived, FileOK, MapOK
  <2> QED BY <1>3, <2>2, <2>3
<1>4. CASE /\ conn.due # <<>> /\ Head(conn.due) = made("format", reader.file)
           /\ reader'.file = reader.file /\ reader'.pos = reader.pos
           /\ evt' = made("format", reader.file) /\ Arrived'
  <2>1. Fits(reader.pos)'
    BY <1>1, <1>2, <1>4 DEF Fits
  <2>2. evt'.made /\ evt'.type # "rotate"
    BY <1>4 DEF made
  <2>3. parser.file = reader.file
    BY <1>2, <1>4 DEF Early, made
  <2> QED BY <1>1, <1>4, <2>1, <2>2, <2>3 DEF ReadOK, EvtOK, AtHand, Arrived, FileOK, MapOK
<1>5. CASE /\ conn.due = <<>>
           /\ reader'.file = reader.file + 1 /\ reader'.pos = 1
           /\ evt' = made("rotate", reader.file + 1) /\ Arrived'
  <2>1. Fits(reader.pos)'
    <3> SUFFICES ASSUME NEW i \in DOMAIN BinLog[reader'.file],
                        BinLog[reader'.file][i].type = "rows",
                        \A j \in 1 .. i - 1 : BinLog[reader'.file][j].type # "map"
                 PROVE  FALSE
      BY <1>5 DEF Fits
    <3> QED BY <1>2, FitsBeginning
  <2>2. evt'.made /\ evt'.type = "rotate"
    BY <1>5 DEF made
  <2>3. parser.file = reader'.file - 1
    BY <1>2, <1>5 DEF Early
  <2> QED BY <1>1, <1>5, <2>1, <2>2, <2>3 DEF ReadOK, EvtOK, AtHand, Arrived, FileOK, MapOK
<1>6. CASE /\ conn.due = <<>> /\ reader.pos \in DOMAIN BinLog[reader.file]
           /\ reader'.file = reader.file /\ reader'.pos = reader.pos + 1
           /\ evt' = [type |-> BinLog[reader.file][reader.pos].type, made |-> FALSE,
                      file |-> reader.file, off |-> reader.pos + 1]
           /\ Arrived'
  <2>1. reader'.pos - 1 = reader.pos
    BY <1>2, <1>6
  <2>2. Fits(reader.pos - 1)'
    BY <1>1, <1>2, <1>6, <2>1 DEF Fits
  <2>3. ~evt'.made /\ evt' = lastEvent'
    BY <1>6, <2>1 DEF lastEvent
  <2>4. parser.file = reader.file
    BY <1>2, <1>6 DEF Early
  <2> QED BY <1>1, <1>6, <2>1, <2>2, <2>3, <2>4 DEF ReadOK, EvtOK, AtHand, Arrived, FileOK, MapOK
<1> QED BY <1>3, <1>4, <1>5, <1>6, Received

\* Past an event that is no table map the same map fits.
LEMMA FitsOn ==
    ASSUME ReadTypes, reader.pos - 1 \in DOMAIN BinLog[reader.file], Fits(reader.pos - 1),
           BinLog[reader.file][reader.pos - 1].type # "map"
    PROVE  Fits(reader.pos)
<1>1. reader.file \in 1 .. Len(BinLog) /\ reader.pos \in Nat
  BY DEF ReadTypes
<1> SUFFICES ASSUME NEW i \in DOMAIN BinLog[reader.file],
                    reader.pos <= i, BinLog[reader.file][i].type = "rows",
                    \A j \in reader.pos .. i - 1 : BinLog[reader.file][j].type # "map"
             PROVE  lastMap(reader.file, i, parser.map) \/ (restarts > 0 /\ parser.map = "none")
  BY DEF Fits
<1>2. i \in Nat /\ reader.pos - 1 <= i
  BY <1>1, LogShape
<1>3. \A j \in reader.pos - 1 .. i - 1 : BinLog[reader.file][j].type # "map"
  <2> SUFFICES ASSUME NEW j \in reader.pos - 1 .. i - 1
               PROVE  BinLog[reader.file][j].type # "map"
    OBVIOUS
  <2>1. j = reader.pos - 1 \/ j \in reader.pos .. i - 1
    BY <1>1, <1>2
  <2> QED BY <2>1
<1> QED BY <1>2, <1>3 DEF Fits

\* The map that has just been read is the last one before the rows up to the next.
LEMMA FitsRead ==
    ASSUME ReadTypes, reader.pos - 1 \in DOMAIN BinLog[reader.file],
           BinLog[reader.file][reader.pos - 1].type = "map",
           NEW i \in DOMAIN BinLog[reader.file],
           reader.pos <= i,
           \A j \in reader.pos .. i - 1 : BinLog[reader.file][j].type # "map"
    PROVE  lastMap(reader.file, i, BinLog[reader.file][reader.pos - 1].table)
<1>1. reader.pos \in Nat /\ i \in Nat /\ reader.pos - 1 \in Nat /\ reader.pos - 1 >= 1
  BY LogShape DEF ReadTypes
<1>2. /\ reader.pos - 1 \in 1 .. i - 1
      /\ \A k \in (reader.pos - 1) + 1 .. i - 1 : BinLog[reader.file][k].type # "map"
  BY <1>1
<1> QED BY <1>2 DEF lastMap

\* The event at hand is parsed (BinlogEventParser::parser).
LEMMA ParseStep ==
    ASSUME ReadOK, parse
    PROVE  ReadOK'
<1>1. /\ Parsing /\ evt' = NoItem
      /\ UNCHANGED <<conn, reader, async, restarts>>
  BY DEF parse, AtParse, AtHand, ReadOK, EvtOK, fixed
<1>2. ReadTypes /\ ConnOK /\ EvtOK /\ FileOK /\ MapOK
  BY DEF ReadOK
<1>3. /\ reader.file \in 1 .. Len(BinLog) /\ reader.pos \in Nat
      /\ parser \in [file : 0 .. Len(BinLog), map : TableNames]
  BY <1>2 DEF ReadTypes
<1>4. ASSUME ~AtParse', parser' \in [file : 0 .. Len(BinLog), map : TableNames],
             parser'.file = reader.file, Fits(reader.pos)'
      PROVE  ReadOK'
  <2>1. ReadTypes' /\ ConnOK'
    BY <1>1, <1>2, <1>4 DEF ReadTypes, ConnOK
  <2>2. EvtOK' /\ FileOK' /\ MapOK'
    BY <1>1, <1>4 DEF EvtOK, AtHand, Parsing, FileOK, MapOK
  <2> QED BY <2>1, <2>2 DEF ReadOK
<1>5. CASE evt = made("rotate", reader.file)
  <2>1. evt.type = "rotate" /\ evt.made /\ evt.file = reader.file
    BY <1>5 DEF made
  <2>2. parser.file \in {0, reader.file, reader.file - 1}
    BY <1>1, <1>2, <2>1 DEF FileOK
  <2>3. evt.file = parser.file \/ evt.file = parser.file + 1 \/ parser.file = 0
    BY <1>3, <2>1, <2>2
  <2>4. parser' = [parser EXCEPT !.file = reader.file] /\ step(IF async THEN "push" ELSE "read")
    BY <2>1, <2>3 DEF parse, updateFile
  <2>5. ~AtParse'
    BY <1>1, <2>4 DEF step, AtParse
  <2>6. /\ parser' \in [file : 0 .. Len(BinLog), map : TableNames] /\ parser'.file = reader.file
        /\ parser'.map = parser.map
    BY <1>3, <2>4
  <2>7. Fits(reader.pos)
    BY <1>2, <2>1 DEF MapOK
  <2>8. Fits(reader.pos)'
    BY <1>1, <2>6, <2>7 DEF Fits
  <2> QED BY <1>4, <2>5, <2>6, <2>8
<1>6. CASE evt = made("format", reader.file)
  <2>1. evt.type = "format" /\ evt.made
    BY <1>6 DEF made
  <2>2. parser' = parser /\ step(IF async THEN "push" ELSE "read")
    BY <2>1 DEF parse
  <2>3. ~AtParse'
    BY <1>1, <2>2 DEF step, AtParse
  <2>4. parser.file = reader.file /\ Fits(reader.pos)
    BY <1>1, <1>2, <2>1 DEF FileOK, MapOK
  <2>5. Fits(reader.pos)'
    BY <1>1, <2>2, <2>4 DEF Fits
  <2> QED BY <1>3, <1>4, <2>2, <2>3, <2>4, <2>5
<1>7. CASE reader.pos - 1 \in DOMAIN BinLog[reader.file] /\ evt = lastEvent
  <2>1. /\ ~evt.made /\ evt.type = BinLog[reader.file][reader.pos - 1].type
        /\ tableOf(evt) = BinLog[reader.file][reader.pos - 1].table
    BY <1>7 DEF lastEvent, tableOf
  <2>2. parser.file = reader.file /\ Fits(reader.pos - 1)
    BY <1>1, <1>2, <2>1 DEF FileOK, MapOK
  <2>3. /\ parser' = IF evt.type = "map" THEN [parser EXCEPT !.map = tableOf(evt)] ELSE parser
        /\ step(IF async THEN "push" ELSE "read") \/ die
    <3>1. CASE evt.type = "rows" /\ parser.map # tableOf(evt)
      BY <2>1, <3>1 DEF parse
    <3>2. CASE ~(evt.type = "rows" /\ parser.map # tableOf(evt))
      BY <2>1, <3>2 DEF parse
    <3> QED BY <3>1, <3>2
  <2>4. ~AtParse'
    BY <1>1, <2>3 DEF step, die, AtParse
  <2>5. CASE evt.type # "map"
    <3>1. parser' = parser /\ Fits(reader.pos)
      BY <1>2, <1>7, <2>1, <2>2, <2>3, <2>5, FitsOn
    <3>2. Fits(reader.pos)'
      BY <1>1, <3>1 DEF Fits
    <3> QED BY <1>3, <1>4, <2>2, <2>4, <3>1, <3>2
  <2>6. CASE evt.type = "map"
    <3>1. tableOf(evt) \in TableNames
      <4>1. tableOf(evt) \in STRING
        BY <1>3, <1>7, <2>1, LogShape
      <4> QED BY <4>1 DEF TableNames
    <3>2. /\ parser' \in [file : 0 .. Len(BinLog), map : TableNames] /\ parser'.file = reader.file
          /\ parser'.map = BinLog[reader.file][reader.pos - 1].table
      BY <1>3, <2>1, <2>2, <2>3, <2>6, <3>1
    <3>3. Fits(reader.pos)'
      <4> SUFFICES ASSUME NEW i \in DOMAIN BinLog[reader.file],
                          reader.pos <= i, BinLog[reader.file][i].type = "rows",
                          \A j \in reader.pos .. i - 1 : BinLog[reader.file][j].type # "map"
                   PROVE  lastMap(reader.file, i, parser'.map)
        BY <1>1 DEF Fits, lastMap
      <4> QED BY <1>2, <1>7, <2>1, <2>6, <3>2, FitsRead
    <3> QED BY <1>4, <2>4, <3>2, <3>3
  <2> QED BY <2>5, <2>6
<1> QED BY <1>1, <1>2, <1>5, <1>6, <1>7 DEF EvtOK

\* Rows that cannot be read leave the parser as it was.
LEMMA ParseFailsStep ==
    ASSUME ReadOK, parseFails
    PROVE  ReadOK'
<1>1. /\ Parsing /\ evt' = NoItem /\ evt.type = "rows"
      /\ UNCHANGED <<conn, reader, parser, async, restarts>>
  BY DEF parseFails, AtParse, AtHand, ReadOK, EvtOK, fixed
<1>2. ReadTypes /\ ConnOK /\ EvtOK /\ FileOK /\ MapOK
  BY DEF ReadOK
<1>3. ~AtParse'
  BY <1>1 DEF parseFails, step, AtParse
<1>4. reader.pos - 1 \in DOMAIN BinLog[reader.file] /\ evt = lastEvent
  BY <1>1, <1>2 DEF EvtOK, made
<1>5. ~evt.made /\ BinLog[reader.file][reader.pos - 1].type # "map"
  BY <1>1, <1>4 DEF lastEvent
<1>6. parser.file = reader.file /\ Fits(reader.pos - 1)
  BY <1>1, <1>2, <1>5 DEF FileOK, MapOK
<1>7. Fits(reader.pos)
  BY <1>2, <1>4, <1>5, <1>6, FitsOn
<1>8. Fits(reader.pos)'
  BY <1>1, <1>7 DEF Fits
<1>9. ReadTypes' /\ ConnOK'
  BY <1>1, <1>2 DEF ReadTypes, ConnOK
<1>10. EvtOK' /\ FileOK' /\ MapOK'
  BY <1>1, <1>3, <1>6, <1>8 DEF EvtOK, AtHand, Parsing, FileOK, MapOK
<1> QED BY <1>9, <1>10 DEF ReadOK

\* The reader is opened at a place of the log.
LEMMA ReaderType ==
    ASSUME NEW S, NEW T, NEW a \in S, NEW b \in T, NEW r, r = [file |-> a, pos |-> b, rotates |-> 0]
    PROVE  r \in [file : S, pos : T, rotates : Nat]
  OBVIOUS

\* A parser that has read nothing.
LEMMA ParserType ==
    ASSUME NEW S, 0 \in S, NEW T, "none" \in T, NEW r, r = [file |-> 0, map |-> "none"]
    PROVE  r \in [file : S, map : T]
  OBVIOUS

\* The process is started again at the place of a record that was kept.
LEMMA RestartStep ==
    ASSUME ItemsOK, ReadOK, restart
    PROVE  ReadOK'
<1>1. PICK k \in 1 .. Len(stored) : startAt(stored[k].rec.off, async)
  BY DEF restart
<1> DEFINE at == stored[k].rec.off
<1>2. at \in Place
  <2> DEFINE R == [rec : Rec, txn : Nat]
  <2>1. stored \in Seq(R)
    BY DEF ItemsOK
  <2> HIDE DEF R
  <2>2. stored[k] \in R
    BY ONLY <2>1, EventOf
  <2> QED BY <2>2 DEF R, Rec
<1> HIDE DEF at
<1>3. at[1] \in 1 .. Len(BinLog) /\ at[2] \in Nat \ {0}
  BY <1>2 DEF Place
<1>4. /\ conn' = dump(at[1], at[2]) \/ conn' = down("null")
      /\ reader' = [file |-> at[1], pos |-> at[2], rotates |-> 0]
      /\ parser' = [file |-> 0, map |-> "none"]
      /\ evt' = NoItem /\ async' = async
      /\ threadPc' \in {"read", "done"} /\ mainPc' = "loop"
  BY <1>1 DEF startAt, at
<1>5. restarts \in Nat /\ async \in BOOLEAN /\ restarts' = restarts + 1
  BY DEF restart, ReadOK, ReadTypes
<1>6. ~Parsing' /\ ~AtParse'
  BY <1>4 DEF Parsing, AtParse
<1>7. /\ conn' \in [state : {"up", "lost", "null"}, file : 1 .. Len(BinLog), pos : Nat \ {0},
                    due : Seq(Made)]
      /\ conn'.state = "up" =>
           /\ conn'.file = at[1] /\ conn'.pos = at[2]
           /\ conn'.due \in {<<made("rotate", at[1])>>,
                             <<made("rotate", at[1]), made("format", at[1])>>}
           /\ conn'.due # <<>> /\ Head(conn'.due) = made("rotate", at[1])
  <2>1. conn' = dump(at[1], at[2]) \/ \E how \in {"lost", "null"} : conn' = down(how)
    BY <1>4
  <2> QED BY ONLY <1>3, <2>1, DumpType
<1>8. reader'.file = at[1] /\ reader'.pos = at[2] /\ reader'.rotates = 0
  BY <1>4
<1>9. ReadTypes'
  <2>1. reader' \in [file : 1 .. Len(BinLog), pos : Nat \ {0}, rotates : Nat]
    <3>1. reader' = [file |-> at[1], pos |-> at[2], rotates |-> 0]
      BY <1>4
    <3> QED BY ONLY <1>3, <3>1, ReaderType
  <2>2. parser' \in [file : 0 .. Len(BinLog), map : TableNames]
    <3>1. parser' = [file |-> 0, map |-> "none"]
      BY <1>4
    <3>2. 0 \in 0 .. Len(BinLog)
      BY LogShape
    <3>3. "none" \in TableNames
      BY DEF TableNames
    <3> QED BY ONLY <3>1, <3>2, <3>3, ParserType
  <2> QED BY <1>4, <1>5, <1>7, <2>1, <2>2 DEF ReadTypes
<1>10. ConnOK'
  BY <1>7, <1>8 DEF ConnOK, made
<1>11. EvtOK'
  BY <1>6 DEF EvtOK, AtHand
<1>12. FileOK'
  BY <1>4, <1>6, <1>7, <1>8 DEF FileOK, Early, made
<1>13. MapOK'
  <2>1. restarts' > 0 /\ parser'.map = "none"
    BY <1>4, <1>5
  <2> QED BY <2>1 DEF MapOK, Fits
<1> QED BY <1>9, <1>10, <1>11, <1>12, <1>13 DEF ReadOK

\* In the beginning nothing is read.
LEMMA SourceInvInit == SourceInit => SourceInv
<1> SUFFICES ASSUME SourceInit PROVE SourceInv
  OBVIOUS
<1>1. /\ conn = dump(1, 1) \/ conn = down("null")
      /\ reader = [file |-> 1, pos |-> 1, rotates |-> 0]
      /\ parser = [file |-> 0, map |-> "none"]
      /\ evt = NoItem /\ inHand = NoItem /\ parsed = <<>> /\ async \in BOOLEAN
      /\ threadPc \in {"read", "done"} /\ mainPc = "loop"
      /\ queue = [cells |-> [i \in 0 .. Volumn - 1 |-> NoItem], head |-> 0, tail |-> 0]
      /\ stored = <<>> /\ txnId = 1 /\ restarts = 0
      /\ loaded = [count |-> 0, max |-> 0, back |-> FALSE]
  BY DEF SourceInit, FirstPos
<1>2. 1 \in 1 .. Len(BinLog) /\ 1 \in Nat \ {0} /\ ~Parsing /\ ~AtParse
  BY <1>1, LogShape DEF Parsing, AtParse
<1>3. /\ conn \in [state : {"up", "lost", "null"}, file : 1 .. Len(BinLog), pos : Nat \ {0},
                   due : Seq(Made)]
      /\ conn.state = "up" =>
           /\ conn.file = 1 /\ conn.pos = 1
           /\ conn.due \in {<<made("rotate", 1)>>, <<made("rotate", 1), made("format", 1)>>}
           /\ conn.due # <<>> /\ Head(conn.due) = made("rotate", 1)
  BY <1>1, <1>2, DumpType
<1>4. reader.file = 1 /\ reader.pos = 1 /\ reader.rotates = 0
  BY <1>1
<1>5. ItemsOK
  <2>1. NoItem \in Item /\ 0 \in 0 .. Volumn - 1
    BY SourceAssumption DEF NoItem, Item
  <2>2. queue \in [cells : [0 .. Volumn - 1 -> Item], head : 0 .. Volumn - 1, tail : 0 .. Volumn - 1]
    BY <1>1, <2>1
  <2> QED BY <1>1, <2>1, <2>2 DEF ItemsOK, Pushed
<1>6. ReadTypes
  <2>1. reader \in [file : 1 .. Len(BinLog), pos : Nat \ {0}, rotates : Nat]
    <3>1. reader = [file |-> 1, pos |-> 1, rotates |-> 0]
      BY <1>1
    <3> QED BY ONLY <1>2, <3>1, ReaderType
  <2>2. parser \in [file : 0 .. Len(BinLog), map : TableNames]
    <3>1. parser = [file |-> 0, map |-> "none"]
      BY <1>1
    <3>2. 0 \in 0 .. Len(BinLog)
      BY LogShape
    <3>3. "none" \in TableNames
      BY DEF TableNames
    <3> QED BY ONLY <3>1, <3>2, <3>3, ParserType
  <2> QED BY <1>1, <1>3, <2>1, <2>2 DEF ReadTypes
<1>7. ConnOK
  BY <1>3, <1>4 DEF ConnOK, made
<1>8. EvtOK
  BY <1>2 DEF EvtOK, AtHand
<1>9. FileOK
  BY <1>1, <1>2, <1>3, <1>4 DEF FileOK, Early, made
<1>10. MapOK
  <2> SUFFICES ASSUME NEW i \in DOMAIN BinLog[1], BinLog[1][i].type = "rows",
                      \A j \in 1 .. i - 1 : BinLog[1][j].type # "map"
               PROVE  FALSE
    BY <1>2, <1>4 DEF MapOK, Fits
  <2> QED BY <1>2, FitsBeginning
<1> QED BY <1>5, <1>6, <1>7, <1>8, <1>9, <1>10 DEF SourceInv, ReadOK

\* Every step keeps the invariant.
LEMMA SourceInvStep == SourceInv /\ [SourceNext]_sourceVars => SourceInv'
<1> SUFFICES ASSUME SourceInv, [SourceNext]_sourceVars PROVE SourceInv'
  OBVIOUS
<1>1. ItemsOK /\ ReadOK
  BY DEF SourceInv
<1>2. CASE SourceNext
  <2>1. ItemsOK'
    BY <1>1, <1>2, ItemsStep
  <2>2. ReadOK'
    BY <1>1, <1>2, OtherSteps, ConnectionSteps, ReadEventStep, ParseStep, ParseFailsStep, RestartStep
       DEF SourceNext, readerStep, mainStep
  <2> QED BY <2>1, <2>2 DEF SourceInv
<1>3. CASE UNCHANGED sourceVars
  <2>1. /\ UNCHANGED <<conn, reader, parser, evt, async, restarts, threadPc, mainPc>>
        /\ UNCHANGED <<parsed, inHand, queue, stored, txnId, loaded>>
    BY <1>3 DEF sourceVars, readSide, storeSide, fixed
  <2>2. AtHand'
    BY <1>1, <2>1 DEF ReadOK, EvtOK, AtHand, AtParse, Parsing
  <2>3. ReadOK'
    BY <1>1, <2>1, <2>2, ReadKept
  <2>4. ItemsOK'
    BY <1>1, <2>1 DEF ItemsOK, Pushed
  <2> QED BY <2>3, <2>4 DEF SourceInv
<1> QED BY <1>2, <1>3

\* For every log, queue and number of lost connections and crashes: the parser reads rows
\* with the last map the log has before them, and finds none only after a restart between
\* the two (parseTableMap, updateFile, parseRowLogevent's assert).
THEOREM TableMapTheorem == SourceSpec => []RowsFindTableMap
<1>1. SourceInv => RowsFindTableMap
  <2> SUFFICES ASSUME SourceInv, evt # NoItem, evt.type = "rows"
               PROVE  \/ lastMap(evt.file, evt.off - 1, parser.map)
                      \/ restarts > 0 /\ parser.map = "none"
    BY DEF RowsFindTableMap
  <2>1. ReadTypes /\ EvtOK /\ MapOK /\ Parsing
    BY DEF SourceInv, ReadOK, Parsing
  <2>2. reader.pos - 1 \in DOMAIN BinLog[reader.file] /\ evt = lastEvent
    BY <2>1 DEF EvtOK, made
  <2>3. /\ ~evt.made /\ BinLog[reader.file][reader.pos - 1].type = "rows"
        /\ evt.file = reader.file /\ evt.off = reader.pos
    BY <2>2 DEF lastEvent
  <2>4. Fits(reader.pos - 1)
    BY <2>1, <2>3 DEF MapOK
  <2>5. reader.pos \in Nat /\ reader.file \in 1 .. Len(BinLog)
    BY <2>1 DEF ReadTypes
  <2>6. /\ reader.pos - 1 <= reader.pos - 1
        /\ \A j \in reader.pos - 1 .. (reader.pos - 1) - 1 : BinLog[reader.file][j].type # "map"
    BY <2>5
  <2> QED BY <2>2, <2>3, <2>4, <2>6 DEF Fits
<1> QED BY <1>1, SourceInvInit, SourceInvStep, PTL DEF SourceSpec

-----------------------------------------------------------------------------
(* The stream of records                                                   *)

\* The records and commits on their way from the parser to the store: those in the queue,
\* then those the parser has not handed on.
distance(h, t) == IF h >= t THEN h - t ELSE h - t + Volumn
ahead(i, d) == IF i + d < Volumn THEN i + d ELSE i + d - Volumn
lenOf(q, r) == distance(q.head, q.tail) + Len(r)
flowOf(q, r) ==
    [d \in 1 .. lenOf(q, r) |->
        IF d <= distance(q.head, q.tail) THEN q.cells[ahead(q.tail, d)]
        ELSE r[d - distance(q.head, q.tail)]]

\* How far the log is parsed, and whether more will be.
parsedTo == <<reader.file, IF Parsing /\ ~evt.made THEN reader.pos - 1 ELSE reader.pos>>
alive == IF async THEN threadPc # "done" ELSE mainPc \notin {"stop", "stopped", "died"}

\* What the threads know between their steps.
HandsOK ==
    /\ AtParse => parsed = <<>>
    /\ async /\ threadPc = "read" => parsed = <<>>
    /\ threadPc = "pushed" => /\ next(queue.head) # queue.tail
                              /\ queue.cells[next(queue.head)] = Head(parsed)
    /\ mainPc = "popped" => queue.head # queue.tail /\ inHand = queue.cells[next(queue.tail)]
    /\ ~async => queue.head = queue.tail

upTo(x, at) == x.off[1] < at[1] \/ (x.off[1] = at[1] /\ x.off[2] <= at[2])

\* Store s and flow p of length n: what is in the log in this order.
Sorted(s, p, n, at) ==
    /\ \A i \in 1 .. Len(s) : s[i].rec \in LogRecords /\ upTo(s[i].rec, at)
    /\ \A i, j \in 1 .. Len(s) : i < j => before(s[i].rec, s[j].rec)
    /\ \A d \in 1 .. n : p[d] \in LogItems /\ upTo(p[d], at)
    /\ \A d, e \in 1 .. n : d < e => before(p[d], p[e])
    /\ \A i \in 1 .. Len(s), d \in 1 .. n : before(s[i].rec, p[d])

\* x has left the parser and is not on its way.
Through(x, p, n, at, more) ==
    /\ (more /\ upTo(x, at)) \/ \E d \in 1 .. n : before(x, p[d])
    /\ \A d \in 1 .. n : x # p[d]

\* x belongs to an event that a restart cut in two.
Cut(x, s, k, cut) == cut /\ \E i \in 1 .. k : s[i].rec.off = x.off /\ before(s[i].rec, x)

Complete(s, p, n, at, more, cut) ==
    /\ \A x \in LogRecords : Through(x, p, n, at, more) =>
         (\E i \in 1 .. Len(s) : x = s[i].rec) \/ Cut(x, s, Len(s), cut)
    /\ \A k \in 1 .. Len(s), x \in LogRecords : before(x, s[k].rec) =>
         (\E i \in 1 .. Len(s) : x = s[i].rec) \/ Cut(x, s, k, cut)

\* Records with one transaction id lie behind the same begins.
OneBegin(s) ==
    \A i, j \in 1 .. Len(s), x \in LogItems :
        x.kind = "begin" /\ s[i].txn = s[j].txn /\ before(x, s[j].rec) => before(x, s[i].rec)

Begun(s, p, n, id, at, more) ==
    /\ \A x \in LogItems : x.kind = "begin" /\ Through(x, p, n, at, more) =>
         /\ \A d \in 1 .. n : before(x, p[d])
         /\ \A i \in 1 .. Len(s) : s[i].txn = id => before(x, s[i].rec)
    /\ \A i \in 1 .. Len(s) : s[i].txn <= id
    /\ \A i, j \in 1 .. Len(s) : i < j => s[i].txn <= s[j].txn
    /\ OneBegin(s)

\* The order of the log is one.
LEMMA LoggedNumbers ==
    ASSUME NEW x \in Logged
    PROVE  /\ x.off[1] \in Nat /\ x.off[2] \in Nat /\ x.n \in Nat
           /\ x.off = <<x.off[1], x.off[2]>>
  BY LogShape DEF Logged, Place

LEMMA BeforeOrder ==
    ASSUME NEW x \in Logged, NEW y \in Logged, NEW z \in Logged
    PROVE  /\ ~before(x, x)
           /\ before(x, y) /\ before(y, z) => before(x, z)
           /\ before(x, y) => ~before(y, x) /\ x # y
<1>1. ~before(x, x)
  BY LoggedNumbers DEF before
<1>2. ASSUME before(x, y), before(y, z) PROVE before(x, z)
  <2>1. CASE x.off = y.off /\ y.off = z.off
    BY <1>2, <2>1, LoggedNumbers DEF before
  <2>2. CASE x.off = y.off /\ y.off # z.off
    BY <1>2, <2>2, LoggedNumbers DEF before
  <2>3. CASE x.off # y.off /\ y.off = z.off
    BY <1>2, <2>3, LoggedNumbers DEF before
  <2>4. CASE x.off # y.off /\ y.off # z.off
    BY <1>2, <2>4, LoggedNumbers DEF before
  <2> QED BY <2>1, <2>2, <2>3, <2>4
<1>3. ASSUME before(x, y), before(y, x) PROVE FALSE
  BY <1>3, LoggedNumbers DEF before
<1> QED BY <1>1, <1>2, <1>3

\* What lies between two items of one event belongs to it.
LEMMA BetweenOne ==
    ASSUME NEW x \in Logged, NEW y \in Logged, NEW z \in Logged,
           before(x, y), before(y, z), x.off = z.off
    PROVE  y.off = x.off
<1>1. x.off[1] = y.off[1] /\ x.off[2] = y.off[2]
  BY LoggedNumbers DEF before
<1> QED BY <1>1, LoggedNumbers

LEMMA BeforeOffs ==
    ASSUME NEW x \in Logged, NEW y \in Logged, before(x, y)
    PROVE  x.off[1] < y.off[1] \/ (x.off[1] = y.off[1] /\ x.off[2] <= y.off[2])
  BY LoggedNumbers DEF before

LEMMA UpToBefore ==
    ASSUME NEW x \in Logged, NEW y \in Logged, NEW at \in Nat \X Nat, before(x, y), upTo(y, at)
    PROVE  upTo(x, at)
<1>1. at[1] \in Nat /\ at[2] \in Nat
  OBVIOUS
<1> QED BY <1>1, LoggedNumbers, BeforeOffs DEF upTo

LEMMA UpToOr ==
    ASSUME NEW x \in Logged, NEW y \in Logged, NEW at \in Nat \X Nat, upTo(x, at), ~upTo(y, at)
    PROVE  before(x, y)
<1>1. at[1] \in Nat /\ at[2] \in Nat
  OBVIOUS
<1> QED BY <1>1, LoggedNumbers DEF upTo, before

-----------------------------------------------------------------------------
\* The items of an event.
LEMMA EventItems ==
    ASSUME NEW f \in 1 .. Len(BinLog), NEW i \in 1 .. Len(BinLog[f])
    PROVE  /\ recordsAt(f, i + 1) \in Seq(Logged)
           /\ \A n \in 1 .. Len(recordsAt(f, i + 1)) :
                LET x == recordsAt(f, i + 1)[n]
                IN /\ x.off = <<f, i + 1>> /\ x.n = n
                   /\ x.kind = "row" <=> BinLog[f][i].type = "rows"
                   /\ x.kind = "begin" <=> BinLog[f][i].type = "begin"
           /\ BinLog[f][i].type = "begin" =>
                recordsAt(f, i + 1) = <<[kind |-> "begin", off |-> <<f, i + 1>>, n |-> 1]>>
<1> DEFINE e == BinLog[f][i]
           at == <<f, i + 1>>
<1>1. e.type \in STRING /\ e.rows \in Nat /\ at \in Place /\ (i + 1) - 1 = i /\ i + 1 \in Nat
  BY LogShape DEF Place
<1>2. recordsAt(f, i + 1) =
        CASE e.type = "rows" -> [n \in 1 .. e.rows |-> [kind |-> "row", off |-> at, n |-> n]]
          [] e.type \in {"ddl", "rollback", "begin", "xid"} ->
               <<[kind |-> e.type, off |-> at, n |-> 1]>>
          [] OTHER -> <<>>
  BY <1>1 DEF recordsAt
<1> HIDE DEF e, at
<1>3. CASE e.type = "rows"
  <2>1. recordsAt(f, i + 1) = [n \in 1 .. e.rows |-> [kind |-> "row", off |-> at, n |-> n]]
    BY <1>2, <1>3
  <2>2. \A n \in 1 .. e.rows : [kind |-> "row", off |-> at, n |-> n] \in Logged
    BY <1>1 DEF Logged
  <2>3. recordsAt(f, i + 1) \in Seq(Logged) /\ Len(recordsAt(f, i + 1)) = e.rows
    BY <1>1, <2>1, <2>2
  <2> QED BY <1>3, <2>1, <2>3 DEF e, at
<1>4. CASE e.type \in {"ddl", "rollback", "begin", "xid"}
  <2> DEFINE x == [kind |-> e.type, off |-> at, n |-> 1]
  <2>1. recordsAt(f, i + 1) = <<x>>
    BY <1>2, <1>4
  <2>2. x \in Logged /\ x.off = at /\ x.n = 1 /\ x.kind = e.type
    BY <1>1, <1>4 DEF Logged
  <2> HIDE DEF x
  <2>3. recordsAt(f, i + 1) \in Seq(Logged) /\ Len(recordsAt(f, i + 1)) = 1
        /\ recordsAt(f, i + 1)[1] = x
    <3>1. <<x>> \in Seq(Logged) /\ Len(<<x>>) = 1 /\ <<x>>[1] = x
      BY <2>2
    <3> QED BY <2>1, <3>1
  <2>4. e.type = "begin" => x = [kind |-> "begin", off |-> at, n |-> 1]
    BY DEF x
  <2> QED BY <1>4, <2>1, <2>2, <2>3, <2>4 DEF e, at
<1>5. CASE e.type \notin {"rows", "ddl", "rollback", "begin", "xid"}
  <2>1. recordsAt(f, i + 1) = <<>>
    BY <1>2, <1>5
  <2>2. <<>> \in Seq(Logged) /\ Len(<<>>) = 0 /\ 1 .. 0 = {}
    OBVIOUS
  <2>3. recordsAt(f, i + 1) \in Seq(Logged) /\ 1 .. Len(recordsAt(f, i + 1)) = {}
    BY <2>1, <2>2
  <2> QED BY <1>5, <2>3 DEF e
<1> QED BY <1>3, <1>4, <1>5

\* The items of the log, each at its place.
LEMMA ItemAt ==
    ASSUME NEW x \in LogItems
    PROVE  \E f \in 1 .. Len(BinLog) : \E i \in 1 .. Len(BinLog[f]) :
             \E n \in 1 .. Len(recordsAt(f, i + 1)) : x = recordsAt(f, i + 1)[n]
<1>1. PICK f \in 1 .. Len(BinLog) :
        x \in UNION {Range(recordsAt(f, i + 1)) : i \in DOMAIN BinLog[f]}
  BY LogShape DEF LogItems
<1>2. PICK i \in 1 .. Len(BinLog[f]) : x \in Range(recordsAt(f, i + 1))
  BY <1>1, LogShape
<1>3. PICK n \in DOMAIN recordsAt(f, i + 1) : x = recordsAt(f, i + 1)[n]
  BY <1>2 DEF Range
<1>4. recordsAt(f, i + 1) \in Seq(Logged)
  BY EventItems
<1>5. DOMAIN recordsAt(f, i + 1) = 1 .. Len(recordsAt(f, i + 1))
  BY <1>4
<1> QED BY <1>3, <1>5

LEMMA AtItem ==
    ASSUME NEW f \in 1 .. Len(BinLog), NEW i \in 1 .. Len(BinLog[f]),
           NEW n \in 1 .. Len(recordsAt(f, i + 1))
    PROVE  recordsAt(f, i + 1)[n] \in LogItems
<1>1. recordsAt(f, i + 1) \in Seq(Logged)
  BY EventItems
<1>2. recordsAt(f, i + 1)[n] \in Range(recordsAt(f, i + 1))
  <2>1. DOMAIN recordsAt(f, i + 1) = 1 .. Len(recordsAt(f, i + 1))
    BY <1>1
  <2> QED BY <2>1 DEF Range
<1>3. f \in DOMAIN BinLog /\ i \in DOMAIN BinLog[f]
  BY LogShape
<1> QED BY <1>2, <1>3 DEF LogItems

LEMMA LogItem ==
    ASSUME NEW x \in LogItems
    PROVE  /\ x \in Logged /\ x.off[1] \in 1 .. Len(BinLog)
           /\ x.off[2] - 1 \in 1 .. Len(BinLog[x.off[1]])
           /\ x.kind = "row" <=> BinLog[x.off[1]][x.off[2] - 1].type = "rows"
           /\ x.n \in 1 .. Len(recordsAt(x.off[1], x.off[2]))
           /\ x = recordsAt(x.off[1], x.off[2])[x.n]
<1>0. PICK f \in 1 .. Len(BinLog) : \E i \in 1 .. Len(BinLog[f]) :
        \E n \in 1 .. Len(recordsAt(f, i + 1)) : x = recordsAt(f, i + 1)[n]
  BY ItemAt
<1>1. PICK i \in 1 .. Len(BinLog[f]) :
        \E n \in 1 .. Len(recordsAt(f, i + 1)) : x = recordsAt(f, i + 1)[n]
  BY <1>0
<1>2. PICK n \in 1 .. Len(recordsAt(f, i + 1)) : x = recordsAt(f, i + 1)[n]
  BY <1>1
<1>3. /\ recordsAt(f, i + 1) \in Seq(Logged) /\ x.off = <<f, i + 1>> /\ x.n = n
      /\ x.kind = "row" <=> BinLog[f][i].type = "rows"
  BY <1>2, EventItems
<1>4. x \in Logged
  BY ONLY <1>2, <1>3, EventOf
<1>5. x.off[1] = f /\ x.off[2] = i + 1 /\ x.off[2] - 1 = i
  BY <1>3
<1>6. x.off[2] - 1 \in 1 .. Len(BinLog[x.off[1]])
  BY <1>5
<1>7. x.n \in 1 .. Len(recordsAt(x.off[1], x.off[2])) /\ x = recordsAt(x.off[1], x.off[2])[x.n]
  BY <1>2, <1>3, <1>5
<1>8. x.kind = "row" <=> BinLog[x.off[1]][x.off[2] - 1].type = "rows"
  BY <1>3, <1>5
<1> QED BY <1>4, <1>5, <1>6, <1>7, <1>8

\* Two items of the log are one or in order.
LEMMA BeforeTotal ==
    ASSUME NEW x \in LogItems, NEW y \in LogItems
    PROVE  before(x, y) \/ x = y \/ before(y, x)
<1>1. x \in Logged /\ y \in Logged
  BY LogItem
<1>2. CASE x.off = y.off /\ x.n = y.n
  BY <1>2, LogItem
<1>3. CASE x.off = y.off /\ x.n # y.n
  BY <1>1, <1>3, LoggedNumbers DEF before
<1>4. CASE x.off # y.off
  BY <1>1, <1>4, LoggedNumbers DEF before
<1> QED BY <1>2, <1>3, <1>4

-----------------------------------------------------------------------------
\* The stream as a whole: a store s, a flow p of n items, parsed up to at.
Store == Seq([rec : Rec, txn : Nat])

Flows(s, p, n, id, at, more, cut, sure) ==
    /\ Sorted(s, p, n, at) /\ Complete(s, p, n, at, more, cut)
    /\ sure => Begun(s, p, n, id, at, more)

LEMMA LogRecord == ASSUME NEW x \in LogRecords PROVE x \in LogItems /\ x \in Logged /\ isRecord(x)
  BY LogItem DEF LogRecords

\* What is before the first item on its way is through.
LEMMA BeforeFirst ==
    ASSUME NEW s, NEW p, NEW n \in Nat, n >= 1, NEW at, NEW more, Sorted(s, p, n, at),
           NEW x \in LogItems, NEW d \in 1 .. n, before(x, p[d]),
           \A e \in 1 .. n : e < d => x # p[e]
    PROVE  Through(x, p, n, at, more)
<1>1. \A e \in 1 .. n : p[e] \in Logged /\ (d < e => before(p[d], p[e]))
  BY LogItem DEF Sorted
<1>2. x \in Logged
  BY LogItem
<1>3. ASSUME NEW e \in 1 .. n PROVE x # p[e]
  <2>1. CASE e < d
    BY <2>1
  <2>2. CASE e = d
    BY <1>1, <1>2, <2>2, BeforeOrder
  <2>3. CASE d < e
    <3>1. p[d] \in Logged /\ p[e] \in Logged /\ before(p[d], p[e])
      BY <1>1, <2>3
    <3>2. before(x, p[e])
      BY ONLY <1>2, <3>1, before(x, p[d]), BeforeOrder
    <3> QED BY ONLY <1>2, <3>1, <3>2, BeforeOrder
  <2> QED BY <2>1, <2>2, <2>3
<1> QED BY <1>3 DEF Through

\* The first item is given to the store.
Given(s, p, n, id, t, q, jd) ==
    /\ \A d \in 1 .. n - 1 : q[d] = p[d + 1]
    /\ t = IF isRecord(p[1]) THEN Append(s, [rec |-> p[1], txn |-> id]) ELSE s
    /\ jd = IF p[1].kind = "begin" THEN id + 1 ELSE id

LEMMA GivenStore ==
    ASSUME NEW s \in Store, NEW p, NEW n, NEW id \in Nat, NEW t, NEW q, NEW jd,
           Given(s, p, n, id, t, q, jd), isRecord(p[1])
    PROVE  /\ Len(s) \in Nat /\ Len(t) = Len(s) + 1
           /\ \A i \in 1 .. Len(s) : t[i] = s[i]
           /\ t[Len(s) + 1].rec = p[1] /\ t[Len(s) + 1].txn = id
<1> DEFINE e == [rec |-> p[1], txn |-> id]
<1>1. t = Append(s, e) /\ e.rec = p[1] /\ e.txn = id
  BY DEF Given
<1> HIDE DEF e
<1>2. Len(s) \in Nat /\ Len(t) = Len(s) + 1 /\ t[Len(s) + 1] = e
      /\ \A i \in 1 .. Len(s) : t[i] = s[i]
  BY <1>1 DEF Store
<1> QED BY <1>1, <1>2

LEMMA GivenThrough ==
    ASSUME NEW s, NEW p, NEW n \in Nat, n >= 1, NEW id, NEW t, NEW q, NEW jd,
           Given(s, p, n, id, t, q, jd), NEW at, NEW more, NEW x, Through(x, q, n - 1, at, more)
    PROVE  x = p[1] \/ Through(x, p, n, at, more)
<1>1. \A d \in 1 .. n - 1 : q[d] = p[d + 1] /\ d + 1 \in 1 .. n
  BY DEF Given
<1>2. \A d \in 1 .. n : d = 1 \/ (d - 1 \in 1 .. n - 1 /\ p[d] = q[d - 1])
  BY <1>1
<1>3. ASSUME x # p[1] PROVE \A d \in 1 .. n : x # p[d]
  BY <1>2, <1>3 DEF Through
<1>4. (more /\ upTo(x, at)) \/ \E d \in 1 .. n : before(x, p[d])
  BY <1>1 DEF Through
<1> QED BY <1>3, <1>4 DEF Through

LEMMA GiveSorted ==
    ASSUME NEW s \in Store, NEW p, NEW n \in Nat, n >= 1, NEW id \in Nat, NEW t, NEW q, NEW jd,
           Given(s, p, n, id, t, q, jd), NEW at, Sorted(s, p, n, at)
    PROVE  Sorted(t, q, n - 1, at)
<1>1. \A d \in 1 .. n - 1 : q[d] = p[d + 1] /\ d + 1 \in 1 .. n /\ 1 < d + 1
  BY DEF Given
<1>2. 1 \in 1 .. n /\ n - 1 \in Nat
  OBVIOUS
<1>3. /\ \A i \in 1 .. Len(s) : s[i].rec \in LogRecords /\ upTo(s[i].rec, at)
      /\ \A i, j \in 1 .. Len(s) : i < j => before(s[i].rec, s[j].rec)
      /\ \A d \in 1 .. n : p[d] \in LogItems /\ upTo(p[d], at)
      /\ \A d, e \in 1 .. n : d < e => before(p[d], p[e])
      /\ \A i \in 1 .. Len(s), d \in 1 .. n : before(s[i].rec, p[d])
  BY DEF Sorted
<1>4. /\ \A d \in 1 .. n - 1 : q[d] \in LogItems /\ upTo(q[d], at) /\ before(p[1], q[d])
      /\ \A d, e \in 1 .. n - 1 : d < e => before(q[d], q[e])
      /\ \A i \in 1 .. Len(s), d \in 1 .. n - 1 : before(s[i].rec, q[d])
  BY <1>1, <1>2, <1>3
<1>5. CASE ~isRecord(p[1])
  <2>1. t = s
    BY <1>5 DEF Given
  <2> QED BY <1>3, <1>4, <2>1 DEF Sorted
<1>6. CASE isRecord(p[1])
  <2> DEFINE L == Len(s)
  <2>1. /\ L \in Nat /\ Len(t) = L + 1 /\ \A i \in 1 .. L : t[i] = s[i]
        /\ t[L + 1].rec = p[1]
    BY <1>6, GivenStore
  <2>2. p[1] \in LogRecords /\ upTo(p[1], at)
    BY <1>2, <1>3, <1>6 DEF LogRecords
  <2> HIDE DEF L
  <2>3. \A i \in 1 .. Len(t) : i = L + 1 \/ i \in 1 .. L
    BY <2>1
  <2>4. \A i \in 1 .. Len(t) : t[i].rec \in LogRecords /\ upTo(t[i].rec, at)
    BY <1>3, <2>1, <2>2, <2>3 DEF L
  <2>5. ASSUME NEW i \in 1 .. Len(t), NEW j \in 1 .. Len(t), i < j
        PROVE  before(t[i].rec, t[j].rec)
    <3>1. i \in 1 .. L /\ t[i] = s[i]
      BY <2>1, <2>5
    <3>2. CASE j \in 1 .. L
      BY <1>3, <2>1, <2>5, <3>1, <3>2 DEF L
    <3>3. CASE j = L + 1
      BY <1>2, <1>3, <2>1, <3>1, <3>3 DEF L
    <3> QED BY <2>3, <3>2, <3>3
  <2>6. \A i \in 1 .. Len(t), d \in 1 .. n - 1 : before(t[i].rec, q[d])
    BY <1>4, <2>1, <2>3 DEF L
  <2> QED BY <1>4, <2>4, <2>5, <2>6 DEF Sorted
<1> QED BY <1>5, <1>6

LEMMA GiveComplete ==
    ASSUME NEW s \in Store, NEW p, NEW n \in Nat, n >= 1, NEW id \in Nat, NEW t, NEW q, NEW jd,
           Given(s, p, n, id, t, q, jd), NEW at, NEW more, NEW cut, Sorted(s, p, n, at),
           Complete(s, p, n, at, more, cut)
    PROVE  Complete(t, q, n - 1, at, more, cut)
<1>1. 1 \in 1 .. n /\ \A x \in LogRecords : x \in LogItems /\ isRecord(x)
  BY LogRecord
<1>2. /\ \A x \in LogRecords : Through(x, p, n, at, more) =>
           (\E i \in 1 .. Len(s) : x = s[i].rec) \/ Cut(x, s, Len(s), cut)
      /\ \A k \in 1 .. Len(s), x \in LogRecords : before(x, s[k].rec) =>
           (\E i \in 1 .. Len(s) : x = s[i].rec) \/ Cut(x, s, k, cut)
  BY DEF Complete
<1>3. \A x \in LogRecords : Through(x, q, n - 1, at, more) => x = p[1] \/ Through(x, p, n, at, more)
  BY GivenThrough
<1>4. CASE ~isRecord(p[1])
  <2>1. t = s
    BY <1>4 DEF Given
  <2> QED BY <1>1, <1>2, <1>3, <1>4, <2>1 DEF Complete
<1>5. CASE isRecord(p[1])
  <2> DEFINE L == Len(s)
  <2>1. /\ L \in Nat /\ Len(t) = L + 1 /\ \A i \in 1 .. L : t[i] = s[i]
        /\ t[L + 1].rec = p[1]
    BY <1>5, GivenStore
  <2> HIDE DEF L
  <2>2. /\ \A i \in 1 .. Len(t) : i = L + 1 \/ i \in 1 .. L
        /\ \A i \in 1 .. L : i \in 1 .. Len(t)
        /\ L + 1 \in 1 .. Len(t)
    BY <2>1
  <2>3. ASSUME NEW x, NEW k \in 1 .. L, Cut(x, s, k, cut)
        PROVE  Cut(x, t, k, cut) /\ Cut(x, t, L, cut) /\ Cut(x, t, L + 1, cut)
    <3>1. PICK i \in 1 .. k : cut /\ s[i].rec.off = x.off /\ before(s[i].rec, x)
      BY <2>3 DEF Cut
    <3>2. i \in 1 .. L /\ i \in 1 .. L + 1 /\ t[i] = s[i]
      BY <2>1, <2>3
    <3> QED BY <3>1, <3>2 DEF Cut
  <2>4. ASSUME NEW x, Cut(x, s, L, cut) PROVE Cut(x, t, L + 1, cut)
    <3>1. PICK i \in 1 .. L : cut /\ s[i].rec.off = x.off /\ before(s[i].rec, x)
      BY <2>4 DEF Cut
    <3>2. i \in 1 .. L + 1 /\ t[i] = s[i]
      BY <2>1
    <3> QED BY <3>1, <3>2 DEF Cut
  <2>5. ASSUME NEW x \in LogRecords, Through(x, p, n, at, more)
        PROVE  (\E i \in 1 .. Len(t) : x = t[i].rec) \/ Cut(x, t, Len(t), cut)
    <3>1. (\E i \in 1 .. L : x = s[i].rec) \/ Cut(x, s, L, cut)
      BY <1>2, <2>5 DEF L
    <3> QED BY <2>1, <2>2, <2>4, <3>1
  <2>6. ASSUME NEW x \in LogRecords, Through(x, q, n - 1, at, more)
        PROVE  (\E i \in 1 .. Len(t) : x = t[i].rec) \/ Cut(x, t, Len(t), cut)
    <3>1. CASE x = p[1]
      BY <2>1, <2>2, <3>1
    <3>2. CASE Through(x, p, n, at, more)
      BY <2>5, <3>2
    <3> QED BY <1>3, <2>6, <3>1, <3>2
  <2>7. ASSUME NEW k \in 1 .. Len(t), NEW x \in LogRecords, before(x, t[k].rec)
        PROVE  (\E i \in 1 .. Len(t) : x = t[i].rec) \/ Cut(x, t, k, cut)
    <3>1. CASE k \in 1 .. L
      <4>1. before(x, s[k].rec) /\ k \in 1 .. Len(s)
        BY <2>1, <2>7, <3>1 DEF L
      <4>2. (\E i \in 1 .. L : x = s[i].rec) \/ Cut(x, s, k, cut)
        BY <1>2, <4>1 DEF L
      <4> QED BY <2>1, <2>2, <2>3, <3>1, <4>2
    <3>2. CASE k = L + 1
      <4>1. before(x, p[1])
        BY <2>1, <2>7, <3>2
      <4>2. \A e \in 1 .. n : e < 1 => x # p[e]
        OBVIOUS
      <4>3. Through(x, p, n, at, more)
        BY <1>1, <4>1, <4>2, BeforeFirst
      <4> QED BY <2>1, <2>5, <3>2, <4>3
    <3> QED BY <2>2, <3>1, <3>2
  <2> QED BY <2>6, <2>7 DEF Complete
<1> QED BY <1>4, <1>5

LEMMA GiveBegun ==
    ASSUME NEW s \in Store, NEW p, NEW n \in Nat, n >= 1, NEW id \in Nat, NEW t, NEW q, NEW jd,
           Given(s, p, n, id, t, q, jd), NEW at, NEW more, Sorted(s, p, n, at),
           Begun(s, p, n, id, at, more)
    PROVE  Begun(t, q, n - 1, jd, at, more)
<1>1. \A d \in 1 .. n - 1 : q[d] = p[d + 1] /\ d + 1 \in 1 .. n /\ 1 < d + 1
  BY DEF Given
<1>2. /\ 1 \in 1 .. n
      /\ \A x \in LogItems : x.kind = "begin" /\ Through(x, p, n, at, more) =>
           /\ \A d \in 1 .. n : before(x, p[d])
           /\ \A i \in 1 .. Len(s) : s[i].txn = id => before(x, s[i].rec)
      /\ \A i \in 1 .. Len(s) : s[i].txn <= id
      /\ \A i, j \in 1 .. Len(s) : i < j => s[i].txn <= s[j].txn
      /\ OneBegin(s)
      /\ \A d, e \in 1 .. n : d < e => before(p[d], p[e])
  BY DEF Begun, Sorted
<1>3. \A i \in 1 .. Len(s) : s[i].txn \in Nat
  <2> DEFINE R == [rec : Rec, txn : Nat]
  <2> TAKE i \in 1 .. Len(s)
  <2>1. s[i] \in R
    <3>1. s \in Seq(R)
      BY DEF Store
    <3> HIDE DEF R
    <3> QED BY ONLY <3>1, EventOf
  <2> QED BY <2>1
<1>4. ASSUME NEW x \in LogItems, x.kind = "begin", Through(x, q, n - 1, at, more)
      PROVE  \A d \in 1 .. n - 1 : before(x, q[d])
  <2>1. CASE x = p[1]
    BY <1>1, <1>2, <2>1
  <2>2. CASE Through(x, p, n, at, more)
    BY <1>1, <1>2, <1>4, <2>2
  <2> QED BY <1>4, <2>1, <2>2, GivenThrough
<1>5. CASE p[1].kind = "begin"
  <2>1. t = s /\ jd = id + 1
    BY <1>5 DEF Given, isRecord
  <2>2. \A i \in 1 .. Len(t) : t[i].txn <= jd /\ t[i].txn # jd
    BY <1>2, <1>3, <2>1
  <2> QED BY <1>2, <1>4, <2>1, <2>2 DEF Begun
<1>6. CASE p[1].kind # "begin"
  <2>1. jd = id
    BY <1>6 DEF Given
  <2>2. ASSUME NEW x \in LogItems, x.kind = "begin", Through(x, q, n - 1, at, more)
        PROVE  /\ before(x, p[1])
               /\ \A i \in 1 .. Len(s) : s[i].txn = id => before(x, s[i].rec)
    <3>1. Through(x, p, n, at, more)
      BY <1>6, <2>2, GivenThrough
    <3> QED BY <1>2, <2>2, <3>1
  <2>3. CASE ~isRecord(p[1])
    <3>1. t = s
      BY <2>3 DEF Given
    <3> QED BY <1>2, <1>4, <2>1, <2>2, <3>1 DEF Begun
  <2>4. CASE isRecord(p[1])
    <3> DEFINE L == Len(s)
    <3>1. /\ L \in Nat /\ Len(t) = L + 1 /\ \A i \in 1 .. L : t[i] = s[i]
          /\ t[L + 1].rec = p[1] /\ t[L + 1].txn = id
      BY ONLY <2>4, s \in Store, id \in Nat, Given(s, p, n, id, t, q, jd), GivenStore
    <3>2. \A i \in 1 .. Len(t) : i = L + 1 \/ i \in 1 .. L
      BY <3>1
    <3>3. \A i \in 1 .. L : s[i].txn \in Nat /\ s[i].txn <= id
      BY <1>2, <1>3
    <3>4. \A i, j \in 1 .. L : i < j => s[i].txn <= s[j].txn
      BY <1>2
    <3>5. \A x \in LogItems : x.kind = "begin" /\ Through(x, q, n - 1, at, more) =>
            before(x, p[1]) /\ \A i \in 1 .. L : s[i].txn = id => before(x, s[i].rec)
      BY <2>2
    <3> HIDE DEF L
    <3>6. \A i \in 1 .. Len(t) : t[i].txn <= id
      BY <3>1, <3>2, <3>3
    <3>7. ASSUME NEW i \in 1 .. Len(t), NEW j \in 1 .. Len(t), i < j PROVE t[i].txn <= t[j].txn
      <4>1. i \in 1 .. L
        BY <3>1, <3>7
      <4> QED BY <3>1, <3>2, <3>3, <3>4, <3>7, <4>1
    <3>8. \A x \in LogItems : x.kind = "begin" /\ Through(x, q, n - 1, at, more) =>
            \A i \in 1 .. Len(t) : t[i].txn = id => before(x, t[i].rec)
      BY <3>1, <3>2, <3>5
    <3>9. OneBegin(t)
      <4> SUFFICES ASSUME NEW i \in 1 .. Len(t), NEW j \in 1 .. Len(t), NEW x \in LogItems,
                          x.kind = "begin", t[i].txn = t[j].txn, before(x, t[j].rec)
                   PROVE  before(x, t[i].rec)
        BY DEF OneBegin
      <4>1. CASE i \in 1 .. L /\ j \in 1 .. L
        <5>1. t[i] = s[i] /\ t[j] = s[j] /\ i \in 1 .. Len(s) /\ j \in 1 .. Len(s)
          BY <3>1, <4>1 DEF L
        <5> QED BY <1>2, <5>1 DEF OneBegin
      <4>2. CASE i \in 1 .. L /\ j = L + 1
        <5>1. before(x, p[1]) /\ s[i].txn = id /\ t[i] = s[i] /\ i \in 1 .. Len(s)
          BY <3>1, <4>2 DEF L
        <5>2. \A e \in 1 .. n : e < 1 => x # p[e]
          OBVIOUS
        <5>3. Through(x, p, n, at, more)
          BY <1>2, <5>1, <5>2, BeforeFirst
        <5> QED BY <1>2, <5>1, <5>3
      <4>3. CASE i = L + 1 /\ j \in 1 .. L
        <5>1. /\ s[j].rec \in LogRecords /\ before(s[j].rec, p[1]) /\ p[1] \in LogItems
              /\ before(x, s[j].rec) /\ t[i].rec = p[1]
          BY <1>2, <3>1, <4>3 DEF Sorted, L
        <5>2. x \in Logged /\ s[j].rec \in Logged /\ p[1] \in Logged
          BY <5>1, LogItem, LogRecord
        <5>3. before(x, p[1])
          BY ONLY <5>1, <5>2, BeforeOrder
        <5> QED BY <5>1, <5>3
      <4>4. CASE i = L + 1 /\ j = L + 1
        BY <4>4
      <4> QED BY <3>2, <4>1, <4>2, <4>3, <4>4
    <3> QED BY <1>4, <2>1, <3>6, <3>7, <3>8, <3>9 DEF Begun
  <2> QED BY <2>3, <2>4
<1> QED BY <1>5, <1>6

LEMMA FlowGive ==
    ASSUME NEW s \in Store, NEW p, NEW n \in Nat, n >= 1, NEW id \in Nat, NEW at, NEW more, NEW cut, NEW sure,
           Flows(s, p, n, id, at, more, cut, sure),
           NEW t, NEW q, NEW jd, Given(s, p, n, id, t, q, jd)
    PROVE  Flows(t, q, n - 1, jd, at, more, cut, sure)
  BY GiveSorted, GiveComplete, GiveBegun DEF Flows

\* The end of the flow is dropped, or nothing, and nothing more is parsed.
LEMMA FlowDrop ==
    ASSUME NEW s, NEW p, NEW n \in Nat, NEW id, NEW at, NEW more, NEW cut, NEW sure,
           Flows(s, p, n, id, at, more, cut, sure),
           NEW m \in 0 .. n, NEW q, \A d \in 1 .. m : q[d] = p[d],
           NEW to, \A x \in LogItems : upTo(x, at) => upTo(x, to)
    PROVE  Flows(s, q, m, id, to, FALSE, cut, sure)
<1>1. \A d \in 1 .. m : d \in 1 .. n
  OBVIOUS
<1>2. /\ Sorted(s, p, n, at) /\ Complete(s, p, n, at, more, cut)
      /\ sure => Begun(s, p, n, id, at, more)
  BY DEF Flows
<1>3. Sorted(s, q, m, to)
  BY <1>1, <1>2, LogRecord DEF Sorted
<1>4. ASSUME NEW x \in LogItems, Through(x, q, m, to, FALSE) PROVE Through(x, p, n, at, more)
  <2>1. PICK d \in 1 .. m : before(x, p[d])
    BY <1>4 DEF Through
  <2>2. d \in 1 .. n /\ n >= 1 /\ \A e \in 1 .. n : e < d => e \in 1 .. m /\ x # p[e]
    <3>1. d \in 1 .. n /\ n >= 1
      OBVIOUS
    <3>2. \A e \in 1 .. m : x # p[e]
      BY <1>4 DEF Through
    <3> QED BY <3>1, <3>2
  <2> QED BY <1>2, <2>1, <2>2, BeforeFirst
<1>5. Complete(s, q, m, to, FALSE, cut)
  BY <1>2, <1>4, LogRecord DEF Complete
<1>6. sure => Begun(s, q, m, id, to, FALSE)
  BY <1>1, <1>2, <1>4 DEF Begun
<1> QED BY <1>3, <1>5, <1>6 DEF Flows

\* The reader's position changes and no item of the log is in between.
LEMMA FlowAt ==
    ASSUME NEW s, NEW p, NEW n, NEW id, NEW at, NEW more, NEW cut, NEW sure,
           Flows(s, p, n, id, at, more, cut, sure),
           NEW to, \A x \in LogItems : upTo(x, to) <=> upTo(x, at)
    PROVE  Flows(s, p, n, id, to, more, cut, sure)
<1>1. \A x \in LogItems : Through(x, p, n, to, more) <=> Through(x, p, n, at, more)
  BY DEF Through
<1>2. Sorted(s, p, n, to)
  BY LogRecord DEF Flows, Sorted
<1>3. Complete(s, p, n, to, more, cut)
  BY <1>1, LogRecord DEF Flows, Complete
<1>4. sure => Begun(s, p, n, id, to, more)
  BY <1>1 DEF Flows, Begun
<1> QED BY <1>2, <1>3, <1>4 DEF Flows

LEMMA NextFile ==
    ASSUME NEW f \in 1 .. Len(BinLog), NEW pos \in Nat, pos > Len(BinLog[f]),
           NEW x \in LogItems
    PROVE  upTo(x, <<f + 1, 1>>) <=> upTo(x, <<f, pos>>)
<1>1. /\ x.off[1] \in Nat /\ x.off[2] \in Nat /\ x.off[2] > 1
      /\ x.off[1] = f => x.off[2] <= pos
  <2>1. x \in Logged /\ x.off[1] \in 1 .. Len(BinLog) /\ x.off[2] - 1 \in 1 .. Len(BinLog[x.off[1]])
    BY LogItem
  <2>2. Len(BinLog[f]) \in Nat /\ Len(BinLog[x.off[1]]) \in Nat
    BY <2>1, LogShape
  <2>3. x.off[1] \in Nat /\ x.off[2] \in Nat
    BY <2>1, LoggedNumbers
  <2> QED BY <2>1, <2>2, <2>3
<1>2. f \in Nat
  OBVIOUS
<1> QED BY <1>1, <1>2 DEF upTo

\* An event is parsed: its items are on their way.
LEMMA FlowParse ==
    ASSUME NEW s, NEW p, NEW n \in Nat, NEW id, NEW cut, NEW sure,
           NEW f \in 1 .. Len(BinLog), NEW i \in 1 .. Len(BinLog[f]),
           Flows(s, p, n, id, <<f, i>>, TRUE, cut, sure), NEW q,
           \A d \in 1 .. n : q[d] = p[d],
           \A k \in 1 .. Len(recordsAt(f, i + 1)) : q[n + k] = recordsAt(f, i + 1)[k]
    PROVE  Flows(s, q, n + Len(recordsAt(f, i + 1)), id, <<f, i + 1>>, TRUE, cut, sure)
<1> DEFINE r == recordsAt(f, i + 1)
           l == Len(r)
           m == n + l
           at == <<f, i>>
           to == <<f, i + 1>>
<1>1. /\ l \in Nat /\ f \in Nat /\ i \in Nat
      /\ \A k \in 1 .. l : r[k] \in LogItems /\ r[k].off = <<f, i + 1>> /\ r[k].n = k
  <2>1. r \in Seq(Logged)
    BY EventItems
  <2>2. l \in Nat
    BY <2>1
  <2>3. \A k \in 1 .. l : r[k].off = <<f, i + 1>> /\ r[k].n = k
    BY EventItems
  <2>4. \A k \in 1 .. l : r[k] \in LogItems
    BY AtItem
  <2> QED BY <2>2, <2>3, <2>4
<1>2. at \in Nat \X Nat /\ to \in Nat \X Nat
  BY <1>1
<1>3. \A k \in 1 .. l : q[n + k] = r[k]
  OBVIOUS
<1>4. /\ Sorted(s, p, n, at) /\ Complete(s, p, n, at, TRUE, cut)
      /\ sure => Begun(s, p, n, id, at, TRUE)
  BY DEF Flows
<1>5. ASSUME NEW x \in LogItems, upTo(x, at) PROVE upTo(x, to)
  <2>1. x.off[1] \in Nat /\ x.off[2] \in Nat
    BY LogItem, LoggedNumbers
  <2> QED BY <1>1, <1>5, <2>1 DEF upTo
<1>6. ASSUME NEW x \in LogItems, upTo(x, to), ~upTo(x, at) PROVE \E k \in 1 .. l : x = r[k]
  <2>1. x \in Logged /\ x.off[1] \in Nat /\ x.off[2] \in Nat
    BY LogItem, LoggedNumbers
  <2>2. x.off[1] = f /\ x.off[2] = i + 1
    BY <1>1, <1>6, <2>1 DEF upTo
  <2> QED BY <2>2, LogItem
<1>7. ASSUME NEW k \in 1 .. l PROVE r[k] \in Logged /\ upTo(r[k], to) /\ ~upTo(r[k], at)
  <2>1. r[k].off[1] = f /\ r[k].off[2] = i + 1
    BY <1>1
  <2> QED BY <1>1, <2>1, LogItem DEF upTo
<1>8. ASSUME NEW k \in 1 .. l, NEW j \in 1 .. l, k < j PROVE before(r[k], r[j])
  <2>1. r[k].off = r[j].off /\ r[k].n = k /\ r[j].n = j
    BY <1>1
  <2> QED BY <1>8, <2>1 DEF before
<1>9. ASSUME NEW x \in LogItems, upTo(x, at), NEW k \in 1 .. l PROVE before(x, r[k])
  <2>1. x \in Logged /\ r[k] \in Logged /\ ~upTo(r[k], at)
    BY <1>7, LogItem
  <2> QED BY ONLY <1>2, <1>9, <2>1, UpToOr
<1>10. \A d \in 1 .. m : d \in 1 .. n \/ (d - n \in 1 .. l /\ q[d] = r[d - n])
  <2> TAKE d \in 1 .. m
  <2>1. CASE d > n
    <3>1. d - n \in 1 .. l /\ n + (d - n) = d
      BY <1>1, <2>1
    <3> QED BY <1>3, <3>1
  <2>2. CASE ~(d > n)
    BY <2>2
  <2> QED BY <2>1, <2>2
<1>11. m \in Nat /\ (\A d \in 1 .. n : d \in 1 .. m) /\ \A k \in 1 .. l : n + k \in 1 .. m
  BY <1>1
<1>12. /\ \A j \in 1 .. Len(s) : s[j].rec \in LogRecords /\ s[j].rec \in LogItems /\ upTo(s[j].rec, at)
       /\ \A j, k \in 1 .. Len(s) : j < k => before(s[j].rec, s[k].rec)
       /\ \A d \in 1 .. n : p[d] \in LogItems /\ upTo(p[d], at) /\ q[d] = p[d]
       /\ \A d, e \in 1 .. n : d < e => before(p[d], p[e])
       /\ \A j \in 1 .. Len(s), d \in 1 .. n : before(s[j].rec, p[d])
  BY <1>4, LogRecord DEF Sorted
<1> HIDE DEF r, l, m, at, to
<1>13. \A d \in 1 .. m : q[d] \in LogItems /\ upTo(q[d], to)
  BY <1>1, <1>5, <1>7, <1>10, <1>12
<1>14. ASSUME NEW d \in 1 .. m, NEW e \in 1 .. m, d < e PROVE before(q[d], q[e])
  <2>1. CASE e \in 1 .. n
    <3>1. d \in 1 .. n
      BY <1>14, <2>1
    <3> QED BY <1>12, <1>14, <2>1, <3>1
  <2>2. CASE d \in 1 .. n /\ e - n \in 1 .. l /\ q[e] = r[e - n]
    BY <1>9, <1>12, <2>2
  <2>3. CASE d - n \in 1 .. l /\ q[d] = r[d - n] /\ e - n \in 1 .. l /\ q[e] = r[e - n]
    <3>1. d - n < e - n
      BY <1>14
    <3> QED BY <1>8, <2>3, <3>1
  <2> QED BY <1>10, <2>1, <2>2, <2>3
<1>15. Sorted(s, q, m, to)
  <2>1. \A j \in 1 .. Len(s), d \in 1 .. m : before(s[j].rec, q[d])
    BY <1>9, <1>10, <1>12
  <2>2. \A j \in 1 .. Len(s) : s[j].rec \in LogRecords /\ upTo(s[j].rec, to)
    BY <1>5, <1>12
  <2> QED BY <1>12, <1>13, <1>14, <2>1, <2>2 DEF Sorted
<1>16. ASSUME NEW x \in LogItems, Through(x, q, m, to, TRUE)
       PROVE  upTo(x, at) /\ Through(x, p, n, at, TRUE)
  <2>1. upTo(x, to)
    <3>1. CASE upTo(x, to)
      BY <3>1
    <3>2. CASE \E d \in 1 .. m : before(x, q[d])
      <4>1. PICK d \in 1 .. m : before(x, q[d])
        BY <3>2
      <4>2. x \in Logged /\ q[d] \in Logged /\ upTo(q[d], to)
        BY <1>13, LogItem
      <4> QED BY ONLY <1>2, <4>1, <4>2, UpToBefore
    <3> QED BY <1>16, <3>1, <3>2 DEF Through
  <2>2. \A d \in 1 .. m : x # q[d]
    BY <1>16 DEF Through
  <2>3. \A k \in 1 .. l : x # r[k]
    BY <1>3, <1>11, <2>2
  <2>4. upTo(x, at)
    BY <1>6, <2>1, <2>3
  <2>5. \A d \in 1 .. n : x # p[d]
    BY <1>11, <1>12, <2>2
  <2> QED BY <2>4, <2>5 DEF Through
<1>17. Complete(s, q, m, to, TRUE, cut)
  BY <1>4, <1>16, LogRecord DEF Complete
<1>18. ASSUME sure, NEW x \in LogItems, x.kind = "begin", Through(x, q, m, to, TRUE)
       PROVE  /\ \A d \in 1 .. m : before(x, q[d])
              /\ \A j \in 1 .. Len(s) : s[j].txn = id => before(x, s[j].rec)
  <2>1. upTo(x, at) /\ Through(x, p, n, at, TRUE)
    BY <1>16, <1>18
  <2>2. /\ \A d \in 1 .. n : before(x, p[d])
        /\ \A j \in 1 .. Len(s) : s[j].txn = id => before(x, s[j].rec)
    BY <1>4, <1>18, <2>1 DEF Begun
  <2> QED BY <1>9, <1>10, <1>12, <2>1, <2>2
<1>19. sure => Begun(s, q, m, id, to, TRUE)
  BY <1>4, <1>18 DEF Begun
<1> QED BY <1>15, <1>17, <1>19 DEF Flows, m, l, r, to

\* A begin up to the place of a record is before the record: they are two events.
LEMMA BeginBefore ==
    ASSUME NEW x \in LogItems, x.kind = "begin", NEW y \in LogItems, isRecord(y), upTo(x, y.off)
    PROVE  before(x, y)
<1>1. x \in Logged /\ y \in Logged
  BY LogItem
<1>2. x.off # y.off
  <2> SUFFICES ASSUME x.off = y.off PROVE FALSE
    OBVIOUS
  <2> DEFINE f == x.off[1]
             i == x.off[2] - 1
  <2>1. f \in 1 .. Len(BinLog) /\ i \in 1 .. Len(BinLog[f]) /\ x.off[2] = i + 1
    BY <1>1, LogItem, LoggedNumbers
  <2>2. /\ x.n \in 1 .. Len(recordsAt(f, i + 1)) /\ x = recordsAt(f, i + 1)[x.n]
        /\ y.n \in 1 .. Len(recordsAt(f, i + 1)) /\ y = recordsAt(f, i + 1)[y.n]
    BY <2>1, LogItem
  <2>3. (x.kind = "begin" <=> BinLog[f][i].type = "begin") /\ (y.kind = "begin" <=> BinLog[f][i].type = "begin")
    <3> HIDE DEF f, i
    <3>1. \A n \in 1 .. Len(recordsAt(f, i + 1)) :
            recordsAt(f, i + 1)[n].kind = "begin" <=> BinLog[f][i].type = "begin"
      BY <2>1, EventItems
    <3> QED BY <2>2, <3>1
  <2> QED BY <2>3 DEF isRecord
<1> QED BY <1>1, <1>2, LoggedNumbers DEF upTo, before

\* The process is started again with the first k records.
LEMMA FlowRestart ==
    ASSUME NEW s \in Store, NEW p, NEW n, NEW id, NEW at, NEW more, NEW cut, NEW sure,
           Flows(s, p, n, id, at, more, cut, sure),
           NEW k \in 1 .. Len(s), NEW q, NEW go,
           NEW jd \in Nat, NEW still, still => sure /\ jd >= s[k].txn
    PROVE  Flows(SubSeq(s, 1, k), q, 0, jd, s[k].rec.off, go, TRUE, still)
<1> DEFINE t == SubSeq(s, 1, k)
           to == s[k].rec.off
           R == [rec : Rec, txn : Nat]
<1>1. /\ Len(s) \in Nat /\ Len(t) = k /\ \A i \in 1 .. k : t[i] = s[i] /\ i \in 1 .. Len(s)
      /\ \A i \in 1 .. Len(s) : s[i] \in R
  <2>1. s \in Seq(R)
    BY DEF Store
  <2> HIDE DEF R
  <2>2. Len(s) \in Nat /\ Len(t) = k /\ \A i \in 1 .. k : t[i] = s[i]
    BY <2>1
  <2>3. \A i \in 1 .. Len(s) : s[i] \in R
    BY ONLY <2>1, EventOf
  <2> QED BY <2>2, <2>3
<1>2. \A i \in 1 .. Len(s) : s[i].txn \in Nat
  BY <1>1
<1>3. /\ \A i \in 1 .. Len(s) : s[i].rec \in LogRecords /\ s[i].rec \in LogItems /\ s[i].rec \in Logged
      /\ \A i, j \in 1 .. Len(s) : i < j => before(s[i].rec, s[j].rec)
      /\ sure => OneBegin(s) /\ \A i, j \in 1 .. Len(s) : i < j => s[i].txn <= s[j].txn
      /\ \A i \in 1 .. Len(s), x \in LogRecords : before(x, s[i].rec) =>
           (\E j \in 1 .. Len(s) : x = s[j].rec) \/ Cut(x, s, i, cut)
  BY LogRecord DEF Flows, Sorted, Begun, Complete
<1>4. to[1] \in Nat /\ to[2] \in Nat /\ to = <<to[1], to[2]>> /\ to \in Nat \X Nat /\ upTo(s[k].rec, to)
  <2>1. to[1] \in Nat /\ to[2] \in Nat /\ to = <<to[1], to[2]>>
    BY <1>3, LoggedNumbers
  <2>2. to \in Nat \X Nat
    <3> HIDE DEF to
    <3>1. <<to[1], to[2]>> \in Nat \X Nat
      BY ONLY <2>1
    <3> QED BY ONLY <2>1, <3>1
  <2>3. upTo(s[k].rec, to)
    BY <2>1 DEF upTo
  <2> QED BY <2>1, <2>2, <2>3
<1> HIDE DEF t, to, R
<1>5. ASSUME NEW i \in 1 .. k PROVE upTo(s[i].rec, to)
  <2>1. CASE i = k
    BY <1>4, <2>1
  <2>2. CASE i < k
    <3>1. before(s[i].rec, s[k].rec) /\ s[i].rec \in Logged /\ s[k].rec \in Logged
      BY <1>1, <1>3, <2>2
    <3> QED BY ONLY <1>4, <3>1, UpToBefore
  <2> QED BY <2>1, <2>2
<1>6. Sorted(t, q, 0, to)
  BY <1>1, <1>3, <1>5 DEF Sorted
<1>7. ASSUME NEW i \in 1 .. k, NEW x \in LogRecords, before(x, s[i].rec)
      PROVE  (\E j \in 1 .. k : x = t[j].rec) \/ Cut(x, t, i, TRUE)
  <2>1. CASE Cut(x, s, i, cut)
    <3>1. PICK j \in 1 .. i : s[j].rec.off = x.off /\ before(s[j].rec, x)
      BY <2>1 DEF Cut
    <3>2. j \in 1 .. k
      OBVIOUS
    <3> QED BY <1>1, <3>1, <3>2 DEF Cut
  <2>2. ASSUME NEW j \in 1 .. Len(s), x = s[j].rec PROVE j \in 1 .. k
    <3> SUFFICES ASSUME j > k PROVE FALSE
      BY <1>1
    <3>1. i \in 1 .. Len(s) /\ i < j
      BY <1>1
    <3>2. before(s[i].rec, x) /\ s[i].rec \in Logged /\ x \in Logged
      BY <1>3, <2>2, <3>1
    <3> QED BY ONLY <1>7, <3>2, BeforeOrder
  <2>3. i \in 1 .. Len(s)
    BY <1>1
  <2>4. (\E j \in 1 .. Len(s) : x = s[j].rec) \/ Cut(x, s, i, cut)
    BY <1>3, <1>7, <2>3
  <2> QED BY <1>1, <2>1, <2>2, <2>4
<1>8. ASSUME NEW x \in LogRecords, Through(x, q, 0, to, go)
      PROVE  (\E j \in 1 .. k : x = t[j].rec) \/ Cut(x, t, k, TRUE)
  <2>1. upTo(x, to)
    BY <1>8 DEF Through
  <2>2. x \in LogItems /\ x \in Logged /\ k \in 1 .. k
    BY LogRecord
  <2>3. CASE before(x, s[k].rec)
    BY <1>7, <2>2, <2>3
  <2>4. CASE x = s[k].rec
    BY <1>1, <2>2, <2>4
  <2>5. CASE before(s[k].rec, x)
    <3>1. s[k].rec.off = x.off
      <4>1. s[k].rec \in Logged /\ s[k].rec.off = to
        BY <1>3 DEF to
      <4>2. to[1] = x.off[1] /\ to[2] = x.off[2]
        BY <1>4, <2>1, <2>2, <2>5, <4>1, BeforeOffs, LoggedNumbers DEF upTo
      <4> QED BY <1>4, <2>2, <4>1, <4>2, LoggedNumbers
    <3> QED BY <1>1, <2>2, <2>5, <3>1 DEF Cut
  <2> QED BY <1>3, <2>2, <2>3, <2>4, <2>5, BeforeTotal
<1>9. Complete(t, q, 0, to, go, TRUE)
  BY <1>1, <1>7, <1>8 DEF Complete
<1>10. ASSUME still, NEW i \in 1 .. k PROVE t[i].txn <= jd /\ (t[i].txn = jd => s[i].txn = s[k].txn)
  <2>1. i \in 1 .. Len(s) /\ t[i].txn = s[i].txn /\ s[i].txn \in Nat /\ s[k].txn \in Nat
    BY <1>1, <1>2
  <2>2. s[i].txn <= s[k].txn /\ jd >= s[k].txn
    BY <1>3, <1>10, <2>1
  <2> QED BY <2>1, <2>2
<1>11. ASSUME still, NEW x \in LogItems, x.kind = "begin", upTo(x, to), NEW i \in 1 .. k, t[i].txn = jd
       PROVE  before(x, t[i].rec)
  <2>1. s[k].rec \in LogItems /\ isRecord(s[k].rec) /\ s[k].rec.off = to
    BY <1>1, <1>3, LogRecord DEF to
  <2>2. before(x, s[k].rec)
    BY <1>4, <1>11, <2>1, BeginBefore
  <2>3. i \in 1 .. Len(s) /\ s[i].txn = s[k].txn /\ t[i] = s[i] /\ k \in 1 .. Len(s)
    BY <1>1, <1>10, <1>11
  <2> QED BY <1>3, <1>11, <2>2, <2>3 DEF OneBegin
<1>12. still => Begun(t, q, 0, jd, to, go)
  <2> SUFFICES ASSUME still PROVE Begun(t, q, 0, jd, to, go)
    OBVIOUS
  <2>1. \A i, j \in 1 .. k : i < j => t[i].txn <= t[j].txn
    BY <1>1, <1>3
  <2>2. \A x \in LogItems : Through(x, q, 0, to, go) => upTo(x, to)
    BY DEF Through
  <2>3. OneBegin(t)
    BY <1>1, <1>3 DEF OneBegin
  <2>4. \A i \in 1 .. k : t[i].txn <= jd
    BY <1>10
  <2>5. \A x \in LogItems : x.kind = "begin" /\ Through(x, q, 0, to, go) =>
          \A i \in 1 .. k : t[i].txn = jd => before(x, t[i].rec)
    BY <1>11, <2>2
  <2> QED BY <1>1, <2>1, <2>3, <2>4, <2>5 DEF Begun
<1> QED BY <1>6, <1>9, <1>12 DEF Flows, t, to

\* The begin of the transaction of a row comes before it, with no commit in between.
LEMMA RowBegin ==
    ASSUME NEW x \in LogItems, x.kind = "row"
    PROVE  \E b \in LogItems :
             /\ b.kind = "begin" /\ before(b, x) /\ b.off[1] = x.off[1]
             /\ \A j \in 1 .. Len(BinLog[x.off[1]]) :
                  b.off[2] - 1 <= j /\ j <= x.off[2] - 1 => BinLog[x.off[1]][j].type # "xid"
<1> DEFINE f == x.off[1]
           i == x.off[2] - 1
<1>1. /\ x \in Logged /\ f \in 1 .. Len(BinLog) /\ i \in 1 .. Len(BinLog[f])
      /\ BinLog[f][i].type = "rows" /\ x.off[2] = i + 1 /\ x.off[2] \in Nat /\ i \in Nat
  BY LogItem, LoggedNumbers
<1> HIDE DEF f, i
<1>2. Len(BinLog[f]) \in Nat /\ f \in DOMAIN BinLog /\ i \in DOMAIN BinLog[f]
  BY <1>1, LogShape
<1>3. PICK j \in 1 .. i - 1 : /\ BinLog[f][j].type = "begin"
                              /\ \A k \in j + 1 .. i - 1 : BinLog[f][k].type # "xid"
  BY <1>1, <1>2, BinLogAssumption
<1>4. j \in 1 .. Len(BinLog[f]) /\ j < i
  BY <1>1, <1>2
<1> DEFINE b == recordsAt(f, j + 1)[1]
<1>5. recordsAt(f, j + 1) = <<[kind |-> "begin", off |-> <<f, j + 1>>, n |-> 1]>>
  BY <1>1, <1>3, <1>4, EventItems
<1>6. 1 \in 1 .. Len(recordsAt(f, j + 1)) /\ b = [kind |-> "begin", off |-> <<f, j + 1>>, n |-> 1]
  BY <1>5
<1>7. b \in LogItems
  BY ONLY <1>1, <1>4, <1>6, AtItem
<1> HIDE DEF b
<1>8. b.kind = "begin" /\ b.off[1] = f /\ b.off[2] = j + 1
  BY <1>6
<1>9. before(b, x)
  BY <1>1, <1>4, <1>8 DEF before, f
<1>10. ASSUME NEW k \in 1 .. Len(BinLog[f]), b.off[2] - 1 <= k, k <= x.off[2] - 1
       PROVE  BinLog[f][k].type # "xid"
  <2>1. k = j \/ k = i \/ k \in j + 1 .. i - 1
    BY <1>1, <1>4, <1>8, <1>10
  <2> QED BY <1>1, <1>3, <2>1
<1> QED BY <1>7, <1>8, <1>9, <1>10 DEF f

\* The row that is given to the store belongs to the transaction that is open there.
LEMMA IndexWithin ==
    ASSUME NEW a \in Nat, NEW c \in Nat, NEW d \in Nat, NEW m \in Nat, a <= c, d - 1 <= m,
           NEW j \in 1 .. d - 1, j > c - 1
    PROVE  j \in 1 .. m /\ a - 1 <= j /\ j <= d - 1
  OBVIOUS

LEMMA SameTransaction ==
    ASSUME NEW s, NEW p, NEW n \in Nat, n >= 1, NEW id, NEW at, NEW more, NEW cut, NEW sure,
           Flows(s, p, n, id, at, more, cut, sure), sure, p[1].kind = "row",
           NEW i \in 1 .. Len(s), s[i].txn = id
    PROVE  transactionOf(s[i].rec.off) = transactionOf(p[1].off)
<1> DEFINE x == p[1]
           y == s[i].rec
<1>1. x \in LogItems /\ y \in LogItems /\ before(y, x) /\ x.kind = "row" /\ Sorted(s, p, n, at)
  <2>1. 1 \in 1 .. n
    OBVIOUS
  <2> QED BY <2>1, LogRecord DEF Flows, Sorted
<1>2. PICK b \in LogItems :
        /\ b.kind = "begin" /\ before(b, x) /\ b.off[1] = x.off[1]
        /\ \A j \in 1 .. Len(BinLog[x.off[1]]) :
             b.off[2] - 1 <= j /\ j <= x.off[2] - 1 => BinLog[x.off[1]][j].type # "xid"
  BY <1>1, RowBegin
<1>3. before(b, y)
  <2>1. 1 \in 1 .. n /\ \A e \in 1 .. n : e < 1 => b # p[e]
    OBVIOUS
  <2>2. Through(b, p, n, at, more)
    BY <1>1, <1>2, <2>1, BeforeFirst
  <2> QED BY <1>2, <2>2 DEF Flows, Begun
<1> DEFINE f == x.off[1]
<1>4. /\ b.off[2] \in Nat /\ y.off[2] \in Nat /\ x.off[2] \in Nat
      /\ b.off[1] \in Nat /\ y.off[1] \in Nat /\ x.off[1] \in Nat
      /\ b \in Logged /\ y \in Logged /\ x \in Logged
  BY <1>1, LogItem, LoggedNumbers
<1> HIDE DEF x, y
<1>5. y.off[1] = f /\ b.off[1] = f /\ b.off[2] <= y.off[2] /\ y.off[2] <= x.off[2]
  BY <1>1, <1>2, <1>3, <1>4, BeforeOffs
<1>6. Len(BinLog[f]) \in Nat /\ x.off[2] - 1 \in 1 .. Len(BinLog[f])
  BY <1>1, LogItem, LogShape
<1> DEFINE xids(off) == {j \in 1 .. off - 1 : BinLog[f][j].type = "xid"}
<1>7. xids(y.off[2]) = xids(x.off[2])
  <2>1. ASSUME NEW j \in 1 .. x.off[2] - 1, j > y.off[2] - 1 PROVE BinLog[f][j].type # "xid"
    <3>1. j \in 1 .. Len(BinLog[f]) /\ b.off[2] - 1 <= j /\ j <= x.off[2] - 1
      <4>1. /\ b.off[2] \in Nat /\ y.off[2] \in Nat /\ x.off[2] \in Nat
            /\ b.off[2] <= y.off[2] /\ Len(BinLog[f]) \in Nat
            /\ x.off[2] - 1 <= Len(BinLog[f])
        BY <1>4, <1>5, <1>6
      <4> HIDE DEF f
      <4>2. j \in 1 .. x.off[2] - 1 /\ j > y.off[2] - 1
        BY <2>1
      <4> QED BY ONLY <4>1, <4>2, IndexWithin
    <3> QED BY <1>2, <3>1
  <2>2. \A j \in 1 .. y.off[2] - 1 : j \in 1 .. x.off[2] - 1
    BY <1>4, <1>5
  <2>3. \A j \in 1 .. x.off[2] - 1 : j > y.off[2] - 1 \/ j \in 1 .. y.off[2] - 1
    BY <1>4
  <2> QED BY <2>1, <2>2, <2>3
<1>8. /\ transactionOf(y.off) = <<y.off[1], Cardinality(xids(y.off[2]))>>
      /\ transactionOf(x.off) = <<x.off[1], Cardinality(xids(x.off[2]))>>
  BY <1>5 DEF transactionOf
<1> HIDE DEF xids
<1>9. transactionOf(y.off) = transactionOf(x.off)
  BY <1>5, <1>7, <1>8
<1> QED BY <1>9 DEF x, y

-----------------------------------------------------------------------------
\* The arithmetic of arrayQueue (nextPos).
LEMMA NextIs ==
    ASSUME NEW i \in 0 .. Volumn - 1
    PROVE  next(i) = (IF i + 1 < Volumn THEN i + 1 ELSE 0) /\ next(i) = ahead(i, 1)
<1>1. Volumn \in Nat \ {0, 1} /\ i \in Nat
  BY SourceAssumption
<1>2. CASE i + 1 < Volumn
  BY <1>1, <1>2 DEF next, ahead
<1>3. CASE ~(i + 1 < Volumn)
  <2>1. i + 1 = Volumn
    BY <1>1, <1>3
  <2> QED BY <1>1, <2>1 DEF next, ahead
<1> QED BY <1>2, <1>3

LEMMA RingHeld ==
    ASSUME NEW h \in 0 .. Volumn - 1, NEW t \in 0 .. Volumn - 1
    PROVE  /\ distance(h, t) \in 0 .. Volumn - 1 /\ (distance(h, t) = 0 <=> h = t)
           /\ \A d \in 1 .. distance(h, t) : ahead(t, d) \in 0 .. Volumn - 1
<1>1. Volumn \in Nat \ {0, 1}
  BY SourceAssumption
<1> QED BY <1>1 DEF distance, ahead

LEMMA RingPush ==
    ASSUME NEW h \in 0 .. Volumn - 1, NEW t \in 0 .. Volumn - 1, next(h) # t
    PROVE  /\ distance(next(h), t) = distance(h, t) + 1
           /\ ahead(t, distance(h, t) + 1) = next(h)
           /\ \A d \in 1 .. distance(h, t) : ahead(t, d) # next(h)
<1>1. Volumn \in Nat \ {0, 1}
  BY SourceAssumption
<1>2. next(h) = IF h + 1 < Volumn THEN h + 1 ELSE 0
  BY NextIs
<1> QED BY <1>1, <1>2 DEF distance, ahead

LEMMA RingPop ==
    ASSUME NEW h \in 0 .. Volumn - 1, NEW t \in 0 .. Volumn - 1, h # t
    PROVE  /\ distance(h, next(t)) = distance(h, t) - 1
           /\ \A d \in 1 .. distance(h, t) - 1 : ahead(next(t), d) = ahead(t, d + 1)
           /\ next(h) # next(t)
<1>1. Volumn \in Nat \ {0, 1}
  BY SourceAssumption
<1>2. /\ next(t) = IF t + 1 < Volumn THEN t + 1 ELSE 0
      /\ next(h) = IF h + 1 < Volumn THEN h + 1 ELSE 0
  BY NextIs
<1> QED BY <1>1, <1>2 DEF distance, ahead

-----------------------------------------------------------------------------
\* What the threads know between their steps.
LEMMA QueueTypes ==
    ASSUME ItemsOK
    PROVE  /\ queue.head \in 0 .. Volumn - 1 /\ queue.tail \in 0 .. Volumn - 1
           /\ queue.cells \in [0 .. Volumn - 1 -> Item] /\ parsed \in Seq(Item)
           /\ queue = [cells |-> queue.cells, head |-> queue.head, tail |-> queue.tail]
  BY DEF ItemsOK

LEMMA HandsSame ==
    ASSUME HandsOK, UNCHANGED <<parsed, queue, async>>,
           threadPc' = threadPc \/ threadPc' \notin {"read", "parse", "pushed"},
           mainPc' = mainPc \/ mainPc' \notin {"popped", "parse"}, inHand' = inHand
    PROVE  HandsOK'
<1>1. AtParse' => AtParse
  BY DEF AtParse
<1> QED BY <1>1 DEF HandsOK

LEMMA HandsStep ==
    ASSUME ItemsOK, HandsOK, SourceNext
    PROVE  HandsOK'
<1>1. CASE \/ loseConnection \/ reconnect \/ dumpRefused \/ readNull \/ mainLoop \/ signal
           \/ handlerJoins \/ stopSource \/ readStopped \/ insertFails
  <2>1. /\ UNCHANGED <<parsed, queue, async, inHand>>
        /\ threadPc' = threadPc \/ threadPc' = "done"
        /\ mainPc' = mainPc \/ mainPc' \in {"died", "read", "stop", "stopped"}
    BY <1>1 DEF loseConnection, reconnect, dumpRefused, newConn, readNull, die, mainLoop, signal,
       insertFails, handlerJoins, stopSource, readStopped, fixed, storeSide
  <2> QED BY <2>1, HandsSame
<1>2. CASE giveUp \/ serverError \/ parseFails
  <2>1. /\ UNCHANGED <<parsed, queue, async, inHand>>
        /\ threadPc' = threadPc \/ threadPc' = "done"
        /\ mainPc' = mainPc \/ mainPc' \in {"loop", "stop"}
    BY <1>2 DEF giveUp, serverError, readBinlogFails, parseFails, step, fixed, storeSide
  <2> QED BY <2>1, HandsSame
<1>3. CASE readEvent
  <2>1. /\ UNCHANGED <<parsed, queue, async, inHand>> /\ parsed = <<>>
    BY <1>3 DEF readEvent, reading, HandsOK, fixed, storeSide
  <2>2. /\ threadPc' = threadPc \/ threadPc' = "parse"
        /\ mainPc' = mainPc \/ mainPc' = "parse"
    BY <1>3 DEF readEvent, step
  <2> QED BY <2>1, <2>2 DEF HandsOK
<1>4. CASE parse
  <2>1. /\ UNCHANGED <<queue, async, inHand>> /\ parsed = <<>>
    BY <1>4 DEF parse, AtParse, HandsOK, fixed, storeSide
  <2>2. /\ async => threadPc' \in {"push", "done"} /\ (mainPc' = mainPc \/ mainPc' = "died")
        /\ ~async => mainPc' \in {"read", "loop", "died"}
                     /\ (threadPc' = threadPc \/ threadPc' = "done")
    BY <1>4 DEF parse, step, die
  <2>3. ~AtParse' /\ ~(async' /\ threadPc' = "read")
    BY <2>1, <2>2 DEF AtParse
  <2>4. threadPc' # "pushed"
    BY <2>2 DEF ItemsOK, Pushed
  <2>5. mainPc' = "popped" => mainPc = "popped"
    BY <2>2
  <2> QED BY <2>1, <2>3, <2>4, <2>5 DEF HandsOK
<1>5. CASE readLoop
  <2>1. /\ UNCHANGED <<queue, async, inHand, mainPc>> /\ async /\ parsed' = <<>>
        /\ threadPc' \in {"read", "done"}
    BY <1>5 DEF readLoop, readLoopWhen, fixed, storeSide
  <2> QED BY <2>1 DEF HandsOK, AtParse
<1>6. CASE takeParsed
  <2>1. /\ UNCHANGED <<queue, async, inHand>> /\ ~async
        /\ mainPc' \in {"loop", "read", "died"} /\ threadPc' \in {threadPc, "done"}
    BY <1>6 DEF takeParsed, goOn, die, fixed
  <2>2. threadPc' # "pushed"
    BY <2>1 DEF ItemsOK, Pushed
  <2> QED BY <2>1, <2>2 DEF HandsOK, AtParse
<1>7. CASE pushCell
  <2>1. /\ UNCHANGED <<parsed, async, inHand, mainPc>> /\ async /\ threadPc' = "pushed"
        /\ next(queue.head) # queue.tail
        /\ queue' = [queue EXCEPT !.cells = [queue.cells EXCEPT ![next(queue.head)] = Head(parsed)]]
    BY <1>7 DEF pushCell, pushCellWhen, fixed, storeSide
  <2>2. next(queue.head) \in 0 .. Volumn - 1 /\ next(queue.tail) \in 0 .. Volumn - 1
    BY QueueTypes, NextInRing
  <2>3. /\ queue'.head = queue.head /\ queue'.tail = queue.tail
        /\ queue'.cells = [queue.cells EXCEPT ![next(queue.head)] = Head(parsed)]
    BY <2>1, QueueTypes
  <2>4. queue'.cells[next(queue.head)] = Head(parsed)
    BY <2>2, <2>3, QueueTypes
  <2>5. mainPc = "popped" => queue.head # queue.tail /\ inHand = queue'.cells[next(queue.tail)]
    <3> SUFFICES ASSUME mainPc = "popped"
                 PROVE  queue.head # queue.tail /\ inHand = queue'.cells[next(queue.tail)]
      OBVIOUS
    <3>1. queue.head # queue.tail /\ inHand = queue.cells[next(queue.tail)]
      BY DEF HandsOK
    <3>2. next(queue.head) # next(queue.tail)
      BY <3>1, QueueTypes, RingPop
    <3> QED BY <2>2, <2>3, <3>1, <3>2, QueueTypes
  <2> QED BY <2>1, <2>3, <2>4, <2>5 DEF HandsOK, AtParse
<1>8. CASE pushHead
  <2>1. /\ UNCHANGED <<async, inHand, mainPc>> /\ async /\ threadPc = "pushed" /\ threadPc' = "push"
        /\ queue' = [queue EXCEPT !.head = next(queue.head)]
    BY <1>8 DEF pushHead, fixed, storeSide
  <2>2. queue'.head = next(queue.head) /\ queue'.tail = queue.tail /\ queue'.cells = queue.cells
    BY <2>1, QueueTypes
  <2> QED BY <2>1, <2>2 DEF HandsOK, AtParse
<1>9. CASE popCell
  <2>1. /\ UNCHANGED <<parsed, queue, async, threadPc>> /\ async
        /\ \/ queue.head # queue.tail /\ inHand' = queue.cells[next(queue.tail)]
           \/ mainPc' = "loop"
    BY <1>9 DEF popCell, popCellWhen, fixed
  <2> QED BY <2>1 DEF HandsOK, AtParse
<1>10. CASE popTail
  <2>1. /\ UNCHANGED <<parsed, async>> /\ async /\ mainPc = "popped"
        /\ mainPc' \in {"loop", "read", "died"} /\ threadPc' \in {threadPc, "done"}
        /\ queue' = [queue EXCEPT !.tail = next(queue.tail)]
    BY <1>10 DEF popTail, goOn, die, fixed
  <2>2. queue'.head = queue.head /\ queue'.tail = next(queue.tail) /\ queue'.cells = queue.cells
    BY <2>1, QueueTypes
  <2>3. queue.head # queue.tail
    BY <2>1 DEF HandsOK
  <2>4. next(queue.head) # next(queue.tail)
    BY <2>3, QueueTypes, RingPop
  <2> QED BY <2>1, <2>2, <2>4 DEF HandsOK, AtParse
<1>11. CASE restart
  <2>1. /\ parsed' = <<>> /\ threadPc' \in {"read", "done"} /\ mainPc' = "loop"
        /\ queue' = [cells |-> [i \in 0 .. Volumn - 1 |-> NoItem], head |-> 0, tail |-> 0]
    BY <1>11 DEF restart, startAt
  <2>2. queue'.head = 0 /\ queue'.tail = 0
    BY <2>1
  <2> QED BY <2>1, <2>2 DEF HandsOK, AtParse
<1> QED BY <1>1, <1>2, <1>3, <1>4, <1>5, <1>6, <1>7, <1>8, <1>9, <1>10, <1>11
        DEF SourceNext, readerStep, mainStep

-----------------------------------------------------------------------------
\* The flow through the queue.
Ring == [cells : [0 .. Volumn - 1 -> Item], head : 0 .. Volumn - 1, tail : 0 .. Volumn - 1]

LEMMA FlowParts ==
    ASSUME NEW q \in Ring, NEW r \in Seq(Item)
    PROVE  /\ distance(q.head, q.tail) \in Nat /\ Len(r) \in Nat /\ lenOf(q, r) \in Nat
           /\ lenOf(q, r) = distance(q.head, q.tail) + Len(r)
           /\ \A d \in 1 .. lenOf(q, r) : flowOf(q, r)[d] =
                IF d <= distance(q.head, q.tail) THEN q.cells[ahead(q.tail, d)]
                ELSE r[d - distance(q.head, q.tail)]
<1>1. distance(q.head, q.tail) \in Nat
  <2>1. q.head \in 0 .. Volumn - 1 /\ q.tail \in 0 .. Volumn - 1
    BY DEF Ring
  <2>2. distance(q.head, q.tail) \in 0 .. Volumn - 1
    BY <2>1, RingHeld
  <2> QED BY <2>2, SourceAssumption
<1>2. Len(r) \in Nat
  OBVIOUS
<1>3. lenOf(q, r) = distance(q.head, q.tail) + Len(r)
  BY DEF lenOf
<1>4. lenOf(q, r) \in Nat
  BY ONLY <1>1, <1>2, <1>3
<1>5. \A d \in 1 .. lenOf(q, r) : flowOf(q, r)[d] =
        IF d <= distance(q.head, q.tail) THEN q.cells[ahead(q.tail, d)]
        ELSE r[d - distance(q.head, q.tail)]
  BY ONLY TRUE DEF flowOf
<1> QED BY ONLY <1>1, <1>2, <1>3, <1>4, <1>5

LEMMA FlowPushCell ==
    ASSUME NEW q \in Ring, NEW r \in Seq(Item), next(q.head) # q.tail, NEW u,
           u.head = q.head, u.tail = q.tail,
           \A i \in 0 .. Volumn - 1 : i # next(q.head) => u.cells[i] = q.cells[i]
    PROVE  /\ lenOf(u, r) = lenOf(q, r)
           /\ \A d \in 1 .. lenOf(q, r) : flowOf(u, r)[d] = flowOf(q, r)[d]
<1> DEFINE h == q.head
           t == q.tail
           c == u.cells
<1>1. h \in 0 .. Volumn - 1 /\ t \in 0 .. Volumn - 1 /\ u.head = h /\ u.tail = t /\ u.cells = c
  BY DEF Ring
<1>2. \A d \in 1 .. distance(h, t) : ahead(t, d) \in 0 .. Volumn - 1 /\ ahead(t, d) # next(h)
  <2>1. h \in 0 .. Volumn - 1 /\ t \in 0 .. Volumn - 1 /\ next(h) # t
    BY <1>1
  <2> HIDE DEF h, t
  <2>2. \A d \in 1 .. distance(h, t) : ahead(t, d) \in 0 .. Volumn - 1
    BY ONLY <2>1, RingHeld
  <2>3. \A d \in 1 .. distance(h, t) : ahead(t, d) # next(h)
    BY ONLY <2>1, RingPush
  <2> QED BY ONLY <2>2, <2>3
<1>3. \A d \in 1 .. distance(h, t) : c[ahead(t, d)] = q.cells[ahead(t, d)]
  BY <1>1, <1>2
<1>4. lenOf(u, r) = lenOf(q, r)
  BY <1>1 DEF lenOf
<1> HIDE DEF c, h, t
<1>5. ASSUME NEW d \in 1 .. lenOf(q, r) PROVE flowOf(u, r)[d] = flowOf(q, r)[d]
  <2>1. distance(h, t) \in Nat
    BY FlowParts DEF h, t
  <2>2. flowOf(q, r)[d] = IF d <= distance(h, t) THEN q.cells[ahead(t, d)] ELSE r[d - distance(h, t)]
    BY DEF flowOf, h, t
  <2>3. flowOf(u, r)[d] = IF d <= distance(h, t) THEN c[ahead(t, d)] ELSE r[d - distance(h, t)]
    <3>1. flowOf(u, r)[d] = IF d <= distance(u.head, u.tail) THEN u.cells[ahead(u.tail, d)]
                            ELSE r[d - distance(u.head, u.tail)]
      BY ONLY <1>4, d \in 1 .. lenOf(q, r) DEF flowOf
    <3> QED BY ONLY <1>1, <3>1
  <2>4. CASE d <= distance(h, t)
    <3>1. d \in 1 .. distance(h, t)
      BY <2>1, <2>4
    <3> QED BY <1>3, <2>2, <2>3, <2>4, <3>1
  <2>5. CASE ~(d <= distance(h, t))
    BY <2>2, <2>3, <2>5
  <2> QED BY <2>4, <2>5
<1> QED BY <1>4, <1>5

LEMMA FlowPushHead ==
    ASSUME NEW q \in Ring, NEW r \in Seq(Item), r # <<>>, next(q.head) # q.tail,
           q.cells[next(q.head)] = Head(r), NEW u, u = [q EXCEPT !.head = next(q.head)]
    PROVE  /\ lenOf(u, Tail(r)) = lenOf(q, r)
           /\ \A d \in 1 .. lenOf(q, r) : flowOf(u, Tail(r))[d] = flowOf(q, r)[d]
<1> DEFINE h == q.head
           t == q.tail
           D == distance(h, t)
<1>1. /\ h \in 0 .. Volumn - 1 /\ t \in 0 .. Volumn - 1
      /\ u.head = next(h) /\ u.tail = t /\ u.cells = q.cells
  BY DEF Ring
<1>2. distance(next(h), t) = D + 1 /\ ahead(t, D + 1) = next(h)
  BY <1>1, RingPush
<1>3. /\ Len(r) \in Nat /\ Len(Tail(r)) = Len(r) - 1 /\ Head(r) = r[1]
      /\ \A i \in 1 .. Len(r) - 1 : Tail(r)[i] = r[i + 1]
  OBVIOUS
<1>4. D \in Nat /\ lenOf(q, r) = D + Len(r) /\ lenOf(q, r) \in Nat
  BY FlowParts
<1> HIDE DEF h, t, D
<1>5. lenOf(u, Tail(r)) = lenOf(q, r)
  <2>1. lenOf(u, Tail(r)) = (D + 1) + Len(Tail(r))
    BY <1>1, <1>2 DEF lenOf
  <2> QED BY <1>3, <1>4, <2>1
<1>6. ASSUME NEW d \in 1 .. lenOf(q, r) PROVE flowOf(u, Tail(r))[d] = flowOf(q, r)[d]
  <2>1. flowOf(q, r)[d] = IF d <= D THEN q.cells[ahead(t, d)] ELSE r[d - D]
    BY DEF flowOf, h, t, D
  <2>2. flowOf(u, Tail(r))[d] = IF d <= D + 1 THEN q.cells[ahead(t, d)] ELSE Tail(r)[d - (D + 1)]
    <3>1. flowOf(u, Tail(r))[d] = IF d <= distance(u.head, u.tail) THEN u.cells[ahead(u.tail, d)]
                                  ELSE Tail(r)[d - distance(u.head, u.tail)]
      BY ONLY <1>5, d \in 1 .. lenOf(q, r) DEF flowOf
    <3> QED BY ONLY <1>1, <1>2, <3>1
  <2>3. CASE d <= D
    BY <1>4, <2>1, <2>2, <2>3
  <2>4. CASE d = D + 1
    <3>1. ~(d <= D) /\ d <= D + 1 /\ d - D = 1
      BY <1>4, <2>4
    <3>2. q.cells[next(h)] = r[1]
      BY <1>3 DEF h
    <3> QED BY <1>2, <2>1, <2>2, <2>4, <3>1, <3>2
  <2>5. CASE d > D + 1
    <3>1. ~(d <= D) /\ ~(d <= D + 1) /\ d - (D + 1) \in 1 .. Len(r) - 1 /\ (d - (D + 1)) + 1 = d - D
      BY <1>3, <1>4, <2>5
    <3>2. Tail(r)[d - (D + 1)] = r[d - D]
      BY <1>3, <3>1
    <3> QED BY <2>1, <2>2, <3>1, <3>2
  <2> QED BY <1>4, <2>3, <2>4, <2>5
<1> QED BY <1>5, <1>6

LEMMA FlowPop ==
    ASSUME NEW q \in Ring, NEW r \in Seq(Item), q.head # q.tail,
           NEW u, u = [q EXCEPT !.tail = next(q.tail)]
    PROVE  /\ lenOf(q, r) >= 1 /\ lenOf(u, r) = lenOf(q, r) - 1
           /\ flowOf(q, r)[1] = q.cells[next(q.tail)]
           /\ \A d \in 1 .. lenOf(q, r) - 1 : flowOf(u, r)[d] = flowOf(q, r)[d + 1]
<1> DEFINE h == q.head
           t == q.tail
           D == distance(h, t)
<1>1. /\ h \in 0 .. Volumn - 1 /\ t \in 0 .. Volumn - 1
      /\ u.head = h /\ u.tail = next(t) /\ u.cells = q.cells /\ h # t
  BY DEF Ring
<1>2. /\ distance(h, next(t)) = D - 1 /\ \A d \in 1 .. D - 1 : ahead(next(t), d) = ahead(t, d + 1)
  BY <1>1, RingPop
<1>3. D # 0 /\ ahead(t, 1) = next(t)
  BY <1>1, RingHeld, NextIs
<1>4. D \in Nat /\ Len(r) \in Nat /\ lenOf(q, r) = D + Len(r) /\ lenOf(q, r) \in Nat
  BY FlowParts
<1> HIDE DEF h, t, D
<1>5. lenOf(u, r) = lenOf(q, r) - 1 /\ lenOf(q, r) >= 1
  <2>1. lenOf(u, r) = (D - 1) + Len(r)
    BY <1>1, <1>2 DEF lenOf
  <2> QED BY <1>3, <1>4, <2>1
<1>6. \A d \in 1 .. lenOf(q, r) : flowOf(q, r)[d] = IF d <= D THEN q.cells[ahead(t, d)] ELSE r[d - D]
  BY DEF flowOf, h, t, D
<1>7. \A d \in 1 .. lenOf(q, r) - 1 :
        flowOf(u, r)[d] = IF d <= D - 1 THEN q.cells[ahead(next(t), d)] ELSE r[d - (D - 1)]
  <2> TAKE d \in 1 .. lenOf(q, r) - 1
  <2>1. flowOf(u, r)[d] = IF d <= distance(u.head, u.tail) THEN u.cells[ahead(u.tail, d)]
                          ELSE r[d - distance(u.head, u.tail)]
    BY ONLY <1>5, d \in 1 .. lenOf(q, r) - 1 DEF flowOf
  <2> QED BY ONLY <1>1, <1>2, <2>1
<1>8. flowOf(q, r)[1] = q.cells[next(t)]
  BY <1>3, <1>4, <1>5, <1>6
<1>9. ASSUME NEW d \in 1 .. lenOf(q, r) - 1 PROVE flowOf(u, r)[d] = flowOf(q, r)[d + 1]
  <2>1. d + 1 \in 1 .. lenOf(q, r)
    BY <1>4
  <2>2. CASE d <= D - 1
    <3>1. d \in 1 .. D - 1 /\ d + 1 <= D
      BY <1>4, <2>2
    <3> QED BY <1>2, <1>6, <1>7, <2>1, <2>2, <3>1
  <2>3. CASE ~(d <= D - 1)
    <3>1. ~(d + 1 <= D) /\ (d + 1) - D = d - (D - 1)
      BY <1>4, <2>3
    <3>2. flowOf(q, r)[d + 1] = r[(d + 1) - D]
      BY <1>6, <2>1, <3>1
    <3>3. flowOf(u, r)[d] = r[d - (D - 1)]
      BY <1>7, <2>3
    <3> QED BY <3>1, <3>2, <3>3
  <2> QED BY <2>2, <2>3
<1> QED BY <1>5, <1>8, <1>9 DEF t

LEMMA FlowTake ==
    ASSUME NEW q \in Ring, NEW r \in Seq(Item), q.head = q.tail, r # <<>>
    PROVE  /\ lenOf(q, r) >= 1 /\ lenOf(q, Tail(r)) = lenOf(q, r) - 1
           /\ flowOf(q, r)[1] = Head(r)
           /\ \A d \in 1 .. lenOf(q, r) - 1 : flowOf(q, Tail(r))[d] = flowOf(q, r)[d + 1]
<1> DEFINE D == distance(q.head, q.tail)
<1>1. q.head \in 0 .. Volumn - 1 /\ q.tail \in 0 .. Volumn - 1
  BY DEF Ring
<1>2. D = 0
  BY <1>1, RingHeld
<1>3. /\ Len(r) \in Nat /\ Len(Tail(r)) = Len(r) - 1 /\ Head(r) = r[1] /\ Len(r) >= 1
      /\ \A i \in 1 .. Len(r) - 1 : Tail(r)[i] = r[i + 1]
  OBVIOUS
<1>4. lenOf(q, r) = Len(r) /\ lenOf(q, Tail(r)) = Len(r) - 1
  BY <1>2, <1>3 DEF lenOf
<1>5. \A d \in 1 .. Len(r) : flowOf(q, r)[d] = r[d]
  <2> TAKE d \in 1 .. Len(r)
  <2>1. flowOf(q, r)[d] = IF d <= D THEN q.cells[ahead(q.tail, d)] ELSE r[d - D]
    BY <1>4 DEF flowOf
  <2> QED BY <1>2, <1>3, <2>1
<1>6. \A d \in 1 .. Len(r) - 1 : flowOf(q, Tail(r))[d] = Tail(r)[d]
  <2> TAKE d \in 1 .. Len(r) - 1
  <2>1. flowOf(q, Tail(r))[d] = IF d <= D THEN q.cells[ahead(q.tail, d)] ELSE Tail(r)[d - D]
    BY <1>4 DEF flowOf
  <2> QED BY <1>2, <1>3, <2>1
<1>7. \A d \in 1 .. Len(r) - 1 : flowOf(q, Tail(r))[d] = flowOf(q, r)[d + 1]
  <2> TAKE d \in 1 .. Len(r) - 1
  <2>1. d + 1 \in 1 .. Len(r)
    BY <1>3
  <2> QED BY <1>3, <1>5, <1>6, <2>1
<1>8. flowOf(q, r)[1] = Head(r)
  BY <1>3, <1>5
<1> QED BY <1>3, <1>4, <1>7, <1>8

\* Without parsed records the flow is what is in the queue, and it grows at its end.
LEMMA FlowEnd ==
    ASSUME NEW q \in Ring, NEW r \in Seq(Item)
    PROVE  /\ lenOf(q, <<>>) = distance(q.head, q.tail)
           /\ lenOf(q, <<>>) \in 0 .. lenOf(q, r) /\ lenOf(q, r) = lenOf(q, <<>>) + Len(r)
           /\ \A d \in 1 .. lenOf(q, <<>>) : flowOf(q, <<>>)[d] = flowOf(q, r)[d]
           /\ \A k \in 1 .. Len(r) : flowOf(q, r)[lenOf(q, <<>>) + k] = r[k]
<1> DEFINE D == distance(q.head, q.tail)
<1>1. D \in Nat /\ Len(r) \in Nat /\ lenOf(q, r) = D + Len(r)
  BY FlowParts
<1>2. lenOf(q, <<>>) = D
  BY <1>1 DEF lenOf
<1>3. \A d \in 1 .. D + Len(r) : flowOf(q, r)[d] = IF d <= D THEN q.cells[ahead(q.tail, d)] ELSE r[d - D]
  BY <1>1 DEF flowOf
<1>4. \A d \in 1 .. D : flowOf(q, <<>>)[d] = q.cells[ahead(q.tail, d)]
  BY <1>1, <1>2 DEF flowOf
<1> HIDE DEF D
<1>5. \A d \in 1 .. D : flowOf(q, <<>>)[d] = flowOf(q, r)[d]
  BY <1>1, <1>3, <1>4
<1>6. ASSUME NEW k \in 1 .. Len(r) PROVE flowOf(q, r)[D + k] = r[k]
  <2>1. D + k \in 1 .. D + Len(r) /\ ~(D + k <= D) /\ (D + k) - D = k
    BY <1>1
  <2> QED BY <1>3, <2>1
<1> QED BY <1>1, <1>2, <1>5, <1>6 DEF D

-----------------------------------------------------------------------------
\* The stream through the steps of the program.
restarted == restarts > 0
inOrder == ~loaded.back

FlowOK ==
    Flows(stored, flowOf(queue, parsed), lenOf(queue, parsed), txnId, parsedTo, alive, restarted, inOrder)

LEMMA FlowKeep ==
    ASSUME NEW s, NEW p, NEW n \in Nat, NEW id, NEW at, NEW more \in BOOLEAN, NEW cut, NEW sure,
           Flows(s, p, n, id, at, more, cut, sure),
           NEW q, \A d \in 1 .. n : q[d] = p[d], NEW go \in BOOLEAN, go => more,
           NEW to, \A x \in LogItems : upTo(x, to) <=> upTo(x, at)
    PROVE  Flows(s, q, n, id, to, go, cut, sure)
<1>1. n \in 0 .. n
  OBVIOUS
<1>2. CASE ~go
  <2>1. go = FALSE
    BY <1>2
  <2>2. Flows(s, q, n, id, to, FALSE, cut, sure)
    BY <1>1, FlowDrop
  <2> QED BY <2>1, <2>2
<1>3. CASE go
  <2>1. go = more
    BY <1>3
  <2>2. \A x : Through(x, q, n, at, more) <=> Through(x, p, n, at, more)
    BY DEF Through
  <2>3. /\ Sorted(s, q, n, at) /\ Complete(s, q, n, at, more, cut)
        /\ sure => Begun(s, q, n, id, at, more)
    BY <2>2 DEF Flows, Sorted, Complete, Begun
  <2>4. Flows(s, q, n, id, at, more, cut, sure)
    BY <2>3 DEF Flows
  <2> QED BY <2>1, <2>4, FlowAt
<1> QED BY <1>2, <1>3

LEMMA StreamTypes ==
    ASSUME ItemsOK
    PROVE  /\ queue \in Ring /\ parsed \in Seq(Item) /\ lenOf(queue, parsed) \in Nat
           /\ stored \in Store /\ txnId \in Nat /\ alive \in BOOLEAN
<1>1. queue \in Ring /\ parsed \in Seq(Item) /\ stored \in Store /\ txnId \in Nat
  BY DEF ItemsOK, Ring, Store
<1>2. alive \in BOOLEAN
  BY DEF alive
<1> QED BY <1>1, <1>2, FlowParts

\* Steps that leave the flow alone; the position may change if no item is in between.
LEMMA FlowSame ==
    ASSUME ItemsOK, FlowOK, UNCHANGED <<stored, txnId, restarts, loaded>>,
           lenOf(queue', parsed') = lenOf(queue, parsed),
           \A d \in 1 .. lenOf(queue, parsed) :
               flowOf(queue', parsed')[d] = flowOf(queue, parsed)[d],
           alive' => alive,
           \A x \in LogItems : upTo(x, parsedTo') <=> upTo(x, parsedTo)
    PROVE  FlowOK'
<1>1. lenOf(queue, parsed) \in Nat /\ alive \in BOOLEAN /\ alive' \in BOOLEAN
  BY StreamTypes DEF alive
<1>2. Flows(stored, flowOf(queue, parsed), lenOf(queue, parsed), txnId, parsedTo, alive, restarted, inOrder)
  BY DEF FlowOK
<1>3. Flows(stored, flowOf(queue', parsed'), lenOf(queue, parsed), txnId, parsedTo', alive', restarted, inOrder)
  BY <1>1, <1>2, FlowKeep
<1>4. restarted' = restarted /\ inOrder' = inOrder
  BY DEF restarted, inOrder
<1> QED BY <1>3, <1>4 DEF FlowOK

LEMMA FlowAlone ==
    ASSUME ItemsOK, FlowOK, UNCHANGED <<stored, txnId, restarts, loaded, queue, parsed>>,
           alive' => alive, UNCHANGED <<reader, evt>>
    PROVE  FlowOK'
<1>1. parsedTo' = parsedTo
  BY DEF parsedTo, Parsing
<1>2. lenOf(queue', parsed') = lenOf(queue, parsed) /\ flowOf(queue', parsed') = flowOf(queue, parsed)
  OBVIOUS
<1> QED BY <1>1, <1>2, FlowSame

LEMMA FlowOther ==
    ASSUME ItemsOK, FlowOK,
           \/ loseConnection \/ reconnect \/ dumpRefused \/ giveUp \/ serverError \/ readNull
           \/ mainLoop \/ insertFails \/ signal \/ handlerJoins \/ stopSource \/ readStopped
           \/ popCell
    PROVE  FlowOK'
<1>1. UNCHANGED <<stored, txnId, restarts, loaded, queue, parsed, reader, evt, async>>
  BY Zenon DEF loseConnection, reconnect, dumpRefused, giveUp, serverError, readBinlogFails,
     readNull, mainLoop, insertFails, signal, handlerJoins, stopSource, readStopped, popCell, popCellWhen, newConn, readSide, storeSide, fixed
<1>2. CASE loseConnection \/ reconnect \/ dumpRefused \/ signal \/ handlerJoins
  <2>1. UNCHANGED <<threadPc, mainPc>>
    BY <1>2 DEF loseConnection, reconnect, dumpRefused, signal, handlerJoins, newConn
  <2> QED BY <1>1, <2>1, FlowAlone DEF alive
<1>3. CASE mainLoop \/ insertFails \/ stopSource \/ popCell
  <2>1. /\ threadPc' = threadPc
        /\ mainPc \in {"loop", "read", "popped"} \/ mainPc' \in {"stop", "stopped", "died"}
    BY <1>3 DEF mainLoop, insertFails, stopSource, popCell, popCellWhen
  <2> QED BY <1>1, <2>1, FlowAlone DEF alive
<1>4. CASE readStopped
  <2>1. async /\ threadPc = "read" /\ threadPc' = "done"
    BY <1>4 DEF readStopped
  <2> QED BY <1>1, <2>1, FlowAlone DEF alive
<1>5. CASE giveUp \/ serverError \/ readNull
  <2>1. /\ IF async THEN threadPc = "read" ELSE mainPc = "read"
        /\ IF async THEN threadPc' = "done" ELSE mainPc' \in {"loop", "died"}
    BY <1>5 DEF giveUp, serverError, readBinlogFails, readNull, reading, step, die
  <2> QED BY <1>1, <2>1, FlowAlone DEF alive
<1> QED BY <1>2, <1>3, <1>4, <1>5

\* readEvent notes a position; whatever is before it and not before the old one is the
\* event at hand.
LEMMA FlowReadEvent ==
    ASSUME ItemsOK, ReadOK, FlowOK, readEvent
    PROVE  FlowOK'
<1>1. /\ ~Parsing /\ UNCHANGED <<stored, txnId, restarts, loaded, queue, parsed, async>>
      /\ reader.file \in 1 .. Len(BinLog) /\ reader.pos \in Nat \ {0}
  BY Received DEF readEvent, ReadOK, ReadTypes, fixed, storeSide
<1>2. alive
  BY DEF readEvent, reading, alive
<1>3. parsedTo = <<reader.file, reader.pos>>
  BY <1>1 DEF parsedTo
<1>4. CASE reader'.file = reader.file + 1 /\ reader'.pos = 1 /\ evt' = made("rotate", reader.file + 1)
  <2>1. parsedTo' = <<reader.file + 1, 1>>
    BY <1>4 DEF parsedTo, made
  <2>2. reader.pos > Len(BinLog[reader.file])
    <3>1. reader' = noted(reader, nextEvent(conn)) /\ conn.state = "up"
      BY DEF readEvent
    <3>2. conn.file = reader.file /\ conn.pos = reader.pos
      BY <3>1 DEF ReadOK, ConnOK
    <3>3. reader'.file # reader.file
      BY <1>1, <1>4
    <3>4. conn.due = <<>>
      BY <3>3, Received
    <3>5. endOfFile(conn)
      <4> SUFFICES ASSUME ~endOfFile(conn) PROVE FALSE
        OBVIOUS
      <4> DEFINE e == nextEvent(conn)
      <4>1. e.made = FALSE
        BY <3>4 DEF nextEvent
      <4> HIDE DEF e
      <4>2. reader \in [file : 1 .. Len(BinLog), pos : Nat \ {0}, rotates : Nat]
        BY DEF ReadOK, ReadTypes
      <4>3. noted(reader, e).file = reader.file
        BY <4>1, <4>2 DEF noted, again
      <4> QED BY <3>1, <3>3, <4>3 DEF e
    <3> QED BY <3>2, <3>5 DEF endOfFile
  <2>3. \A x \in LogItems : upTo(x, parsedTo') <=> upTo(x, parsedTo)
    BY <1>1, <1>3, <2>1, <2>2, NextFile
  <2> QED BY <1>1, <1>2, <2>3, FlowSame
<1>5. CASE reader'.file = reader.file /\ reader'.pos = reader.pos /\ (Parsing' => evt'.made)
  <2>1. parsedTo' = parsedTo
    BY <1>3, <1>5 DEF parsedTo
  <2> QED BY <1>1, <1>2, <2>1, FlowSame
<1>6. CASE reader'.file = reader.file /\ reader'.pos = reader.pos + 1 /\ Parsing' /\ ~evt'.made
  <2>1. parsedTo' = parsedTo
    BY <1>1, <1>3, <1>6 DEF parsedTo
  <2> QED BY <1>1, <1>2, <2>1, FlowSame
<1>7. \/ reader'.file = reader.file + 1 /\ reader'.pos = 1 /\ evt' = made("rotate", reader.file + 1)
      \/ reader'.file = reader.file /\ reader'.pos = reader.pos /\ (Parsing' => evt'.made)
      \/ reader'.file = reader.file /\ reader'.pos = reader.pos + 1 /\ Parsing' /\ ~evt'.made
  <2>1. UNCHANGED <<evt, threadPc, mainPc, async>> => ~Parsing'
    BY <1>1 DEF Parsing
  <2> QED BY <1>1, <2>1, Received DEF made, Arrived
<1> QED BY <1>4, <1>5, <1>6, <1>7

\* The parser: what the event becomes is on its way, unless the process dies of it or the
\* rows cannot be read.
LEMMA FlowParsed ==
    ASSUME ItemsOK, ReadOK, HandsOK, FlowOK, parse \/ parseFails
    PROVE  FlowOK'
<1>1. /\ Parsing /\ ~Parsing' /\ parsed = <<>> /\ alive /\ evt' = NoItem
      /\ UNCHANGED <<stored, txnId, restarts, loaded, queue, async, reader>>
  <2>1. AtParse /\ evt' = NoItem /\ UNCHANGED <<stored, txnId, restarts, loaded, queue, async, reader>>
    BY DEF parse, parseFails, AtParse, fixed, storeSide
  <2>2. Parsing
    BY <2>1 DEF ReadOK, EvtOK, AtHand
  <2> QED BY <2>1, <2>2 DEF HandsOK, alive, AtParse, Parsing
<1>2. /\ reader.file \in 1 .. Len(BinLog) /\ reader.pos \in Nat \ {0}
      /\ parsedTo' = <<reader.file, reader.pos>>
  BY <1>1 DEF ReadOK, ReadTypes, parsedTo
<1>3. CASE evt.made
  <2>1. parsedTo' = parsedTo
    BY <1>1, <1>2, <1>3 DEF parsedTo
  <2>2. parsed' = parsed
    BY <1>1, <1>3 DEF parse, parseFails
  <2> QED BY <1>1, <2>1, <2>2, FlowSame
<1>4. CASE ~evt.made
  <2> DEFINE f == reader.file
             i == reader.pos - 1
             r == recordsAt(f, i + 1)
  <2>1. i \in 1 .. Len(BinLog[f]) /\ i + 1 = reader.pos /\ evt.off = reader.pos /\ parser.file = f
    <3>1. i \in DOMAIN BinLog[f] /\ evt = lastEvent
      BY <1>1, <1>4 DEF ReadOK, EvtOK, made
    <3>2. i \in 1 .. Len(BinLog[f]) /\ i + 1 = reader.pos
      BY <1>2, <3>1, LogShape
    <3> QED BY <1>1, <1>4, <3>1, <3>2 DEF ReadOK, FileOK, lastEvent
  <2>2. parsedTo = <<f, i>> /\ parsedTo' = <<f, i + 1>> /\ f \in 1 .. Len(BinLog)
    BY <1>1, <1>2, <1>4, <2>1 DEF parsedTo
  <2>3. /\ Flows(stored, flowOf(queue, <<>>), lenOf(queue, <<>>), txnId, <<f, i>>, TRUE, restarted, inOrder)
        /\ queue \in Ring /\ lenOf(queue, <<>>) \in Nat
        /\ restarted' = restarted /\ inOrder' = inOrder
    <3>1. alive = TRUE /\ restarted' = restarted /\ inOrder' = inOrder
      BY <1>1, StreamTypes DEF restarted, inOrder
    <3> QED BY <1>1, <2>2, <3>1, StreamTypes DEF FlowOK
  <2>4. CASE parsed' = r /\ alive'
    <3>1. r \in Seq(Item)
      <4>1. r \in Seq(Logged)
        BY <2>1, <2>2, EventItems
      <4> QED BY <4>1 DEF Item
    <3>2. /\ lenOf(queue, r) = lenOf(queue, <<>>) + Len(r)
          /\ \A d \in 1 .. lenOf(queue, <<>>) : flowOf(queue, r)[d] = flowOf(queue, <<>>)[d]
          /\ \A k \in 1 .. Len(r) : flowOf(queue, r)[lenOf(queue, <<>>) + k] = r[k]
      BY <2>3, <3>1, FlowEnd
    <3> HIDE DEF f, i
    <3>3. Flows(stored, flowOf(queue, r), lenOf(queue, <<>>) + Len(r), txnId, <<f, i + 1>>, TRUE,
                restarted, inOrder)
      <4> DEFINE s == stored
                 n == lenOf(queue, <<>>)
                 p == flowOf(queue, <<>>)
                 q == flowOf(queue, r)
                 id == txnId
                 cut == restarted
                 sure == inOrder
      <4>1. /\ n \in Nat /\ f \in 1 .. Len(BinLog) /\ i \in 1 .. Len(BinLog[f])
            /\ Flows(s, p, n, id, <<f, i>>, TRUE, cut, sure)
            /\ \A d \in 1 .. n : q[d] = p[d]
            /\ \A k \in 1 .. Len(recordsAt(f, i + 1)) : q[n + k] = recordsAt(f, i + 1)[k]
        BY <2>1, <2>2, <2>3, <3>2
      <4> HIDE DEF s, n, p, q, id, cut, sure, r
      <4>2. Flows(s, q, n + Len(recordsAt(f, i + 1)), id, <<f, i + 1>>, TRUE, cut, sure)
        BY ONLY <4>1, FlowParse
      <4> QED BY <4>2 DEF s, n, q, id, cut, sure, r
    <3>4. alive' = TRUE
      BY <2>4 DEF alive
    <3> HIDE DEF r
    <3> QED BY <1>1, <2>2, <2>3, <2>4, <3>2, <3>3, <3>4 DEF FlowOK
  <2>5. CASE parsed' = parsed /\ ~alive'
    <3>1. \A x \in LogItems : upTo(x, <<f, i>>) => upTo(x, <<f, i + 1>>)
      <4> TAKE x \in LogItems
      <4>1. x.off[1] \in Nat /\ x.off[2] \in Nat /\ f \in Nat /\ i \in Nat
        BY <2>1, <2>2, LogItem, LoggedNumbers
      <4> QED BY <4>1 DEF upTo
    <3>2. lenOf(queue, <<>>) \in 0 .. lenOf(queue, <<>>)
      BY <2>3
    <3> HIDE DEF f, i
    <3>3. Flows(stored, flowOf(queue, <<>>), lenOf(queue, <<>>), txnId, <<f, i + 1>>, FALSE, restarted, inOrder)
      BY <2>3, <3>1, <3>2, FlowDrop
    <3>4. alive' = FALSE
      BY <2>5 DEF alive
    <3> QED BY <1>1, <2>2, <2>3, <2>5, <3>3, <3>4 DEF FlowOK
  <2>6. (parsed' = r /\ alive') \/ (parsed' = parsed /\ ~alive')
    <3>0. CASE parseFails
      <4>1. parsed' = parsed /\ step(IF async THEN "done" ELSE "stop")
        BY <3>0 DEF parseFails
      <4> QED BY <1>1, <4>1 DEF step, alive
    <3>1. CASE parse /\ evt.type = "rows" /\ parser.map # tableOf(evt)
      <4>1. parsed' = parsed /\ mainPc' = "died" /\ threadPc' = "done"
        BY <1>4, <3>1 DEF parse, die
      <4> QED BY <4>1 DEF alive
    <3>2. CASE parse /\ ~(evt.type = "rows" /\ parser.map # tableOf(evt))
      <4>1. parsed' = recordsAt(parser.file, evt.off) /\ step(IF async THEN "push" ELSE "read")
        BY <1>4, <3>2 DEF parse
      <4>2. alive'
        BY <1>1, <4>1 DEF step, alive
      <4> QED BY <2>1, <4>1, <4>2
    <3> QED BY <3>0, <3>1, <3>2
  <2> QED BY <2>4, <2>5, <2>6
<1> QED BY <1>3, <1>4

-----------------------------------------------------------------------------
\* The reading thread hands on what is parsed, or ends and drops it.
LEMMA FlowHandOn ==
    ASSUME ItemsOK, HandsOK, FlowOK, readLoop \/ pushCell \/ pushHead
    PROVE  FlowOK'
<1>1. /\ async /\ UNCHANGED <<stored, txnId, restarts, loaded, reader, evt, async, mainPc>>
      /\ threadPc \in {"push", "pushed"} /\ threadPc' \in {"read", "done", "push", "pushed"}
  BY Zenon DEF readLoop, readLoopWhen, pushCell, pushCellWhen, pushHead, fixed, storeSide, readSide
<1>2. parsedTo' = parsedTo
  BY <1>1 DEF parsedTo, Parsing
<1>3. alive
  BY <1>1 DEF alive
<1>4. queue \in Ring /\ parsed \in Seq(Item)
  BY StreamTypes
<1>5. CASE pushCell
  <2>1. /\ next(queue.head) # queue.tail /\ parsed' = parsed
        /\ queue' = [queue EXCEPT !.cells = [queue.cells EXCEPT ![next(queue.head)] = Head(parsed)]]
    BY <1>4, <1>5 DEF pushCell, pushCellWhen
  <2>2. /\ lenOf(queue', parsed) = lenOf(queue, parsed)
        /\ \A d \in 1 .. lenOf(queue, parsed) : flowOf(queue', parsed)[d] = flowOf(queue, parsed)[d]
    <3>1. PICK u : u = queue'
      OBVIOUS
    <3>2. /\ u.head = queue.head /\ u.tail = queue.tail
          /\ u.cells = [queue.cells EXCEPT ![next(queue.head)] = Head(parsed)]
      BY <1>4, <2>1, <3>1 DEF Ring
    <3>3. \A i \in 0 .. Volumn - 1 : i # next(queue.head) => u.cells[i] = queue.cells[i]
      BY <1>4, <3>2 DEF Ring
    <3>4. /\ lenOf(u, parsed) = lenOf(queue, parsed)
          /\ \A d \in 1 .. lenOf(queue, parsed) : flowOf(u, parsed)[d] = flowOf(queue, parsed)[d]
      <4> DEFINE q == queue
                 r == parsed
      <4>1. q \in Ring /\ r \in Seq(Item) /\ next(q.head) # q.tail
        BY <1>4, <2>1
      <4>2. /\ u.head = q.head /\ u.tail = q.tail
            /\ \A i \in 0 .. Volumn - 1 : i # next(q.head) => u.cells[i] = q.cells[i]
        BY <3>2, <3>3
      <4> HIDE DEF q, r
      <4>3. /\ lenOf(u, r) = lenOf(q, r)
            /\ \A d \in 1 .. lenOf(q, r) : flowOf(u, r)[d] = flowOf(q, r)[d]
        BY ONLY <4>1, <4>2, FlowPushCell
      <4> QED BY <4>3 DEF q, r
    <3> QED BY <3>1, <3>4
  <2> QED BY <1>1, <1>2, <1>3, <2>1, <2>2, FlowSame
<1>6. CASE pushHead
  <2>1. /\ threadPc = "pushed" /\ parsed' = Tail(parsed)
        /\ queue' = [queue EXCEPT !.head = next(queue.head)]
    BY <1>6 DEF pushHead
  <2>2. /\ parsed # <<>> /\ next(queue.head) # queue.tail
        /\ queue.cells[next(queue.head)] = Head(parsed)
    BY <2>1 DEF HandsOK, ItemsOK, Pushed
  <2>3. /\ lenOf(queue', Tail(parsed)) = lenOf(queue, parsed)
        /\ \A d \in 1 .. lenOf(queue, parsed) :
             flowOf(queue', Tail(parsed))[d] = flowOf(queue, parsed)[d]
    BY <1>4, <2>1, <2>2, FlowPushHead
  <2> QED BY <1>1, <1>2, <1>3, <2>1, <2>3, FlowSame
<1>7. CASE readLoop
  <2>1. /\ queue' = queue /\ parsed' = <<>>
        /\ parsed = <<>> \/ threadPc' = "done"
    BY <1>7 DEF readLoop, readLoopWhen
  <2>2. CASE parsed = <<>>
    BY <1>1, <1>2, <1>3, <2>1, <2>2, FlowSame
  <2>3. CASE threadPc' = "done"
    <3>1. alive' = FALSE /\ restarted' = restarted /\ inOrder' = inOrder
      BY <1>1, <2>3 DEF alive, restarted, inOrder
    <3>2. /\ lenOf(queue, <<>>) \in 0 .. lenOf(queue, parsed)
          /\ \A d \in 1 .. lenOf(queue, <<>>) : flowOf(queue, <<>>)[d] = flowOf(queue, parsed)[d]
      BY <1>4, FlowEnd
    <3>3. /\ Flows(stored, flowOf(queue, parsed), lenOf(queue, parsed), txnId, parsedTo, alive,
                   restarted, inOrder)
          /\ lenOf(queue, parsed) \in Nat
      BY StreamTypes DEF FlowOK
    <3>4. Flows(stored, flowOf(queue, <<>>), lenOf(queue, <<>>), txnId, parsedTo, FALSE, restarted, inOrder)
      BY <3>2, <3>3, FlowDrop
    <3> QED BY <1>1, <1>2, <2>1, <3>1, <3>4 DEF FlowOK
  <2> QED BY <2>1, <2>2, <2>3
<1> QED BY <1>5, <1>6, <1>7

\* The transaction ids of rows in a store.
Apart(s) ==
    \A i, j \in 1 .. Len(s) :
        s[i].rec.kind = "row" /\ s[j].rec.kind = "row" /\ s[i].txn = s[j].txn =>
            transactionOf(s[i].rec.off) = transactionOf(s[j].rec.off)

LEMMA GiveApart ==
    ASSUME NEW s \in Store, NEW p, NEW n \in Nat, n >= 1, NEW id \in Nat, NEW at, NEW more, NEW cut, NEW sure,
           Flows(s, p, n, id, at, more, cut, sure), sure, Apart(s),
           NEW t, NEW q, NEW jd, Given(s, p, n, id, t, q, jd)
    PROVE  Apart(t)
<1>1. CASE ~isRecord(p[1])
  <2>1. t = s
    BY <1>1 DEF Given
  <2> QED BY <2>1
<1>2. CASE isRecord(p[1])
  <2> DEFINE R == [rec : Rec, txn : Nat]
             e == [rec |-> p[1], txn |-> id]
  <2>1. t = Append(s, e) /\ s \in Seq(R)
    BY <1>2 DEF Given, Store
  <2> HIDE DEF R, e
  <2>2. /\ Len(t) = Len(s) + 1 /\ Len(s) \in Nat /\ t[Len(s) + 1] = e
        /\ \A i \in 1 .. Len(s) : t[i] = s[i]
    BY <2>1
  <2>3. e.rec = p[1] /\ e.txn = id
    BY DEF e
  <2>4. ASSUME NEW i \in 1 .. Len(s), p[1].kind = "row", s[i].txn = id
        PROVE  transactionOf(s[i].rec.off) = transactionOf(p[1].off)
    BY <2>4, SameTransaction
  <2>5. SUFFICES ASSUME NEW i \in 1 .. Len(t), NEW j \in 1 .. Len(t),
                        t[i].rec.kind = "row", t[j].rec.kind = "row", t[i].txn = t[j].txn
                 PROVE  transactionOf(t[i].rec.off) = transactionOf(t[j].rec.off)
    BY DEF Apart
  <2>6. CASE i \in 1 .. Len(s) /\ j \in 1 .. Len(s)
    BY <2>2, <2>5, <2>6 DEF Apart
  <2>7. CASE i \in 1 .. Len(s) /\ j = Len(s) + 1
    <3>1. t[j] = e /\ t[i] = s[i]
      BY <2>2, <2>7
    <3>2. transactionOf(s[i].rec.off) = transactionOf(p[1].off)
      BY <2>3, <2>4, <2>5, <2>7, <3>1
    <3> QED BY <2>3, <3>1, <3>2
  <2>8. CASE i = Len(s) + 1 /\ j \in 1 .. Len(s)
    <3>1. t[i] = e /\ t[j] = s[j]
      BY <2>2, <2>8
    <3>2. transactionOf(s[j].rec.off) = transactionOf(p[1].off)
      BY <2>3, <2>4, <2>5, <2>8, <3>1
    <3> QED BY <2>3, <3>1, <3>2
  <2>9. CASE i = Len(s) + 1 /\ j = Len(s) + 1
    <3>1. i = j
      BY <2>9
    <3> QED BY <3>1
  <2> QED BY <2>2, <2>6, <2>7, <2>8, <2>9
<1> QED BY <1>1, <1>2

\* The main thread gives the first item of the flow to the store.
LEMMA FlowGiven ==
    ASSUME ItemsOK, HandsOK, FlowOK, TransactionsApart, popTail \/ takeParsed
    PROVE  FlowOK' /\ TransactionsApart'
<1> DEFINE p == flowOf(queue, parsed)
           n == lenOf(queue, parsed)
           q == flowOf(queue', parsed')
<1>1. queue \in Ring /\ parsed \in Seq(Item) /\ n \in Nat /\ stored \in Store /\ txnId \in Nat
  BY StreamTypes
<1>2. /\ UNCHANGED <<restarts, loaded, reader, evt, async>> /\ threadPc' \in {threadPc, "done"}
      /\ mainPc \in {"popped", "read"} /\ mainPc' \in {"loop", "read", "died"}
  <2>1. CASE popTail
    BY <2>1 DEF popTail, give, giveAs, goOn, die, fixed, readSide
  <2>2. CASE takeParsed
    BY <2>2 DEF takeParsed, give, giveAs, goOn, die, fixed, readSide
  <2> QED BY <2>1, <2>2
<1>3. /\ parsedTo' = parsedTo /\ alive \in BOOLEAN /\ alive' \in BOOLEAN /\ (alive' => alive)
      /\ restarted' = restarted /\ inOrder' = inOrder
  BY <1>2 DEF parsedTo, Parsing, alive, restarted, inOrder
<1>4. /\ n >= 1 /\ lenOf(queue', parsed') = n - 1 /\ give(p[1])
      /\ \A d \in 1 .. n - 1 : q[d] = p[d + 1]
  <2>1. CASE popTail
    <3>1. /\ queue' = [queue EXCEPT !.tail = next(queue.tail)] /\ parsed' = parsed
          /\ give(inHand) /\ mainPc = "popped"
      BY <2>1 DEF popTail
    <3>2. queue.head # queue.tail /\ inHand = queue.cells[next(queue.tail)]
      BY <3>1 DEF HandsOK
    <3>3. /\ n >= 1 /\ lenOf(queue', parsed) = n - 1 /\ p[1] = queue.cells[next(queue.tail)]
          /\ \A d \in 1 .. n - 1 : flowOf(queue', parsed)[d] = p[d + 1]
      BY <1>1, <3>1, <3>2, FlowPop
    <3>4. give(p[1])
      BY <3>1, <3>2, <3>3
    <3> QED BY <3>1, <3>3, <3>4
  <2>2. CASE takeParsed
    <3>1. /\ queue' = queue /\ parsed' = Tail(parsed) /\ parsed # <<>>
          /\ give(Head(parsed)) /\ ~async
      BY <2>2 DEF takeParsed
    <3>2. queue.head = queue.tail
      BY <3>1 DEF HandsOK
    <3>3. /\ n >= 1 /\ lenOf(queue, Tail(parsed)) = n - 1 /\ p[1] = Head(parsed)
          /\ \A d \in 1 .. n - 1 : flowOf(queue, Tail(parsed))[d] = p[d + 1]
      BY <1>1, <3>1, <3>2, FlowTake
    <3>4. give(p[1])
      BY <3>1, <3>3
    <3> QED BY <3>1, <3>3, <3>4
  <2> QED BY <2>1, <2>2
<1>5. Flows(stored, p, n, txnId, parsedTo, alive, restarted, inOrder)
  BY DEF FlowOK
<1> HIDE DEF p, n, q
<1>6. Given(stored, p, n, txnId, stored', q, txnId')
  BY <1>4 DEF give, giveAs, Given
<1>7. Flows(stored', q, n - 1, txnId', parsedTo, alive, restarted, inOrder)
  BY <1>1, <1>4, <1>5, <1>6, FlowGive
<1>8. inOrder => Apart(stored)
  BY DEF Apart, TransactionsApart, inOrder
<1>9. inOrder => Apart(stored')
  BY <1>1, <1>4, <1>5, <1>6, <1>8, GiveApart
<1>10. Flows(stored', q, n - 1, txnId', parsedTo, alive', restarted, inOrder)
  <2>1. n - 1 \in Nat
    BY <1>1, <1>4
  <2> QED BY <1>3, <1>7, <2>1, FlowKeep
<1>11. FlowOK'
  BY <1>3, <1>4, <1>10 DEF FlowOK, q
<1>12. TransactionsApart'
  BY <1>2, <1>9 DEF Apart, TransactionsApart, inOrder
<1> QED BY <1>11, <1>12

\* A restart keeps the beginning of the store and reads on behind its last record.
LEMMA FlowRestarted ==
    ASSUME ItemsOK, ReadOK, FlowOK, TransactionsApart, restart
    PROVE  FlowOK' /\ TransactionsApart'
<1>0. PICK k \in 1 .. Len(stored) : \E max \in maxTxnIds(k) :
        startAt(stored[k].rec.off, async) /\ load(k, max)
  BY DEF restart
<1>1. PICK max \in maxTxnIds(k) :
        /\ startAt(stored[k].rec.off, async)
        /\ stored' = SubSeq(stored, 1, k) /\ txnId' = max + 1
        /\ loaded' = [count |-> k, max |-> max, back |-> loaded.back \/ max + 1 < stored[k].txn]
  BY <1>0 DEF load
<1> DEFINE at == stored[k].rec.off
           R == [rec : Rec, txn : Nat]
<1>2. stored \in Store /\ stored \in Seq(R)
  BY StreamTypes DEF Store
<1>3. at \in Nat \X Nat
  <2> HIDE DEF R
  <2>1. stored[k] \in R
    BY <1>2
  <2> QED BY <2>1 DEF R, Rec, Place
<1> HIDE DEF R
<1>4. /\ reader' = [file |-> at[1], pos |-> at[2], rotates |-> 0]
      /\ parsed' = <<>> /\ async' = async /\ evt' = NoItem
      /\ queue' = [cells |-> [i \in 0 .. Volumn - 1 |-> NoItem], head |-> 0, tail |-> 0]
      /\ threadPc' = IF async THEN "read" ELSE "done"
      /\ mainPc' = "loop" /\ restarts' = restarts + 1
  BY <1>1 DEF startAt, restart
<1>5. ~Parsing' /\ alive' = TRUE
  BY <1>4 DEF Parsing, alive
<1>6. parsedTo' = <<at[1], at[2]>>
  BY <1>4, <1>5 DEF parsedTo
<1>7. parsedTo' = at
  BY <1>3, <1>6
<1>8. restarted' = TRUE
  BY <1>4 DEF restarted, ReadOK, ReadTypes
<1>9. lenOf(queue', parsed') = 0
  BY <1>4 DEF lenOf, distance
<1>10. Flows(stored, flowOf(queue, parsed), lenOf(queue, parsed), txnId, parsedTo, alive, restarted, inOrder)
  BY DEF FlowOK
<1>11. PICK q : q = flowOf(queue', parsed')
  OBVIOUS
<1>12. /\ max + 1 \in Nat /\ inOrder' \in BOOLEAN
       /\ inOrder' => inOrder /\ max + 1 >= stored[k].txn
  <2>1. max \in Nat
    BY LoadedMax DEF ItemsOK
  <2>2. stored[k].txn \in Nat
    <3>1. stored[k] \in R
      BY ONLY <1>2, k \in 1 .. Len(stored), EventOf
    <3> QED BY <3>1 DEF R
  <2>4. loaded'.back = (loaded.back \/ max + 1 < stored[k].txn)
    BY <1>1
  <2>5. max + 1 < stored[k].txn \/ max + 1 >= stored[k].txn
    BY <2>1, <2>2
  <2>6. max + 1 \in Nat
    BY <2>1
  <2> QED BY <2>4, <2>5, <2>6, Zenon DEF inOrder
<1>13. Flows(SubSeq(stored, 1, k), q, 0, max + 1, at, TRUE, TRUE, inOrder')
  BY <1>2, <1>10, <1>12, FlowRestart
<1>14. FlowOK'
  BY <1>1, <1>5, <1>7, <1>8, <1>9, <1>11, <1>13 DEF FlowOK
<1>15. TransactionsApart'
  <2>1. Len(stored') = k /\ \A i \in 1 .. k : stored'[i] = stored[i] /\ i \in 1 .. Len(stored)
    BY <1>1, <1>2
  <2> QED BY <1>12, <2>1 DEF TransactionsApart, inOrder
<1> QED BY <1>14, <1>15

\* Only the main thread and a restart change the store.
LEMMA ApartKept ==
    ASSUME TransactionsApart, UNCHANGED <<stored, loaded>>
    PROVE  TransactionsApart'
  BY DEF TransactionsApart

FlowInv == SourceInv /\ HandsOK /\ FlowOK /\ TransactionsApart

LEMMA FlowInvInit == SourceInit => FlowInv
<1> SUFFICES ASSUME SourceInit PROVE FlowInv
  OBVIOUS
<1>1. SourceInv
  BY SourceInvInit
<1>2. /\ parsed = <<>> /\ stored = <<>> /\ txnId = 1 /\ mainPc = "loop" /\ restarts = 0
      /\ queue = [cells |-> [i \in 0 .. Volumn - 1 |-> NoItem], head |-> 0, tail |-> 0]
      /\ reader = [file |-> 1, pos |-> 1, rotates |-> 0] /\ evt = NoItem
      /\ threadPc \in {"read", "done"}
  BY DEF SourceInit, FirstPos
<1>3. HandsOK
  BY <1>2 DEF HandsOK
<1>4. /\ lenOf(queue, parsed) = 0 /\ Len(stored) = 0
      /\ parsedTo = <<1, 1>>
  BY <1>2 DEF lenOf, distance, parsedTo, Parsing
<1>5. ASSUME NEW x \in LogItems PROVE ~upTo(x, <<1, 1>>)
  <2>1. /\ x.off[1] \in Nat /\ x.off[1] >= 1 /\ x.off[2] \in Nat /\ x.off[2] >= 2
    <3>1. /\ x \in Logged /\ x.off[1] \in 1 .. Len(BinLog)
          /\ x.off[2] - 1 \in 1 .. Len(BinLog[x.off[1]])
      BY LogItem
    <3>2. Len(BinLog) \in Nat /\ Len(BinLog[x.off[1]]) \in Nat
      BY <3>1, LogShape
    <3>3. x.off[1] \in Nat /\ x.off[2] \in Nat
      BY <3>1, LoggedNumbers
    <3> QED BY <3>1, <3>2, <3>3
  <2> QED BY <2>1 DEF upTo
<1>6. FlowOK
  <2> DEFINE p == flowOf(queue, parsed)
  <2>1. \A x \in LogItems : ~Through(x, p, 0, <<1, 1>>, alive)
    BY <1>5 DEF Through
  <2>2. LogRecords \subseteq LogItems
    BY DEF LogRecords
  <2> HIDE DEF p
  <2>3. Sorted(stored, p, 0, <<1, 1>>)
    BY <1>4 DEF Sorted
  <2>4. Complete(stored, p, 0, <<1, 1>>, alive, restarted)
    BY <1>4, <2>1, <2>2 DEF Complete
  <2>5. Begun(stored, p, 0, txnId, <<1, 1>>, alive)
    BY <1>4, <2>1 DEF Begun, OneBegin
  <2> QED BY <1>4, <2>3, <2>4, <2>5 DEF FlowOK, Flows, p
<1>7. TransactionsApart
  BY <1>4 DEF TransactionsApart
<1> QED BY <1>1, <1>3, <1>6, <1>7 DEF FlowInv

LEMMA FlowInvStep == FlowInv /\ [SourceNext]_sourceVars => FlowInv'
<1> SUFFICES ASSUME FlowInv, [SourceNext]_sourceVars PROVE FlowInv'
  OBVIOUS
<1>1. ItemsOK /\ ReadOK /\ HandsOK /\ FlowOK /\ TransactionsApart /\ SourceInv
  BY DEF FlowInv, SourceInv
<1>2. SourceInv'
  BY <1>1, SourceInvStep
<1>3. CASE SourceNext
  <2>1. HandsOK'
    BY <1>1, <1>3, HandsStep
  <2>2. FlowOK' /\ TransactionsApart'
    <3>1. CASE popTail \/ takeParsed
      BY <1>1, <3>1, FlowGiven
    <3>2. CASE restart
      BY <1>1, <3>2, FlowRestarted
    <3>3. CASE readEvent \/ parse \/ parseFails \/ readLoop \/ pushCell \/ pushHead
      <4>1. FlowOK'
        BY <1>1, <3>3, FlowReadEvent, FlowParsed, FlowHandOn
      <4>2. UNCHANGED <<stored, loaded>>
        BY <3>3 DEF readEvent, parse, parseFails, readLoop, readLoopWhen, pushCell, pushCellWhen,
                    pushHead, storeSide
      <4> QED BY <1>1, <4>1, <4>2, ApartKept
    <3>4. CASE \/ loseConnection \/ reconnect \/ dumpRefused \/ giveUp \/ serverError \/ readNull
               \/ mainLoop \/ insertFails \/ signal \/ handlerJoins \/ stopSource \/ readStopped
               \/ popCell
      <4>1. FlowOK'
        BY <1>1, <3>4, FlowOther
      <4>2. UNCHANGED <<stored, loaded>>
        BY <3>4, Zenon DEF loseConnection, reconnect, dumpRefused, giveUp, serverError,
           readBinlogFails, readNull, mainLoop, insertFails, signal, handlerJoins, stopSource, readStopped, popCell, popCellWhen, newConn, storeSide
      <4> QED BY <1>1, <4>1, <4>2, ApartKept
    <3> QED BY <1>3, <3>1, <3>2, <3>3, <3>4 DEF SourceNext, readerStep, mainStep
  <2> QED BY <1>2, <2>1, <2>2 DEF FlowInv
<1>4. CASE UNCHANGED sourceVars
  <2>1. UNCHANGED <<stored, txnId, restarts, loaded, queue, parsed, reader, evt, async, threadPc,
                    mainPc, inHand>>
    BY <1>4 DEF sourceVars, readSide, storeSide, fixed
  <2>2. HandsOK'
    BY <1>1, <2>1, HandsSame
  <2>3. FlowOK'
    BY <1>1, <2>1, FlowAlone DEF alive
  <2> QED BY <1>1, <1>2, <2>1, <2>2, <2>3, ApartKept DEF FlowInv
<1> QED BY <1>3, <1>4

\* What the store has got so far follows the log.
LEMMA FlowFollows == FlowInv => StoredFollowsLog
<1> SUFFICES ASSUME FlowInv, NEW i \in 1 .. Len(stored)
             PROVE  /\ stored[i].rec \in LogRecords
                    /\ i > 1 => before(stored[i - 1].rec, stored[i].rec)
                    /\ \A r \in LogRecords :
                         before(r, stored[i].rec) /\ (i > 1 => before(stored[i - 1].rec, r)) =>
                             restarts > 0 /\ i > 1 /\ r.off = stored[i - 1].rec.off
  BY DEF StoredFollowsLog
<1> DEFINE s == stored
<1>1. Len(s) \in Nat
  <2> DEFINE R == [rec : Rec, txn : Nat]
  <2>1. s \in Seq(R)
    BY DEF FlowInv, SourceInv, ItemsOK
  <2> HIDE DEF R, s
  <2> QED BY <2>1
<1> HIDE DEF s
<1>2. /\ \A a \in 1 .. Len(s) : s[a].rec \in LogRecords
      /\ \A a, b \in 1 .. Len(s) : a < b => before(s[a].rec, s[b].rec)
      /\ \A k \in 1 .. Len(s), x \in LogRecords : before(x, s[k].rec) =>
           (\E a \in 1 .. Len(s) : x = s[a].rec) \/ Cut(x, s, k, restarted)
  BY DEF FlowInv, FlowOK, Flows, Sorted, Complete, s
<1>3. \A a \in 1 .. Len(s) : s[a].rec \in Logged
  BY <1>2, LogRecord
<1>4. i > 1 => before(s[i - 1].rec, s[i].rec)
  BY <1>1, <1>2 DEF s
<1>5. ASSUME NEW r \in LogRecords, before(r, s[i].rec), i > 1 => before(s[i - 1].rec, r)
      PROVE  restarts > 0 /\ i > 1 /\ r.off = s[i - 1].rec.off
  <2>1. r \in Logged /\ i \in 1 .. Len(s) /\ i \in Nat
    BY LogRecord DEF s
  <2>2. ~ \E a \in 1 .. Len(s) : r = s[a].rec
    <3> SUFFICES ASSUME NEW a \in 1 .. Len(s), r = s[a].rec PROVE FALSE
      OBVIOUS
    <3>1. s[i].rec \in Logged /\ ~before(r, r)
      BY <1>3, <2>1, BeforeOrder
    <3>2. CASE a = i
      BY <1>5, <3>1, <3>2
    <3>3. CASE a > i
      <4>1. before(s[i].rec, r)
        BY <1>2, <2>1, <3>3
      <4> QED BY ONLY <1>5, <2>1, <3>1, <4>1, BeforeOrder
    <3>4. CASE a < i
      <4>1. i - 1 \in 1 .. Len(s) /\ i > 1
        BY <1>1, <2>1, <3>4
      <4>2. before(s[i - 1].rec, r) /\ s[i - 1].rec \in Logged
        BY <1>3, <1>5, <4>1
      <4>3. CASE a = i - 1
        BY <3>1, <4>2, <4>3
      <4>4. CASE a < i - 1
        <5>1. before(r, s[i - 1].rec)
          BY <1>2, <4>1, <4>4
        <5> QED BY ONLY <2>1, <3>1, <4>2, <5>1, BeforeOrder
      <4> QED BY <2>1, <3>4, <4>3, <4>4
    <3> QED BY <2>1, <3>2, <3>3, <3>4
  <2>3. Cut(r, s, i, restarted)
    BY <1>2, <1>5, <2>1, <2>2
  <2>4. PICK a \in 1 .. i : s[a].rec.off = r.off /\ before(s[a].rec, r)
    BY <2>3 DEF Cut
  <2>5. restarts > 0
    BY <2>3 DEF Cut, restarted
  <2>6. a \in 1 .. Len(s) /\ s[a].rec \in Logged /\ s[i].rec \in Logged
    BY <1>1, <1>3, <2>1
  <2>7. a # i
    BY ONLY <1>5, <2>1, <2>4, <2>6, BeforeOrder
  <2>8. i > 1 /\ i - 1 \in 1 .. Len(s) /\ a <= i - 1
    BY <1>1, <2>1, <2>6, <2>7
  <2>9. CASE a = i - 1
    BY <2>4, <2>5, <2>8, <2>9
  <2>10. CASE a < i - 1
    <3>1. before(s[a].rec, s[i - 1].rec) /\ before(s[i - 1].rec, r) /\ s[i - 1].rec \in Logged
      BY <1>2, <1>3, <1>5, <2>6, <2>8, <2>10
    <3>2. s[i - 1].rec.off = s[a].rec.off
      BY ONLY <2>1, <2>4, <2>6, <3>1, BetweenOne
    <3> QED BY <2>4, <2>5, <2>8, <3>2
  <2> QED BY <2>6, <2>8, <2>9, <2>10
<1>6. s[i].rec \in LogRecords
  BY <1>2 DEF s
<1> QED BY <1>4, <1>5, <1>6 DEF s

\* For every log and every size of the queue, however often the connection is lost and
\* wherever the process is started again: the store gets the records of the log once, in the
\* order of the log, and misses none but the rest of an event that a restart cut in two
\* (readBinlog, connectAndDumpBinlog, readThread, arrayQueue, start).
THEOREM FollowsTheorem == SourceSpec => []StoredFollowsLog
  BY FlowInvInit, FlowInvStep, FlowFollows, PTL DEF SourceSpec

\* For every log and every size of the queue: rows of different transactions of the server
\* never get one transaction id in the store, as long as no load() has taken the id back
\* below that of the last record (asyncRead, database::begin, database::insert, database::load).
THEOREM ApartTheorem == SourceSpec => []TransactionsApart
<1>1. FlowInv => TransactionsApart
  BY DEF FlowInv
<1> QED BY <1>1, FlowInvInit, FlowInvStep, PTL DEF SourceSpec

-----------------------------------------------------------------------------
(* The table definitions                                                   *)
\* A set of numbers below a bound that is not empty has a greatest one.
LEMMA GreatestOf ==
    ASSUME NEW L \in Nat, NEW S, S \subseteq 1 .. L, S # {}
    PROVE  \E i \in S : \A k \in S : k <= i
<1> DEFINE T == {L - x : x \in S}
<1>1. T \subseteq Nat /\ T # {}
  <2>1. ASSUME NEW x \in S PROVE L - x \in Nat
    <3>1. x \in 1 .. L
      OBVIOUS
    <3> QED BY ONLY L \in Nat, <3>1
  <2>2. T \subseteq Nat
    BY ONLY <2>1
  <2>3. PICK x \in S : TRUE
    OBVIOUS
  <2>4. L - x \in T
    OBVIOUS
  <2> QED BY ONLY <2>2, <2>4
<1>2. PICK j \in T : \A k \in T : j <= k
  BY ONLY <1>1, SmallestOf
<1>3. PICK i \in S : j = L - i
  OBVIOUS
<1>4. ASSUME NEW k \in S PROVE k <= i
  <2>1. j <= L - k
    BY <1>2
  <2> QED BY <1>3, <2>1
<1> QED BY <1>4

Meta == Nat \cup {NoMeta}
Version == [start : Nat, meta : Meta]
Versions == {2 * k : k \in 0 .. MaxStatements}
Even(n) == \E k \in Nat : n = 2 * k

\* A timeline with versions of statements before an offset.
Line(s, top) ==
    /\ s \in Seq(Version)
    /\ \A i \in 1 .. Len(s) : s[i].start < top /\ Even(s[i].start)

\* What a timeline says now, which database version and which definition that is.
newest(s) == IF s = <<>> THEN NoMeta ELSE Last(s).meta
curDb(d) == newest(dbLines[d])
curIn(lines, n) ==
    IF curDb(n[1]) = NoMeta THEN NoMeta ELSE newest(lines[<<n[1], curDb(n[1])>>][n[2]])

CatalogTypes ==
    /\ truth \in Seq([dbs : SUBSET Dbs, defs : [Names -> Meta]])
    /\ Len(truth) \in 1 .. MaxStatements + 1
    /\ dbLines \in [Dbs -> Seq(Version)]
    /\ tableLines \in [Dbs \X Versions -> [Tables -> Seq(Version)]]
    /\ astray \in [Names -> Nat]

\* All versions are older than the next statement; a database version that is not made
\* yet has no tables.
LinesOK ==
    /\ \A d \in Dbs :
         /\ Line(dbLines[d], now)
         /\ \A i \in 1 .. Len(dbLines[d]) :
              dbLines[d][i].meta = NoMeta
              \/ (dbLines[d][i].meta \in Versions /\ dbLines[d][i].meta < now)
    /\ \A d \in Dbs, v \in Versions, t \in Tables :
         /\ Line(tableLines[<<d, v>>][t], now)
         /\ v >= now => tableLines[<<d, v>>][t] = <<>>

\* The database of a table that is followed is known when the server has it.
DbsOK == \A n \in Names : astray[n] = Never /\ n[1] \in server.dbs => curDb(n[1]) # NoMeta

AstrayOK == \A n \in Names : astray[n] = Never \/ astray[n] < now

CatalogInv == CatalogTypes /\ LinesOK /\ DbsOK /\ AstrayOK /\ DefinitionAtOffset

-----------------------------------------------------------------------------
\* An offset between two statements is the offset of none.
LEMMA OddEven == ASSUME NEW k \in Nat, NEW n \in Nat, Even(n) PROVE n # 2 * k - 1
  BY DEF Even

\* The last version of a timeline.
LEMMA LastOf ==
    ASSUME NEW s, NEW top, Line(s, top), s # <<>>
    PROVE  /\ Len(s) \in 1 .. Len(s) /\ Last(s) = s[Len(s)] /\ Last(s) \in Version
           /\ Last(s).start \in Nat /\ Last(s).start < top /\ Even(Last(s).start)
<1>1. s \in Seq(Version) /\ Len(s) \in 1 .. Len(s) /\ Last(s) = s[Len(s)]
  BY DEF Line, Last
<1>2. Last(s) \in Version
  BY <1>1, EventOf
<1> QED BY <1>1, <1>2 DEF Line, Version

\* Behind all its versions a timeline gives the newest one.
LEMMA GetNewest ==
    ASSUME NEW s, NEW top \in Nat, Line(s, top), NEW cp \in Nat, top <= cp + 1
    PROVE  timelineGet(s, cp) = newest(s)
<1>1. CASE s = <<>>
  BY <1>1 DEF timelineGet, newest
<1>2. CASE s # <<>>
  <2>1. Last(s).start <= cp
    BY <1>2, LastOf
  <2> QED BY <1>2, <2>1 DEF timelineGet, newest
<1> QED BY <1>1, <1>2

\* What put makes of a timeline.
LEMMA PutNewest ==
    ASSUME NEW s, NEW top \in Nat, Line(s, top), NEW m \in Meta, Even(top)
    PROVE  /\ Line(timelinePut(s, m, top), top + 2)
           /\ newest(timelinePut(s, m, top)) = m
<1>1. timelinePut(s, m, top) = Append(s, [start |-> top, meta |-> m])
  BY LastOf DEF timelinePut
<1>2. s \in Seq(Version) /\ [start |-> top, meta |-> m] \in Version
  BY DEF Line, Version
<1> DEFINE e == [start |-> top, meta |-> m]
           t == Append(s, e)
<1>3. e.start = top /\ e.meta = m
  OBVIOUS
<1> HIDE DEF e
<1>4. /\ t \in Seq(Version) /\ Len(t) = Len(s) + 1 /\ t # <<>> /\ t[Len(s) + 1] = e
      /\ \A i \in 1 .. Len(s) : t[i] = s[i]
  BY <1>2 DEF e
<1>5. Line(t, top + 2)
  <2> SUFFICES ASSUME NEW i \in 1 .. Len(t) PROVE t[i].start < top + 2 /\ Even(t[i].start)
    BY <1>4 DEF Line
  <2>1. CASE i \in 1 .. Len(s)
    <3>1. s[i].start < top /\ Even(s[i].start) /\ s[i] \in Version
      BY <1>2, <2>1, EventOf DEF Line
    <3> QED BY <1>4, <2>1, <3>1 DEF Version
  <2>2. CASE i = Len(s) + 1
    BY <1>3, <1>4, <2>2
  <2> QED BY <1>2, <1>4, <2>1, <2>2
<1>6. newest(t) = m
  BY <1>3, <1>4 DEF newest, Last
<1> QED BY <1>1, <1>5, <1>6 DEF e

LEMMA PutLine ==
    ASSUME NEW s, NEW top \in Nat, Line(s, top), NEW m \in Meta, Even(top)
    PROVE  /\ timelinePut(s, m, top) = Append(s, [start |-> top, meta |-> m])
           /\ Line(timelinePut(s, m, top), top + 2)
           /\ newest(timelinePut(s, m, top)) = m
           /\ Len(timelinePut(s, m, top)) = Len(s) + 1
           /\ \A i \in 1 .. Len(s) : timelinePut(s, m, top)[i] = s[i]
           /\ timelinePut(s, m, top)[Len(s) + 1].meta = m
<1> DEFINE e == [start |-> top, meta |-> m]
           t == timelinePut(s, m, top)
<1>1. t = Append(s, e)
  BY LastOf DEF timelinePut
<1>2. s \in Seq(Version) /\ e \in Version /\ e.meta = m
  BY DEF Line, Version
<1>3. Line(t, top + 2) /\ newest(t) = m
  BY PutNewest
<1> HIDE DEF e, t
<1>4. Len(t) = Len(s) + 1 /\ t[Len(s) + 1] = e /\ \A i \in 1 .. Len(s) : t[i] = s[i]
  BY <1>1, <1>2
<1>5. t[Len(s) + 1].meta = m
  BY <1>2, <1>4
<1> QED BY <1>1, <1>3, <1>4, <1>5 DEF e, t

\* A version at a later offset does not change what an offset between statements gets.
LEMMA GetOld ==
    ASSUME NEW s, NEW top \in Nat, Line(s, top), NEW m \in Meta, Even(top),
           NEW k \in Nat \ {0}, 2 * k - 1 < top
    PROVE  timelineGet(timelinePut(s, m, top), 2 * k - 1) = timelineGet(s, 2 * k - 1)
<1> DEFINE cp == 2 * k - 1
           t == timelinePut(s, m, top)
           inT == {i \in 1 .. Len(t) - 1 : t[i].start < cp}
           inS == {i \in 1 .. Len(s) - 1 : s[i].start < cp}
           last(S) == CHOOSE i \in S : \A j \in S : j <= i
<1>1. /\ t # <<>> /\ Len(t) = Len(s) + 1 /\ Len(s) \in Nat
      /\ \A i \in 1 .. Len(s) : t[i] = s[i]
      /\ Last(t).start = top
  <2>1. t = Append(s, [start |-> top, meta |-> m]) /\ s \in Seq(Version)
    BY PutLine DEF Line
  <2> QED BY <2>1 DEF Last
<1>2. cp \in Nat /\ cp < top
  OBVIOUS
<1>3. \A i \in 1 .. Len(s) : s[i].start \in Nat /\ s[i].start # cp
  <2> TAKE i \in 1 .. Len(s)
  <2>1. s[i] \in Version /\ Even(s[i].start)
    BY EventOf DEF Line
  <2> QED BY <2>1, OddEven DEF Version
<1> HIDE DEF cp, t
<1>4. timelineGet(t, cp) = IF inT = {} THEN NoMeta ELSE t[last(inT)].meta
  BY <1>1, <1>2 DEF timelineGet
<1>5. inT = {i \in 1 .. Len(s) : s[i].start < cp}
  BY <1>1
<1>6. CASE s = <<>>
  <2>1. inT = {}
    BY <1>5, <1>6
  <2> QED BY <1>4, <1>6, <2>1 DEF timelineGet, cp, t
<1>7. CASE s # <<>> /\ Last(s).start <= cp
  <2>1. Len(s) \in 1 .. Len(s) /\ s[Len(s)].start < cp /\ Last(s) = s[Len(s)]
    <3>1. Len(s) \in 1 .. Len(s) /\ Last(s) = s[Len(s)]
      BY <1>7, LastOf
    <3>2. s[Len(s)].start \in Nat /\ s[Len(s)].start # cp /\ s[Len(s)].start <= cp
      BY <1>3, <1>7, <3>1
    <3> QED BY <1>2, <3>1, <3>2
  <2>2. Len(s) \in inT /\ \A j \in inT : j <= Len(s)
    BY <1>1, <1>5, <2>1
  <2> DEFINE p == last(inT)
  <2>3. p \in inT /\ \A j \in inT : j <= p
    BY <2>2
  <2> HIDE DEF p
  <2>4. p = Len(s)
    BY <1>1, <1>5, <2>2, <2>3
  <2>5. inT # {} /\ t[p] = s[Len(s)]
    BY <1>1, <2>1, <2>2, <2>4
  <2>6. timelineGet(t, cp) = t[p].meta
    BY <1>4, <2>5 DEF p
  <2>7. timelineGet(s, cp) = s[Len(s)].meta
    BY <1>7, <2>1 DEF timelineGet
  <2> QED BY <2>5, <2>6, <2>7 DEF cp, t
<1>8. CASE s # <<>> /\ ~(Last(s).start <= cp)
  <2>1. Len(s) \in 1 .. Len(s) /\ ~(s[Len(s)].start < cp)
    <3>1. Len(s) \in 1 .. Len(s) /\ Last(s) = s[Len(s)]
      BY <1>8, LastOf
    <3>2. s[Len(s)].start \in Nat /\ ~(s[Len(s)].start <= cp)
      BY <1>3, <1>8, <3>1
    <3> QED BY <1>2, <3>1, <3>2
  <2>2. inT = inS
    BY <1>1, <1>5, <2>1
  <2>3. timelineGet(s, cp) = IF inS = {} THEN NoMeta ELSE s[last(inS)].meta
    BY <1>8 DEF timelineGet
  <2>4. CASE inS = {}
    BY <1>4, <2>2, <2>3, <2>4 DEF cp, t
  <2>5. CASE inS # {}
    <3>1. inS \subseteq 1 .. Len(s)
      BY <1>1
    <3> DEFINE p == last(inS)
    <3>2. \E i \in inS : \A j \in inS : j <= i
      BY ONLY <1>1, <2>5, <3>1, GreatestOf
    <3>3. p \in inS
      BY <3>2
    <3>4. timelineGet(t, cp) = t[p].meta /\ timelineGet(s, cp) = s[p].meta
      BY <1>4, <2>2, <2>3, <2>5
    <3> HIDE DEF p
    <3>5. t[p] = s[p]
      BY <1>1, <3>1, <3>3
    <3> QED BY <3>4, <3>5 DEF cp, t
  <2> QED BY <2>4, <2>5
<1> QED BY <1>6, <1>7, <1>8

\* What get returns is a version of the timeline, or there is none.
LEMMA GetMeta ==
    ASSUME NEW s, NEW top, Line(s, top), NEW cp
    PROVE  timelineGet(s, cp) = NoMeta \/ \E i \in 1 .. Len(s) : timelineGet(s, cp) = s[i].meta
<1> SUFFICES ASSUME s # <<>>
             PROVE  timelineGet(s, cp) = NoMeta
                    \/ \E i \in 1 .. Len(s) : timelineGet(s, cp) = s[i].meta
  BY DEF timelineGet
<1> DEFINE older == {i \in 1 .. Len(s) - 1 : s[i].start < cp}
           p == CHOOSE i \in older : \A k \in older : k <= i
<1>1. Len(s) \in Nat /\ Len(s) \in 1 .. Len(s) /\ Last(s) = s[Len(s)]
  <2>1. Len(s) \in Nat
    BY DEF Line
  <2> QED BY <2>1, LastOf
<1>2. \/ timelineGet(s, cp) = Last(s).meta
      \/ timelineGet(s, cp) = NoMeta
      \/ older # {} /\ timelineGet(s, cp) = s[p].meta
  BY DEF timelineGet
<1>3. older # {} => p \in older
  <2> SUFFICES ASSUME older # {} PROVE p \in older
    OBVIOUS
  <2>1. older \subseteq 1 .. Len(s)
    BY <1>1
  <2>2. \E i \in older : \A k \in older : k <= i
    BY ONLY <1>1, <2>1, older # {}, GreatestOf
  <2> QED BY <2>2
<1> HIDE DEF p
<1> QED BY <1>1, <1>2, <1>3

-----------------------------------------------------------------------------
\* The offset of the next statement.
LEMMA NowFacts ==
    ASSUME CatalogTypes
    PROVE  /\ Len(truth) \in Nat /\ Len(truth) >= 1 /\ now \in Nat /\ now = 2 * Len(truth) /\ Even(now)
           /\ MaxStatements \in Nat /\ Newest = 2 * MaxStatements + 3 /\ Never = 2 * MaxStatements + 4
           /\ now < Never /\ server = truth[Len(truth)]
           /\ server.dbs \subseteq Dbs /\ server.defs \in [Names -> Meta]
<1>1. Len(truth) \in 1 .. MaxStatements + 1 /\ MaxStatements \in Nat
  BY CatalogAssumption DEF CatalogTypes
<1>2. server = truth[Len(truth)]
  BY DEF server, Last
<1> DEFINE R == [dbs : SUBSET Dbs, defs : [Names -> Meta]]
<1>3. truth \in Seq(R)
  BY DEF CatalogTypes
<1>4. \A r \in R : r.dbs \subseteq Dbs /\ r.defs \in [Names -> Meta]
  OBVIOUS
<1> HIDE DEF R
<1>5. truth[Len(truth)] \in R
  <2>1. Len(truth) \in 1 .. Len(truth)
    BY <1>1
  <2> QED BY ONLY <1>3, <2>1, EventOf
<1>6. Even(now)
  BY <1>1 DEF now, Even
<1> QED BY <1>1, <1>2, <1>4, <1>5, <1>6 DEF now, Newest, Never

\* Behind the last statement a database and a table are what they are now.
LEMMA CurrentDb ==
    ASSUME CatalogTypes, LinesOK, NEW d \in Dbs
    PROVE  /\ \A cp \in Nat : now <= cp + 1 => dbAt(d, cp) = curDb(d)
           /\ curDb(d) = NoMeta \/ (curDb(d) \in Versions /\ curDb(d) < now)
<1>1. Line(dbLines[d], now) /\ now \in Nat
  BY NowFacts DEF LinesOK
<1>2. \A cp \in Nat : now <= cp + 1 => dbAt(d, cp) = curDb(d)
  BY <1>1, GetNewest DEF dbAt, curDb
<1>3. CASE dbLines[d] = <<>>
  BY <1>2, <1>3 DEF curDb, newest
<1>4. CASE dbLines[d] # <<>>
  <2>1. Len(dbLines[d]) \in 1 .. Len(dbLines[d]) /\ Last(dbLines[d]) = dbLines[d][Len(dbLines[d])]
    BY ONLY <1>1, <1>4, LastOf
  <2>2. curDb(d) = dbLines[d][Len(dbLines[d])].meta
    BY <1>4, <2>1 DEF curDb, newest
  <2> QED BY <1>2, <2>1, <2>2 DEF LinesOK
<1> QED BY <1>3, <1>4

LEMMA CurrentGet ==
    ASSUME CatalogTypes, LinesOK, NEW n \in Names
    PROVE  /\ n[1] \in Dbs /\ n[2] \in Tables /\ n = <<n[1], n[2]>>
           /\ \A cp \in Nat : now <= cp + 1 => get(n, cp) = curIn(tableLines, n)
           /\ curIn(tableLines, n) \in Meta
<1>1. n[1] \in Dbs /\ n[2] \in Tables /\ n = <<n[1], n[2]>>
  BY DEF Names
<1>2. CASE curDb(n[1]) = NoMeta
  BY <1>1, <1>2, CurrentDb DEF get, curIn, Meta
<1>3. CASE curDb(n[1]) # NoMeta
  <2> DEFINE s == tableLines[<<n[1], curDb(n[1])>>][n[2]]
  <2>1. Line(s, now) /\ now \in Nat
    BY <1>1, <1>3, CurrentDb, NowFacts DEF LinesOK
  <2>2. curIn(tableLines, n) = newest(s)
    BY <1>3 DEF curIn
  <2>3. newest(s) \in Meta
    BY <2>1, LastOf DEF newest, Version, Meta
  <2>4. ASSUME NEW cp \in Nat, now <= cp + 1 PROVE get(n, cp) = newest(s)
    <3>1. dbAt(n[1], cp) = curDb(n[1])
      BY <1>1, <2>4, CurrentDb
    <3>2. timelineGet(s, cp) = newest(s)
      BY ONLY <2>1, <2>4, GetNewest
    <3> QED BY <1>3, <3>1, <3>2 DEF get
  <2> QED BY <1>1, <2>2, <2>3, <2>4
<1> QED BY <1>2, <1>3

\* lines are the timelines of the tables after the versions m of the tables in S have
\* been put at the offset of the next statement.
Changed(lines, S, m) ==
    /\ lines \in [Dbs \X Versions -> [Tables -> Seq(Version)]]
    /\ \A d \in Dbs, v \in Versions, t \in Tables :
         lines[<<d, v>>][t] = IF <<d, t>> \in S /\ v = curDb(d)
                          THEN timelinePut(tableLines[<<d, v>>][t], m[<<d, t>>], now)
                          ELSE tableLines[<<d, v>>][t]

\* One more put.
LEMMA ChangedMore ==
    ASSUME CatalogTypes, LinesOK, NEW lines, NEW S, NEW m \in [Names -> Meta], Changed(lines, S, m),
           NEW n \in Names, n \notin S, curDb(n[1]) # NoMeta, NEW x \in Meta
    PROVE  Changed(put(lines, n, x, now), S \cup {n}, [m EXCEPT ![n] = x])
<1>1. n[1] \in Dbs /\ n[2] \in Tables /\ n = <<n[1], n[2]>>
  BY DEF Names
<1>2. /\ dbAt(n[1], now) = curDb(n[1]) /\ curDb(n[1]) \in Versions /\ now \in Nat /\ Even(now)
  BY <1>1, CurrentDb, NowFacts
<1> DEFINE w == <<n[1], curDb(n[1])>>
           row == lines[w]
           new == timelinePut(row[n[2]], x, now)
           M == [m EXCEPT ![n] = x]
<1>3. put(lines, n, x, now) = [lines EXCEPT ![w] = [row EXCEPT ![n[2]] = new]]
  BY <1>2 DEF put
<1>4. lines \in [Dbs \X Versions -> [Tables -> Seq(Version)]] /\ w \in Dbs \X Versions
  BY <1>1, <1>2 DEF Changed
<1>5. row[n[2]] = tableLines[<<n[1], curDb(n[1])>>][n[2]]
  BY <1>1, <1>2 DEF Changed
<1>6. new \in Seq(Version)
  <2>1. Line(row[n[2]], now)
    BY <1>1, <1>2, <1>5 DEF LinesOK
  <2>2. Line(new, now + 2)
    BY ONLY <1>2, <2>1, x \in Meta, PutLine
  <2> QED BY <2>2 DEF Line
<1>7. new = timelinePut(tableLines[<<n[1], curDb(n[1])>>][n[2]], M[n], now)
  BY <1>5
<1>8. row \in [Tables -> Seq(Version)]
  BY <1>4
<1> HIDE DEF new, w, row
<1>9. [row EXCEPT ![n[2]] = new] \in [Tables -> Seq(Version)]
  BY <1>1, <1>6, <1>8
<1>10. put(lines, n, x, now) \in [Dbs \X Versions -> [Tables -> Seq(Version)]]
  BY <1>3, <1>4, <1>9
<1>11. ASSUME NEW d \in Dbs, NEW v \in Versions, NEW t \in Tables
       PROVE  put(lines, n, x, now)[<<d, v>>][t] =
                IF <<d, t>> \in S \cup {n} /\ v = curDb(d)
                THEN timelinePut(tableLines[<<d, v>>][t], M[<<d, t>>], now)
                ELSE tableLines[<<d, v>>][t]
  <2>1. <<d, t>> \in Names /\ <<d, v>> \in Dbs \X Versions
    BY DEF Names
  <2>2. CASE <<d, t>> = n /\ v = curDb(d)
    <3>1. <<d, v>> = w /\ t = n[2] /\ d = n[1]
      BY <1>1, <2>2 DEF w
    <3>2. put(lines, n, x, now)[<<d, v>>][t] = new
      BY <1>1, <1>3, <1>4, <1>8, <3>1
    <3> QED BY <1>7, <2>2, <3>1, <3>2
  <2>3. CASE ~(<<d, t>> = n /\ v = curDb(d))
    <3>1. <<d, v>> # w \/ t # n[2]
      BY <1>1, <2>3 DEF w
    <3>2. put(lines, n, x, now)[<<d, v>>][t] = lines[<<d, v>>][t]
      <4>1. CASE <<d, v>> # w
        BY <1>3, <1>4, <2>1, <4>1
      <4>2. CASE <<d, v>> = w /\ t # n[2]
        BY <1>3, <1>4, <1>8, <2>1, <4>2 DEF row
      <4> QED BY <3>1, <4>1, <4>2
    <3>3. lines[<<d, v>>][t] = IF <<d, t>> \in S /\ v = curDb(d)
                           THEN timelinePut(tableLines[<<d, v>>][t], m[<<d, t>>], now)
                           ELSE tableLines[<<d, v>>][t]
      BY DEF Changed
    <3>4. <<d, t>> # n => M[<<d, t>>] = m[<<d, t>>]
      BY <2>1
    <3> QED BY <2>3, <3>2, <3>3, <3>4
  <2> QED BY <2>2, <2>3
<1> QED BY <1>10, <1>11 DEF Changed

LEMMA NewestMeta ==
    ASSUME NEW s, NEW top, Line(s, top), newest(s) # NoMeta
    PROVE  \E i \in 1 .. Len(s) : newest(s) = s[i].meta
<1>1. s # <<>> /\ newest(s) = Last(s).meta
  BY DEF newest
<1>2. Len(s) \in 1 .. Len(s) /\ Last(s) = s[Len(s)]
  BY <1>1, LastOf
<1> QED BY <1>1, <1>2

\* What a timeline may become with a statement.
Grows(s, t, metas) == t = s \/ \E x \in metas : t = timelinePut(s, x, now)

\* A statement leaves every offset before it its definitions.
LEMMA OldKept ==
    ASSUME CatalogTypes, LinesOK,
           \A d \in Dbs : Grows(dbLines[d], dbLines'[d], Meta),
           \A d \in Dbs, v \in Versions, t \in Tables :
               Grows(tableLines[<<d, v>>][t], tableLines'[<<d, v>>][t], Meta),
           NEW k \in 1 .. Len(truth), NEW n \in Names
    PROVE  get(n, 2 * k - 1)' = get(n, 2 * k - 1)
<1> DEFINE cp == 2 * k - 1
<1>1. /\ now \in Nat /\ Even(now) /\ k \in Nat \ {0} /\ 2 * k - 1 < now
      /\ n[1] \in Dbs /\ n[2] \in Tables
  BY NowFacts DEF Names
<1>2. ASSUME NEW s, NEW t, Line(s, now), Grows(s, t, Meta)
      PROVE  timelineGet(t, cp) = timelineGet(s, cp)
  <2>1. ASSUME NEW x \in Meta, t = timelinePut(s, x, now)
        PROVE  timelineGet(t, cp) = timelineGet(s, cp)
    BY ONLY <1>1, <1>2, <2>1, GetOld
  <2> QED BY <1>2, <2>1 DEF Grows
<1> HIDE DEF cp
<1>3. Line(dbLines[n[1]], now) /\ Grows(dbLines[n[1]], dbLines'[n[1]], Meta)
  BY <1>1 DEF LinesOK
<1>4. dbAt(n[1], cp)' = dbAt(n[1], cp)
  BY <1>2, <1>3 DEF dbAt
<1>5. ASSUME dbAt(n[1], cp) # NoMeta PROVE dbAt(n[1], cp) \in Versions
  <2>1. PICK i \in 1 .. Len(dbLines[n[1]]) : dbAt(n[1], cp) = dbLines[n[1]][i].meta
    BY <1>3, <1>5, GetMeta DEF dbAt
  <2> QED BY <1>1, <1>5, <2>1 DEF LinesOK
<1>6. CASE dbAt(n[1], cp) = NoMeta
  BY <1>4, <1>6 DEF get, cp
<1>7. CASE dbAt(n[1], cp) # NoMeta
  <2> DEFINE w == <<n[1], dbAt(n[1], cp)>>
  <2>1. Line(tableLines[w][n[2]], now) /\ Grows(tableLines[w][n[2]], tableLines'[w][n[2]], Meta)
    BY <1>1, <1>5, <1>7 DEF LinesOK
  <2>2. timelineGet(tableLines'[w][n[2]], cp) = timelineGet(tableLines[w][n[2]], cp)
    BY <1>2, <2>1
  <2> QED BY <1>4, <1>7, <2>2 DEF get, cp
<1> QED BY <1>6, <1>7

\* The state behind a statement is as it should be when the statement puts versions at
\* its own offset only and the tables that are followed are now what the server has.
LEMMA StatementStep ==
    ASSUME CatalogInv, Len(truth) <= MaxStatements,
           NEW D \in SUBSET Dbs, NEW F \in [Names -> Meta], carriedOut(D, F),
           dbLines' \in [Dbs -> Seq(Version)],
           \A d \in Dbs : Grows(dbLines[d], dbLines'[d], {NoMeta, now}),
           tableLines' \in [Dbs \X Versions -> [Tables -> Seq(Version)]],
           \A d \in Dbs, v \in Versions, t \in Tables :
               /\ Grows(tableLines[<<d, v>>][t], tableLines'[<<d, v>>][t], Meta)
               /\ v >= now => tableLines'[<<d, v>>][t] = tableLines[<<d, v>>][t],
           astray' \in [Names -> Nat],
           \A n \in Names : astray'[n] = astray[n] \/ (astray[n] = Never /\ astray'[n] = now),
           \A n \in Names : astray'[n] = Never /\ n[1] \in D => curDb(n[1])' # NoMeta,
           \A n \in Names : astray'[n] = Never => curIn(tableLines, n)' = F[n]
    PROVE  CatalogInv'
<1> DEFINE r == [dbs |-> D, defs |-> F]
           R == [dbs : SUBSET Dbs, defs : [Names -> Meta]]
<1>1. CatalogTypes /\ LinesOK /\ DbsOK /\ AstrayOK /\ DefinitionAtOffset
  BY DEF CatalogInv
<1>2. /\ now \in Nat /\ Even(now) /\ Len(truth) \in Nat /\ Len(truth) >= 1 /\ now = 2 * Len(truth)
      /\ now < Never /\ MaxStatements \in Nat /\ Never = 2 * MaxStatements + 4 /\ NoMeta \in Meta
      /\ now \in Meta /\ now \in Versions
  <2>1. Len(truth) \in 0 .. MaxStatements
    BY <1>1, NowFacts
  <2>2. now \in Versions
    BY <2>1 DEF now, Versions
  <2> QED BY <1>1, <2>2, NowFacts DEF Meta
<1>3. r \in R /\ r.dbs = D /\ r.defs = F
  OBVIOUS
<1>4. truth \in Seq(R) /\ truth' = Append(truth, r)
  BY <1>1 DEF CatalogTypes, carriedOut
<1> HIDE DEF r, R
<1>5. /\ truth' \in Seq(R) /\ Len(truth') = Len(truth) + 1 /\ Last(truth') = r
      /\ truth'[Len(truth) + 1] = r /\ \A k \in 1 .. Len(truth) : truth'[k] = truth[k]
  BY <1>2, <1>3, <1>4 DEF Last
<1>6. now' = now + 2 /\ server'.dbs = D /\ server'.defs = F /\ Never' = Never
  BY <1>2, <1>3, <1>5 DEF now, server, Never, Newest
<1>7. CatalogTypes'
  BY <1>2, <1>5 DEF CatalogTypes, R
<1>8. LinesOK'
  <2>1. ASSUME NEW s, NEW t, Line(s, now), NEW M, M \subseteq Meta, Grows(s, t, M)
        PROVE  Line(t, now + 2) /\ Len(s) \in Nat
               /\ \A i \in 1 .. Len(t) : t[i].meta \in M \/ (i \in 1 .. Len(s) /\ t[i] = s[i])
    <3>1. CASE t = s
      <4>1. \A i \in 1 .. Len(s) : s[i].start \in Nat
        <5> TAKE i \in 1 .. Len(s)
        <5>1. s[i] \in Version
          BY <2>1, EventOf DEF Line
        <5> QED BY <5>1 DEF Version
      <4>2. Line(s, now + 2)
        BY <1>2, <2>1, <4>1 DEF Line
      <4> QED BY <2>1, <3>1, <4>2 DEF Line
    <3>2. ASSUME NEW x \in M, t = timelinePut(s, x, now)
          PROVE  Line(t, now + 2) /\ Len(s) \in Nat
               /\ \A i \in 1 .. Len(t) : t[i].meta \in M \/ (i \in 1 .. Len(s) /\ t[i] = s[i])
      <4>1. x \in Meta /\ Len(s) \in Nat
        BY <2>1 DEF Line
      <4>3. now \in Nat /\ Even(now) /\ Line(s, now)
        BY <1>2, <2>1
      <4>2. /\ Line(t, now + 2) /\ Len(t) = Len(s) + 1 /\ \A i \in 1 .. Len(s) : t[i] = s[i]
            /\ t[Len(s) + 1].meta = x
        BY ONLY <3>2, <4>1, <4>3, PutLine
      <4> QED BY <4>1, <4>2
    <3> QED BY <2>1, <3>1, <3>2 DEF Grows
  <2>2. ASSUME NEW d \in Dbs
        PROVE  /\ Line(dbLines'[d], now + 2)
               /\ \A i \in 1 .. Len(dbLines'[d]) :
                    dbLines'[d][i].meta = NoMeta
                    \/ (dbLines'[d][i].meta \in Versions /\ dbLines'[d][i].meta < now + 2)
    <3>1. Line(dbLines[d], now) /\ Grows(dbLines[d], dbLines'[d], {NoMeta, now})
      BY <1>1 DEF LinesOK
    <3>2. /\ Line(dbLines'[d], now + 2)
          /\ \A i \in 1 .. Len(dbLines'[d]) :
               dbLines'[d][i].meta \in {NoMeta, now}
               \/ (i \in 1 .. Len(dbLines[d]) /\ dbLines'[d][i] = dbLines[d][i])
      <4>1. {NoMeta, now} \subseteq Meta
        BY <1>2
      <4> DEFINE M == {NoMeta, now}
                 s == dbLines[d]
                 t == dbLines'[d]
      <4>2. Line(s, now) /\ Grows(s, t, M) /\ M \subseteq Meta
        BY <3>1, <4>1
      <4> HIDE DEF M, s, t
      <4>3. /\ Line(t, now + 2)
            /\ \A i \in 1 .. Len(t) : t[i].meta \in M \/ (i \in 1 .. Len(s) /\ t[i] = s[i])
        BY ONLY <2>1, <4>2
      <4> QED BY <4>3 DEF M, s, t
    <3>3. \A i \in 1 .. Len(dbLines[d]) :
            dbLines[d][i].meta = NoMeta
            \/ (dbLines[d][i].meta \in Versions /\ dbLines[d][i].meta < now)
      BY <1>1 DEF LinesOK
    <3>4. \A v \in Versions : v \in Nat
      BY <1>2 DEF Versions
    <3>5. ASSUME NEW i \in 1 .. Len(dbLines'[d])
          PROVE  dbLines'[d][i].meta = NoMeta
                 \/ (dbLines'[d][i].meta \in Versions /\ dbLines'[d][i].meta < now + 2)
      <4>1. CASE dbLines'[d][i].meta \in {NoMeta, now}
        BY <1>2, <4>1
      <4>2. CASE i \in 1 .. Len(dbLines[d]) /\ dbLines'[d][i] = dbLines[d][i]
        <5> DEFINE v == dbLines[d][i].meta
        <5>1. v = NoMeta \/ (v \in Versions /\ v < now)
          BY <3>3, <4>2
        <5>2. dbLines'[d][i].meta = v
          BY <4>2
        <5> HIDE DEF v
        <5>3. v \in Versions /\ v < now => v < now + 2
          BY ONLY <1>2, <3>4
        <5> QED BY ONLY <5>1, <5>2, <5>3
      <4> QED BY <3>2, <4>1, <4>2
    <3> QED BY <3>2, <3>5
  <2>3. ASSUME NEW d \in Dbs, NEW v \in Versions, NEW t \in Tables
        PROVE  /\ Line(tableLines'[<<d, v>>][t], now + 2)
               /\ v >= now + 2 => tableLines'[<<d, v>>][t] = <<>>
    <3>1. /\ Line(tableLines[<<d, v>>][t], now)
          /\ Grows(tableLines[<<d, v>>][t], tableLines'[<<d, v>>][t], Meta)
          /\ v >= now => tableLines[<<d, v>>][t] = <<>>
      BY <1>1 DEF LinesOK
    <3>2. Line(tableLines'[<<d, v>>][t], now + 2)
      BY <2>1, <3>1
    <3>3. v \in Nat /\ (v >= now + 2 => v >= now)
      BY <1>2 DEF Versions
    <3> QED BY <3>1, <3>2, <3>3
  <2> QED BY <1>6, <2>2, <2>3 DEF LinesOK
<1>9. DbsOK'
  BY <1>6 DEF DbsOK
<1>10. AstrayOK'
  <2> SUFFICES ASSUME NEW n \in Names PROVE astray'[n] = Never \/ astray'[n] < now + 2
    BY <1>6 DEF AstrayOK
  <2>1. astray[n] \in Nat /\ (astray[n] = Never \/ astray[n] < now)
    BY <1>1 DEF AstrayOK, CatalogTypes
  <2>2. astray'[n] = astray[n] \/ astray'[n] = now
    OBVIOUS
  <2> QED BY <1>2, <2>1, <2>2
<1>11. DefinitionAtOffset'
  <2> SUFFICES ASSUME NEW k \in 1 .. Len(truth) + 1, NEW n \in Names, 2 * k - 1 < astray'[n]
               PROVE  get(n, 2 * k - 1)' = truth'[k].defs[n]
    BY <1>5 DEF DefinitionAtOffset
  <2>1. astray[n] \in Nat /\ (astray[n] = Never \/ astray[n] < now)
    BY <1>1 DEF AstrayOK, CatalogTypes
  <2>2. CASE k \in 1 .. Len(truth)
    <3>1. 2 * k - 1 < astray[n]
      BY <1>2, <2>1, <2>2
    <3>2. get(n, 2 * k - 1) = truth[k].defs[n]
      BY <1>1, <2>2, <3>1 DEF DefinitionAtOffset
    <3>3. {NoMeta, now} \subseteq Meta
      BY <1>2
    <3>4. \A d \in Dbs : Grows(dbLines[d], dbLines'[d], Meta)
      BY <3>3 DEF Grows
    <3>5. get(n, 2 * k - 1)' = get(n, 2 * k - 1)
      BY <1>1, <2>2, <3>4, OldKept
    <3> QED BY <1>5, <2>2, <3>2, <3>5
  <2>3. CASE k = Len(truth) + 1
    <3>1. 2 * k - 1 = now + 1 /\ now + 1 \in Nat
      BY <1>2, <2>3
    <3>2. astray'[n] = Never
      BY <1>2, <2>1, <3>1
    <3>3. n[1] \in Dbs /\ n[2] \in Tables
      BY DEF Names
    <3>4. /\ timelineGet(dbLines'[n[1]], now + 1) = newest(dbLines'[n[1]])
          /\ newest(dbLines'[n[1]]) = NoMeta \/ newest(dbLines'[n[1]]) \in Versions
      <4>1. Line(dbLines'[n[1]], now + 2)
        BY <1>6, <1>8, <3>3 DEF LinesOK
      <4>2. timelineGet(dbLines'[n[1]], now + 1) = newest(dbLines'[n[1]])
        BY ONLY <1>2, <4>1, GetNewest
      <4>3. CASE newest(dbLines'[n[1]]) = NoMeta
        BY <4>2, <4>3
      <4>4. CASE newest(dbLines'[n[1]]) # NoMeta
        <5>1. PICK i \in 1 .. Len(dbLines'[n[1]]) :
                newest(dbLines'[n[1]]) = dbLines'[n[1]][i].meta
          BY <4>1, <4>4, NewestMeta
        <5> QED BY <1>8, <3>3, <4>2, <4>4, <5>1 DEF LinesOK
      <4> QED BY <4>3, <4>4
    <3>5. get(n, 2 * k - 1)' = curIn(tableLines, n)'
      <4>1. CASE newest(dbLines'[n[1]]) = NoMeta
        BY <3>1, <3>4, <4>1 DEF get, dbAt, curIn, curDb
      <4>2. CASE newest(dbLines'[n[1]]) # NoMeta
        <5> DEFINE s == tableLines'[<<n[1], newest(dbLines'[n[1]])>>][n[2]]
        <5>1. Line(s, now + 2)
          BY <1>6, <1>8, <3>3, <3>4, <4>2 DEF LinesOK
        <5>2. timelineGet(s, now + 1) = newest(s)
          BY ONLY <1>2, <5>1, GetNewest
        <5> QED BY <3>1, <3>4, <4>2, <5>2 DEF get, dbAt, curIn, curDb
      <4> QED BY <4>1, <4>2
    <3> QED BY <1>3, <1>5, <2>3, <3>2, <3>5
  <2> QED BY <1>2, <2>2, <2>3
<1> QED BY <1>7, <1>8, <1>9, <1>10, <1>11 DEF CatalogInv

\* A table that is followed is now what the server has.
LEMMA Followed ==
    ASSUME CatalogInv, NEW n \in Names, astray[n] = Never
    PROVE  curIn(tableLines, n) = server.defs[n]
<1>1. CatalogTypes /\ LinesOK /\ DefinitionAtOffset
  BY DEF CatalogInv
<1>2. /\ Len(truth) \in Nat /\ Len(truth) >= 1 /\ now = 2 * Len(truth) /\ now \in Nat /\ now < Never
      /\ server = truth[Len(truth)] /\ Never = 2 * MaxStatements + 4 /\ MaxStatements \in Nat
  BY <1>1, NowFacts
<1>3. get(n, 2 * Len(truth) - 1) = server.defs[n]
  BY <1>1, <1>2 DEF DefinitionAtOffset
<1>4. 2 * Len(truth) - 1 \in Nat /\ now <= 2 * Len(truth) - 1 + 1
  BY <1>2
<1> QED BY <1>1, <1>3, <1>4, CurrentGet

\* Which tables a statement leads astray.
LEMMA FollowsFacts ==
    ASSUME CatalogTypes, NEW names, NEW ok, follows(names, ok)
    PROVE  /\ astray' \in [Names -> Nat]
           /\ \A n \in Names : astray'[n] = astray[n] \/ (astray[n] = Never /\ astray'[n] = now)
           /\ \A n \in Names : n \in names /\ astray'[n] = Never =>
                ok /\ \A x \in names : astray[x] = Never
<1>1. now \in Nat /\ now < Never /\ Never \in Nat /\ astray \in [Names -> Nat]
  BY NowFacts DEF CatalogTypes
<1>2. \A n \in Names : astray'[n] =
        IF n \in names /\ astray[n] = Never /\ (~ok \/ \E x \in names : astray[x] # Never)
        THEN now ELSE astray[n]
  BY DEF follows
<1>3. astray' \in [Names -> Nat]
  BY <1>1 DEF follows
<1>4. now # Never
  BY <1>1
<1> QED BY <1>2, <1>3, <1>4

\* A statement about tables.
LEMMA TableStep ==
    ASSUME CatalogInv, Len(truth) <= MaxStatements, dbLines' = dbLines,
           NEW F \in [Names -> Meta], carriedOut(server.dbs, F),
           NEW S \in SUBSET Names, NEW m \in [Names -> Meta], Changed(tableLines', S, m),
           \A n \in S : curDb(n[1]) # NoMeta,
           astray' \in [Names -> Nat],
           \A n \in Names : astray'[n] = astray[n] \/ (astray[n] = Never /\ astray'[n] = now),
           \A n \in Names : astray'[n] = Never =>
               F[n] = IF n \in S THEN m[n] ELSE server.defs[n]
    PROVE  CatalogInv'
<1>1. CatalogTypes /\ LinesOK /\ DbsOK
  BY DEF CatalogInv
<1>2. now \in Nat /\ Even(now) /\ server.dbs \in SUBSET Dbs /\ now < Never
  BY <1>1, NowFacts
<1>3. \A d \in Dbs : curDb(d)' = curDb(d)
  BY <1>1 DEF curDb
<1>z. ASSUME NEW n \in Names, astray'[n] = Never, n[1] \in server.dbs
      PROVE  curDb(n[1])' # NoMeta
  <2>1. astray[n] = Never /\ n[1] \in Dbs
    BY <1>2, <1>z DEF Names
  <2> QED BY <1>1, <1>3, <1>z, <2>1 DEF DbsOK
<1>4. dbLines' \in [Dbs -> Seq(Version)] /\ \A d \in Dbs : Grows(dbLines[d], dbLines'[d], {NoMeta, now})
  BY <1>1 DEF CatalogTypes, Grows
<1>5. tableLines' \in [Dbs \X Versions -> [Tables -> Seq(Version)]]
  BY DEF Changed
<1>6. ASSUME NEW d \in Dbs, NEW v \in Versions, NEW t \in Tables
      PROVE  /\ Grows(tableLines[<<d, v>>][t], tableLines'[<<d, v>>][t], Meta)
             /\ v >= now => tableLines'[<<d, v>>][t] = tableLines[<<d, v>>][t]
  <2>1. tableLines'[<<d, v>>][t] = IF <<d, t>> \in S /\ v = curDb(d)
                                   THEN timelinePut(tableLines[<<d, v>>][t], m[<<d, t>>], now)
                                   ELSE tableLines[<<d, v>>][t]
    BY DEF Changed
  <2>2. m[<<d, t>>] \in Meta
    BY DEF Names
  <2>3. v \in Nat /\ NoMeta \notin Nat /\ (curDb(d) = NoMeta \/ curDb(d) < now)
    BY <1>1, CurrentDb, CatalogAssumption DEF Versions
  <2>4. v >= now => v # curDb(d)
    BY <1>2, <2>3
  <2> QED BY <2>1, <2>2, <2>4 DEF Grows
<1>7. ASSUME NEW n \in Names, astray'[n] = Never
      PROVE  curIn(tableLines, n)' = F[n]
  <2>1. n[1] \in Dbs /\ n[2] \in Tables /\ n = <<n[1], n[2]>>
    BY DEF Names
  <2>2. astray[n] = Never
    BY <1>2, <1>7
  <2>3. curIn(tableLines, n) = server.defs[n]
    BY <2>2, Followed
  <2>4. CASE curDb(n[1]) = NoMeta
    BY <1>3, <1>7, <2>1, <2>3, <2>4 DEF curIn
  <2>5. CASE curDb(n[1]) # NoMeta
    <3> DEFINE v == curDb(n[1])
               s == tableLines[<<n[1], v>>][n[2]]
               t == tableLines'[<<n[1], v>>][n[2]]
    <3>1. v \in Versions /\ Line(s, now)
      BY <1>1, <2>1, <2>5, CurrentDb DEF LinesOK
    <3>2. t = IF n \in S THEN timelinePut(s, m[n], now) ELSE s
      BY <2>1, <3>1 DEF Changed
    <3>3. curIn(tableLines, n)' = newest(t)
      BY <1>3, <2>1, <2>5 DEF curIn
    <3>4. newest(s) = server.defs[n]
      BY <2>3, <2>5 DEF curIn
    <3>5. m[n] \in Meta
      OBVIOUS
    <3> HIDE DEF s, t, v
    <3>6. newest(timelinePut(s, m[n], now)) = m[n]
      BY ONLY <1>2, <3>1, <3>5, PutNewest
    <3> QED BY <1>7, <3>2, <3>3, <3>4, <3>6
  <2> QED BY <2>4, <2>5
<1>8. carriedOut(server.dbs, F) /\ F \in [Names -> Meta] /\ server.dbs \in SUBSET Dbs
  BY <1>2
<1>9. \A n \in Names : astray'[n] = astray[n] \/ (astray[n] = Never /\ astray'[n] = now)
  OBVIOUS
<1>10. astray' \in [Names -> Nat] /\ \A n \in Names : astray'[n] = Never /\ n[1] \in server.dbs => curDb(n[1])' # NoMeta
  BY <1>z
<1> QED BY ONLY CatalogInv, Len(truth) <= MaxStatements, <1>4, <1>5, <1>6, <1>7, <1>8, <1>9, <1>10,
                StatementStep

\* What TableStep asks of a statement, as one formula.
Rewritten(F, S, m) ==
    /\ dbLines' = dbLines /\ carriedOut(server.dbs, F)
    /\ F \in [Names -> Meta] /\ m \in [Names -> Meta] /\ S \in SUBSET Names
    /\ Changed(tableLines', S, m)
    /\ \A n \in S : curDb(n[1]) # NoMeta
    /\ astray' \in [Names -> Nat]
    /\ \A n \in Names : astray'[n] = astray[n] \/ (astray[n] = Never /\ astray'[n] = now)
    /\ \A n \in Names : astray'[n] = Never => F[n] = IF n \in S THEN m[n] ELSE server.defs[n]

LEMMA RewrittenStep ==
    ASSUME CatalogInv, Len(truth) <= MaxStatements, NEW F, NEW S, NEW m, Rewritten(F, S, m)
    PROVE  CatalogInv'
  BY TableStep DEF Rewritten

-----------------------------------------------------------------------------
\* The statements, one by one.
LEMMA CreateDatabaseStep ==
    ASSUME CatalogInv, Len(truth) <= MaxStatements, NEW d \in Dbs, createDatabase(d)
    PROVE  CatalogInv'
<1>1. CatalogTypes /\ LinesOK /\ DbsOK
  BY DEF CatalogInv
<1>2. /\ now \in Nat /\ Even(now) /\ server.dbs \in SUBSET Dbs /\ server.defs \in [Names -> Meta]
      /\ now \in Meta /\ now \in Versions /\ NoMeta \notin Nat /\ now < Never
  <2>1. Len(truth) \in 0 .. MaxStatements
    BY <1>1, NowFacts
  <2>2. now \in Versions
    BY <2>1 DEF now, Versions
  <2> QED BY <1>1, <2>2, NowFacts, CatalogAssumption DEF Meta
<1>3. /\ d \notin server.dbs /\ carriedOut(server.dbs \cup {d}, server.defs)
      /\ tableLines' = tableLines /\ astray' = astray
      /\ dbLines' = IF curDb(d) # NoMeta THEN dbLines
                    ELSE [dbLines EXCEPT ![d] = timelinePut(@, now, now)]
  <2>1. dbAt(d, now) = curDb(d)
    BY <1>1, <1>2, CurrentDb
  <2> QED BY <2>1 DEF createDatabase
<1>4. /\ Line(dbLines[d], now) /\ timelinePut(dbLines[d], now, now) \in Seq(Version)
      /\ newest(timelinePut(dbLines[d], now, now)) = now
  <2>1. Line(dbLines[d], now)
    BY <1>1 DEF LinesOK
  <2>2. now \in Nat /\ Even(now) /\ now \in Meta
    BY <1>2
  <2>3. /\ Line(timelinePut(dbLines[d], now, now), now + 2)
        /\ newest(timelinePut(dbLines[d], now, now)) = now
    BY ONLY <2>1, <2>2, PutNewest
  <2> QED BY <2>1, <2>3 DEF Line
<1>5. dbLines \in [Dbs -> Seq(Version)]
  BY <1>1 DEF CatalogTypes
<1> DEFINE new == timelinePut(dbLines[d], now, now)
<1>6. /\ dbLines' \in [Dbs -> Seq(Version)]
      /\ dbLines'[d] = IF curDb(d) # NoMeta THEN dbLines[d] ELSE new
      /\ \A e \in Dbs : e # d => dbLines'[e] = dbLines[e]
  BY <1>3, <1>4, <1>5
<1>7. \A e \in Dbs : Grows(dbLines[e], dbLines'[e], {NoMeta, now})
  BY <1>6 DEF Grows
<1>8. curDb(d)' = (IF curDb(d) # NoMeta THEN curDb(d) ELSE now) /\ \A e \in Dbs : e # d => curDb(e)' = curDb(e)
  BY <1>4, <1>6 DEF curDb
<1>9. \A n \in Names : astray'[n] = Never /\ n[1] \in server.dbs \cup {d} => curDb(n[1])' # NoMeta
  <2> TAKE n \in Names
  <2> HAVE astray'[n] = Never /\ n[1] \in server.dbs \cup {d}
  <2>1. n[1] \in Dbs /\ astray[n] = Never
    BY <1>3 DEF Names
  <2>2. CASE n[1] = d
    BY <1>2, <1>8, <2>2
  <2>3. CASE n[1] # d
    BY <1>1, <1>8, <2>1, <2>3 DEF DbsOK
  <2> QED BY <2>2, <2>3
<1>10. /\ tableLines' \in [Dbs \X Versions -> [Tables -> Seq(Version)]]
       /\ \A e \in Dbs, v \in Versions, t \in Tables :
            /\ Grows(tableLines[<<e, v>>][t], tableLines'[<<e, v>>][t], Meta)
            /\ v >= now => tableLines'[<<e, v>>][t] = tableLines[<<e, v>>][t]
  BY <1>1, <1>3 DEF CatalogTypes, Grows
<1>11. ASSUME NEW n \in Names, astray'[n] = Never
       PROVE  curIn(tableLines, n)' = server.defs[n]
  <2>1. n[1] \in Dbs /\ n[2] \in Tables
    BY DEF Names
  <2>2. curIn(tableLines, n) = server.defs[n]
    BY <1>3, <1>11, Followed
  <2>3. CASE n[1] # d \/ curDb(d) # NoMeta
    BY <1>3, <1>8, <2>1, <2>2, <2>3 DEF curIn
  <2>4. CASE n[1] = d /\ curDb(d) = NoMeta
    <3>2. server.defs[n] = NoMeta
      BY <2>2, <2>4 DEF curIn
    <3>3. tableLines'[<<d, now>>][n[2]] = <<>>
      BY <1>1, <1>2, <1>3, <2>1 DEF LinesOK
    <3> QED BY <1>2, <1>8, <2>4, <3>2, <3>3 DEF curIn, newest
  <2> QED BY <2>3, <2>4
<1>12. astray' \in [Names -> Nat] /\ server.dbs \cup {d} \in SUBSET Dbs
  BY <1>1, <1>2, <1>3 DEF CatalogTypes
<1>13. \A n \in Names : astray'[n] = astray[n] \/ (astray[n] = Never /\ astray'[n] = now)
  BY <1>3
<1> DEFINE D == server.dbs \cup {d}
<1>14. /\ D \in SUBSET Dbs /\ carriedOut(D, server.defs)
       /\ \A n \in Names : astray'[n] = Never /\ n[1] \in D => curDb(n[1])' # NoMeta
  BY <1>3, <1>9, <1>12
<1>15. server.defs \in [Names -> Meta] /\ astray' \in [Names -> Nat]
  BY <1>2, <1>12
<1>16. dbLines' \in [Dbs -> Seq(Version)]
  BY <1>6
<1> HIDE DEF D
<1> QED BY ONLY CatalogInv, Len(truth) <= MaxStatements, <1>7, <1>10, <1>11, <1>13, <1>14, <1>15,
                <1>16, StatementStep

LEMMA DropDatabaseStep ==
    ASSUME CatalogInv, Len(truth) <= MaxStatements, NEW d \in Dbs, dropDatabase(d)
    PROVE  CatalogInv'
<1>1. CatalogTypes /\ LinesOK /\ DbsOK
  BY DEF CatalogInv
<1>2. /\ now \in Nat /\ Even(now) /\ server.dbs \in SUBSET Dbs /\ server.defs \in [Names -> Meta]
      /\ NoMeta \in Meta
  BY <1>1, NowFacts DEF Meta
<1> DEFINE F == [n \in Names |-> IF n[1] = d THEN NoMeta ELSE server.defs[n]]
           new == timelinePut(dbLines[d], NoMeta, now)
<1>3. /\ d \in server.dbs /\ carriedOut(server.dbs \ {d}, F)
      /\ tableLines' = tableLines /\ astray' = astray
      /\ dbLines' = IF dbLines[d] = <<>> THEN dbLines ELSE [dbLines EXCEPT ![d] = new]
  BY DEF dropDatabase
<1>4. new \in Seq(Version) /\ newest(new) = NoMeta
  <2>1. Line(dbLines[d], now)
    BY <1>1 DEF LinesOK
  <2>2. Line(new, now + 2) /\ newest(new) = NoMeta
    BY ONLY <1>2, <2>1, PutNewest
  <2> QED BY <2>2 DEF Line
<1>5. dbLines \in [Dbs -> Seq(Version)]
  BY <1>1 DEF CatalogTypes
<1>6. /\ dbLines' \in [Dbs -> Seq(Version)]
      /\ dbLines'[d] = IF dbLines[d] = <<>> THEN <<>> ELSE new
      /\ \A e \in Dbs : e # d => dbLines'[e] = dbLines[e]
  BY <1>3, <1>4, <1>5
<1>7. \A e \in Dbs : Grows(dbLines[e], dbLines'[e], {NoMeta, now})
  BY <1>6 DEF Grows
<1>8. curDb(d)' = NoMeta /\ \A e \in Dbs : e # d => curDb(e)' = curDb(e)
  BY <1>4, <1>6 DEF curDb, newest
<1>9. \A n \in Names : astray'[n] = Never /\ n[1] \in server.dbs \ {d} => curDb(n[1])' # NoMeta
  BY <1>1, <1>3, <1>8 DEF DbsOK, Names
<1>10. /\ tableLines' \in [Dbs \X Versions -> [Tables -> Seq(Version)]]
       /\ \A e \in Dbs, v \in Versions, t \in Tables :
            /\ Grows(tableLines[<<e, v>>][t], tableLines'[<<e, v>>][t], Meta)
            /\ v >= now => tableLines'[<<e, v>>][t] = tableLines[<<e, v>>][t]
  BY <1>1, <1>3 DEF CatalogTypes, Grows
<1>11. ASSUME NEW n \in Names, astray'[n] = Never
       PROVE  curIn(tableLines, n)' = F[n]
  <2>1. n[1] \in Dbs /\ curIn(tableLines, n) = server.defs[n]
    BY <1>3, <1>11, Followed DEF Names
  <2>2. CASE n[1] # d
    BY <1>3, <1>8, <2>1, <2>2 DEF curIn
  <2>3. CASE n[1] = d
    BY <1>8, <2>3 DEF curIn
  <2> QED BY <2>2, <2>3
<1>12. F \in [Names -> Meta]
  BY <1>2
<1>13. astray' \in [Names -> Nat] /\ server.dbs \ {d} \in SUBSET Dbs
  BY <1>1, <1>2, <1>3 DEF CatalogTypes
<1>14. \A n \in Names : astray'[n] = astray[n] \/ (astray[n] = Never /\ astray'[n] = now)
  BY <1>3
<1> DEFINE D == server.dbs \ {d}
<1>15. /\ D \in SUBSET Dbs /\ carriedOut(D, F)
       /\ \A n \in Names : astray'[n] = Never /\ n[1] \in D => curDb(n[1])' # NoMeta
  BY <1>3, <1>9, <1>13
<1>16. dbLines' \in [Dbs -> Seq(Version)] /\ astray' \in [Names -> Nat]
  BY <1>6, <1>13
<1> HIDE DEF D, F
<1> QED BY ONLY CatalogInv, Len(truth) <= MaxStatements, <1>7, <1>10, <1>11, <1>12, <1>14, <1>15,
                <1>16, StatementStep

\* Before a statement nothing is put.
NothingPut == [n \in Names |-> NoMeta]

LEMMA Unchanged ==
    ASSUME CatalogTypes
    PROVE  NothingPut \in [Names -> Meta] /\ Changed(tableLines, {}, NothingPut)
  BY DEF NothingPut, Changed, CatalogTypes, Meta

\* What a statement about tables begins with.
LEMMA TableFacts ==
    ASSUME CatalogInv
    PROVE  /\ CatalogTypes /\ LinesOK /\ now \in Nat /\ now \in Meta /\ NoMeta \in Meta
           /\ NoMeta \notin Nat /\ server.defs \in [Names -> Meta] /\ now < Never
           /\ \A n \in Names :
                /\ n[1] \in Dbs
                /\ astray[n] = Never /\ n[1] \in server.dbs => curDb(n[1]) # NoMeta
                /\ get(n, now) = curIn(tableLines, n) /\ get(n, Newest) = curIn(tableLines, n)
                /\ dbAt(n[1], now) = curDb(n[1]) /\ dbAt(n[1], Newest) = curDb(n[1])
                /\ curIn(tableLines, n) # NoMeta => curDb(n[1]) # NoMeta
                /\ curIn(tableLines, n) \in Meta
<1>1. CatalogTypes /\ LinesOK /\ DbsOK
  BY DEF CatalogInv
<1>2. /\ now \in Nat /\ now \in Meta /\ NoMeta \in Meta /\ NoMeta \notin Nat
      /\ server.defs \in [Names -> Meta] /\ now < Never /\ server.dbs \subseteq Dbs
      /\ Newest \in Nat /\ now <= now + 1 /\ now <= Newest + 1
  <2>1. /\ now \in Nat /\ MaxStatements \in Nat /\ now < Never /\ Never = 2 * MaxStatements + 4
        /\ Newest = 2 * MaxStatements + 3
    BY <1>1, NowFacts
  <2>2. Newest \in Nat /\ now <= Newest + 1 /\ now <= now + 1
    BY ONLY <2>1
  <2> QED BY <1>1, <2>1, <2>2, NowFacts, CatalogAssumption DEF Meta
<1>3. \A n \in Names : astray[n] = Never /\ n[1] \in server.dbs => curDb(n[1]) # NoMeta
  BY <1>1 DEF DbsOK
<1>4. ASSUME NEW n \in Names
      PROVE  /\ n[1] \in Dbs
             /\ get(n, now) = curIn(tableLines, n) /\ get(n, Newest) = curIn(tableLines, n)
             /\ dbAt(n[1], now) = curDb(n[1]) /\ dbAt(n[1], Newest) = curDb(n[1])
             /\ curIn(tableLines, n) # NoMeta => curDb(n[1]) # NoMeta
             /\ curIn(tableLines, n) \in Meta
  <2>1. n[1] \in Dbs
    BY DEF Names
  <2>2. curIn(tableLines, n) # NoMeta => curDb(n[1]) # NoMeta
    BY DEF curIn
  <2>3. /\ get(n, now) = curIn(tableLines, n) /\ get(n, Newest) = curIn(tableLines, n)
        /\ curIn(tableLines, n) \in Meta
    BY <1>1, <1>2, CurrentGet
  <2>4. dbAt(n[1], now) = curDb(n[1]) /\ dbAt(n[1], Newest) = curDb(n[1])
    BY <1>1, <1>2, <2>1, CurrentDb
  <2> QED BY <2>1, <2>2, <2>3, <2>4
<1> QED BY <1>1, <1>2, <1>3, <1>4

LEMMA CreateTableStep ==
    ASSUME CatalogInv, Len(truth) <= MaxStatements, NEW n \in Names, NEW ok \in BOOLEAN,
           createTable(n, ok)
    PROVE  CatalogInv'
<1>1. /\ CatalogTypes /\ LinesOK /\ now \in Meta /\ server.defs \in [Names -> Meta]
      /\ dbAt(n[1], now) = curDb(n[1])
      /\ astray[n] = Never /\ n[1] \in server.dbs => curDb(n[1]) # NoMeta
  BY TableFacts
<1> DEFINE F == [server.defs EXCEPT ![n] = IF exists(n) THEN @ ELSE now]
           good == ok /\ ~exists(n)
           skip == ~ok \/ curDb(n[1]) = NoMeta
<1>2. n[1] \in server.dbs
  BY DEF createTable
<1>3. /\ carriedOut(server.dbs, F) /\ follows({n}, good) /\ dbLines' = dbLines
      /\ tableLines' = IF skip THEN tableLines ELSE put(tableLines, n, now, now)
  BY <1>1 DEF createTable, put
<1>5. /\ astray' \in [Names -> Nat]
      /\ \A x \in Names : astray'[x] = astray[x] \/ (astray[x] = Never /\ astray'[x] = now)
      /\ astray'[n] = Never => ok /\ ~exists(n) /\ astray[n] = Never
  <2>1. n \in {n}
    OBVIOUS
  <2> QED BY <1>1, <1>3, <2>1, FollowsFacts
<1>6. /\ F \in [Names -> Meta]
      /\ (~exists(n) => F[n] = now) /\ \A x \in Names : x # n => F[x] = server.defs[x]
  BY <1>1
<1> HIDE DEF F
<1>7. CASE skip
  <2> DEFINE S == {}
             m == NothingPut
  <2>1. Changed(tableLines', S, m) /\ m \in [Names -> Meta] /\ S \in SUBSET Names
    BY <1>1, <1>3, <1>7, Unchanged
  <2>2. astray'[n] # Never
    BY <1>1, <1>2, <1>5, <1>7
  <2>3. \A x \in Names : astray'[x] = Never => F[x] = IF x \in S THEN m[x] ELSE server.defs[x]
    BY <1>6, <2>2
  <2>4. \A x \in S : curDb(x[1]) # NoMeta
    OBVIOUS
  <2> HIDE DEF S, m
  <2>z. Rewritten(F, S, m)
    BY <1>3, <1>5, <1>6, <2>1, <2>3, <2>4 DEF Rewritten
  <2> QED BY <2>z, RewrittenStep
<1>8. CASE ~skip
  <2> DEFINE S == {n}
             m == [NothingPut EXCEPT ![n] = now]
  <2>1. Changed(tableLines', {} \cup {n}, m)
    BY <1>1, <1>3, <1>8, Unchanged, ChangedMore
  <2>2. m \in [Names -> Meta] /\ m[n] = now
    BY <1>1, Unchanged
  <2>3. Changed(tableLines', S, m) /\ S \in SUBSET Names /\ \A x \in S : curDb(x[1]) # NoMeta
    BY <1>8, <2>1
  <2>4. \A x \in Names : astray'[x] = Never => F[x] = IF x \in S THEN m[x] ELSE server.defs[x]
    BY <1>5, <1>6, <2>2
  <2> HIDE DEF S, m
  <2>z. Rewritten(F, S, m)
    BY <1>3, <1>5, <1>6, <2>2, <2>3, <2>4 DEF Rewritten
  <2> QED BY <2>z, RewrittenStep
<1> QED BY <1>7, <1>8

LEMMA CreateTableLikeStep ==
    ASSUME CatalogInv, Len(truth) <= MaxStatements, NEW src \in Names, NEW dst \in Names,
           createTableLike(src, dst)
    PROVE  CatalogInv'
<1>1. /\ CatalogTypes /\ LinesOK /\ server.defs \in [Names -> Meta]
      /\ get(src, now) = curIn(tableLines, src) /\ get(dst, now) = curIn(tableLines, dst)
      /\ curIn(tableLines, src) \in Meta /\ dbAt(dst[1], now) = curDb(dst[1])
      /\ astray[dst] = Never /\ dst[1] \in server.dbs => curDb(dst[1]) # NoMeta
  BY TableFacts
<1> DEFINE F == [server.defs EXCEPT ![dst] = IF exists(dst) THEN @ ELSE server.defs[src]]
           new == curIn(tableLines, src)
           skip == \/ curIn(tableLines, src) = NoMeta \/ curIn(tableLines, dst) # NoMeta
                   \/ curDb(dst[1]) = NoMeta
<1>2. dst[1] \in server.dbs /\ exists(src)
  BY DEF createTableLike
<1>3. /\ carriedOut(server.dbs, F) /\ follows({src, dst}, TRUE) /\ dbLines' = dbLines
      /\ tableLines' = IF skip THEN tableLines ELSE put(tableLines, dst, new, now)
  BY <1>1 DEF createTableLike, put
<1>4. /\ astray' \in [Names -> Nat]
      /\ \A x \in Names : astray'[x] = astray[x] \/ (astray[x] = Never /\ astray'[x] = now)
      /\ \A x \in {src, dst} : astray'[x] = Never => astray[src] = Never /\ astray[dst] = Never
  BY <1>1, <1>3, FollowsFacts
<1>5. astray'[dst] = Never =>
        curIn(tableLines, src) = server.defs[src] /\ curIn(tableLines, dst) = server.defs[dst]
  BY <1>4, Followed
<1>6. /\ F \in [Names -> Meta] /\ F[dst] = IF exists(dst) THEN server.defs[dst] ELSE server.defs[src]
      /\ \A x \in Names : x # dst => F[x] = server.defs[x]
  BY <1>1
<1>7. CASE skip
  <2> DEFINE S == {}
             m == NothingPut
  <2>1. Changed(tableLines', S, m) /\ m \in [Names -> Meta] /\ S \in SUBSET Names
    BY <1>1, <1>3, <1>7, Unchanged
  <2>2. astray'[dst] = Never => exists(dst)
    <3>1. astray'[dst] = Never => curDb(dst[1]) # NoMeta
      BY <1>1, <1>2, <1>4
    <3> QED BY <1>2, <1>5, <1>7, <3>1 DEF exists
  <2>3. \A x \in Names : astray'[x] = Never => F[x] = IF x \in S THEN m[x] ELSE server.defs[x]
    BY <1>6, <2>2
  <2>4. \A x \in S : curDb(x[1]) # NoMeta
    OBVIOUS
  <2> HIDE DEF F, S, m
  <2>z. Rewritten(F, S, m)
    BY <1>3, <1>4, <1>6, <2>1, <2>3, <2>4 DEF Rewritten
  <2> QED BY <2>z, RewrittenStep
<1>8. CASE ~skip
  <2> DEFINE S == {dst}
             m == [NothingPut EXCEPT ![dst] = new]
  <2>1. Changed(tableLines', {} \cup {dst}, m)
    <3>1. tableLines' = put(tableLines, dst, new, now) /\ new \in Meta
      BY <1>1, <1>3, <1>8
    <3> HIDE DEF new
    <3>2. curDb(dst[1]) # NoMeta
      BY <1>8
    <3> QED BY <1>1, <3>1, <3>2, Unchanged, ChangedMore
  <2>2. m \in [Names -> Meta] /\ m[dst] = new
    BY <1>1, Unchanged
  <2>3. Changed(tableLines', S, m) /\ S \in SUBSET Names /\ \A x \in S : curDb(x[1]) # NoMeta
    BY <1>8, <2>1
  <2>4. astray'[dst] = Never => F[dst] = new
    BY <1>5, <1>6, <1>8 DEF exists
  <2>5. \A x \in Names : astray'[x] = Never => F[x] = IF x \in S THEN m[x] ELSE server.defs[x]
    BY <1>6, <2>2, <2>4
  <2> HIDE DEF F, S, m
  <2>z. Rewritten(F, S, m)
    BY <1>3, <1>4, <1>6, <2>2, <2>3, <2>5 DEF Rewritten
  <2> QED BY <2>z, RewrittenStep
<1> QED BY <1>7, <1>8

LEMMA DropTableStep ==
    ASSUME CatalogInv, Len(truth) <= MaxStatements, NEW n \in Names, NEW o \in Names,
           dropTable(n, o)
    PROVE  CatalogInv'
<1>1. /\ CatalogTypes /\ LinesOK /\ server.defs \in [Names -> Meta] /\ NoMeta \in Meta
      /\ \A x \in Names : /\ get(x, now) = curIn(tableLines, x)
                          /\ curIn(tableLines, x) # NoMeta => curDb(x[1]) # NoMeta
  BY TableFacts
<1> DEFINE F == [server.defs EXCEPT ![n] = NoMeta, ![o] = NoMeta]
           hit(x) == IF curIn(tableLines, x) = NoMeta THEN {} ELSE {x}
           m == NothingPut
<1>2. /\ carriedOut(server.dbs, F) /\ dbLines' = dbLines /\ astray' = astray
      /\ exists(n) /\ exists(o)
      /\ tableLines' = IF n = o THEN dropped(tableLines, n)
                       ELSE dropped(dropped(tableLines, n), o)
  BY DEF dropTable
<1>3. m \in [Names -> Meta] /\ \A x \in Names : m[x] = NoMeta
  BY <1>1, Unchanged DEF NothingPut
<1>4. ASSUME NEW lines, NEW S, Changed(lines, S, m), NEW x \in Names, x \notin S
      PROVE  Changed(dropped(lines, x), S \cup hit(x), m)
  <2>1. CASE curIn(tableLines, x) = NoMeta
    BY <1>1, <1>4, <2>1 DEF dropped
  <2>2. CASE curIn(tableLines, x) # NoMeta
    <3>1. dropped(lines, x) = put(lines, x, NoMeta, now) /\ curDb(x[1]) # NoMeta
      BY <1>1, <2>2 DEF dropped
    <3>2. [m EXCEPT ![x] = NoMeta] = m
      BY <1>3
    <3>3. Changed(put(lines, x, NoMeta, now), S \cup {x}, [m EXCEPT ![x] = NoMeta])
      BY <1>1, <1>3, <1>4, <3>1, ChangedMore
    <3> QED BY <2>2, <3>1, <3>2, <3>3
  <2> QED BY <2>1, <2>2
<1> DEFINE S == hit(n) \cup hit(o)
<1>5. Changed(dropped(tableLines, n), {} \cup hit(n), m)
  BY <1>1, <1>4, Unchanged
<1>6. Changed(tableLines', S, m)
  <2>1. CASE n = o
    BY <1>2, <1>5, <2>1
  <2>2. CASE n # o
    <3>1. o \notin {} \cup hit(n) /\ ({} \cup hit(n)) \cup hit(o) = S
      BY <2>2
    <3> HIDE DEF hit, S
    <3>2. Changed(dropped(dropped(tableLines, n), o), ({} \cup hit(n)) \cup hit(o), m)
      BY <1>4, <1>5, <3>1
    <3> QED BY <1>2, <2>2, <3>1, <3>2
  <2> QED BY <2>1, <2>2
<1>7. /\ S \in SUBSET Names /\ \A x \in S : curDb(x[1]) # NoMeta
      /\ S \subseteq {n, o} /\ \A x \in {n, o} : curIn(tableLines, x) # NoMeta => x \in S
  BY <1>1
<1>8. /\ F \in [Names -> Meta] /\ F[n] = NoMeta /\ F[o] = NoMeta
      /\ \A x \in Names : x # n /\ x # o => F[x] = server.defs[x]
  BY <1>1
<1>9. astray' \in [Names -> Nat]
      /\ \A x \in Names : astray'[x] = astray[x] \/ (astray[x] = Never /\ astray'[x] = now)
  BY <1>1, <1>2 DEF CatalogTypes
<1>10. ASSUME NEW x \in Names, astray'[x] = Never
       PROVE  F[x] = IF x \in S THEN m[x] ELSE server.defs[x]
  <2>1. curIn(tableLines, x) = server.defs[x]
    BY <1>2, <1>10, Followed
  <2>2. CASE x \in {n, o}
    <3>1. x \in S
      BY <1>2, <1>7, <2>1, <2>2 DEF exists
    <3> QED BY <1>3, <1>8, <2>2, <3>1
  <2>3. CASE x \notin {n, o}
    BY <1>7, <1>8, <2>3
  <2> QED BY <2>2, <2>3
<1> HIDE DEF F, S, m
<1>z. Rewritten(F, S, m)
  BY <1>2, <1>3, <1>6, <1>7, <1>8, <1>9, <1>10 DEF Rewritten
<1> QED BY <1>z, RewrittenStep

LEMMA AlterTableStep ==
    ASSUME CatalogInv, Len(truth) <= MaxStatements, NEW n \in Names, NEW dst \in Names,
           NEW ok \in BOOLEAN, alterTable(n, dst, ok)
    PROVE  CatalogInv'
<1>1. /\ CatalogTypes /\ LinesOK /\ server.defs \in [Names -> Meta] /\ NoMeta \in Meta
      /\ now \in Meta /\ now # NoMeta
      /\ \A x \in Names : /\ get(x, now) = curIn(tableLines, x)
                          /\ dbAt(x[1], now) = curDb(x[1])
                          /\ curIn(tableLines, x) # NoMeta => curDb(x[1]) # NoMeta
                          /\ astray[x] = Never /\ x[1] \in server.dbs => curDb(x[1]) # NoMeta
  BY TableFacts
<1> DEFINE F == [server.defs EXCEPT ![n] = NoMeta, ![dst] = now]
           skip == \/ ~ok \/ curIn(tableLines, n) = NoMeta \/ curDb(dst[1]) = NoMeta
                   \/ (dst # n /\ curIn(tableLines, dst) # NoMeta)
           first == put(tableLines, dst, now, now)
<1>2. /\ dst[1] \in server.dbs /\ exists(n) /\ (dst # n => ~exists(dst))
  BY DEF alterTable
<1>3. /\ carriedOut(server.dbs, F) /\ follows({n, dst}, ok) /\ dbLines' = dbLines
      /\ tableLines' = IF skip THEN tableLines
                       ELSE IF dst = n THEN first ELSE put(first, n, NoMeta, now)
  BY <1>1 DEF alterTable
<1>4. /\ astray' \in [Names -> Nat]
      /\ \A x \in Names : astray'[x] = astray[x] \/ (astray[x] = Never /\ astray'[x] = now)
      /\ \A x \in {n, dst} : astray'[x] = Never =>
           ok /\ astray[n] = Never /\ astray[dst] = Never
  BY <1>1, <1>3, FollowsFacts
<1>5. \A x \in {n, dst} : astray'[x] = Never =>
        curIn(tableLines, n) = server.defs[n] /\ curIn(tableLines, dst) = server.defs[dst]
  BY <1>4, Followed
<1>6. /\ F \in [Names -> Meta] /\ F[dst] = now /\ (dst # n => F[n] = NoMeta)
      /\ \A x \in Names : x \notin {n, dst} => F[x] = server.defs[x]
  BY <1>1
<1>7. CASE skip
  <2> DEFINE S == {}
             m == NothingPut
  <2>1. Changed(tableLines', S, m) /\ m \in [Names -> Meta] /\ S \in SUBSET Names
    BY <1>1, <1>3, <1>7, Unchanged
  <2>2. \A x \in {n, dst} : astray'[x] # Never
    <3>1. \A x \in {n, dst} : astray'[x] = Never => ok /\ curDb(dst[1]) # NoMeta
      BY <1>1, <1>2, <1>4
    <3> QED BY <1>2, <1>5, <1>7, <3>1 DEF exists
  <2>3. \A x \in Names : astray'[x] = Never => F[x] = IF x \in S THEN m[x] ELSE server.defs[x]
    BY <1>6, <2>2
  <2>4. \A x \in S : curDb(x[1]) # NoMeta
    OBVIOUS
  <2> HIDE DEF F, S, m
  <2>z. Rewritten(F, S, m)
    BY <1>3, <1>4, <1>6, <2>1, <2>3, <2>4 DEF Rewritten
  <2> QED BY <2>z, RewrittenStep
<1>8. CASE ~skip
  <2> DEFINE m1 == [NothingPut EXCEPT ![dst] = now]
             m == IF dst = n THEN m1 ELSE [m1 EXCEPT ![n] = NoMeta]
             S == {n, dst}
  <2>1. NothingPut \in [Names -> Meta] /\ Changed(tableLines, {}, NothingPut)
    BY <1>1, Unchanged
  <2>2. m1 \in [Names -> Meta] /\ m1[dst] = now
    BY <1>1, <2>1
  <2>3. Changed(first, {} \cup {dst}, m1)
    <3>1. curDb(dst[1]) # NoMeta
      BY <1>8
    <3> QED BY <1>1, <2>1, <3>1, ChangedMore
  <2> HIDE DEF m1, first
  <2>4. curDb(n[1]) # NoMeta
    BY <1>1, <1>8
  <2>5. Changed(tableLines', S, m)
    <3>1. CASE dst = n
      BY <1>3, <1>8, <2>3, <3>1
    <3>2. CASE dst # n
      <4>1. Changed(put(first, n, NoMeta, now), ({} \cup {dst}) \cup {n}, [m1 EXCEPT ![n] = NoMeta])
        BY <1>1, <2>2, <2>3, <2>4, <3>2, ChangedMore
      <4>2. ({} \cup {dst}) \cup {n} = S
        OBVIOUS
      <4> QED BY <1>3, <1>8, <3>2, <4>1, <4>2
    <3> QED BY <3>1, <3>2
  <2>6. m \in [Names -> Meta] /\ m[dst] = now /\ (dst # n => m[n] = NoMeta)
    BY <1>1, <2>2
  <2>7. S \in SUBSET Names /\ \A x \in S : curDb(x[1]) # NoMeta
    BY <1>8, <2>4
  <2>8. \A x \in Names : astray'[x] = Never => F[x] = IF x \in S THEN m[x] ELSE server.defs[x]
    BY <1>6, <2>6
  <2> HIDE DEF F, S, m
  <2>z. Rewritten(F, S, m)
    BY <1>3, <1>4, <1>6, <2>5, <2>6, <2>7, <2>8 DEF Rewritten
  <2> QED BY <2>z, RewrittenStep
<1> QED BY <1>7, <1>8

\* A table that changes its name.
afterMove(m, p) == [[m EXCEPT ![p[2]] = curIn(tableLines, p[1])] EXCEPT ![p[1]] = NoMeta]

LEMMA ChangedMoved ==
    ASSUME CatalogInv, NEW lines, NEW S, NEW m \in [Names -> Meta], Changed(lines, S, m),
           NEW p \in Names \X Names, p[1] \notin S, p[2] \notin S, p[1] # p[2],
           curDb(p[1][1]) # NoMeta, curDb(p[2][1]) # NoMeta
    PROVE  /\ Changed(moved(lines, p[1], p[2], now), S \cup {p[1], p[2]}, afterMove(m, p))
           /\ afterMove(m, p) \in [Names -> Meta]
           /\ afterMove(m, p)[p[2]] = curIn(tableLines, p[1]) /\ afterMove(m, p)[p[1]] = NoMeta
           /\ \A x \in Names : x \notin {p[1], p[2]} => afterMove(m, p)[x] = m[x]
<1>1. /\ CatalogTypes /\ LinesOK /\ NoMeta \in Meta /\ p[1] \in Names /\ p[2] \in Names
      /\ get(p[1], now) = curIn(tableLines, p[1]) /\ curIn(tableLines, p[1]) \in Meta
  BY TableFacts
<1> DEFINE new == curIn(tableLines, p[1])
           first == put(lines, p[2], new, now)
           m1 == [m EXCEPT ![p[2]] = new]
           mm == [m1 EXCEPT ![p[1]] = NoMeta]
<1>2. m1 \in [Names -> Meta] /\ m1[p[2]] = new /\ \A x \in Names : x # p[2] => m1[x] = m[x]
  BY <1>1
<1>3. Changed(first, S \cup {p[2]}, m1)
  <2>1. new \in Meta
    BY <1>1
  <2> HIDE DEF new
  <2> QED BY <1>1, <2>1, ChangedMore
<1>4. moved(lines, p[1], p[2], now) = put(first, p[1], NoMeta, now)
  BY <1>1 DEF moved
<1> HIDE DEF m1, first, new
<1>5. Changed(put(first, p[1], NoMeta, now), (S \cup {p[2]}) \cup {p[1]}, mm)
  <2>1. p[1] \notin S \cup {p[2]}
    OBVIOUS
  <2> QED BY <1>1, <1>2, <1>3, <2>1, ChangedMore
<1>6. (S \cup {p[2]}) \cup {p[1]} = S \cup {p[1], p[2]}
  OBVIOUS
<1>7. /\ mm \in [Names -> Meta] /\ mm[p[2]] = new /\ mm[p[1]] = NoMeta
      /\ \A x \in Names : x \notin {p[1], p[2]} => mm[x] = m[x]
  BY <1>1, <1>2
<1>8. Changed(moved(lines, p[1], p[2], now), S \cup {p[1], p[2]}, mm)
  BY <1>4, <1>5, <1>6
<1>9. mm = afterMove(m, p)
  BY DEF m1, new, afterMove
<1> QED BY <1>7, <1>8, <1>9 DEF new

\* The renames that pass the tests name different tables.
LEMMA RenameOneStep ==
    ASSUME CatalogInv, Len(truth) <= MaxStatements, NEW p \in Names \X Names, renameTable(<<p>>)
    PROVE  CatalogInv'
<1>1. /\ CatalogTypes /\ LinesOK /\ server.defs \in [Names -> Meta] /\ NoMeta \in Meta
      /\ p[1] \in Names /\ p[2] \in Names
      /\ \A x \in Names : /\ get(x, Newest) = curIn(tableLines, x)
                          /\ dbAt(x[1], Newest) = curDb(x[1])
                          /\ curIn(tableLines, x) # NoMeta => curDb(x[1]) # NoMeta
  BY TableFacts
<1> DEFINE F == renamed(server.defs, p)
           ok == /\ curIn(tableLines, p[1]) # NoMeta /\ curDb(p[2][1]) # NoMeta
                 /\ curIn(tableLines, p[2]) = NoMeta
<1>2. /\ \A i \in DOMAIN <<p>> : <<p>>[i] = p
      /\ DOMAIN <<p>> = {1} /\ Len(<<p>>) = 1
  OBVIOUS
<1>3. renameTo(<<p>>, ok)
  <2>1. (\A i \in DOMAIN <<p>> :
           /\ get(<<p>>[i][1], Newest) # NoMeta
           /\ dbAt(<<p>>[i][2][1], Newest) # NoMeta
           /\ get(<<p>>[i][2], Newest) = NoMeta) = ok
    BY <1>1, <1>2
  <2> HIDE DEF ok
  <2> QED BY <2>1 DEF renameTable
<1> HIDE DEF ok
<1>4. /\ p[1] # p[2] /\ exists(p[1]) /\ ~exists(p[2])
      /\ carriedOut(server.dbs, F) /\ dbLines' = dbLines
      /\ tableLines' = IF ok THEN moved(tableLines, p[1], p[2], now) ELSE tableLines
      /\ follows(UNION {Range(<<p>>[i]) : i \in DOMAIN <<p>>}, ok)
  BY <1>2, <1>3 DEF renameTo, renameAll
<1>5. UNION {Range(<<p>>[i]) : i \in DOMAIN <<p>>} = {p[1], p[2]}
  <2>1. Range(p) = {p[1], p[2]}
    BY DEF Range
  <2> QED BY <1>2, <2>1
<1>6. /\ astray' \in [Names -> Nat]
      /\ \A x \in Names : astray'[x] = astray[x] \/ (astray[x] = Never /\ astray'[x] = now)
      /\ \A x \in {p[1], p[2]} : astray'[x] = Never => ok /\ astray[p[1]] = Never
  BY <1>1, <1>4, <1>5, FollowsFacts
<1>a. /\ astray' \in [Names -> Nat]
      /\ \A x \in Names : astray'[x] = astray[x] \/ (astray[x] = Never /\ astray'[x] = now)
  BY <1>6
<1>7. /\ F \in [Names -> Meta] /\ F[p[2]] = server.defs[p[1]] /\ F[p[1]] = NoMeta
      /\ \A x \in Names : x \notin {p[1], p[2]} => F[x] = server.defs[x]
  BY <1>1, <1>4 DEF renamed
<1> HIDE DEF F
<1>8. CASE ~ok
  <2> DEFINE S == {}
             m == NothingPut
  <2>1. Changed(tableLines', S, m) /\ m \in [Names -> Meta] /\ S \in SUBSET Names
    BY <1>1, <1>4, <1>8, Unchanged
  <2>2. \A x \in Names : astray'[x] = Never => F[x] = IF x \in S THEN m[x] ELSE server.defs[x]
    BY <1>6, <1>7, <1>8
  <2>3. \A x \in S : curDb(x[1]) # NoMeta
    OBVIOUS
  <2> HIDE DEF S, m
  <2>4. carriedOut(server.dbs, F) /\ dbLines' = dbLines /\ F \in [Names -> Meta]
    BY <1>4, <1>7
  <2>z. Rewritten(F, S, m)
    BY ONLY <1>a, <2>1, <2>2, <2>3, <2>4 DEF Rewritten
  <2> QED BY <2>z, RewrittenStep
<1>9. CASE ok
  <2>1. curDb(p[1][1]) # NoMeta /\ curDb(p[2][1]) # NoMeta
    BY <1>1, <1>9 DEF ok
  <2>2. NothingPut \in [Names -> Meta] /\ Changed(tableLines, {}, NothingPut)
    BY <1>1, Unchanged
  <2> DEFINE S == {} \cup {p[1], p[2]}
             m == afterMove(NothingPut, p)
  <2>3. /\ Changed(moved(tableLines, p[1], p[2], now), S, m)
        /\ m \in [Names -> Meta] /\ m[p[2]] = curIn(tableLines, p[1]) /\ m[p[1]] = NoMeta
    <3>1. p[1] # p[2] /\ p[1] \notin {} /\ p[2] \notin {}
      BY <1>4
    <3> QED BY ONLY CatalogInv, p \in Names \X Names, <2>1, <2>2, <3>1, ChangedMoved
  <2>4. S \in SUBSET Names /\ \A x \in S : curDb(x[1]) # NoMeta
    BY <1>1, <2>1
  <2> HIDE DEF m
  <2>5. astray'[p[2]] = Never => m[p[2]] = F[p[2]]
    BY <1>1, <1>6, <1>7, <2>3, Followed
  <2>6. \A x \in Names : astray'[x] = Never => F[x] = IF x \in S THEN m[x] ELSE server.defs[x]
    BY <1>7, <2>3, <2>5
  <2> HIDE DEF S
  <2>7. Changed(tableLines', S, m)
    BY <1>4, <1>9, <2>3
  <2>8. /\ carriedOut(server.dbs, F) /\ dbLines' = dbLines /\ F \in [Names -> Meta]
        /\ m \in [Names -> Meta]
    BY <1>4, <1>7, <2>3
  <2>z. Rewritten(F, S, m)
    BY ONLY <1>a, <2>4, <2>6, <2>7, <2>8 DEF Rewritten
  <2> QED BY <2>z, RewrittenStep
<1> QED BY <1>8, <1>9

LEMMA RenameTwoStep ==
    ASSUME CatalogInv, Len(truth) <= MaxStatements, NEW p \in Names \X Names,
           NEW q \in Names \X Names, renameTable(<<p, q>>)
    PROVE  CatalogInv'
<1>1. /\ CatalogTypes /\ LinesOK /\ server.defs \in [Names -> Meta] /\ NoMeta \in Meta
      /\ p[1] \in Names /\ p[2] \in Names /\ q[1] \in Names /\ q[2] \in Names
      /\ \A x \in Names : /\ get(x, Newest) = curIn(tableLines, x)
                          /\ dbAt(x[1], Newest) = curDb(x[1])
                          /\ curIn(tableLines, x) # NoMeta => curDb(x[1]) # NoMeta
  BY TableFacts
<1> DEFINE F1 == renamed(server.defs, p)
           F == renamed(F1, q)
           pass(x) == /\ curIn(tableLines, x[1]) # NoMeta /\ curDb(x[2][1]) # NoMeta
                      /\ curIn(tableLines, x[2]) = NoMeta
           ok == pass(p) /\ pass(q)
           first == moved(tableLines, p[1], p[2], now)
           names == {p[1], p[2], q[1], q[2]}
<1>2. /\ <<p, q>>[1] = p /\ <<p, q>>[2] = q
      /\ DOMAIN <<p, q>> = {1, 2} /\ Len(<<p, q>>) = 2
  OBVIOUS
<1>3. renameTo(<<p, q>>, ok)
  <2>1. (\A i \in DOMAIN <<p, q>> :
           /\ get(<<p, q>>[i][1], Newest) # NoMeta
           /\ dbAt(<<p, q>>[i][2][1], Newest) # NoMeta
           /\ get(<<p, q>>[i][2], Newest) = NoMeta) = ok
    BY <1>1, <1>2
  <2> HIDE DEF ok
  <2> QED BY <2>1 DEF renameTable
<1> HIDE DEF ok
<1>4. /\ p[1] # p[2] /\ exists(p[1]) /\ ~exists(p[2])
      /\ F1[q[1]] # NoMeta /\ F1[q[2]] = NoMeta
      /\ carriedOut(server.dbs, F) /\ dbLines' = dbLines
      /\ tableLines' = IF ok THEN moved(first, q[1], q[2], now) ELSE tableLines
      /\ follows(UNION {Range(<<p, q>>[i]) : i \in DOMAIN <<p, q>>}, ok)
  BY <1>2, <1>3 DEF renameTo, renameAll
<1>5. UNION {Range(<<p, q>>[i]) : i \in DOMAIN <<p, q>>} = names
  <2>1. Range(p) = {p[1], p[2]} /\ Range(q) = {q[1], q[2]}
    BY DEF Range
  <2>2. UNION {Range(<<p, q>>[i]) : i \in DOMAIN <<p, q>>} = Range(p) \cup Range(q)
    BY <1>2
  <2> QED BY <2>1, <2>2
<1> HIDE DEF names
<1>6. /\ astray' \in [Names -> Nat]
      /\ \A x \in Names : astray'[x] = astray[x] \/ (astray[x] = Never /\ astray'[x] = now)
      /\ \A x \in Names : x \in names /\ astray'[x] = Never =>
           ok /\ \A y \in names : astray[y] = Never
  BY <1>1, <1>4, <1>5, FollowsFacts
<1>a. /\ astray' \in [Names -> Nat]
      /\ \A x \in Names : astray'[x] = astray[x] \/ (astray[x] = Never /\ astray'[x] = now)
  BY <1>6
<1>7. /\ F1 \in [Names -> Meta] /\ F1[p[2]] = server.defs[p[1]] /\ F1[p[1]] = NoMeta
      /\ \A x \in Names : x \notin {p[1], p[2]} => F1[x] = server.defs[x]
  BY <1>1, <1>4 DEF renamed
<1> HIDE DEF F1
<1>8. q[1] # q[2] /\ q[1] # p[1] /\ q[2] # p[2]
  BY <1>4, <1>7 DEF exists
<1>9. /\ F \in [Names -> Meta] /\ F[q[2]] = F1[q[1]] /\ F[q[1]] = NoMeta
      /\ \A x \in Names : x \notin {q[1], q[2]} => F[x] = F1[x]
  BY <1>1, <1>7, <1>8 DEF renamed
<1> HIDE DEF F
<1>10. CASE ~ok
  <2> DEFINE S == {}
             m == NothingPut
  <2>1. Changed(tableLines', S, m) /\ m \in [Names -> Meta] /\ S \in SUBSET Names
    BY <1>1, <1>4, <1>10, Unchanged
  <2>2. \A x \in Names : astray'[x] = Never => F[x] = IF x \in S THEN m[x] ELSE server.defs[x]
    BY <1>6, <1>7, <1>9, <1>10 DEF names
  <2>3. \A x \in S : curDb(x[1]) # NoMeta
    OBVIOUS
  <2> HIDE DEF S, m
  <2>4. carriedOut(server.dbs, F) /\ dbLines' = dbLines /\ F \in [Names -> Meta]
    BY <1>4, <1>9
  <2>z. Rewritten(F, S, m)
    BY ONLY <1>a, <2>1, <2>2, <2>3, <2>4 DEF Rewritten
  <2> QED BY <2>z, RewrittenStep
<1>11. CASE ok
  <2>1. /\ curDb(p[1][1]) # NoMeta /\ curDb(p[2][1]) # NoMeta
        /\ curDb(q[1][1]) # NoMeta /\ curDb(q[2][1]) # NoMeta
        /\ q[1] # p[2] /\ q[2] # p[1]
    BY <1>1, <1>11 DEF ok
  <2>2. NothingPut \in [Names -> Meta] /\ Changed(tableLines, {}, NothingPut)
    BY <1>1, Unchanged
  <2> DEFINE m1 == afterMove(NothingPut, p)
             S1 == {} \cup {p[1], p[2]}
             m == afterMove(m1, q)
             S == S1 \cup {q[1], q[2]}
  <2>3. /\ Changed(first, S1, m1)
        /\ m1 \in [Names -> Meta] /\ m1[p[2]] = curIn(tableLines, p[1]) /\ m1[p[1]] = NoMeta
    <3>1. p[1] # p[2] /\ p[1] \notin {} /\ p[2] \notin {}
      BY <1>4
    <3>2. curDb(p[1][1]) # NoMeta /\ curDb(p[2][1]) # NoMeta
      BY <2>1
    <3> QED BY ONLY CatalogInv, p \in Names \X Names, <2>2, <3>1, <3>2, ChangedMoved
  <2>4. q[1] \notin S1 /\ q[2] \notin S1 /\ S = names
    BY <1>8, <2>1 DEF names
  <2> HIDE DEF m1, S1, first
  <2>5. /\ Changed(moved(first, q[1], q[2], now), S, m)
        /\ m \in [Names -> Meta] /\ m[q[2]] = curIn(tableLines, q[1]) /\ m[q[1]] = NoMeta
        /\ \A x \in Names : x \notin {q[1], q[2]} => m[x] = m1[x]
    <3>1. q[1] # q[2]
      BY <1>8
    <3>2. curDb(q[1][1]) # NoMeta /\ curDb(q[2][1]) # NoMeta
      BY <2>1
    <3>3. q[1] \notin S1 /\ q[2] \notin S1
      BY <2>4
    <3>4. Changed(first, S1, m1) /\ m1 \in [Names -> Meta]
      BY <2>3
    <3> QED BY ONLY CatalogInv, q \in Names \X Names, <3>1, <3>2, <3>3, <3>4, ChangedMoved
  <2> HIDE DEF m, S
  <2>6. m[p[2]] = curIn(tableLines, p[1]) /\ m[p[1]] = NoMeta
    BY <1>1, <1>8, <2>1, <2>3, <2>5
  <2>7. S \in SUBSET Names /\ \A x \in S : curDb(x[1]) # NoMeta
    BY <1>1, <2>1, <2>4 DEF names
  <2>8. /\ F[p[1]] = NoMeta /\ F[q[1]] = NoMeta /\ F[p[2]] = server.defs[p[1]]
        /\ F[q[2]] = server.defs[q[1]]
        /\ \A x \in Names : x \notin names => F[x] = server.defs[x]
    BY <1>1, <1>4, <1>7, <1>8, <1>9, <2>1 DEF names
  <2>9. \A x \in Names : astray'[x] = Never => F[x] = IF x \in S THEN m[x] ELSE server.defs[x]
    <3> TAKE x \in Names
    <3> HAVE astray'[x] = Never
    <3>1. CASE x \in names
      <4>1. astray[p[1]] = Never /\ astray[q[1]] = Never
        BY <1>6, <3>1 DEF names
      <4>2. /\ curIn(tableLines, p[1]) = server.defs[p[1]]
            /\ curIn(tableLines, q[1]) = server.defs[q[1]]
        BY <1>1, <4>1, Followed
      <4> QED BY <2>4, <2>5, <2>6, <2>8, <3>1, <4>2 DEF names
    <3>2. CASE x \notin names
      BY <2>4, <2>8, <3>2
    <3> QED BY <3>1, <3>2
  <2>10. Changed(tableLines', S, m)
    BY <1>4, <1>11, <2>5
  <2>11. /\ carriedOut(server.dbs, F) /\ dbLines' = dbLines /\ F \in [Names -> Meta]
         /\ m \in [Names -> Meta]
    BY <1>4, <1>9, <2>5
  <2>z. Rewritten(F, S, m)
    BY ONLY <1>a, <2>7, <2>9, <2>10, <2>11 DEF Rewritten
  <2> QED BY <2>z, RewrittenStep
<1> QED BY <1>10, <1>11

\* In the beginning the catalog is what initMetaData has put at offset 0.
LEMMA CatalogInvInit == CatalogInit => CatalogInv
<1> SUFFICES ASSUME CatalogInit PROVE CatalogInv
  OBVIOUS
<1> DEFINE at(m) == IF m = NoMeta THEN <<>> ELSE <<[start |-> 0, meta |-> m]>>
           R == [dbs : SUBSET Dbs, defs : [Names -> Meta]]
<1>1. PICK b \in Beginnings :
           /\ truth = <<b[1]>>
           /\ dbLines = [x \in Dbs |-> IF x \in b[2].dbs THEN at(0) ELSE <<>>]
           /\ tableLines = [v \in Dbs \X Versions |->
                [x \in Tables |-> IF v[2] = 0 THEN at(b[2].defs[<<v[1], x>>]) ELSE <<>>]]
           /\ astray = [n \in Names |->
                IF \/ b[2].defs[n] # b[1].defs[n]
                   \/ n[1] \in b[1].dbs /\ n[1] \notin b[2].dbs
                THEN 0 ELSE Never]
  BY DEF CatalogInit, Versions
<1>2. NoMeta \notin Nat /\ MaxStatements \in Nat /\ Never \in Nat /\ 2 < Never
      /\ Never = 2 * MaxStatements + 4 /\ 0 \in Versions
  <2>1. MaxStatements \in Nat /\ NoMeta \notin Nat /\ 0 \in 0 .. MaxStatements
    BY CatalogAssumption
  <2>2. 0 \in Versions
    BY <2>1 DEF Versions
  <2> QED BY <2>1, <2>2 DEF Never, Newest
<1> DEFINE begun == b[1]
           atStart == b[2]
<1>3. /\ begun \in R /\ atStart.defs \in [Names -> Meta]
      /\ \A n \in Names : atStart.defs[n] # NoMeta => n[1] \in atStart.dbs
      /\ \A n \in Names : begun.defs[n] # NoMeta => n[1] \in begun.dbs
  <2>1. begun \in Schemas /\ atStart \in Schemas
    BY CatalogAssumption
  <2>2. {0, 1, NoMeta} \subseteq Meta
    BY DEF Meta
  <2>3. ASSUME NEW x \in Schemas
        PROVE  /\ x \in R /\ x.defs \in [Names -> Meta]
               /\ \A n \in Names : x.defs[n] # NoMeta => n[1] \in x.dbs
    BY <2>2 DEF Schemas
  <2> QED BY <2>1, <2>3
<1>4. truth = <<begun>> /\ \A x \in Dbs : dbLines[x] = IF x \in atStart.dbs THEN at(0) ELSE <<>>
  BY <1>1
<1>a. ASSUME NEW n \in Names
      PROVE  /\ astray[n] \in {0, Never}
             /\ astray[n] # 0 => /\ atStart.defs[n] = begun.defs[n]
                                 /\ n[1] \in begun.dbs => n[1] \in atStart.dbs
  BY <1>1
<1>5. ASSUME NEW x \in Dbs, NEW v \in Versions, NEW y \in Tables
      PROVE  tableLines[<<x, v>>][y] = IF v = 0 THEN at(atStart.defs[<<x, y>>]) ELSE <<>>
  <2> DEFINE w == <<x, v>>
  <2>1. w \in Dbs \X Versions /\ w[1] = x /\ w[2] = v
    OBVIOUS
  <2>2. tableLines = [u \in Dbs \X Versions |->
                       [z \in Tables |-> IF u[2] = 0 THEN at(atStart.defs[<<u[1], z>>]) ELSE <<>>]]
    BY <1>1
  <2> HIDE DEF w, at, atStart
  <2>3. tableLines[w] = [z \in Tables |-> IF w[2] = 0 THEN at(atStart.defs[<<w[1], z>>]) ELSE <<>>]
    BY <2>1, <2>2
  <2> QED BY <2>1, <2>3 DEF w
<1>6. ASSUME NEW m \in Meta
      PROVE  /\ at(m) \in Seq(Version) /\ Line(at(m), 2) /\ newest(at(m)) = m
             /\ \A i \in 1 .. Len(at(m)) : at(m)[i].meta = m
  <2>1. CASE m = NoMeta
    BY <2>1 DEF Line, newest
  <2>2. CASE m # NoMeta
    <3> DEFINE e == [start |-> 0, meta |-> m]
    <3>1. e \in Version /\ e.start = 0 /\ e.meta = m /\ Even(0)
      BY DEF Version, Even
    <3>2. at(m) = <<e>>
      BY <2>2
    <3> HIDE DEF e, at
    <3>3. /\ <<e>> \in Seq(Version) /\ Len(<<e>>) = 1 /\ <<e>>[1] = e /\ <<e>> # <<>>
          /\ Last(<<e>>) = e
      BY <3>1 DEF Last
    <3> QED BY <3>1, <3>2, <3>3 DEF Line, newest
  <2> QED BY <2>1, <2>2
<1>7. at(0) \in Seq(Version) /\ 0 \in Meta /\ <<>> \in Seq(Version) /\ Line(<<>>, 2)
      /\ newest(<<>>) = NoMeta
  BY <1>6 DEF Meta, Line, newest
<1> HIDE DEF R, at
<1>8. truth \in Seq(R) /\ Len(truth) = 1 /\ truth[1] = begun /\ now = 2 /\ server = begun
  BY <1>3, <1>4 DEF now, server, Last
<1>9. CatalogTypes
  <2>1. dbLines \in [Dbs -> Seq(Version)]
    BY <1>1, <1>7
  <2>2. tableLines \in [Dbs \X Versions -> [Tables -> Seq(Version)]]
    <3> DEFINE row(v) == [x \in Tables |-> IF v[2] = 0 THEN at(atStart.defs[<<v[1], x>>]) ELSE <<>>]
    <3>1. tableLines = [v \in Dbs \X Versions |-> row(v)]
      BY <1>1
    <3>2. ASSUME NEW v \in Dbs \X Versions PROVE row(v) \in [Tables -> Seq(Version)]
      <4> SUFFICES ASSUME NEW y \in Tables
                   PROVE  (IF v[2] = 0 THEN at(atStart.defs[<<v[1], y>>]) ELSE <<>>) \in Seq(Version)
        OBVIOUS
      <4>1. <<v[1], y>> \in Names
        BY DEF Names
      <4>2. atStart.defs[<<v[1], y>>] \in Meta
        BY <1>3, <4>1
      <4> QED BY <1>6, <1>7, <4>2
    <3> HIDE DEF row
    <3> QED BY <3>1, <3>2
  <2>3. astray \in [Names -> Nat]
    BY <1>1, <1>2
  <2> QED BY <1>2, <1>8, <2>1, <2>2, <2>3 DEF CatalogTypes, R
<1> HIDE DEF begun, atStart
<1>11. LinesOK
  <2>1. ASSUME NEW x \in Dbs
        PROVE  /\ Line(dbLines[x], now)
               /\ \A i \in 1 .. Len(dbLines[x]) :
                    dbLines[x][i].meta = NoMeta
                    \/ (dbLines[x][i].meta \in Versions /\ dbLines[x][i].meta < now)
    <3>1. CASE x \in atStart.dbs
      <4>1. dbLines[x] = at(0)
        BY <1>4, <3>1
      <4> QED BY <1>2, <1>6, <1>7, <1>8, <4>1
    <3>2. CASE x \notin atStart.dbs
      <4>1. dbLines[x] = <<>>
        BY <1>4, <3>2
      <4> QED BY <1>7, <1>8, <4>1
    <3> QED BY <3>1, <3>2
  <2>2. ASSUME NEW x \in Dbs, NEW v \in Versions, NEW y \in Tables
        PROVE  /\ Line(tableLines[<<x, v>>][y], now)
               /\ v >= now => tableLines[<<x, v>>][y] = <<>>
    <3>1. <<x, y>> \in Names
      BY DEF Names
    <3>2. atStart.defs[<<x, y>>] \in Meta
      BY <1>3, <3>1
    <3> QED BY <1>5, <1>6, <1>7, <1>8, <3>2
  <2> QED BY <2>1, <2>2 DEF LinesOK
<1>12. \A x \in Dbs : curDb(x) = IF x \in atStart.dbs THEN 0 ELSE NoMeta
  BY <1>4, <1>6, <1>7 DEF curDb
<1>13. DbsOK
  <2> SUFFICES ASSUME NEW n \in Names, astray[n] = Never, n[1] \in begun.dbs
               PROVE  curDb(n[1]) # NoMeta
    BY <1>8 DEF DbsOK
  <2>1. n[1] \in Dbs /\ n[1] \in atStart.dbs
    BY <1>2, <1>a DEF Names
  <2> QED BY <1>2, <1>12, <2>1
<1>14. AstrayOK
  BY <1>2, <1>a, <1>8 DEF AstrayOK
<1>15. DefinitionAtOffset
  <2> SUFFICES ASSUME NEW n \in Names, 1 < astray[n] PROVE get(n, 1) = truth[1].defs[n]
    BY <1>8 DEF DefinitionAtOffset
  <2>1. n[1] \in Dbs /\ n[2] \in Tables /\ n = <<n[1], n[2]>>
    BY DEF Names
  <2>2. get(n, 1) = curIn(tableLines, n)
    BY <1>8, <1>9, <1>11, CurrentGet
  <2>3. truth[1].defs[n] = atStart.defs[n]
    <3>1. ~(1 < 0)
      OBVIOUS
    <3>2. astray[n] # 0
      BY <3>1
    <3>3. atStart.defs[n] = begun.defs[n]
      BY <1>a, <3>2
    <3> QED BY <1>8, <3>3
  <2>4. CASE n[1] \notin atStart.dbs
    BY <1>3, <1>12, <2>1, <2>2, <2>3, <2>4 DEF curIn
  <2>5. CASE n[1] \in atStart.dbs
    <3>1. curIn(tableLines, n) = newest(tableLines[<<n[1], 0>>][n[2]])
      BY <1>2, <1>12, <2>1, <2>5 DEF curIn
    <3>2. tableLines[<<n[1], 0>>][n[2]] = at(atStart.defs[n])
      BY <1>2, <1>5, <2>1
    <3>3. atStart.defs[n] \in Meta
      BY <1>3
    <3> QED BY <1>6, <2>2, <2>3, <3>1, <3>2, <3>3
  <2> QED BY <2>4, <2>5
<1> QED BY <1>9, <1>11, <1>13, <1>14, <1>15 DEF CatalogInv

\* Rows at any offset are read with the definition the server had for their table there,
\* for any databases, tables and number of statements and whatever the server's schema has
\* become by the time it is loaded, unless the table has gone astray before (MetaTimeline::get and put, metaDataCollection::get, processDDL).
THEOREM DefinitionTheorem == CatalogSpec => []DefinitionAtOffset
<1>1. CatalogInit => CatalogInv
  BY CatalogInvInit
<1>2. CatalogInv /\ [CatalogNext]_catalogVars => CatalogInv'
  <2> SUFFICES ASSUME CatalogInv, [CatalogNext]_catalogVars PROVE CatalogInv'
    OBVIOUS
  <2>1. CASE CatalogNext
    BY <2>1, CreateDatabaseStep, DropDatabaseStep, CreateTableStep, CreateTableLikeStep,
       AlterTableStep, DropTableStep, RenameOneStep, RenameTwoStep DEF CatalogNext
  <2>2. CASE UNCHANGED catalogVars
    <3>1. now' = now /\ server' = server /\ Never' = Never
      BY <2>2 DEF catalogVars, now, server, Never, Newest
    <3>2. CatalogTypes' /\ LinesOK' /\ AstrayOK'
      BY <2>2, <3>1 DEF catalogVars, CatalogInv, CatalogTypes, LinesOK, AstrayOK
    <3>3. DbsOK'
      BY <2>2, <3>1 DEF catalogVars, CatalogInv, DbsOK, curDb
    <3>4. DefinitionAtOffset'
      BY <2>2 DEF catalogVars, CatalogInv, DefinitionAtOffset, get, dbAt
    <3> QED BY <3>2, <3>3, <3>4 DEF CatalogInv
  <2> QED BY <2>1, <2>2
<1>3. CatalogInv => DefinitionAtOffset
  BY DEF CatalogInv
<1> QED BY <1>1, <1>2, <1>3, PTL DEF CatalogSpec
=============================================================================
