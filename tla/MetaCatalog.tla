---------------------------- MODULE MetaCatalog ----------------------------
(***************************************************************************)
(* The table definitions that rows are read with: metaDataCollection and    *)
(* MetaTimeline (meta/).  Every database and every table has a timeline of  *)
(* versions, each valid from the log offset of the statement that made it;  *)
(* dropping puts a version without definition.  A database version holds    *)
(* the timelines of its tables, so a database that is created again begins  *)
(* empty.                                                                   *)
(*                                                                         *)
(* The log holds the statements the server has carried out, at the offsets  *)
(* 2, 4, ...; rows may be at the odd offsets between them.  A definition is *)
(* named by the offset of the statement that gave the table its columns;    *)
(* 0 and 1 are definitions of statements the log does not show.             *)
(*                                                                         *)
(* The collection does not begin with the definitions of the place the log  *)
(* is read from: start() loads what the server has by then, which may be    *)
(* many statements newer.                                                   *)
(***************************************************************************)
EXTENDS Integers, FiniteSets, Sequences, SequencesExt

CONSTANTS
    Dbs, Tables,     \* names
    NoMeta,          \* no definition: nullptr
    Beginnings,      \* what the server had where the log is read from, with what
                     \* it has when its definitions are loaded
    MaxStatements    \* bound on the statements

Names == Dbs \X Tables

Schemas ==
    {s \in [dbs : SUBSET Dbs, defs : [Names -> {0, 1, NoMeta}]] :
       \A n \in Names : s.defs[n] # NoMeta => n[1] \in s.dbs}

ASSUME CatalogAssumption ==
    /\ MaxStatements \in Nat /\ NoMeta \notin Nat
    /\ Beginnings \subseteq Schemas \X Schemas

VARIABLES
    dbLines,     \* m_dbs: timelines of database versions, named by their offset
    tableLines,  \* tables of each database version: timelines of definitions
    truth,       \* what the server had after each statement, at 1 before the first
    astray       \* offset from which a table's definitions are not followed

catalogVars == <<dbLines, tableLines, truth, astray>>

-----------------------------------------------------------------------------
(* MetaTimeline                                                            *)

\* get: the current version from its own offset on, an older one behind it
timelineGet(line, cp) ==
    IF line = <<>> THEN NoMeta
    ELSE IF Last(line).start <= cp THEN Last(line).meta
    ELSE LET older == {i \in 1 .. Len(line) - 1 : line[i].start < cp}
         IN IF older = {} THEN NoMeta
            ELSE line[CHOOSE i \in older : \A k \in older : k <= i].meta

\* put: offsets increase
timelinePut(line, meta, cp) ==
    IF line # <<>> /\ Last(line).start >= cp THEN line
    ELSE Append(line, [start |-> cp, meta |-> meta])

-----------------------------------------------------------------------------
(* metaDataCollection                                                      *)

Newest == 2 * MaxStatements + 3

dbAt(d, cp) == timelineGet(dbLines[d], cp)

\* get(database, table, originCheckPoint)
get(n, cp) ==
    IF dbAt(n[1], cp) = NoMeta THEN NoMeta
    ELSE timelineGet(tableLines[<<n[1], dbAt(n[1], cp)>>][n[2]], cp)

\* put(database, table, meta, originCheckPoint): of a database it knows
put(lines, n, meta, cp) ==
    IF dbAt(n[1], cp) = NoMeta THEN lines
    ELSE [lines EXCEPT ![<<n[1], dbAt(n[1], cp)>>][n[2]] = timelinePut(@, meta, cp)]

\* the two calls of put of a table that changes its name
moved(lines, from, to, cp) ==
    put(put(lines, to, get(from, cp), cp), from, NoMeta, cp)

-----------------------------------------------------------------------------
(* Statements                                                              *)

Never == Newest + 1

now == 2 * Len(truth)
server == Last(truth)
exists(n) == server.defs[n] # NoMeta

\* the server has carried out a statement
carriedOut(dbs, defs) == truth' = Append(truth, [dbs |-> dbs, defs |-> defs])

\* the collection does to the named tables what the server did, or it has lost one
follows(names, ok) ==
    astray' = [n \in Names |->
        IF n \in names /\ astray[n] = Never /\ (~ok \/ \E m \in names : astray[m] # Never)
        THEN now ELSE astray[n]]

createDatabase(d) ==
    /\ d \notin server.dbs
    /\ carriedOut(server.dbs \cup {d}, server.defs)
    /\ dbLines' = IF dbAt(d, now) # NoMeta THEN dbLines
                  ELSE [dbLines EXCEPT ![d] = timelinePut(@, now, now)]
    /\ UNCHANGED <<tableLines, astray>>

dropDatabase(d) ==
    /\ d \in server.dbs
    /\ carriedOut(server.dbs \ {d},
                  [n \in Names |-> IF n[1] = d THEN NoMeta ELSE server.defs[n]])
    /\ dbLines' = IF dbLines[d] = <<>> THEN dbLines
                  ELSE [dbLines EXCEPT ![d] = timelinePut(@, NoMeta, now)]
    /\ UNCHANGED <<tableLines, astray>>

\* Nothing tests whether the table exists: a CREATE TABLE IF NOT EXISTS of a table
\* that does is in the log too and replaces its definition.  ok: FALSE when one of
\* its keys cannot be made, which ends the function before put.
createTable(n, ok) ==
    /\ n[1] \in server.dbs
    /\ carriedOut(server.dbs, [server.defs EXCEPT ![n] = IF exists(n) THEN @ ELSE now])
    /\ tableLines' = IF ok THEN put(tableLines, n, now, now) ELSE tableLines
    /\ follows({n}, ok /\ ~exists(n))
    /\ UNCHANGED dbLines

\* here a table that exists is refused
createTableLike(src, dst) ==
    /\ exists(src) /\ dst[1] \in server.dbs
    /\ carriedOut(server.dbs, [server.defs EXCEPT ![dst] = IF exists(dst) THEN @ ELSE server.defs[src]])
    /\ tableLines' = IF get(src, now) = NoMeta \/ get(dst, now) # NoMeta THEN tableLines
                     ELSE put(tableLines, dst, get(src, now), now)
    /\ follows({src, dst}, TRUE)
    /\ UNCHANGED dbLines

dropped(lines, n) ==
    IF get(n, now) = NoMeta THEN lines ELSE put(lines, n, NoMeta, now)

\* two tables, or one when n = m
dropTable(n, m) ==
    /\ exists(n) /\ exists(m)
    /\ carriedOut(server.dbs, [server.defs EXCEPT ![n] = NoMeta, ![m] = NoMeta])
    /\ tableLines' = IF n = m THEN dropped(tableLines, n)
                     ELSE dropped(dropped(tableLines, n), m)
    /\ UNCHANGED <<dbLines, astray>>

\* one table or two, one after the other
renameAll(pairs) ==
    LET first == moved(tableLines, pairs[1][1], pairs[1][2], now)
    IN IF Len(pairs) = 1 THEN first ELSE moved(first, pairs[2][1], pairs[2][2], now)

\* what the server does: one rename after the other
renamed(defs, p) == [defs EXCEPT ![p[2]] = defs[p[1]], ![p[1]] = NoMeta]

renameTo(pairs, ok) ==
    /\ pairs[1][1] # pairs[1][2] /\ exists(pairs[1][1]) /\ ~exists(pairs[1][2])
    /\ Len(pairs) = 2 =>
         LET defs == renamed(server.defs, pairs[1])
         IN defs[pairs[2][1]] # NoMeta /\ defs[pairs[2][2]] = NoMeta
    /\ \A i \in DOMAIN pairs : pairs[i][2][1] \in server.dbs
    /\ LET defs == renamed(server.defs, pairs[1])
       IN carriedOut(server.dbs, IF Len(pairs) = 1 THEN defs ELSE renamed(defs, pairs[2]))
    /\ tableLines' = IF ok THEN renameAll(pairs) ELSE tableLines
    /\ follows(UNION {Range(pairs[i]) : i \in DOMAIN pairs}, ok)
    /\ UNCHANGED dbLines

\* Mutant: the tests are left out.
renameTable_Untested(pairs) == renameTo(pairs, TRUE)

\* All sources must exist and no destination before the first is renamed: a swap
\* of two tables in one statement is refused.
renameTable(pairs) ==
    renameTo(pairs, \A i \in DOMAIN pairs :
                       /\ get(pairs[i][1], Newest) # NoMeta
                       /\ dbAt(pairs[i][2][1], Newest) # NoMeta
                       /\ get(pairs[i][2], Newest) = NoMeta)

\* columns are changed; with a new name the new version is put under it and the
\* old name dropped.  ok: FALSE when one of the changes fails, which leaves the old
\* version.
alterTable(n, dst, ok) ==
    /\ exists(n) /\ dst[1] \in server.dbs
    /\ dst # n => ~exists(dst)
    /\ carriedOut(server.dbs, [server.defs EXCEPT ![n] = NoMeta, ![dst] = now])
    /\ tableLines' =
         IF \/ ~ok \/ get(n, now) = NoMeta \/ dbAt(dst[1], now) = NoMeta
            \/ dst # n /\ get(dst, now) # NoMeta
         THEN tableLines
         ELSE LET lines == put(tableLines, dst, now, now)
              IN IF dst = n THEN lines ELSE put(lines, n, NoMeta, now)
    /\ follows({n, dst}, ok)
    /\ UNCHANGED dbLines

-----------------------------------------------------------------------------
\* start() has gone to an old place of the log and then loads the schema the server
\* has now, at offset 0: a table or a database that has changed since is astray
CatalogInit ==
    \E b \in Beginnings :
        LET begun == b[1]
            loaded == b[2]
            at(m) == IF m = NoMeta THEN <<>> ELSE <<[start |-> 0, meta |-> m]>>
        IN /\ truth = <<begun>>
           /\ dbLines = [x \in Dbs |-> IF x \in loaded.dbs THEN at(0) ELSE <<>>]
           /\ tableLines = [v \in Dbs \X {2 * k : k \in 0 .. MaxStatements} |->
                [x \in Tables |-> IF v[2] = 0 THEN at(loaded.defs[<<v[1], x>>]) ELSE <<>>]]
           /\ astray = [n \in Names |->
                IF \/ loaded.defs[n] # begun.defs[n]
                   \/ n[1] \in begun.dbs /\ n[1] \notin loaded.dbs
                THEN 0 ELSE Never]

CatalogNext ==
    /\ Len(truth) <= MaxStatements
    /\ \/ \E d \in Dbs : createDatabase(d) \/ dropDatabase(d)
       \/ \E n \in Names, ok \in BOOLEAN : createTable(n, ok)
       \/ \E n, m \in Names, ok \in BOOLEAN : alterTable(n, m, ok)
       \/ \E n, m \in Names : createTableLike(n, m) \/ dropTable(n, m)
       \/ \E p \in Names \X Names : renameTable(<<p>>)
       \/ \E p, q \in Names \X Names : renameTable(<<p, q>>)

CatalogSpec == CatalogInit /\ [][CatalogNext]_catalogVars

-----------------------------------------------------------------------------
(* Properties                                                              *)

\* Rows at any offset of the log, old ones too, are read with the definition that
\* the server had for their table there, through drops, renames and databases
\* made again, as long as the table is not astray.  What leads it astray: its
\* definition or its database was changed between the place the log is read from
\* and the load of the definitions; a CREATE or ALTER TABLE that the collection
\* fails to follow; a rename of several tables that depend on each other; a CREATE
\* TABLE IF NOT EXISTS of a table that exists; a statement together with a table
\* that is astray (MetaTimeline::get and put, metaDataCollection::get, processDDL).
DefinitionAtOffset ==
    \A k \in 1 .. Len(truth), n \in Names :
        2 * k - 1 < astray[n] => get(n, 2 * k - 1) = truth[k].defs[n]
=============================================================================
