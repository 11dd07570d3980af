--------------------------- MODULE Parts_proofs ---------------------------
(***************************************************************************)
(* Three small parts of the store: the queued spin lock, the pages of solid *)
(* blocks and the redo file.                                                *)
(*                                                                         *)
(* The lock, for any set of threads.  Exclusion is not inductive: the head  *)
(* of the queue sets the locked byte whatever else the word holds           *)
(* (claimQueued), so nobody may be about to take the lock as the pending    *)
(* thread then.  A thread becomes pending only when the word has no tail;   *)
(* that the word has a tail while somebody is queued rests on the order of  *)
(* the queue, and this on the links between the nodes.  LockInv says all of *)
(* it: WordOK about the lock word, NodeOK about a node that is not in the   *)
(* queue yet, QueueOK about the queue.                                      *)
(*                                                                         *)
(* Pages, for any finite set of readers.  As long as no use() or unuse()    *)
(* meets an owned page, use() from zero adds one that nobody takes back, so *)
(* that the count is exactly one above the number of users (Counted), and   *)
(* its sign says whether a reader loads the page (Owned).  With one owner   *)
(* at a time the data is there for whoever reads it (Data), and no unuse()  *)
(* comes to the last user (NoLastUser).                                     *)
(*                                                                         *)
(* The redo file, for any number of records and failures.  A record that is *)
(* written and whose sync fails is in the file and not in the block; that   *)
(* it is never written again rests on the state of the database, which has  *)
(* failed then (Contents), and that none is left out on the handle, which   *)
(* does not go back to the standard input (Handle).                         *)
(***************************************************************************)
EXTENDS QSpinlock, PageCache, RedoLog, FiniteSetTheorems, TLAPS

UserPcs == {"test", "own", "wait", "load", "assign", "share", "shareFailed", "read", "unuse"}
OwnerPcs == {"load", "assign", "share", "shareFailed"}
PagePcs == UserPcs \cup {"out", "use", "insert", "free", "reset"}

Counted == \/ pageCount = 0 /\ PageUsers = {}
           \/ abs(pageCount) = Cardinality(PageUsers) + 1

Owned ==
    /\ \A r, s \in PageOwners : r = s
    /\ pageCount < 0 <=> PageOwners # {}

Data ==
    /\ \A r \in Readers : pagePc[r] \in {"read", "share"} => pageData # NoData
    /\ \A r \in Readers : pagePc[r] = "assign" => pageData = NoData

NoLastUser == \A r \in Readers : pagePc[r] \notin {"insert", "free", "reset"}

Calm == Counted /\ Owned /\ Data /\ NoLastUser /\ ~pageDied

PageInv == PageTypeOK /\ (~pageRaced => Calm)

-----------------------------------------------------------------------------
\* A set of readers is finite, and the owners of the page are among its users.
LEMMA UsersFinite ==
    /\ IsFiniteSet(PageUsers) /\ Cardinality(PageUsers) \in Nat
    /\ PageOwners \subseteq PageUsers
<1>1. IsFiniteSet(PageUsers)
  BY PageAssumption, FS_Subset DEF PageUsers
<1> QED
  BY <1>1, FS_CardinalityType DEF PageUsers, PageOwners

\* How the users and the owners change when a reader moves on (pageGoto).
LEMMA UsersMove ==
    ASSUME PageTypeOK, NEW r \in Readers, NEW w \in PagePcs, pageGoto(r, w)
    PROVE  /\ PageUsers' = IF w \in UserPcs THEN PageUsers \cup {r} ELSE PageUsers \ {r}
           /\ PageOwners' = IF w \in OwnerPcs THEN PageOwners \cup {r} ELSE PageOwners \ {r}
           /\ r \in PageUsers <=> pagePc[r] \in UserPcs
           /\ r \in PageOwners <=> pagePc[r] \in OwnerPcs
           /\ pagePc'[r] = w
           /\ \A s \in Readers : s # r => pagePc'[s] = pagePc[s]
           /\ Cardinality(PageUsers') =
                IF (w \in UserPcs) = (r \in PageUsers) THEN Cardinality(PageUsers)
                ELSE IF w \in UserPcs THEN Cardinality(PageUsers) + 1
                ELSE Cardinality(PageUsers) - 1
<1>1. pagePc \in [Readers -> PagePcs] /\ pagePc' = [pagePc EXCEPT ![r] = w]
  BY DEF PageTypeOK, pageGoto, PagePcs, UserPcs
<1>2. /\ pagePc'[r] = w
      /\ \A s \in Readers : s # r => pagePc'[s] = pagePc[s]
  BY <1>1
<1>3. PageUsers' = IF w \in UserPcs THEN PageUsers \cup {r} ELSE PageUsers \ {r}
  BY <1>2 DEF PageUsers, UserPcs
<1>4. PageOwners' = IF w \in OwnerPcs THEN PageOwners \cup {r} ELSE PageOwners \ {r}
  BY <1>2 DEF PageOwners, OwnerPcs
<1>5. /\ r \in PageUsers <=> pagePc[r] \in UserPcs
      /\ r \in PageOwners <=> pagePc[r] \in OwnerPcs
  BY DEF PageUsers, PageOwners, UserPcs, OwnerPcs
<1>6. /\ Cardinality(PageUsers \cup {r}) =
           IF r \in PageUsers THEN Cardinality(PageUsers) ELSE Cardinality(PageUsers) + 1
      /\ Cardinality(PageUsers \ {r}) =
           IF r \in PageUsers THEN Cardinality(PageUsers) - 1 ELSE Cardinality(PageUsers)
  BY UsersFinite, FS_AddElement, FS_RemoveElement
<1> QED
  BY <1>2, <1>3, <1>4, <1>5, <1>6

\* Nothing changes for the owners and the users when a reader stays what it is.
LEMMA SameUsers ==
    ASSUME PageTypeOK, NEW r \in Readers, NEW w \in PagePcs, pageGoto(r, w),
           (w \in UserPcs) = (pagePc[r] \in UserPcs),
           (w \in OwnerPcs) = (pagePc[r] \in OwnerPcs)
    PROVE  PageUsers' = PageUsers /\ PageOwners' = PageOwners
  BY UsersMove

-----------------------------------------------------------------------------
\* Every access of getPage, use, loadPage and unuse keeps the types.
LEMMA PageTypeStep ==
    ASSUME PageTypeOK, NEW r \in Readers, Reader(r)
    PROVE  PageTypeOK'
<1> USE DEF pageGoto
<1>1. CASE getPage(r)
  BY <1>1, PageAssumption DEF getPage, PageTypeOK
<1>2. CASE use(r)
  <2>1. pageCount' \in Int /\ pageRaced' \in BOOLEAN
    BY <1>2 DEF use, PageTypeOK
  <2>2. tries' \in [Readers -> 0 .. UseTries]
    BY <1>2, PageAssumption DEF use, PageTypeOK
  <2> QED
    BY <1>2, <2>1, <2>2 DEF use, PageTypeOK
<1>3. CASE testData(r) \/ waitForShare(r) \/ loadPage(r) \/ readRecord(r)
  <2>1. pageDied' \in BOOLEAN
    BY <1>3 DEF testData, waitForShare, loadPage, readRecord, PageTypeOK
  <2> QED
    BY <1>3, <2>1 DEF testData, waitForShare, loadPage, readRecord, PageTypeOK
<1>4. CASE own(r) \/ share(r)
  BY <1>4 DEF own, share, abs, PageTypeOK
<1>5. CASE assignData(r) \/ lruInsert(r) \/ takeData(r) \/ resetCount(r)
  <2>1. pageData' \in Readers \cup {NoData, "flush"} /\ pageCount' \in Int
    BY <1>5 DEF assignData, lruInsert, takeData, resetCount, PageTypeOK
  <2>2. pageDied' \in BOOLEAN
    BY <1>5 DEF assignData, lruInsert, takeData, resetCount, PageTypeOK
  <2> QED
    BY <1>5, <2>1, <2>2 DEF assignData, lruInsert, takeData, resetCount, PageTypeOK
<1>6. CASE unuse(r)
  BY <1>6 DEF unuse, PageTypeOK
<1> QED
  BY <1>1, <1>2, <1>3, <1>4, <1>5, <1>6 DEF Reader

\* Until a use() or unuse() finds the page owned, every access keeps the count one
\* above the users, one owner, and the data under whoever reads it.
LEMMA CalmStep ==
    ASSUME PageTypeOK, Calm, NEW r \in Readers, Reader(r), ~pageRaced, ~pageRaced'
    PROVE  Calm'
<1>a. /\ pageCount \in Int /\ pagePc \in [Readers -> PagePcs] /\ pagePc[r] \in PagePcs
      /\ tries[r] \in 0 .. UseTries
  BY DEF PageTypeOK, PagePcs, UserPcs
<1>b. Cardinality(PageUsers) \in Nat /\ PageOwners \subseteq PageUsers
  BY UsersFinite
<1>c. PageUsers # {} => Cardinality(PageUsers) > 0
  BY UsersFinite, FS_EmptySet
<1>1. CASE getPage(r)
  <2>1. pagePc[r] = "out" /\ pageGoto(r, "use")
        /\ UNCHANGED <<pageCount, pageData, pageDied>>
    BY <1>1 DEF getPage
  <2>2. PageUsers' = PageUsers /\ PageOwners' = PageOwners
    BY <2>1, SameUsers DEF PagePcs, UserPcs, OwnerPcs
  <2> QED
    BY <2>1, <2>2, <1>a DEF Calm, Counted, Owned, Data, NoLastUser, pageGoto
<1>2. CASE use(r)
  <2>0. ~(pageCount < 0)
    BY <1>2, Zenon DEF use
  <2>1. pagePc[r] = "use" /\ pageCount >= 0 /\ pageCount' = pageCount + 1
        /\ UNCHANGED <<pageData, pageDied>>
    BY <1>2, <1>a, <2>0 DEF use
  <2>2. r \notin PageUsers
    BY <2>1 DEF PageUsers
  <2>3. CASE pageCount = 0
    <3>1. PageUsers = {}
      BY <2>3, <1>b DEF Calm, Counted, abs
    <3>2. pagePc' = pagePc
      BY <1>2, <2>3, PageAssumption DEF use, entered
    <3>3. PageUsers' = PageUsers /\ PageOwners' = PageOwners
      BY <3>2 DEF PageUsers, PageOwners
    <3>4. Cardinality(PageUsers') = 0
      BY <3>1, <3>3, FS_EmptySet
    <3>5. Counted'
      BY <2>1, <2>3, <3>4 DEF Counted, abs
    <3> QED
      BY <2>1, <2>3, <3>2, <3>3, <3>5 DEF Calm, Owned, Data, NoLastUser
  <2>4. CASE pageCount > 0
    <3>1. pageGoto(r, "test")
      BY <1>2, <2>4 DEF use, entered
    <3>2. /\ Cardinality(PageUsers') = Cardinality(PageUsers) + 1
          /\ PageOwners' = PageOwners
      BY <2>1, <2>2, <3>1, UsersMove DEF PagePcs, UserPcs, OwnerPcs
    <3>3. Counted'
      BY <1>a, <1>b, <2>1, <2>4, <3>2 DEF Calm, Counted, abs
    <3>4. Owned'
      BY <1>a, <2>1, <2>4, <3>2 DEF Calm, Owned
    <3> QED
      BY <1>a, <2>1, <3>1, <3>3, <3>4 DEF Calm, Data, NoLastUser, pageGoto
  <2> QED BY <1>a, <2>1, <2>3, <2>4
<1>3. CASE testData(r)
  <2>1. PICK w \in {"own", "read"} : /\ pageGoto(r, w) /\ pagePc[r] = "test"
                                     /\ w = "read" => pageData # NoData
                                     /\ UNCHANGED <<pageCount, pageData, pageDied>>
    BY <1>3 DEF testData
  <2>2. PageUsers' = PageUsers /\ PageOwners' = PageOwners
    BY <2>1, SameUsers DEF PagePcs, UserPcs, OwnerPcs
  <2> QED
    BY <2>1, <2>2, <1>a DEF Calm, Counted, Owned, Data, NoLastUser, pageGoto
<1>4. CASE own(r)
  <2>1. pagePc[r] = "own" /\ UNCHANGED <<pageData, pageDied>> /\ r \in PageUsers
    BY <1>4 DEF own, PageUsers
  <2>2. CASE pageCount < 0
    <3>1. pageGoto(r, "wait") /\ pageCount' = pageCount
      BY <1>4, <2>2 DEF own
    <3>2. PageUsers' = PageUsers /\ PageOwners' = PageOwners
      BY <2>1, <3>1, SameUsers DEF PagePcs, UserPcs, OwnerPcs
    <3> QED
      BY <2>1, <3>1, <3>2, <1>a DEF Calm, Counted, Owned, Data, NoLastUser, pageGoto
  <2>3. CASE ~(pageCount < 0)
    <3>1. pageGoto(r, "load") /\ pageCount' = -pageCount
      BY <1>4, <2>3 DEF own
    <3>2. PageOwners = {}
      BY <2>3 DEF Calm, Owned
    <3>3. PageUsers' = PageUsers /\ PageOwners' = {r}
      BY <2>1, <3>1, <3>2, UsersMove DEF PagePcs, UserPcs, OwnerPcs
    <3>4. pageCount > 0
      BY <1>a, <1>b, <2>1, <2>3 DEF Calm, Counted, abs
    <3>5. Counted'
      BY <1>a, <1>b, <3>1, <3>3, <3>4, <2>1 DEF Calm, Counted, abs
    <3>6. Owned'
      BY <1>a, <3>1, <3>3, <3>4 DEF Owned
    <3> QED
      BY <1>a, <2>1, <3>1, <3>5, <3>6 DEF Calm, Data, NoLastUser, pageGoto
  <2> QED BY <2>2, <2>3
<1>5. CASE waitForShare(r)
  <2>1. pagePc[r] = "wait" /\ pageGoto(r, "test")
        /\ UNCHANGED <<pageCount, pageData, pageDied>>
    BY <1>5 DEF waitForShare
  <2>2. PageUsers' = PageUsers /\ PageOwners' = PageOwners
    BY <2>1, SameUsers DEF PagePcs, UserPcs, OwnerPcs
  <2> QED
    BY <2>1, <2>2, <1>a DEF Calm, Counted, Owned, Data, NoLastUser, pageGoto
<1>6. CASE loadPage(r)
  <2>1. PICK w \in {"share", "assign", "shareFailed"} :
            /\ pageGoto(r, w) /\ pagePc[r] = "load"
            /\ w = "share" => pageData # NoData
            /\ w = "assign" => pageData = NoData
            /\ UNCHANGED <<pageCount, pageData, pageDied>>
    BY <1>6 DEF loadPage
  <2>2. PageUsers' = PageUsers /\ PageOwners' = PageOwners
    BY <2>1, SameUsers DEF PagePcs, UserPcs, OwnerPcs
  <2> QED
    BY <2>1, <2>2, <1>a DEF Calm, Counted, Owned, Data, NoLastUser, pageGoto
<1>7. CASE assignData(r)
  <2>1. PICK w \in {"share", "shareFailed"} :
            /\ pageGoto(r, w) /\ pagePc[r] = "assign"
            /\ pageData' = IF w = "share" THEN r ELSE pageData
            /\ UNCHANGED <<pageCount, pageDied>>
    BY <1>7 DEF assignData
  <2>2. PageUsers' = PageUsers /\ PageOwners' = PageOwners
    BY <2>1, SameUsers DEF PagePcs, UserPcs, OwnerPcs
  <2>3. /\ r # NoData
        /\ \A s \in Readers : pagePc[s] \in OwnerPcs => s = r
    BY <2>1, PageAssumption DEF Calm, Owned, PageOwners, OwnerPcs
  <2>4. Data'
    BY <1>a, <2>1, <2>3 DEF Calm, Data, pageGoto, OwnerPcs
  <2> QED
    BY <2>1, <2>2, <2>4, <1>a DEF Calm, Counted, Owned, NoLastUser, pageGoto
<1>8. CASE share(r)
  <2>1. PICK w \in {"read", "unuse"} :
            /\ pageGoto(r, w) /\ pagePc[r] \in {"share", "shareFailed"}
            /\ w = "read" => pagePc[r] = "share"
            /\ pageCount' = abs(pageCount)
            /\ UNCHANGED <<pageData, pageDied>>
    BY <1>8 DEF share
  <2>2. PageOwners = {r}
    BY <2>1 DEF Calm, Owned, PageOwners
  <2>3. PageUsers' = PageUsers /\ PageOwners' = {} /\ r \in PageUsers
    BY <2>1, <2>2, UsersMove DEF PagePcs, UserPcs, OwnerPcs
  <2>4. Counted'
    BY <1>a, <1>b, <2>1, <2>3 DEF Calm, Counted, abs
  <2>5. Owned'
    BY <1>a, <2>1, <2>3 DEF Owned, abs
  <2> QED
    BY <1>a, <2>1, <2>4, <2>5 DEF Calm, Data, NoLastUser, pageGoto
<1>9. CASE readRecord(r)
  <2>1. pagePc[r] = "read" /\ pageGoto(r, "unuse") /\ pageDied' = (pageData = NoData)
        /\ UNCHANGED <<pageCount, pageData>>
    BY <1>9 DEF readRecord
  <2>2. PageUsers' = PageUsers /\ PageOwners' = PageOwners
    BY <2>1, SameUsers DEF PagePcs, UserPcs, OwnerPcs
  <2> QED
    BY <2>1, <2>2, <1>a DEF Calm, Counted, Owned, Data, NoLastUser, pageGoto
<1>10. CASE unuse(r)
  <2>0. ~(pageCount < 0)
    BY <1>10, Zenon DEF unuse
  <2>1. pagePc[r] = "unuse" /\ pageCount >= 0 /\ UNCHANGED <<pageData, pageDied>>
    BY <1>10, <1>a, <2>0 DEF unuse
  <2>2. r \in PageUsers /\ pageCount > 1
    <3>1. r \in PageUsers
      BY <2>1 DEF PageUsers
    <3>2. Cardinality(PageUsers) > 0
      BY <3>1, <1>c
    <3> QED
      BY <1>a, <1>b, <2>1, <3>1, <3>2 DEF Calm, Counted, abs
  <2>3. pageCount' = pageCount - 1 /\ pageGoto(r, "out")
    BY <1>10, <1>a, <2>2 DEF unuse
  <2>4. /\ Cardinality(PageUsers') = Cardinality(PageUsers) - 1
        /\ PageOwners' = PageOwners
    BY <2>1, <2>2, <2>3, UsersMove DEF PagePcs, UserPcs, OwnerPcs
  <2>5. Counted'
    BY <1>a, <1>b, <2>2, <2>3, <2>4 DEF Calm, Counted, abs
  <2>6. Owned'
    BY <1>a, <2>2, <2>3, <2>4 DEF Calm, Owned
  <2> QED
    BY <1>a, <2>1, <2>3, <2>5, <2>6 DEF Calm, Data, NoLastUser, pageGoto
<1>11. CASE lruInsert(r) \/ takeData(r) \/ resetCount(r)
  BY <1>11 DEF lruInsert, takeData, resetCount, Calm, NoLastUser
<1> QED
  BY <1>1, <1>2, <1>3, <1>4, <1>5, <1>6, <1>7, <1>8, <1>9, <1>10, <1>11 DEF Reader

-----------------------------------------------------------------------------
\* What use() and unuse() find is remembered (history).
LEMMA RacedStays ==
    ASSUME PageTypeOK, [PageNext]_pageVars, pageRaced
    PROVE  pageRaced'
  BY DEF PageNext, Reader, getPage, use, testData, own, waitForShare, loadPage, assignData,
         share, readRecord, unuse, lruInsert, takeData, resetCount, pageEnded, pageVars,
         PageTypeOK

\* The page of a block that was flushed or found at the start satisfies the invariant.
LEMMA PageInvInit == PageInit => PageInv
<1> SUFFICES ASSUME PageInit PROVE PageInv
  OBVIOUS
<1>1. PageTypeOK
  <2>1. /\ pageCount \in Int /\ gets \in 0 .. MaxGets
        /\ tries \in [Readers -> 0 .. UseTries]
    BY PageAssumption DEF PageInit
  <2> QED
    BY <2>1 DEF PageInit, PageTypeOK
<1>2. PageUsers = {} /\ PageOwners = {}
  BY DEF PageInit, PageUsers, PageOwners
<1> QED
  BY <1>1, <1>2 DEF PageInit, PageInv, Calm, Counted, Owned, Data, NoLastUser

\* Every step of every reader keeps the invariant.
LEMMA PageInvStep == PageInv /\ [PageNext]_pageVars => PageInv'
<1> SUFFICES ASSUME PageInv, [PageNext]_pageVars PROVE PageInv'
  OBVIOUS
<1>1. PageTypeOK /\ (~pageRaced => Calm)
  BY DEF PageInv
<1>2. CASE \E r \in Readers : Reader(r)
  BY <1>1, <1>2, PageTypeStep, CalmStep, RacedStays DEF PageInv
<1>3. CASE UNCHANGED pageVars
  BY <1>1, <1>3 DEF pageVars, PageInv, PageTypeOK, Calm, Counted, Owned, Data, NoLastUser,
                    PageUsers, PageOwners
<1> QED
  BY <1>2, <1>3 DEF PageNext, pageEnded

\* The count of a page, its data and the positions of its readers keep their types,
\* also when the count has gone wrong.
THEOREM PageTypeCorrect == PageSpec => []PageTypeOK
<1>1. PageInv => PageTypeOK
  BY DEF PageInv
<1> QED
  BY <1>1, PageInvInit, PageInvStep, PTL DEF PageSpec

\* For any finite set of readers and any number of calls: until a use() or unuse()
\* finds the page owned, the count is above the number of users, it is negative
\* exactly while one reader loads the page, and nobody follows a null pointer.
THEOREM CountTheorem == PageSpec => []CountCoversUsers
<1>1. PageInv => CountCoversUsers
  <2> SUFFICES ASSUME PageInv, ~pageRaced PROVE CountCoversUsers
    BY DEF CountCoversUsers
  <2>1. Calm /\ pageCount \in Int
    BY DEF PageInv, PageTypeOK
  <2>2. PageUsers # {} => abs(pageCount) > Cardinality(PageUsers)
    BY <2>1, UsersFinite DEF Calm, Counted
  <2>3. Cardinality(PageOwners) <= 1
    <3>1. CASE PageOwners = {}
      BY <3>1, FS_EmptySet
    <3>2. CASE PageOwners # {}
      <4>1. PICK r \in PageOwners : PageOwners = {r}
        BY <2>1, <3>2 DEF Calm, Owned
      <4>2. Cardinality({r}) = 1
        BY FS_Singleton
      <4> QED BY <4>1, <4>2
    <3> QED BY <3>1, <3>2
  <2> QED
    BY <2>1, <2>2, <2>3 DEF Calm, Owned, CountCoversUsers
<1> QED
  BY <1>1, PageInvInit, PageInvStep, PTL DEF PageSpec

\* Until a use() or unuse() finds the page owned, no step of getPage, loadPage or
\* unuse takes the data of a page away or replaces it.
THEOREM DataTheorem == PageSpec => KeepsData
<1>1. PageInv /\ [PageNext]_pageVars =>
        [pageData # NoData /\ ~pageRaced' => pageData' = pageData]_pageVars
  <2> SUFFICES ASSUME PageInv, NEW r \in Readers, Reader(r), pageData # NoData, ~pageRaced'
               PROVE  pageData' = pageData
    BY DEF PageNext, pageEnded, pageVars
  <2>1. ~pageRaced
    BY RacedStays DEF PageInv, PageNext
  <2>2. Data /\ NoLastUser
    BY <2>1 DEF PageInv, Calm
  <2> QED
    BY <2>2 DEF Reader, getPage, use, testData, own, waitForShare, loadPage, assignData,
                share, readRecord, unuse, lruInsert, takeData, resetCount, Data, NoLastUser
<1> QED
  BY <1>1, PageInvInit, PageInvStep, PTL DEF PageSpec, KeepsData

-----------------------------------------------------------------------------
(* The redo file                                                           *)

Item == [kind : {"head", "record", "mark", "torn"}, record : Nat]
RecordsIn(f) == {i \in DOMAIN f : f[i].kind = "record"}

Ascending(f) == \A i, j \in RecordsIn(f) : i < j => f[i].record < f[j].record
UpTo(f, n) == \A i \in RecordsIn(f) : f[i].record <= n
Holds(f, n) == \E j \in RecordsIn(f) : f[j].record = n
Whole(f, n) == \A i \in RecordsIn(f) : \A k \in f[i].record .. n : Holds(f, k)

Up == redoPc \notin {"down", "loaded"}
InDoubt == redoPc = "sync" /\ job = "record"

RedoTypes ==
    /\ taken \in Seq(Nat) /\ redoFd \in {"stdin", "redo", "invalid"}
    /\ redoFile = NoFile \/ redoFile \in Seq(Item)

\* What the file holds.  A record that is written and not acknowledged is behind all
\* others, and no other is written until it is acknowledged or for ever.
Contents ==
    redoFile # NoFile =>
        /\ Ascending(redoFile) /\ UpTo(redoFile, Len(taken) + 1)
        /\ Up => Whole(redoFile, Len(taken))
        /\ Up /\ status = "running" /\ ~InDoubt => UpTo(redoFile, Len(taken))
        /\ InDoubt => Holds(redoFile, Len(taken) + 1)

\* What the handle says of the file.
Handle ==
    /\ redoFd = "stdin" /\ Up => redoFile = NoFile
    /\ redoFd = "redo" /\ redoPc \in {"current", "head", "write", "sync"} => redoFile \in Seq(Item)
    /\ redoPc = "head" => redoFd = "redo"
    /\ redoPc \in {"open", "queued"} => redoFd = "invalid"
    /\ redoPc \in {"write", "sync"} => redoFd \in {"stdin", "redo"}
    /\ redoPc \in {"open", "head", "write", "sync"} /\ job = "record" => status = "running"

RedoInv == RedoTypes /\ Contents /\ Handle

LEMMA RecordNumbers ==
    ASSUME NEW f \in Seq(Item)
    PROVE  \A i \in RecordsIn(f) : i \in 1 .. Len(f) /\ f[i].record \in Nat
<1> TAKE i \in RecordsIn(f)
<1>1. i \in 1 .. Len(f)
  BY DEF RecordsIn
<1>2. f[i] \in Item
  BY <1>1
<1> QED BY <1>1, <1>2 DEF Item

\* A head, a mark or a torn part behind the rest leaves the records as they were.
LEMMA AddOther ==
    ASSUME NEW f \in Seq(Item), NEW x \in Item, x.kind # "record"
    PROVE  /\ Append(f, x) \in Seq(Item)
           /\ Ascending(f) => Ascending(Append(f, x))
           /\ \A n \in Nat : UpTo(f, n) => UpTo(Append(f, x), n)
           /\ \A n \in Nat : Whole(f, n) => Whole(Append(f, x), n)
<1> DEFINE g == Append(f, x)
<1>1. /\ g \in Seq(Item) /\ DOMAIN g = 1 .. Len(f) + 1 /\ g[Len(f) + 1] = x
      /\ DOMAIN f = 1 .. Len(f) /\ \A i \in 1 .. Len(f) : g[i] = f[i]
  OBVIOUS
<1>2. RecordsIn(g) = RecordsIn(f) /\ \A i \in RecordsIn(f) : g[i] = f[i]
  BY <1>1 DEF RecordsIn
<1>3. \A k : Holds(g, k) <=> Holds(f, k)
  BY <1>2 DEF Holds
<1> HIDE DEF g
<1>4. Ascending(f) => Ascending(g)
  BY <1>2 DEF Ascending
<1>5. \A n \in Nat : (UpTo(f, n) => UpTo(g, n)) /\ (Whole(f, n) => Whole(g, n))
  BY <1>2, <1>3 DEF UpTo, Whole
<1> QED BY <1>1, <1>4, <1>5 DEF g

\* The next record behind the rest.
LEMMA AddRecord ==
    ASSUME NEW f \in Seq(Item), NEW n \in Nat, NEW x \in Item, x.kind = "record",
           x.record = n + 1, Ascending(f), UpTo(f, n), Whole(f, n)
    PROVE  /\ Append(f, x) \in Seq(Item)
           /\ Ascending(Append(f, x)) /\ UpTo(Append(f, x), n + 1)
           /\ Whole(Append(f, x), n) /\ Holds(Append(f, x), n + 1)
<1> DEFINE g == Append(f, x)
           m == Len(f) + 1
<1>1. /\ g \in Seq(Item) /\ DOMAIN g = 1 .. m /\ g[m] = x /\ m \in Nat
      /\ DOMAIN f = 1 .. Len(f) /\ \A i \in 1 .. Len(f) : g[i] = f[i]
  OBVIOUS
<1>2. /\ RecordsIn(g) = RecordsIn(f) \cup {m}
      /\ \A i \in RecordsIn(f) : g[i] = f[i] /\ i < m /\ i \in Nat /\ g[i].record \in Nat
  <2>1. \A i \in RecordsIn(f) : i \in 1 .. Len(f) /\ f[i] \in Item
    BY <1>1 DEF RecordsIn
  <2> QED BY <1>1, <2>1 DEF RecordsIn, Item
<1>3. \A k : Holds(f, k) => Holds(g, k)
  BY <1>2 DEF Holds
<1> HIDE DEF g, m
<1>4. UpTo(g, n + 1)
  BY <1>1, <1>2 DEF UpTo
<1>5. Ascending(g)
  BY <1>1, <1>2 DEF Ascending, UpTo
<1>6. Holds(g, n + 1)
  BY <1>1, <1>2 DEF Holds
<1>7. Whole(g, n)
  BY <1>1, <1>2, <1>3 DEF Whole
<1> QED BY <1>1, <1>4, <1>5, <1>6, <1>7 DEF g

\* The record in doubt is acknowledged.
LEMMA Acknowledged ==
    ASSUME NEW f \in Seq(Item), NEW n \in Nat, Whole(f, n), Holds(f, n + 1)
    PROVE  Whole(f, n + 1)
<1> SUFFICES ASSUME NEW i \in RecordsIn(f), NEW k \in f[i].record .. n + 1
             PROVE  Holds(f, k)
  BY DEF Whole
<1>1. f[i].record \in Nat
  BY RecordNumbers
<1>2. k = n + 1 \/ k \in f[i].record .. n
  BY <1>1
<1> QED BY <1>2 DEF Whole

\* A file that is cut.
LEMMA CutOff ==
    ASSUME NEW f \in Seq(Item), NEW k \in 0 .. Len(f), NEW n \in Nat
    PROVE  /\ SubSeq(f, 1, k) \in Seq(Item)
           /\ Ascending(f) => Ascending(SubSeq(f, 1, k))
           /\ UpTo(f, n) => UpTo(SubSeq(f, 1, k), n)
<1> DEFINE g == SubSeq(f, 1, k)
<1>1. g \in Seq(Item) /\ DOMAIN g = 1 .. k /\ \A i \in 1 .. k : g[i] = f[i]
  OBVIOUS
<1>2. \A i \in RecordsIn(g) : i \in RecordsIn(f) /\ g[i] = f[i]
  BY <1>1 DEF RecordsIn
<1> HIDE DEF g
<1>3. (Ascending(f) => Ascending(g)) /\ (UpTo(f, n) => UpTo(g, n))
  BY <1>2 DEF Ascending, UpTo
<1> QED BY <1>1, <1>3 DEF g

\* What is written to the file.
LEMMA Writes ==
    ASSUME RedoInv, NEW kind \in {"head", "mark", "torn"}, redoPc \in {"head", "write"}
    PROVE  /\ written(kind) = NoFile \/ written(kind) \in Seq(Item)
           /\ redoFd = "redo" => written(kind) \in Seq(Item)
           /\ redoFd # "redo" => written(kind) = redoFile
           /\ written(kind) # NoFile =>
                /\ Ascending(written(kind)) /\ UpTo(written(kind), Len(taken) + 1)
                /\ Whole(written(kind), Len(taken))
                /\ status = "running" => UpTo(written(kind), Len(taken))
<1>1. item(kind) \in Item /\ item(kind).kind # "record" /\ Len(taken) \in Nat
      /\ Len(taken) + 1 \in Nat
  BY DEF RedoInv, RedoTypes, item, Item
<1>2. Up /\ ~InDoubt
  BY DEF Up, InDoubt
<1>3. CASE redoFd = "redo"
  <2>1. redoFile \in Seq(Item) /\ written(kind) = Append(redoFile, item(kind))
    BY <1>3 DEF RedoInv, Handle, written
  <2>2. CASE redoFile # NoFile
    <3>1. /\ Ascending(redoFile) /\ UpTo(redoFile, Len(taken) + 1) /\ Whole(redoFile, Len(taken))
          /\ status = "running" => UpTo(redoFile, Len(taken))
      BY <1>2, <2>2 DEF RedoInv, Contents
    <3> QED BY <1>1, <1>3, <2>1, <3>1, AddOther
  <2>3. redoFile # NoFile
    BY <2>1, RedoAssumption DEF Item
  <2> QED BY <2>2, <2>3
<1>4. CASE redoFd # "redo"
  BY <1>2, <1>4 DEF written, RedoInv, RedoTypes, Contents
<1> QED BY <1>3, <1>4

\* The steps that end in an outcome write nothing that is a record.
LEMMA OutcomeKeeps ==
    ASSUME RedoInv, outcome(FALSE), redoPc \in {"open", "head", "write"},
           redoFile' = redoFile \/ (redoPc # "open" /\ redoFile' = written("torn")),
           redoFd' \in {redoFd, "invalid"}
    PROVE  RedoInv'
<1> DEFINE m == Len(taken)
<1>1. /\ taken' = taken /\ job' = "none" /\ redoPc' \in {"remove", "current"}
      /\ status' \in {status, "failed"} /\ taken \in Seq(Nat)
  BY DEF outcome, outcomeAs, RedoInv, RedoTypes
<1>2. Up /\ ~InDoubt /\ ~InDoubt' /\ Up'
  BY <1>1 DEF Up, InDoubt
<1>3. /\ redoFile' = NoFile \/ redoFile' \in Seq(Item)
      /\ redoFile' # NoFile =>
           /\ Ascending(redoFile') /\ UpTo(redoFile', m + 1) /\ Whole(redoFile', m)
           /\ status = "running" => UpTo(redoFile', m)
      /\ redoFd = "redo" /\ redoPc # "open" => redoFile' \in Seq(Item)
      /\ redoFd = "stdin" => redoFile' = NoFile
  <2>1. CASE redoFile' = redoFile
    BY <1>2, <2>1 DEF RedoInv, RedoTypes, Contents, Handle, Up
  <2>2. CASE redoPc # "open" /\ redoFile' = written("torn")
    <3>1. redoPc \in {"head", "write"} /\ "torn" \in {"head", "mark", "torn"}
      BY <2>2
    <3>2. redoFd = "stdin" => redoFile = NoFile
      BY <1>2 DEF RedoInv, Handle
    <3> QED BY <2>2, <3>1, <3>2, Writes
  <2> QED BY <2>1, <2>2
<1>4. redoFd' \in {"stdin", "redo", "invalid"} /\ (redoPc = "open" => redoFd' # "redo")
  BY DEF RedoInv, RedoTypes, Handle
<1>5. RedoTypes' /\ Contents'
  BY <1>1, <1>2, <1>3, <1>4 DEF RedoTypes, Contents
<1>6. Handle'
  BY <1>1, <1>3, <1>4 DEF Handle
<1> QED BY <1>5, <1>6 DEF RedoInv

\* Every operation on the redo file, the crash and the next start keep the invariant.
LEMMA RedoStep ==
    ASSUME RedoInv, RedoNext
    PROVE  RedoInv'
<1> USE DEF redoFiles
<1>a. RedoTypes /\ Contents /\ Handle
  BY DEF RedoInv
<1>1. CASE appendRecord \/ finishBlock
  BY <1>1, <1>a DEF appendRecord, finishBlock, begin, RedoInv, RedoTypes, Contents, Handle, Up,
     InDoubt
<1>2. CASE openRedoFile
  <2>1. CASE outcome(FALSE) /\ UNCHANGED <<redoFd, redoFile>>
    BY <1>2, <2>1, OutcomeKeeps DEF openRedoFile
  <2>2. CASE /\ redoFd' = "redo"
             /\ redoFile' = IF redoFile = NoFile THEN <<>> ELSE redoFile
             /\ redoPc' = IF redoFile' = <<>> THEN "head" ELSE "write"
             /\ UNCHANGED <<taken, job, status, finishFails>>
    <3>1. redoPc = "open" /\ Up /\ Up' /\ ~InDoubt /\ ~InDoubt' /\ Len(taken) \in Nat
      BY <1>2, <1>a, <2>2 DEF openRedoFile, Up, InDoubt, RedoTypes
    <3>2. redoFile' \in Seq(Item)
      BY <1>a, <2>2 DEF RedoTypes
    <3>3. CASE redoFile # NoFile
      BY <1>a, <2>2, <3>1, <3>2, <3>3 DEF RedoInv, RedoTypes, Contents, Handle
    <3>4. CASE redoFile = NoFile
      <4>1. redoFile' = <<>> /\ RecordsIn(redoFile') = {}
        BY <2>2, <3>4 DEF RecordsIn
      <4>2. Contents'
        BY <3>1, <4>1 DEF Contents, Ascending, UpTo, Whole
      <4> QED BY <1>a, <2>2, <3>1, <3>2, <4>2 DEF RedoInv, RedoTypes, Handle
    <3> QED BY <3>3, <3>4
  <2> QED BY <1>2, <2>1, <2>2 DEF openRedoFile
<1>3. CASE writeHead
  <2>1. CASE redoFile' \in {redoFile, written("torn")} /\ redoFd' = "invalid" /\ outcome(FALSE)
    BY <1>3, <2>1, OutcomeKeeps DEF writeHead
  <2>2. CASE /\ redoFile' = written("head") /\ redoPc' = "write"
             /\ UNCHANGED <<redoFd, taken, job, status, finishFails>>
    <3>1. redoPc = "head" /\ Up' /\ ~InDoubt' /\ redoFd = "redo"
      BY <1>3, <1>a, <2>2 DEF writeHead, Up, InDoubt, Handle
    <3>2. /\ redoFile' \in Seq(Item)
          /\ redoFile' # NoFile =>
               /\ Ascending(redoFile') /\ UpTo(redoFile', Len(taken) + 1)
               /\ Whole(redoFile', Len(taken))
               /\ status = "running" => UpTo(redoFile', Len(taken))
      <4>1. "head" \in {"head", "mark", "torn"}
        OBVIOUS
      <4> QED BY <2>2, <3>1, <4>1, Writes
    <3> QED BY <1>a, <2>2, <3>1, <3>2 DEF RedoInv, RedoTypes, Contents, Handle
  <2> QED BY <1>3, <2>1, <2>2 DEF writeHead
<1>4. CASE writeItem
  <2>1. CASE /\ redoFile' \in {redoFile, written("torn")}
             /\ redoFd' = IF job = "record" THEN redoFd ELSE "invalid"
             /\ outcome(FALSE)
    BY <1>4, <2>1, OutcomeKeeps DEF writeItem
  <2>2. CASE /\ redoFile' = written(IF job = "record" THEN "record" ELSE "mark")
             /\ redoPc' = "sync"
             /\ UNCHANGED <<redoFd, taken, job, status, finishFails>>
    <3>1. redoPc = "write" /\ Up /\ Up' /\ ~InDoubt /\ (InDoubt' <=> job = "record")
          /\ redoFd \in {"stdin", "redo"} /\ Len(taken) \in Nat
      BY <1>4, <1>a, <2>2 DEF writeItem, Up, InDoubt, Handle, RedoTypes
    <3>2. CASE job # "record"
      <4>1. "mark" \in {"head", "mark", "torn"}
        OBVIOUS
      <4>2. /\ redoFile' = NoFile \/ redoFile' \in Seq(Item)
            /\ redoFd = "redo" => redoFile' \in Seq(Item)
            /\ redoFd # "redo" => redoFile' = redoFile
            /\ redoFile' # NoFile =>
                 /\ Ascending(redoFile') /\ UpTo(redoFile', Len(taken) + 1)
                 /\ Whole(redoFile', Len(taken))
                 /\ status = "running" => UpTo(redoFile', Len(taken))
        BY <2>2, <3>1, <3>2, <4>1, Writes
      <4> QED BY <1>a, <2>2, <3>1, <3>2, <4>2 DEF RedoInv, RedoTypes, Contents, Handle
    <3>3. CASE job = "record" /\ redoFd = "redo"
      <4>1. redoFile \in Seq(Item) /\ status = "running"
        BY <1>a, <3>1, <3>3 DEF Handle
      <4>2. redoFile # NoFile
        BY <4>1, RedoAssumption DEF Item
      <4>3. Ascending(redoFile) /\ UpTo(redoFile, Len(taken)) /\ Whole(redoFile, Len(taken))
        BY <1>a, <3>1, <4>1, <4>2 DEF Contents
      <4>4. redoFile' = Append(redoFile, item("record"))
        BY <2>2, <3>3 DEF written
      <4>5. item("record") \in Item /\ item("record").kind = "record"
            /\ item("record").record = Len(taken) + 1
        BY <3>1 DEF item, Item
      <4>6. /\ redoFile' \in Seq(Item) /\ Ascending(redoFile')
            /\ UpTo(redoFile', Len(taken) + 1) /\ Whole(redoFile', Len(taken))
            /\ Holds(redoFile', Len(taken) + 1)
        BY <3>1, <4>1, <4>3, <4>4, <4>5, AddRecord
      <4> QED BY <1>a, <2>2, <3>1, <3>3, <4>1, <4>6 DEF RedoInv, RedoTypes, Contents, Handle
    <3>4. CASE job = "record" /\ redoFd = "stdin"
      <4>1. redoFile' = redoFile /\ redoFile = NoFile /\ status = "running"
        BY <1>a, <2>2, <3>1, <3>4 DEF written, Handle
      <4> QED BY <1>a, <2>2, <3>1, <3>4, <4>1 DEF RedoInv, RedoTypes, Contents, Handle
    <3> QED BY <3>1, <3>2, <3>3, <3>4
  <2> QED BY <1>4, <2>1, <2>2 DEF writeItem
<1>5. CASE syncRedo
  <2>1. redoPc = "sync" /\ redoFile' = redoFile /\ Up /\ Len(taken) \in Nat
        /\ redoFd \in {"stdin", "redo"} /\ (InDoubt <=> job = "record")
    BY <1>5, <1>a DEF syncRedo, Up, Handle, InDoubt, RedoTypes
  <2>2. PICK ok \in BOOLEAN : /\ outcome(ok)
                              /\ redoFd' = IF ok /\ job # "record" THEN "invalid" ELSE redoFd
    BY <1>5 DEF syncRedo
  <2>3. /\ taken' = IF job = "record" /\ ok THEN Append(taken, Len(taken) + 1) ELSE taken
        /\ redoPc' \in {"remove", "queued", "current"} /\ job' = "none"
        /\ redoPc' = "queued" => job = "finish" /\ ok
        /\ status' \in {status, "failed"} /\ (job = "record" /\ ~ok => status' = "failed")
    BY <2>2 DEF outcome, outcomeAs
  <2>4. Up' /\ ~InDoubt'
    BY <2>3 DEF Up, InDoubt
  <2>5. Handle' /\ redoFd' \in {"stdin", "redo", "invalid"}
    BY <1>a, <2>1, <2>2, <2>3, <2>4 DEF Handle
  <2>6. CASE job = "record" /\ ok
    <3>1. taken' \in Seq(Nat) /\ Len(taken') = Len(taken) + 1
      BY <1>a, <2>1, <2>3, <2>6 DEF RedoTypes
    <3>2. CASE redoFile = NoFile
      BY <2>1, <2>5, <3>1, <3>2 DEF RedoInv, RedoTypes, Contents
    <3>3. CASE redoFile # NoFile
      <4>1. /\ redoFile \in Seq(Item) /\ Ascending(redoFile) /\ UpTo(redoFile, Len(taken) + 1)
            /\ Whole(redoFile, Len(taken)) /\ Holds(redoFile, Len(taken) + 1)
        BY <1>a, <2>1, <2>6, <3>3 DEF RedoTypes, Contents
      <4>2. Whole(redoFile, Len(taken) + 1)
        BY <2>1, <4>1, Acknowledged
      <4>3. UpTo(redoFile, Len(taken) + 1 + 1)
        <5>1. \A i \in RecordsIn(redoFile) : redoFile[i].record \in Nat
          BY <4>1, RecordNumbers
        <5> QED BY <2>1, <4>1, <5>1 DEF UpTo
      <4> QED BY <2>1, <2>4, <2>5, <3>1, <4>1, <4>2, <4>3 DEF RedoInv, RedoTypes, Contents
    <3> QED BY <3>2, <3>3
  <2>7. CASE ~(job = "record" /\ ok)
    <3>1. taken' = taken
      BY <2>3, <2>7
    <3>2. Contents'
      BY <1>a, <2>1, <2>3, <2>4, <2>7, <3>1 DEF Contents
    <3> QED BY <1>a, <2>1, <2>5, <3>1, <3>2 DEF RedoInv, RedoTypes
  <2> QED BY <2>6, <2>7
<1>6. CASE flushBlock
  BY <1>6, <1>a DEF flushBlock, begin, RedoInv, RedoTypes, Contents, Handle, Up, InDoubt
<1>7. CASE removeRedo
  BY <1>7, <1>a DEF removeRedo, RedoInv, RedoTypes, Contents, Handle, Up, InDoubt
<1>8. CASE crash
  <2>1. /\ redoPc' = "down" /\ UNCHANGED <<redoFd, taken, status>>
        /\ redoFile' = redoFile \/ (redoPc \in {"head", "write"} /\ redoFile' = written("torn"))
    <3>1. /\ redoPc' = "down" /\ UNCHANGED <<redoFd, taken, status>>
          /\ redoFile' \in {redoFile}
               \cup (IF redoPc \in {"head", "write"} THEN {written("torn")} ELSE {})
      BY <1>8 DEF crash
    <3>2. PICK S : S = (IF redoPc \in {"head", "write"} THEN {written("torn")} ELSE {})
      OBVIOUS
    <3>3. \A x \in S : redoPc \in {"head", "write"} /\ x = written("torn")
      BY <3>2
    <3>4. redoFile' = redoFile \/ redoFile' \in S
      BY <3>1, <3>2
    <3> QED BY <3>1, <3>3, <3>4
  <2>2. ~Up' /\ ~InDoubt' /\ Handle' /\ redoFd' = redoFd
    BY <2>1 DEF Up, InDoubt, Handle
  <2>3. CASE redoFile' = redoFile
    BY <1>a, <2>1, <2>2, <2>3 DEF RedoInv, RedoTypes, Contents
  <2>4. CASE redoPc \in {"head", "write"} /\ redoFile' = written("torn")
    <3>1. "torn" \in {"head", "mark", "torn"}
      OBVIOUS
    <3>2. /\ redoFile' = NoFile \/ redoFile' \in Seq(Item)
          /\ redoFile' # NoFile => Ascending(redoFile') /\ UpTo(redoFile', Len(taken) + 1)
      BY <2>4, <3>1, Writes
    <3> QED BY <1>a, <2>1, <2>2, <3>2 DEF RedoInv, RedoTypes, Contents
  <2> QED BY <2>1, <2>3, <2>4
<1>9. CASE recoveryFromRedo
  <2>1. /\ redoPc = "down" /\ redoPc' = "loaded"
        /\ UNCHANGED <<redoFd, taken, job, status, finishFails>>
        /\ redoFile' = redoFile \/ redoFile' = NoFile
             \/ (redoFile # NoFile /\ ~headless(redoFile) /\ redoFile' \in complete(redoFile))
             \/ (redoFile # NoFile /\ blockFile # NoFile /\ redoFile' \in complete(redoFile))
    BY <1>9 DEF recoveryFromRedo
  <2>2. ~Up' /\ ~InDoubt' /\ Handle'
    BY <2>1 DEF Up, InDoubt, Handle
  <2>3. CASE redoFile' \in {redoFile, NoFile}
    BY <1>a, <2>1, <2>2, <2>3 DEF RedoInv, RedoTypes, Contents
  <2>4. CASE redoFile # NoFile /\ redoFile' \in complete(redoFile)
    <3>1. /\ redoFile \in Seq(Item) /\ Len(taken) + 1 \in Nat
          /\ Ascending(redoFile) /\ UpTo(redoFile, Len(taken) + 1)
      BY <1>a, <2>4 DEF RedoTypes, Contents
    <3>2. \/ redoFile' = redoFile
          \/ \E k \in 0 .. Len(redoFile) : redoFile' = SubSeq(redoFile, 1, k)
      <4>1. PICK L \in Nat : L = Len(redoFile)
        BY <3>1
      <4>2. \A i \in 2 .. L : i - 1 \in 0 .. L
        OBVIOUS
      <4>3. \A i \in 1 .. L : i \in 0 .. L
        OBVIOUS
      <4> QED BY <2>4, <4>1, <4>2, <4>3 DEF complete
    <3>3. redoFile' \in Seq(Item) /\ Ascending(redoFile') /\ UpTo(redoFile', Len(taken) + 1)
      BY <3>1, <3>2, CutOff
    <3> QED BY <1>a, <2>1, <2>2, <3>3 DEF RedoInv, RedoTypes, Contents
  <2> QED BY <2>1, <2>3, <2>4
<1> QED
  BY <1>1, <1>2, <1>3, <1>4, <1>5, <1>6, <1>7, <1>8, <1>9 DEF RedoNext

\* However many records there are and however often the operations on it fail, the redo
\* file holds records of the block in order, once each and without gap (append,
\* writeRedo, finishRedo, recoveryFromRedo).
THEOREM RedoRunTheorem == RedoSpec => []RedoHoldsRun
<1>1. RedoInit => RedoInv
  BY DEF RedoInit, RedoInv, RedoTypes, Contents, Handle, Up, InDoubt
<1>2. RedoInv /\ [RedoNext]_redoVars => RedoInv'
  <2>1. RedoInv /\ UNCHANGED redoVars => RedoInv'
    BY DEF redoVars, redoFiles, RedoInv, RedoTypes, Contents, Handle, Up, InDoubt
  <2> QED BY <2>1, RedoStep
<1>3. RedoInv => RedoHoldsRun
  BY DEF RedoInv, Contents, RedoHoldsRun, Ascending, UpTo, Whole, Holds, RecordsIn, Up
<1> QED
  BY <1>1, <1>2, <1>3, PTL DEF RedoSpec

-----------------------------------------------------------------------------
(* The queued spin lock *)

Owning == {"handOver", "in"}
Pending == {"unsetPending", "waitOwner", "take"}
Claiming == {"claim", "claimQueued"}
Heads == {t \in LockThreads : lockPc[t] \in {"head", "claim", "claimQueued", "handOver"}}
Queued == {t \in LockThreads : lockPc[t] \in {"link", "spin"}} \cup Heads

WordOK ==
    /\ \A t, u \in LockThreads : {lockPc[t], lockPc[u]} \subseteq Owning => t = u
    /\ \A t \in LockThreads : lockPc[t] \in Owning => val.locked = 1
    /\ val.locked = 1 => \E t \in LockThreads : lockPc[t] \in Owning
    /\ \A t, u \in LockThreads : {lockPc[t], lockPc[u]} \subseteq Pending => t = u
    /\ \A t \in LockThreads : lockPc[t] \in Pending => val.pending = 1
    /\ val.pending = 1 => \E t \in LockThreads : lockPc[t] \in Pending
    /\ \A t \in LockThreads : lockPc[t] \in {"take"} \cup Claiming => val.locked = 0
    /\ \A t, u \in LockThreads :
         ~(lockPc[t] \in {"waitOwner", "take"} /\ lockPc[u] \in Claiming)
    /\ \A t \in LockThreads : lockPc[t] = "claim" =>
         seen[t].locked = 0 /\ seen[t].pending = 0 /\ seen[t].tail = t

NodeOK ==
    \A t \in LockThreads : lockPc[t] = "xchg" => nodeNext[t] = NoThread /\ ~nodeWait[t]

\* The threads of the queue stand at the places from f to l: the head at f, the
\* tail at l, and each is linked to the one before it or about to be.
Order(pos, f, l) ==
    /\ \A t \in Queued : pos[t] \in f .. l
    /\ \A t, u \in Queued : pos[t] = pos[u] => t = u
    /\ val.tail = NoThread => Queued = {}
    /\ val.tail # NoThread => val.tail \in Queued /\ pos[val.tail] = l
    /\ \A t \in Queued : pos[t] = f =>
         t \in Heads \/ (lockPc[t] = "spin" /\ nodeWait[t])
    /\ \A t \in Queued : pos[t] # f => t \notin Heads /\ ~nodeWait[t]
    /\ \A t \in Queued : lockPc[t] = "link" =>
         /\ seen[t].tail \in Queued
         /\ pos[seen[t].tail] + 1 = pos[t]
         /\ nodeNext[seen[t].tail] = NoThread
    /\ \A t \in Queued : nodeNext[t] # NoThread =>
         /\ nodeNext[t] \in Queued
         /\ pos[nodeNext[t]] = pos[t] + 1
         /\ lockPc[nodeNext[t]] = "spin"

QueueOK == \E pos \in [LockThreads -> Int], f, l \in Int : Order(pos, f, l)

LockInv == LockTypeOK /\ WordOK /\ NodeOK /\ QueueOK

-----------------------------------------------------------------------------
(* What the order of the queue says about its head                         *)

\* There is one head; while it is queued the word has a tail (xchgTail), and when
\* the tail is the head nobody else is queued (claim).
LEMMA HeadFacts ==
    ASSUME LockTypeOK, QueueOK, NEW t \in Heads
    PROVE  /\ val.tail # NoThread
           /\ \A u \in Heads : u = t
           /\ val.tail = t => Queued = {t}
<1>1. PICK pos \in [LockThreads -> Int], f, l \in Int : Order(pos, f, l)
  BY DEF QueueOK
<1>2. t \in Queued /\ Queued \subseteq LockThreads
  BY DEF Queued, Heads
<1>3. pos[t] = f
  BY <1>1, <1>2 DEF Order
<1>4. \A u \in Heads : u = t
  BY <1>1, <1>2, <1>3 DEF Order, Queued
<1>5. ASSUME val.tail = t, NEW u \in Queued PROVE u = t
  BY <1>1, <1>2, <1>3, <1>5, LockAssumption DEF Order
<1> QED
  BY <1>1, <1>2, <1>4, <1>5 DEF Order

-----------------------------------------------------------------------------
(* The lock word                                                           *)

\* Every step keeps the types and what WordOK says of the lock word.
LEMMA WordStep ==
    ASSUME LockInv, NEW t \in LockThreads, lockFast(t) \/ lockStep(t)
    PROVE  LockTypeOK' /\ WordOK'
<1> DEFINE Word == [locked : 0 .. 1, pending : 0 .. 1, tail : LockThreads \cup {NoThread}]
           headPcs == {"head", "claim", "claimQueued", "handOver"}
<1>a. /\ Free \in Word /\ val \in Word /\ LockTypeOK /\ WordOK 
      /\ lockPc = [u \in LockThreads |-> lockPc[u]]
  BY DEF Free, LockTypeOK, LockInv
<1>b. \A u \in LockThreads : lockPc[u] \in headPcs =>
        /\ val.tail # NoThread
        /\ \A v \in LockThreads : lockPc[v] \in headPcs => u = v
  BY HeadFacts DEF LockInv, Heads
<1>c. \A u \in LockThreads : seen[u] \in Word
  BY DEF LockInv, LockTypeOK
<1> USE DEF at, move, remember, forget
<1>1. CASE lockFast(t)
  <2>1. LockTypeOK'
    BY <1>a, <1>c, <1>1 DEF lockFast, LockTypeOK
  <2>2. WordOK'
    <3>1. CASE val = Free
      <4>1. /\ lockPc[t] = "out"
            /\ lockPc' = [lockPc EXCEPT ![t] = "in"]
            /\ val.tail = NoThread
            /\ val.locked = 0
            /\ val.pending = 0
            /\ val'.locked = 1
            /\ val'.pending = 0
            /\ seen' = [seen EXCEPT ![t] = val]
        BY <1>a, <1>c, <1>1, <3>1 DEF lockFast, LockTypeOK, Free
      <4> QED
        BY <1>a, <1>b, <4>1 DEF WordOK, Owning, Pending, Claiming
    <3>2. CASE val # Free
      <4>1. /\ lockPc[t] = "out"
            /\ lockPc' = [lockPc EXCEPT ![t] = "slow"]
            /\ val' = val
            /\ seen' = [seen EXCEPT ![t] = val]
        BY <1>a, <1>c, <1>1, <3>2 DEF lockFast, LockTypeOK, Free
      <4> QED
        BY <1>a, <1>b, <4>1 DEF WordOK, Owning, Pending, Claiming
    <3> QED BY <3>1, <3>2
  <2> QED BY <2>1, <2>2
<1>2. CASE slowPath(t)
  <2>1. LockTypeOK'
    BY <1>a, <1>c, <1>2 DEF slowPath, LockTypeOK
  <2>2. WordOK'
    <3>1. /\ lockPc[t] = "slow"
          /\ lockPc' = lockPc \/ lockPc' = [lockPc EXCEPT ![t] = "queue"] \/ lockPc' = [lockPc EXCEPT ![t] = "setPending"]
          /\ val' = val
          /\ \A u \in LockThreads : u # t => seen'[u] = seen[u]
      BY <1>a, <1>c, <1>2 DEF slowPath, LockTypeOK, Free
    <3> QED
      BY <1>a, <1>b, <3>1 DEF WordOK, Owning, Pending, Claiming
  <2> QED BY <2>1, <2>2
<1>3. CASE setPending(t)
  <2>1. LockTypeOK'
    BY <1>a, <1>c, <1>3 DEF setPending, LockTypeOK
  <2>2. WordOK'
    <3>1. CASE contended(val) /\ val.pending = 0
      <4>1. /\ lockPc[t] = "setPending"
            /\ lockPc' = [lockPc EXCEPT ![t] = "unsetPending"]
            /\ val.pending = 0
            /\ val'.locked = val.locked
            /\ val'.pending = 1
            /\ seen' = seen
        BY <1>a, <1>c, <1>3, <3>1 DEF setPending, LockTypeOK, Free, contended
      <4> QED
        BY <1>a, <1>b, <4>1 DEF WordOK, Owning, Pending, Claiming
    <3>2. CASE contended(val) /\ val.pending # 0
      <4>1. /\ lockPc[t] = "setPending"
            /\ lockPc' = [lockPc EXCEPT ![t] = "queue"]
            /\ val.pending = 1
            /\ val'.locked = val.locked
            /\ val'.pending = 1
            /\ seen' = seen
        BY <1>a, <1>c, <1>3, <3>2 DEF setPending, LockTypeOK, Free, contended
      <4> QED
        BY <1>a, <1>b, <4>1 DEF WordOK, Owning, Pending, Claiming
    <3>3. CASE ~contended(val) /\ val.locked = 1
      <4>1. /\ lockPc[t] = "setPending"
            /\ lockPc' = [lockPc EXCEPT ![t] = "waitOwner"]
            /\ val.pending = 0
            /\ val.tail = NoThread
            /\ val'.locked = val.locked
            /\ val'.pending = 1
            /\ seen' = seen
        BY <1>a, <1>c, <1>3, <3>3 DEF setPending, LockTypeOK, Free, contended
      <4> QED
        BY <1>a, <1>b, <4>1 DEF WordOK, Owning, Pending, Claiming
    <3>4. CASE ~contended(val) /\ val.locked # 1
      <4>1. /\ lockPc[t] = "setPending"
            /\ lockPc' = [lockPc EXCEPT ![t] = "take"]
            /\ val.pending = 0
            /\ val.tail = NoThread
            /\ val.locked = 0
            /\ val'.locked = 0
            /\ val'.pending = 1
            /\ seen' = seen
        BY <1>a, <1>c, <1>3, <3>4 DEF setPending, LockTypeOK, Free, contended
      <4> QED
        BY <1>a, <1>b, <4>1 DEF WordOK, Owning, Pending, Claiming
    <3> QED BY <3>1, <3>2, <3>3, <3>4
  <2> QED BY <2>1, <2>2
<1>4. CASE unsetPending(t)
  <2>1. LockTypeOK'
    BY <1>a, <1>c, <1>4 DEF unsetPending, LockTypeOK
  <2>2. WordOK'
    <3>1. /\ lockPc[t] = "unsetPending"
          /\ lockPc' = [lockPc EXCEPT ![t] = "queue"]
          /\ val'.locked = val.locked
          /\ val'.pending = 0
          /\ seen' = seen
      BY <1>a, <1>c, <1>4 DEF unsetPending, LockTypeOK, Free
    <3> QED
      BY <1>a, <1>b, <3>1 DEF WordOK, Owning, Pending, Claiming
  <2> QED BY <2>1, <2>2
<1>5. CASE waitOwner(t)
  <2>1. LockTypeOK'
    BY <1>a, <1>c, <1>5 DEF waitOwner, LockTypeOK
  <2>2. WordOK'
    <3>1. /\ lockPc[t] = "waitOwner"
          /\ lockPc' = [lockPc EXCEPT ![t] = "take"]
          /\ val.locked = 0
          /\ val' = val
          /\ seen' = seen
      BY <1>a, <1>c, <1>5 DEF waitOwner, LockTypeOK, Free
    <3> QED
      BY <1>a, <1>b, <3>1 DEF WordOK, Owning, Pending, Claiming
  <2> QED BY <2>1, <2>2
<1>6. CASE clearPendingSetLocked(t)
  <2>0. val.locked = 0 /\ val.pending = 1
    BY <1>a, <1>6 DEF clearPendingSetLocked, WordOK, Pending
  <2>a. val' = [val EXCEPT !.pending = 0, !.locked = 1]
    BY <1>6, <2>0 DEF clearPendingSetLocked
  <2>b. val' \in Word
    <3> DEFINE cleared == [val EXCEPT !.pending = 0]
    <3>1. cleared \in Word
      BY <1>a
    <3>2. \A w \in Word : [w EXCEPT !.locked = 1] \in Word
      OBVIOUS
    <3>3. val' = [cleared EXCEPT !.locked = 1]
      BY <1>a, <2>a
    <3> QED BY <3>1, <3>2, <3>3
  <2>1. LockTypeOK'
    BY <1>a, <1>6, <2>b DEF clearPendingSetLocked, LockTypeOK
  <2>2. WordOK'
    <3>1. /\ lockPc[t] = "take"
          /\ lockPc' = [lockPc EXCEPT ![t] = "in"]
          /\ val.locked = 0
          /\ val.pending = 1
          /\ val'.locked = 1
          /\ val'.pending = 0
          /\ seen' = seen
      BY <1>a, <1>c, <1>6 DEF clearPendingSetLocked, LockTypeOK, Free, WordOK, Pending, Claiming
    <3> QED
      BY <1>a, <1>b, <3>1 DEF WordOK, Owning, Pending, Claiming
  <2> QED BY <2>1, <2>2
<1>7. CASE queueNode(t)
  <2>1. LockTypeOK'
    BY <1>a, <1>c, <1>7 DEF queueNode, LockTypeOK
  <2>2. WordOK'
    <3>1. CASE val = Free
      <4>1. /\ lockPc[t] = "queue"
            /\ lockPc' = [lockPc EXCEPT ![t] = "in"]
            /\ val.tail = NoThread
            /\ val.locked = 0
            /\ val.pending = 0
            /\ val'.locked = 1
            /\ val'.pending = 0
            /\ seen' = seen
        BY <1>a, <1>c, <1>7, <3>1 DEF queueNode, LockTypeOK, Free
      <4> QED
        BY <1>a, <1>b, <4>1 DEF WordOK, Owning, Pending, Claiming
    <3>2. CASE val # Free
      <4>1. /\ lockPc[t] = "queue"
            /\ lockPc' = [lockPc EXCEPT ![t] = "xchg"]
            /\ val' = val
            /\ seen' = seen
        BY <1>a, <1>c, <1>7, <3>2 DEF queueNode, LockTypeOK, Free
      <4> QED
        BY <1>a, <1>b, <4>1 DEF WordOK, Owning, Pending, Claiming
    <3> QED BY <3>1, <3>2
  <2> QED BY <2>1, <2>2
<1>8. CASE xchgTail(t)
  <2>a. val' \in Word
    BY <1>a, <1>8 DEF xchgTail
  <2>b. seen' \in [LockThreads -> Word]
    BY <1>a, <1>8 DEF xchgTail, LockTypeOK
  <2>1. LockTypeOK'
    BY <1>a, <1>8, <2>a, <2>b DEF xchgTail, LockTypeOK
  <2>2. WordOK'
    <3>1. /\ lockPc[t] = "xchg"
          /\ lockPc' = [lockPc EXCEPT ![t] = "head"] \/ lockPc' = [lockPc EXCEPT ![t] = "link"]
          /\ val'.locked = val.locked
          /\ val'.pending = val.pending
          /\ \A u \in LockThreads : u # t => seen'[u] = seen[u]
      BY <1>a, <1>c, <1>8 DEF xchgTail, LockTypeOK, Free
    <3> QED
      BY <1>a, <1>b, <3>1 DEF WordOK, Owning, Pending, Claiming
  <2> QED BY <2>1, <2>2
<1>9. CASE linkNode(t)
  <2>1. LockTypeOK'
    BY <1>a, <1>c, <1>9 DEF linkNode, LockTypeOK
  <2>2. WordOK'
    <3>1. /\ lockPc[t] = "link"
          /\ lockPc' = [lockPc EXCEPT ![t] = "spin"]
          /\ val' = val
          /\ \A u \in LockThreads : u # t => seen'[u] = seen[u]
      BY <1>a, <1>c, <1>9 DEF linkNode, LockTypeOK, Free
    <3> QED
      BY <1>a, <1>b, <3>1 DEF WordOK, Owning, Pending, Claiming
  <2> QED BY <2>1, <2>2
<1>10. CASE reachHead(t)
  <2>1. LockTypeOK'
    BY <1>a, <1>c, <1>10 DEF reachHead, LockTypeOK
  <2>2. WordOK'
    <3>1. /\ lockPc[t] = "spin"
          /\ lockPc' = [lockPc EXCEPT ![t] = "head"]
          /\ val' = val
          /\ seen' = seen
      BY <1>a, <1>c, <1>10 DEF reachHead, LockTypeOK, Free
    <3> QED
      BY <1>a, <1>b, <3>1 DEF WordOK, Owning, Pending, Claiming
  <2> QED BY <2>1, <2>2
<1>11. CASE waitFree(t)
  <2>1. LockTypeOK'
    BY <1>a, <1>c, <1>11 DEF waitFree, LockTypeOK
  <2>2. WordOK'
    <3>1. CASE val.tail = t
      <4>1. /\ lockPc[t] = "head"
            /\ lockPc' = [lockPc EXCEPT ![t] = "claim"]
            /\ val' = val
            /\ val.locked = 0
            /\ val.pending = 0
            /\ seen' = [seen EXCEPT ![t] = val]
            /\ val.tail = t
        BY <1>a, <1>c, <1>11, <3>1 DEF waitFree, LockTypeOK, Free
      <4> QED
        BY <1>a, <1>b, <1>c, <4>1 DEF WordOK, Owning, Pending, Claiming, LockTypeOK
    <3>2. CASE val.tail # t
      <4>1. /\ lockPc[t] = "head"
            /\ lockPc' = [lockPc EXCEPT ![t] = "claimQueued"]
            /\ val' = val
            /\ val.locked = 0
            /\ val.pending = 0
            /\ seen' = seen
        BY <1>a, <1>c, <1>11, <3>2 DEF waitFree, LockTypeOK, Free
      <4> QED
        BY <1>a, <1>b, <4>1 DEF WordOK, Owning, Pending, Claiming
    <3> QED BY <3>1, <3>2
  <2> QED BY <2>1, <2>2
<1>12. CASE claim(t)
  <2>1. LockTypeOK'
    BY <1>a, <1>c, <1>12 DEF claim, claimIf, LockTypeOK
  <2>2. WordOK'
    <3>1. CASE val = seen[t]
      <4>1. /\ lockPc[t] = "claim"
            /\ lockPc' = [lockPc EXCEPT ![t] = "in"]
            /\ val.locked = 0
            /\ val.pending = 0
            /\ val'.locked = 1
            /\ val'.pending = 0
            /\ \A u \in LockThreads : u # t => seen'[u] = seen[u]
        BY <1>a, <1>c, <1>12, <3>1 DEF claim, claimIf, LockTypeOK, Free, WordOK
      <4> QED
        BY <1>a, <1>b, <4>1 DEF WordOK, Owning, Pending, Claiming
    <3>2. CASE val # seen[t]
      <4>1. /\ lockPc[t] = "claim"
            /\ lockPc' = [lockPc EXCEPT ![t] = "claimQueued"]
            /\ val' = val
            /\ \A u \in LockThreads : u # t => seen'[u] = seen[u]
        BY <1>a, <1>c, <1>12, <3>2 DEF claim, claimIf, LockTypeOK, Free, WordOK
      <4> QED
        BY <1>a, <1>b, <4>1 DEF WordOK, Owning, Pending, Claiming
    <3> QED BY <3>1, <3>2
  <2> QED BY <2>1, <2>2
<1>13. CASE claimQueued(t)
  <2>1. LockTypeOK'
    BY <1>a, <1>c, <1>13 DEF claimQueued, LockTypeOK
  <2>2. WordOK'
    <3>1. /\ lockPc[t] = "claimQueued"
          /\ lockPc' = [lockPc EXCEPT ![t] = "handOver"]
          /\ val.locked = 0
          /\ val'.locked = 1
          /\ val'.pending = val.pending
          /\ seen' = seen
      BY <1>a, <1>c, <1>13 DEF claimQueued, LockTypeOK, Free, WordOK, Pending, Claiming
    <3> QED
      BY <1>a, <1>b, <3>1 DEF WordOK, Owning, Pending, Claiming
  <2> QED BY <2>1, <2>2
<1>14. CASE handOver(t)
  <2>1. LockTypeOK'
    BY <1>a, <1>c, <1>14 DEF handOver, handOverWhen, LockTypeOK
  <2>2. WordOK'
    <3>1. /\ lockPc[t] = "handOver"
          /\ lockPc' = [lockPc EXCEPT ![t] = "in"]
          /\ val' = val
          /\ seen' = seen
      BY <1>a, <1>c, <1>14 DEF handOver, handOverWhen, LockTypeOK, Free
    <3> QED
      BY <1>a, <1>b, <3>1 DEF WordOK, Owning, Pending, Claiming
  <2> QED BY <2>1, <2>2
<1>15. CASE unlock(t)
  <2>1. LockTypeOK'
    BY <1>a, <1>c, <1>15 DEF unlock, LockTypeOK
  <2>2. WordOK'
    <3>1. /\ lockPc[t] = "in"
          /\ lockPc' = [lockPc EXCEPT ![t] = "out"]
          /\ val'.locked = 0
          /\ val'.pending = val.pending
          /\ seen' = seen
      BY <1>a, <1>c, <1>15 DEF unlock, LockTypeOK, Free
    <3> QED
      BY <1>a, <1>b, <3>1 DEF WordOK, Owning, Pending, Claiming
  <2> QED BY <2>1, <2>2
<1> QED
  BY <1>1, <1>2, <1>3, <1>4, <1>5, <1>6, <1>7, <1>8, <1>9, <1>10, <1>11, <1>12, <1>13, <1>14, <1>15 DEF lockStep

-----------------------------------------------------------------------------
(* The queue                                                               *)

\* Every step keeps the order of the queue and the nodes that are about to enter it.
LEMMA QueueStep ==
    ASSUME LockInv, NEW t \in LockThreads, lockFast(t) \/ lockStep(t)
    PROVE  NodeOK' /\ QueueOK'
<1> DEFINE headPcs == {"head", "claim", "claimQueued", "handOver"}
           queuePcs == {"link", "spin"} \cup headPcs
<1>a. PICK pos \in [LockThreads -> Int], f, l \in Int : Order(pos, f, l)
  BY DEF LockInv, QueueOK
<1>b. /\ lockPc = [u \in LockThreads |-> lockPc[u]]
      /\ LockTypeOK /\ NodeOK /\ NoThread \notin LockThreads
      /\ Queued \subseteq LockThreads /\ Heads \subseteq LockThreads
  BY LockAssumption DEF LockInv, LockTypeOK, Queued, Heads
<1>c. SUFFICES /\ NodeOK'
               /\ \E p \in [LockThreads -> Int], g, m \in Int : Order(p, g, m)'
  BY DEF QueueOK
<1> USE DEF at, move, remember, forget
<1>1. CASE lockFast(t) \/ slowPath(t) \/ setPending(t) \/ unsetPending(t) \/ waitOwner(t)
           \/ clearPendingSetLocked(t) \/ unlock(t)
  <2> DEFINE outside == {"out", "slow", "setPending", "unsetPending", "waitOwner", "take",
                         "queue", "in"}
             moves == \E b \in outside : lockPc' = [lockPc EXCEPT ![t] = b]
             keeps == /\ lockPc[t] \in outside /\ (lockPc' = lockPc \/ moves)
                      /\ nodeNext' = nodeNext /\ nodeWait' = nodeWait
                      /\ val'.tail = val.tail
                      /\ \A u \in LockThreads : u # t => seen'[u] = seen[u]
  <2>1. keeps
    <3>1. CASE lockFast(t)
      BY <3>1, <1>b DEF lockFast, LockTypeOK
    <3>2. CASE slowPath(t)
      BY <3>2, <1>b DEF slowPath, LockTypeOK
    <3>3. CASE setPending(t)
      BY <3>3, <1>b DEF setPending, LockTypeOK
    <3>4. CASE unsetPending(t) \/ waitOwner(t)
      BY <3>4, <1>b DEF unsetPending, waitOwner, LockTypeOK
    <3>5. CASE clearPendingSetLocked(t)
      BY <3>5, <1>b DEF clearPendingSetLocked, LockTypeOK
    <3>6. CASE unlock(t)
      BY <3>6, <1>b DEF unlock, LockTypeOK
    <3> QED BY <1>1, <3>1, <3>2, <3>3, <3>4, <3>5, <3>6
  <2>2. Queued' = Queued /\ Heads' = Heads /\ t \notin Queued
    BY <1>b, <2>1 DEF Queued, Heads
  <2>3. \A u \in Queued : lockPc'[u] = lockPc[u] /\ seen'[u] = seen[u]
    BY <1>b, <2>1, <2>2
  <2>4. Order(pos, f, l)'
    BY <1>a, <1>b, <2>1, <2>2, <2>3 DEF Order
  <2>5. NodeOK'
    BY <1>b, <2>1 DEF NodeOK
  <2> QED BY <2>4, <2>5
<1>2. CASE queueNode(t)
  <2>1. /\ lockPc[t] = "queue"
        /\ lockPc' = [lockPc EXCEPT ![t] = "in"] \/ lockPc' = [lockPc EXCEPT ![t] = "xchg"]
        /\ nodeNext' = [nodeNext EXCEPT ![t] = NoThread]
        /\ nodeWait' = [nodeWait EXCEPT ![t] = FALSE]
        /\ val'.tail = val.tail /\ seen' = seen
    BY <1>2, <1>b DEF queueNode, LockTypeOK
  <2>2. Queued' = Queued /\ Heads' = Heads /\ t \notin Queued
    BY <1>b, <2>1 DEF Queued, Heads
  <2>3. \A u \in Queued : /\ lockPc'[u] = lockPc[u] /\ nodeNext'[u] = nodeNext[u]
                           /\ nodeWait'[u] = nodeWait[u]
    BY <1>b, <2>1, <2>2 DEF LockTypeOK
  <2>4. Order(pos, f, l)'
    BY <1>a, <1>b, <2>1, <2>2, <2>3 DEF Order
  <2>5. NodeOK'
    BY <1>b, <2>1 DEF NodeOK, LockTypeOK
  <2> QED BY <2>4, <2>5
<1>3. CASE xchgTail(t)
  <2>1. /\ lockPc[t] = "xchg" /\ val'.tail = t
        /\ nodeNext' = nodeNext /\ nodeWait' = nodeWait
        /\ nodeNext[t] = NoThread /\ ~nodeWait[t]
    BY <1>3, <1>b DEF xchgTail, LockTypeOK, NodeOK
  <2>2. CASE val.tail = NoThread
    <3>1. Queued = {} /\ lockPc' = [lockPc EXCEPT ![t] = "head"]
      BY <1>3, <1>a, <2>2 DEF xchgTail, Order
    <3>2. Queued' = {t} /\ Heads' = {t}
      BY <1>b, <3>1 DEF Queued, Heads
    <3>3. Order(pos, pos[t], pos[t])'
      BY <1>a, <1>b, <2>1, <3>1, <3>2 DEF Order
    <3>4. NodeOK'
      BY <1>b, <2>1, <3>1 DEF NodeOK
    <3> QED BY <1>a, <3>3, <3>4
  <2>3. CASE val.tail # NoThread
    <3> DEFINE p == [pos EXCEPT ![t] = l + 1]
    <3>1. /\ lockPc' = [lockPc EXCEPT ![t] = "link"]
          /\ seen' = [seen EXCEPT ![t] = val]
      BY <1>3, <2>3 DEF xchgTail
    <3>2. Queued' = Queued \cup {t} /\ Heads' = Heads /\ t \notin Queued
      BY <1>b, <2>1, <3>1 DEF Queued, Heads
    <3>3. val.tail \in Queued /\ pos[val.tail] = l /\ nodeNext[val.tail] = NoThread /\ f <= l
      BY <1>a, <1>b, <2>3 DEF Order
    <3>4. \A u \in Queued : lockPc'[u] = lockPc[u] /\ p[u] = pos[u] /\ seen'[u] = seen[u]
      BY <1>a, <1>b, <3>1, <3>2 DEF LockTypeOK
    <3>5. lockPc'[t] = "link" /\ seen'[t].tail = val.tail /\ p[t] = l + 1
      BY <1>a, <1>b, <3>1 DEF LockTypeOK
    <3>6. p \in [LockThreads -> Int] /\ l + 1 \in Int
      BY <1>a
    <3>7. NodeOK'
      BY <1>b, <2>1, <3>1 DEF NodeOK
    <3> HIDE DEF p
    <3>8. ASSUME NEW u \in Queued'
          PROVE  /\ p[u] \in f .. l + 1
                 /\ p[u] = f => u \in Heads \/ (lockPc'[u] = "spin" /\ nodeWait[u])
                 /\ p[u] # f => u \notin Heads /\ ~nodeWait[u]
      <4>1. CASE u = t
        <5>1. p[u] \in f .. l + 1 /\ p[u] # f
          BY <1>a, <3>3, <3>5, <4>1
        <5>2. u \notin Heads /\ ~nodeWait[u]
          BY <2>1, <3>2, <4>1, Zenon DEF Queued
        <5> QED BY <5>1, <5>2, Zenon
      <4>2. CASE u \in Queued
        <5>1. pos[u] \in f .. l
          BY <1>a, <4>2 DEF Order
        <5>2. p[u] \in f .. l + 1
          BY <1>a, <3>4, <4>2, <5>1
        <5>3. /\ pos[u] = f => u \in Heads \/ (lockPc[u] = "spin" /\ nodeWait[u])
              /\ pos[u] # f => u \notin Heads /\ ~nodeWait[u]
          BY <1>a, <4>2, Zenon DEF Order
        <5>4. p[u] = pos[u] /\ lockPc'[u] = lockPc[u]
          BY <3>4, <4>2, Zenon
        <5> QED BY <5>2, <5>3, <5>4, Zenon
      <4> QED BY <3>2, <4>1, <4>2, Zenon
    <3>9. ASSUME NEW u \in Queued', NEW v \in Queued', p[u] = p[v]
          PROVE  u = v
      BY <1>a, <1>b, <3>2, <3>3, <3>4, <3>5, <3>9 DEF Order
    <3>10. ASSUME NEW u \in Queued', lockPc'[u] = "link"
           PROVE  /\ seen'[u].tail \in Queued' /\ p[seen'[u].tail] + 1 = p[u]
                  /\ nodeNext[seen'[u].tail] = NoThread
      BY <1>a, <1>b, <3>2, <3>3, <3>4, <3>5, <3>10 DEF Order
    <3>11. ASSUME NEW u \in Queued', nodeNext[u] # NoThread
           PROVE  /\ nodeNext[u] \in Queued' /\ p[nodeNext[u]] = p[u] + 1
                  /\ lockPc'[nodeNext[u]] = "spin"
      BY <1>a, <1>b, <2>1, <3>2, <3>3, <3>4, <3>5, <3>11 DEF Order
    <3>12. Order(p, f, l + 1)'
      BY <1>b, <2>1, <3>2, <3>5, <3>8, <3>9, <3>10, <3>11 DEF Order
    <3> QED BY <1>a, <3>6, <3>7, <3>12
  <2> QED BY <2>2, <2>3
<1>4. CASE linkNode(t)
  <2> DEFINE prev == seen[t].tail
  <2>1. /\ lockPc[t] = "link" /\ lockPc' = [lockPc EXCEPT ![t] = "spin"]
        /\ nodeNext' = [nodeNext EXCEPT ![prev] = t] /\ nodeWait' = nodeWait
        /\ val' = val
        /\ \A u \in LockThreads : u # t => seen'[u] = seen[u]
    BY <1>4, <1>b DEF linkNode, LockTypeOK
  <2>2. Queued' = Queued /\ Heads' = Heads /\ t \in Queued /\ t \notin Heads
    BY <1>b, <2>1 DEF Queued, Heads
  <2>3. prev \in Queued /\ pos[prev] + 1 = pos[t] /\ nodeNext[prev] = NoThread
    BY <1>a, <2>1, <2>2 DEF Order
  <2>4. /\ nodeNext'[prev] = t
        /\ \A u \in Queued : u # prev => nodeNext'[u] = nodeNext[u]
        /\ \A u \in Queued : u # t => lockPc'[u] = lockPc[u]
        /\ lockPc'[t] = "spin"
    BY <1>b, <2>1, <2>3 DEF LockTypeOK
  <2>5. Order(pos, f, l)'
    <3>1. \A u \in Queued : pos[u] = f => u \in Heads \/ (lockPc'[u] = "spin" /\ nodeWait[u])
      BY <1>a, <1>b, <2>2, <2>3, <2>4 DEF Order
    <3>2. ASSUME NEW u \in Queued, lockPc'[u] = "link"
          PROVE  /\ seen'[u].tail \in Queued /\ pos[seen'[u].tail] + 1 = pos[u]
                 /\ nodeNext'[seen'[u].tail] = NoThread
      BY <1>a, <1>b, <2>1, <2>2, <2>3, <2>4, <3>2, SMTT(40) DEF Order
    <3>3. ASSUME NEW u \in Queued, nodeNext'[u] # NoThread
          PROVE  /\ nodeNext'[u] \in Queued /\ pos[nodeNext'[u]] = pos[u] + 1
                 /\ lockPc'[nodeNext'[u]] = "spin"
      BY <1>a, <1>b, <2>1, <2>2, <2>3, <2>4, <3>3, SMTT(40) DEF Order
    <3> QED
      BY <1>a, <1>b, <2>1, <2>2, <3>1, <3>2, <3>3 DEF Order
  <2>6. NodeOK'
    BY <1>b, <2>1, <2>3 DEF NodeOK, LockTypeOK, Queued, Heads
  <2> QED BY <2>5, <2>6
<1>5. CASE reachHead(t)
  <2>1. /\ lockPc[t] = "spin" /\ nodeWait[t] /\ lockPc' = [lockPc EXCEPT ![t] = "head"]
        /\ nodeWait' = [nodeWait EXCEPT ![t] = FALSE]
        /\ val' = val /\ nodeNext' = nodeNext /\ seen' = seen
    BY <1>5 DEF reachHead
  <2>2. Queued' = Queued /\ Heads' = Heads \cup {t} /\ t \in Queued
    BY <1>b, <2>1 DEF Queued, Heads
  <2>3. pos[t] = f
    BY <1>a, <2>1, <2>2 DEF Order
  <2>4. \A u \in Queued : u # t => lockPc'[u] = lockPc[u] /\ nodeWait'[u] = nodeWait[u]
    BY <1>b, <2>1 DEF LockTypeOK
  <2>5. \A u \in Queued : nodeNext[u] # t
    BY <1>a, <1>b, <2>2, <2>3 DEF Order
  <2>6. lockPc'[t] = "head"
    BY <1>b, <2>1
  <2>7. Order(pos, f, l)'
    BY <1>a, <1>b, <2>1, <2>2, <2>3, <2>4, <2>5, <2>6 DEF Order
  <2>8. NodeOK'
    BY <1>b, <2>1 DEF NodeOK, LockTypeOK
  <2> QED BY <2>7, <2>8
<1>6. CASE waitFree(t) \/ claimQueued(t) \/ (claim(t) /\ val # seen[t])
  <2>1. /\ lockPc[t] \in headPcs
        /\ \E b \in headPcs : lockPc' = [lockPc EXCEPT ![t] = b]
        /\ nodeNext' = nodeNext /\ nodeWait' = nodeWait
        /\ val'.tail = val.tail
        /\ \A u \in LockThreads : u # t => seen'[u] = seen[u]
    BY <1>6, <1>b DEF waitFree, claimQueued, claim, claimIf, LockTypeOK
  <2>2. Queued' = Queued /\ Heads' = Heads /\ t \in Heads
    BY <1>b, <2>1 DEF Queued, Heads
  <2>3. /\ \A u \in Queued : u # t => lockPc'[u] = lockPc[u] /\ seen'[u] = seen[u]
        /\ lockPc'[t] \notin {"link", "spin"} /\ lockPc[t] \notin {"link", "spin"}
    BY <1>b, <2>1
  <2>4. Order(pos, f, l)'
    BY <1>a, <1>b, <2>1, <2>2, <2>3 DEF Order
  <2>5. NodeOK'
    BY <1>b, <2>1 DEF NodeOK
  <2> QED BY <2>4, <2>5
<1>7. CASE claim(t) /\ val = seen[t]
  <2>1. /\ lockPc[t] = "claim" /\ lockPc' = [lockPc EXCEPT ![t] = "in"]
        /\ nodeNext' = nodeNext /\ nodeWait' = nodeWait
        /\ val'.tail = NoThread
    BY <1>7 DEF claim, claimIf, Free
  <2>2. t \in Heads /\ val.tail = t
    BY <1>7, <2>1 DEF Heads, LockInv, WordOK
  <2>3. Queued = {t}
    BY <2>2, HeadFacts DEF LockInv
  <2>4. Queued' = {}
    BY <1>b, <2>1, <2>3 DEF Queued, Heads
  <2>5. Order(pos, f, l)'
    BY <2>1, <2>4 DEF Order
  <2>6. NodeOK'
    BY <1>b, <2>1 DEF NodeOK
  <2> QED BY <1>a, <2>5, <2>6
<1>8. CASE handOver(t)
  <2> DEFINE next == nodeNext[t]
  <2>1. /\ lockPc[t] = "handOver" /\ lockPc' = [lockPc EXCEPT ![t] = "in"]
        /\ next # NoThread
        /\ nodeWait' = [n \in LockThreads |-> nodeWait[n] \/ n = next]
        /\ nodeNext' = [nodeNext EXCEPT ![t] = NoThread]
        /\ val' = val /\ seen' = seen
    BY <1>8 DEF handOver, handOverWhen
  <2>2. Queued' = Queued \ {t} /\ Heads' = Heads \ {t} /\ t \in Queued /\ t \in Heads
    BY <1>b, <2>1 DEF Queued, Heads
  <2>3. pos[t] = f /\ next \in Queued /\ pos[next] = f + 1 /\ lockPc[next] = "spin" /\ next # t
    BY <1>a, <2>1, <2>2 DEF Order
  <2>4. Heads' = {}
    BY <1>a, <1>b, <2>2, <2>3 DEF Order, Queued
  <2>5. \A u \in Queued : u # t => /\ lockPc'[u] = lockPc[u] /\ nodeNext'[u] = nodeNext[u]
                                   /\ nodeWait'[u] = (nodeWait[u] \/ u = next)
    BY <1>b, <2>1 DEF LockTypeOK
  <2>6. \A u \in Queued : /\ nodeNext[u] # t
                           /\ lockPc[u] = "link" => seen[u].tail # t
    BY <1>a, <1>b, <2>1, <2>2, <2>3 DEF Order
  <2>7. /\ \A u \in Queued : u # t => pos[u] \in f + 1 .. l
        /\ val.tail # NoThread /\ val.tail # t
    BY <1>a, <1>b, <2>2, <2>3 DEF Order
  <2>8. Order(pos, f + 1, l)'
    <3>1. ASSUME NEW u \in Queued'
          PROVE  /\ pos[u] = f + 1 => lockPc'[u] = "spin" /\ nodeWait'[u]
                 /\ pos[u] # f + 1 => ~nodeWait'[u]
      <4>1. u \in Queued /\ u # t
        BY <2>2
      <4>2. pos[u] # f
        BY <1>a, <2>2, <2>3, <4>1, Zenon DEF Order
      <4>3. ~nodeWait[u]
        BY <1>a, <4>1, <4>2, Zenon DEF Order
      <4>4. lockPc'[u] = lockPc[u] /\ nodeWait'[u] = (nodeWait[u] \/ u = next)
        BY <2>5, <4>1, Zenon
      <4>5. pos[u] = f + 1 => u = next
        BY <1>a, <2>3, <4>1 DEF Order
      <4> QED BY <2>3, <4>3, <4>4, <4>5, Zenon
    <3>2. ASSUME NEW u \in Queued', lockPc'[u] = "link"
          PROVE  /\ seen[u].tail \in Queued' /\ pos[seen[u].tail] + 1 = pos[u]
                 /\ nodeNext'[seen[u].tail] = NoThread
      BY <1>a, <1>b, <2>2, <2>5, <2>6, <3>2 DEF Order
    <3>3. ASSUME NEW u \in Queued', nodeNext'[u] # NoThread
          PROVE  /\ nodeNext'[u] \in Queued' /\ pos[nodeNext'[u]] = pos[u] + 1
                 /\ lockPc'[nodeNext'[u]] = "spin"
      BY <1>a, <1>b, <2>2, <2>5, <2>6, <3>3 DEF Order
    <3>4. /\ \A u \in Queued' : pos[u] \in f + 1 .. l
          /\ \A u, v \in Queued' : pos[u] = pos[v] => u = v
          /\ val.tail \in Queued' /\ pos[val.tail] = l
      BY <1>a, <2>2, <2>7 DEF Order
    <3> QED
      BY <2>1, <2>4, <2>7, <3>1, <3>2, <3>3, <3>4 DEF Order
  <2>9. NodeOK'
    BY <1>b, <2>1, <2>3 DEF NodeOK, LockTypeOK
  <2> QED BY <1>a, <2>8, <2>9
<1> QED
  BY <1>1, <1>2, <1>3, <1>4, <1>5, <1>6, <1>7, <1>8 DEF lockStep

-----------------------------------------------------------------------------
(* The theorems                                                            *)

\* The free lock word and an empty queue satisfy the invariant (_Q_UNLOCKED_VAL).
LEMMA LockInvInit == LockInit => LockInv
<1> SUFFICES ASSUME LockInit PROVE LockInv
  OBVIOUS
<1>1. LockTypeOK
  BY DEF LockInit, LockTypeOK, Free
<1>2. WordOK
  BY DEF LockInit, WordOK, Owning, Pending, Claiming, Free
<1>3. NodeOK
  BY DEF LockInit, NodeOK
<1>4. Order([t \in LockThreads |-> 0], 0, 0)
  BY DEF LockInit, Order, Queued, Heads, Free
<1> QED
  BY <1>1, <1>2, <1>3, <1>4 DEF LockInv, QueueOK

\* Every access of lock, queuedSpinlockSlowpath, queued and unlock keeps the invariant.
LEMMA LockInvStep == LockInv /\ [LockNext]_lockVars => LockInv'
<1> SUFFICES ASSUME LockInv, [LockNext]_lockVars PROVE LockInv'
  OBVIOUS
<1>1. CASE LockNext
  BY <1>1, WordStep, QueueStep DEF LockNext, LockInv
<1>2. CASE UNCHANGED lockVars
  <2>1. LockTypeOK' /\ WordOK' /\ NodeOK'
    BY <1>2 DEF lockVars, LockInv, LockTypeOK, WordOK, NodeOK
  <2>2. PICK pos \in [LockThreads -> Int], f, l \in Int : Order(pos, f, l)
    BY DEF LockInv, QueueOK
  <2>3. Order(pos, f, l)'
    BY <1>2, <2>2 DEF lockVars, Order, Queued, Heads
  <2> QED BY <2>1, <2>3 DEF LockInv, QueueOK
<1> QED
  BY <1>1, <1>2

\* What the invariant says of the locked byte is mutual exclusion.
LEMMA InvExcludes == LockInv => LockExclusive
<1> SUFFICES ASSUME LockInv PROVE LockExclusive
  OBVIOUS
<1>1. val.locked \in 0 .. 1
  BY DEF LockInv, LockTypeOK
<1>2. \A t, u \in Owners : t = u
  BY DEF LockInv, WordOK, Owners, Owning
<1>3. val.locked = 1 <=> Owners # {}
  BY DEF LockInv, WordOK, Owners, Owning
<1>4. Cardinality(Owners) <= 1
  <2>1. CASE Owners = {}
    BY <2>1, FS_EmptySet
  <2>2. CASE Owners # {}
    <3>1. PICK t \in Owners : Owners = {t}
      BY <1>2, <2>2
    <3>2. Cardinality({t}) = 1
      BY FS_Singleton
    <3> QED BY <3>1, <3>2
  <2> QED BY <2>1, <2>2
<1> QED
  BY <1>3, <1>4 DEF LockExclusive

\* For every set of threads the lock word, the nodes and the local values keep their
\* types: clearPendingSetLocked, one addition, never overflows into another field.
THEOREM LockTypeCorrect == LockSpec => []LockTypeOK
<1>1. LockInv => LockTypeOK
  BY DEF LockInv
<1> QED
  BY LockInvInit, LockInvStep, <1>1, PTL DEF LockSpec

\* For every set of threads at most one owns the lock, whether it came by the fast
\* path, as the pending thread or out of the queue (qspinlock).
THEOREM LockExclusion == LockSpec => []LockExclusive
  BY LockInvInit, LockInvStep, InvExcludes, PTL DEF LockSpec
=============================================================================
