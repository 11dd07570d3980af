----------------------------- MODULE PageCache -----------------------------
(***************************************************************************)
(* One page of a solid block and the readers that fetch it:                *)
(* solidBlock::getPage and loadPage, page::use and unuse (database/) on the *)
(* reference count of util/ref.h.  A positive count is shared, a negative   *)
(* one owned by a reader that loads the page.                               *)
(*                                                                         *)
(* One action is one access to shared memory; a compare-and-swap loop is    *)
(* the step in which it succeeds or returns.  A page comes from a block     *)
(* that was flushed in this life of the process, then its data is in        *)
(* memory, or from a block file found at the start, then it has none and    *)
(* its pointer `lru' is the one the former process wrote to the file, so    *)
(* that inserting the page into that list is undefined: the process dies.   *)
(* lruNode.next is null in both cases until the page is inserted, so use    *)
(* erases nothing from the list, and fullGc finds nothing in it.            *)
(***************************************************************************)
EXTENDS Integers, FiniteSets

CONSTANTS
    Readers,    \* threads that read records of the page
    UseTries,   \* rounds of the first loop of use(): 10 in the code
    MaxGets,    \* bound on the calls of getPage
    NoData      \* pageData == nullptr

ASSUME PageAssumption ==
    /\ IsFiniteSet(Readers)
    /\ UseTries \in Nat \ {0}
    /\ MaxGets \in Nat
    /\ NoData \notin Readers \cup {"flush"}

VARIABLES
    pageCount,  \* _ref.m_ref
    pageData,   \* the buffer: NoData, or named after the thread that filled it
    pagePc,     \* where each reader stands
    tries,      \* rounds a reader has spent in use()
    gets,       \* calls of getPage so far
    pageDied,   \* the process is dead
    pageRaced   \* history: a use() or unuse() found the page owned

pageVars == <<pageCount, pageData, pagePc, tries, gets, pageDied, pageRaced>>

PageInit ==
    /\ pageCount = 0
    /\ pageData \in {NoData, "flush"}
    /\ pagePc = [r \in Readers |-> "out"]
    /\ tries = [r \in Readers |-> 0]
    /\ gets = 0
    /\ pageDied = FALSE
    /\ pageRaced = FALSE

pageGoto(r, where) == pagePc' = [pagePc EXCEPT ![r] = where]

abs(n) == IF n < 0 THEN -n ELSE n

-----------------------------------------------------------------------------
(* page::use                                                               *)

\* getPage is called
getPage(r) ==
    /\ pagePc[r] = "out"
    /\ gets < MaxGets
    /\ gets' = gets + 1
    /\ pageGoto(r, "use")
    /\ UNCHANGED <<pageCount, pageData, tries, pageDied, pageRaced>>

\* One fetch_add.  The first loop ends when the count was positive, the second
\* one when it was not zero.
entered(r) == pageCount > 0 \/ (tries[r] >= UseTries /\ pageCount # 0)

use(r) ==
    /\ pagePc[r] = "use"
    /\ pageCount' = pageCount + 1
    /\ pageRaced' = (pageRaced \/ pageCount < 0)
    /\ IF entered(r)
         THEN tries' = [tries EXCEPT ![r] = 0] /\ pageGoto(r, "test")
         ELSE /\ tries' = [tries EXCEPT ![r] = IF @ < UseTries THEN @ + 1 ELSE @]
              /\ UNCHANGED pagePc
    /\ UNCHANGED <<pageData, gets, pageDied>>

-----------------------------------------------------------------------------
(* solidBlock::getPage behind use(), and loadPage                          *)

testData(r) ==
    /\ pagePc[r] = "test"
    /\ pageGoto(r, IF pageData = NoData THEN "own" ELSE "read")
    /\ UNCHANGED <<pageCount, pageData, tries, gets, pageDied, pageRaced>>

\* Mutant: the count is not negated.
own_Shared(r) ==
    /\ pagePc[r] = "own"
    /\ pageGoto(r, IF pageCount < 0 THEN "wait" ELSE "load")
    /\ UNCHANGED <<pageCount, pageData, tries, gets, pageDied, pageRaced>>

\* ref::own
own(r) ==
    /\ pagePc[r] = "own"
    /\ IF pageCount < 0 THEN pageGoto(r, "wait") /\ UNCHANGED pageCount
       ELSE pageGoto(r, "load") /\ pageCount' = -pageCount
    /\ UNCHANGED <<pageData, tries, gets, pageDied, pageRaced>>

\* Mutant: the wait is for a page without users.
waitForShare_Zero(r) ==
    /\ pagePc[r] = "wait"
    /\ pageCount = 0
    /\ pageGoto(r, "test")
    /\ UNCHANGED <<pageCount, pageData, tries, gets, pageDied, pageRaced>>

\* ref::waitForShare, then RETRY
waitForShare(r) ==
    /\ pagePc[r] = "wait"
    /\ pageCount > 0
    /\ pageGoto(r, "test")
    /\ UNCHANGED <<pageCount, pageData, tries, gets, pageDied, pageRaced>>

\* Mutant: the data is not looked at again after own().
loadPage_Untested(r) ==
    /\ pagePc[r] = "load"
    /\ pageGoto(r, "assign")
    /\ UNCHANGED <<pageCount, pageData, tries, gets, pageDied, pageRaced>>

\* loadPage up to the unlock of m_fileLock: the page is loaded meanwhile, the
\* file is read into a buffer of this thread, or opening or reading it fails
loadPage(r) ==
    /\ pagePc[r] = "load"
    /\ \/ pageData # NoData /\ pageGoto(r, "share")
       \/ pageData = NoData /\ pageGoto(r, "assign")
       \/ pageData = NoData /\ pageGoto(r, "shareFailed")
    /\ UNCHANGED <<pageCount, pageData, tries, gets, pageDied, pageRaced>>

\* loadPage: p->pageData = data, unless the crc is wrong
assignData(r) ==
    /\ pagePc[r] = "assign"
    /\ \/ pageData' = r /\ pageGoto(r, "share")
       \/ UNCHANGED pageData /\ pageGoto(r, "shareFailed")
    /\ UNCHANGED <<pageCount, tries, gets, pageDied, pageRaced>>

\* ref::share; after a failure the page is released and nullptr returned
share(r) ==
    /\ pagePc[r] \in {"share", "shareFailed"}
    /\ pageCount' = abs(pageCount)
    /\ pageGoto(r, IF pagePc[r] = "share" THEN "read" ELSE "unuse")
    /\ UNCHANGED <<pageData, tries, gets, pageDied, pageRaced>>

\* getRecordFromPage: a null pageData is dereferenced
readRecord(r) ==
    /\ pagePc[r] = "read"
    /\ pageGoto(r, "unuse")
    /\ pageDied' = (pageData = NoData)
    /\ UNCHANGED <<pageCount, pageData, tries, gets, pageRaced>>

-----------------------------------------------------------------------------
(* page::unuse                                                             *)

\* ref::unuseForLru: the last user takes the page to put it into the list
unuse(r) ==
    /\ pagePc[r] = "unuse"
    /\ pageRaced' = (pageRaced \/ pageCount < 0)
    /\ pageCount' = IF pageCount = 1 THEN -1 ELSE pageCount - 1
    /\ pageGoto(r, IF pageCount = 1 THEN "insert" ELSE IF pageCount <= 0 THEN "free" ELSE "out")
    /\ UNCHANGED <<pageData, tries, gets, pageDied>>

\* lru->insert on the list of a process that is gone
lruInsert(r) ==
    /\ pagePc[r] = "insert"
    /\ pageDied' = TRUE
    /\ UNCHANGED <<pageCount, pageData, pagePc, tries, gets, pageRaced>>

\* unuse() found no user left: data = pageData; pageData = nullptr
takeData(r) ==
    /\ pagePc[r] = "free"
    /\ pageData' = NoData
    /\ pageGoto(r, "reset")
    /\ UNCHANGED <<pageCount, tries, gets, pageDied, pageRaced>>

\* _ref.reset() and the free of the buffer
resetCount(r) ==
    /\ pagePc[r] = "reset"
    /\ pageCount' = 0
    /\ pageGoto(r, "out")
    /\ UNCHANGED <<pageData, tries, gets, pageDied, pageRaced>>

Reader(r) ==
    /\ ~pageDied
    /\ \/ getPage(r) \/ use(r)
       \/ testData(r) \/ own(r) \/ waitForShare(r) \/ loadPage(r)
       \/ assignData(r) \/ share(r) \/ readRecord(r)
       \/ unuse(r) \/ lruInsert(r) \/ takeData(r) \/ resetCount(r)

pageEnded == pageDied /\ UNCHANGED pageVars

PageNext == (\E r \in Readers : Reader(r)) \/ pageEnded

PageSpec == PageInit /\ [][PageNext]_pageVars

\* The operating system runs every thread; a reader inside getPage goes on, and
\* releases the page when it is done.
PageFairness == \A r \in Readers : WF_pageVars(pagePc[r] # "out" /\ Reader(r))

-----------------------------------------------------------------------------
(* Properties                                                              *)

PageTypeOK ==
    /\ pageCount \in Int
    /\ pageData \in Readers \cup {NoData, "flush"}
    /\ pagePc \in [Readers -> {"out", "use", "test", "own", "wait", "load", "assign",
                           "share", "shareFailed", "read", "unuse", "insert",
                           "free", "reset"}]
    /\ tries \in [Readers -> 0 .. UseTries]
    /\ gets \in 0 .. MaxGets
    /\ pageDied \in BOOLEAN
    /\ pageRaced \in BOOLEAN

\* Readers between the end of use() and unuse()
PageUsers == {r \in Readers : pagePc[r] \in {"test", "own", "wait", "load", "assign",
                                     "share", "shareFailed", "read", "unuse"}}

PageOwners == {r \in Readers : pagePc[r] \in {"load", "assign", "share", "shareFailed"}}

\* Until a use() or unuse() finds the page owned, the count is above the number
\* of users (use() from zero counts twice, and nothing takes the second one
\* back), it is negative exactly while one reader loads the page, and so no
\* reader follows a null pageData or the pointer to the former process's list.
CountCoversUsers ==
    ~pageRaced => /\ PageUsers # {} => abs(pageCount) > Cardinality(PageUsers)
                  /\ Cardinality(PageOwners) <= 1
                  /\ pageCount < 0 <=> PageOwners # {}
                  /\ ~pageDied

\* Until a use() or unuse() finds the page owned, a page that has its data keeps
\* it: it is neither loaded again over the first buffer nor taken away.
KeepsData == [][pageData # NoData /\ ~pageRaced' => pageData' = pageData]_pageVars

\* Until a use() or unuse() finds the page owned, a reader that waits for the
\* one that loads the page goes on, whether that load succeeds or fails.  (With
\* unbounded calls that all fail it could be passed by for ever.)
WaitEnds == \A r \in Readers : (pagePc[r] = "wait") ~> (pagePc[r] # "wait" \/ pageRaced)
=============================================================================
