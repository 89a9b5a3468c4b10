------------------------------ MODULE BpmBench ------------------------------
(***************************************************************************)
(* The buffer pool benchmark bustub-bpm-bench (tools/bpm_bench): scan      *)
(* threads read the pages of their range, get threads change the pages     *)
(* they own, and each checks what it finds on a page.  The pool is what    *)
(* module PageStore promises.  A thread changes a page store by store, so  *)
(* that a reader that is not kept out sees it half changed.                *)
(***************************************************************************)
EXTENDS PageStore, Integers, FiniteSetsExt

CONSTANTS PageCnt,       \* --db-size
          ScanThreads,   \* numbers of the scan threads, 0 .. n - 1
          GetThreads,    \* numbers of the get threads, 0 .. n - 1
          Slots, Bytes,  \* 4000 and 256 in the code
          MaxSeed        \* bound on the changes of a page

VARIABLES created,       \* pages main has created
          at,            \* thread -> its position in the loop
          records_,      \* get thread -> page -> the seed it stored last
          alarm          \* a check failed and the process terminated

bench_vars == <<vars, created, at, records_, alarm>>

Get(i) == <<"get", i>>
Scan(i) == <<"scan", i>>
IsGet(t) == t[1] = "get"
BenchThreads == {Get(i) : i \in GetThreads} \cup {Scan(i) : i \in ScanThreads}

\* BusTubBenchPageHeader
BenchPage(seed, page_id, data) == [seed |-> seed, page_id |-> page_id, data |-> data]

\* ModifyPage: the header, then one byte chosen by the seed
StoreHeader(page, idx, seed) == [page EXCEPT !.seed = seed, !.page_id = idx]
StoreData(page) == [page EXCEPT !.data[page.seed % Slots] = page.seed % Bytes]

CheckPageConsistentNoSeed(page, idx) ==
    page.page_id = idx /\ page.data[page.seed % Slots] = page.seed % Bytes

CheckPageConsistent(page, idx, seed) ==
    page.seed = seed /\ CheckPageConsistentNoSeed(page, idx)

\* The range of a scan thread
PageIdxStart(i) == (PageCnt * i) \div Cardinality(ScanThreads)
PageIdxEnd(i) == (PageCnt * (i + 1)) \div Cardinality(ScanThreads)

\* The page a get thread changes, from a random number
GetPageIdx(rand, i) ==
    Min({(rand \div Cardinality(GetThreads)) * Cardinality(GetThreads) + i, PageCnt - 1})

BenchInit ==
    /\ Init
    /\ created = 0
    /\ at = [t \in BenchThreads |->
               [pc |-> "loop", page |-> IF IsGet(t) THEN 0 ELSE PageIdxStart(t[2])]]
    /\ records_ = [i \in GetThreads |-> [p \in Pages |-> 0]]
    /\ alarm = FALSE

At(t, pc) == ~alarm /\ created = PageCnt /\ at[t].pc = pc
Goto(t, pc) == at' = [at EXCEPT ![t].pc = pc]

\* NewPage and ModifyPage by main, before the threads start
CreatePage ==
    /\ created < PageCnt
    /\ content' = [content EXCEPT ![created] =
                     StoreData(StoreHeader(BenchPage(0, 0, [s \in 0 .. Slots - 1 |-> 0]), created, 0))]
    /\ created' = created + 1
    /\ UNCHANGED <<held, at, records_, alarm>>

ReadPage(t) ==
    /\ ~IsGet(t) /\ At(t, "loop")
    /\ Acquire(t, at[t].page, "R")
    /\ Goto(t, "check")
    /\ UNCHANGED <<created, records_, alarm>>

WritePage(t, rand) ==
    LET page == GetPageIdx(rand, t[2])
    IN  /\ IsGet(t) /\ At(t, "loop") /\ records_[t[2]][page] < MaxSeed
        /\ Acquire(t, page, "W")
        /\ at' = [at EXCEPT ![t] = [pc |-> "check", page |-> page]]
        /\ UNCHANGED <<created, records_, alarm>>

\* The check of a scan thread, and that of a get thread
Check(t) ==
    LET page == at[t].page
    IN  /\ At(t, "check")
        /\ alarm' = IF IsGet(t)
                      THEN ~CheckPageConsistent(content[page], page, records_[t[2]][page])
                      ELSE ~CheckPageConsistentNoSeed(content[page], page)
        /\ Goto(t, IF IsGet(t) THEN "header" ELSE "release")
        /\ UNCHANGED <<vars, created, records_>>

ModifyHeader(t) ==
    LET page == at[t].page
        seed == records_[t[2]][page] + 1
    IN  /\ At(t, "header")
        /\ records_' = [records_ EXCEPT ![t[2]][page] = seed]
        /\ Write(t, page, StoreHeader(content[page], page, seed))
        /\ Goto(t, "data")
        /\ UNCHANGED <<created, alarm>>

ModifyData(t) ==
    /\ At(t, "data")
    /\ Write(t, at[t].page, StoreData(content[at[t].page]))
    /\ Goto(t, "release")
    /\ UNCHANGED <<created, records_, alarm>>

\* The guard goes out of scope; a scan thread moves on to the next page.
DropGuard(t) ==
    LET page == at[t].page
        next == IF page + 1 >= PageIdxEnd(t[2]) THEN PageIdxStart(t[2]) ELSE page + 1
    IN  /\ At(t, "release")
        /\ Release(t, page, IF IsGet(t) THEN "W" ELSE "R")
        /\ at' = [at EXCEPT ![t] = [pc |-> "loop", page |-> IF IsGet(t) THEN page ELSE next]]
        /\ UNCHANGED <<created, records_, alarm>>

BenchNext ==
    \/ CreatePage
    \/ \E t \in BenchThreads :
          \/ ReadPage(t) \/ Check(t) \/ ModifyHeader(t) \/ ModifyData(t) \/ DropGuard(t)
          \/ \E rand \in 0 .. PageCnt - 1 : WritePage(t, rand)

-----------------------------------------------------------------------------

\* On a pool that keeps its promise no check fails, whichever threads meet on
\* a page: a page is never seen half changed, and a get thread finds the seed
\* it stored last, because no other thread changes its pages.
SeedsConsistent == ~alarm

=============================================================================
