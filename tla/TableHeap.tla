----------------------------- MODULE TableHeap ------------------------------
(***************************************************************************)
(* A table heap, its iterators, and the undo links of its tuples           *)
(* (src/src/storage/table/table_heap.cpp, table_iterator.cpp,              *)
(*  src/src/concurrency/transaction_manager_impl.cpp), used by concurrent  *)
(* threads, each of which runs one transaction.                            *)
(*                                                                         *)
(* The buffer pool is what module PageStore promises: pages behind         *)
(* reader/writer guards.  A call that holds one guard and waits for        *)
(* nothing else under it is one step; the calls that hold a guard, or      *)
(* latch_, across another acquisition are split there.  th[t] is thread    *)
(* t's position in its call, with the call's locals.                       *)
(***************************************************************************)
EXTENDS Integers, Sequences, FiniteSets, Maps

CONSTANTS BUSTUB_PAGE_SIZE,
          TABLE_PAGE_HEADER_SIZE,
          TUPLE_INFO_SIZE,
          SizeRange,     \* the values of a size_t, 2^64 in the program
          OffsetRange,   \* the values of a uint16_t
          Threads,
          Lengths,       \* lengths of the tuples that are inserted
          Versioned,     \* RIDs of the tuples that transactions update
          Patched,       \* RIDs of the tuples that are updated in place
          MaxTuples,     \* bound on the tuples inserted
          MaxLogs,       \* bound on the undo logs of a transaction
          None

ASSUME PageAssumption ==
    /\ {BUSTUB_PAGE_SIZE, TABLE_PAGE_HEADER_SIZE, TUPLE_INFO_SIZE} \subseteq Nat
    /\ {SizeRange, OffsetRange} \subseteq Nat \ {0}
    /\ BUSTUB_PAGE_SIZE < OffsetRange /\ OffsetRange <= SizeRange

ASSUME HeapAssumption == MaxTuples \in Nat /\ MaxLogs \in Nat /\ None \notin Threads

VARIABLES pages,          \* page id -> page, for the pages of the heap
          last_page_id,
          latch,          \* the thread holding latch_, or None
          writer,         \* page id -> the thread with a write guard, or None
          readers,        \* page id -> the threads with a read guard
          version_info,   \* page id -> slot -> undo link
          undo_logs,      \* transaction -> its undo logs
          th,
          history         \* rid -> the versions that were replaced, oldest
                          \* first; a history variable

guards == <<writer, readers>>
heap == <<pages, last_page_id, latch>>
versions == <<version_info, undo_logs, history>>
vars == <<heap, guards, versions, th>>

-----------------------------------------------------------------------------
(* The slotted page (src/src/storage/page/table_page.cpp).  A page is its  *)
(* next_page_id and its tuple_info_ array; an entry of the array also      *)
(* carries the bytes stored at its offset, which is sound as long as no    *)
(* two tuples of a page share a byte.  num_deleted_tuples_, which nothing  *)
(* reads, is left out.  Slots count from 0, sequences from 1.              *)

INVALID_PAGE_ID == -1
Nullopt == -1

\* TablePage::Init
EmptyPage == [next_page_id |-> INVALID_PAGE_ID, tuple_info |-> <<>>]

\* A page NewPage has just handed out: null bytes, so its next page is page 0.
ZeroPage == [next_page_id |-> 0, tuple_info |-> <<>>]

NumTuples(page) == Len(page.tuple_info)

\* How much of the page the header and n tuple infos take
Reserved(n) == TABLE_PAGE_HEADER_SIZE + TUPLE_INFO_SIZE * n

\* The subtraction is one of size_t's, the result is cut to 16 bits.
GetNextTupleOffset(page, tuple) ==
    LET n == NumTuples(page)
        slot_end_offset == IF n > 0 THEN page.tuple_info[n].offset ELSE BUSTUB_PAGE_SIZE
        tuple_offset == (slot_end_offset - tuple.length) % SizeRange
    IN  IF tuple_offset < Reserved(n + 1) THEN Nullopt ELSE tuple_offset % OffsetRange

\* The page with the tuple in its next slot; the caller has seen that it fits.
InsertTuple(page, meta, tuple) ==
    [page EXCEPT !.tuple_info =
        Append(@, [offset |-> GetNextTupleOffset(page, tuple), size |-> tuple.length,
                   meta |-> meta, data |-> tuple.data])]

\* Where the operations below throw "Tuple ID out of range"
InRange(page, slot) == slot < NumTuples(page)

GetTuple(page, slot) ==
    LET info == page.tuple_info[slot + 1]
    IN  [meta |-> info.meta, tuple |-> [length |-> info.size, data |-> info.data]]

UpdateTupleMeta(page, meta, slot) == [page EXCEPT !.tuple_info[slot + 1].meta = meta]

\* Where UpdateTupleInPlaceUnsafe throws "Tuple size mismatch"
SameSize(page, tuple, slot) == page.tuple_info[slot + 1].size = tuple.length

UpdateTupleInPlaceUnsafe(page, meta, tuple, slot) ==
    [page EXCEPT !.tuple_info[slot + 1].meta = meta, !.tuple_info[slot + 1].data = tuple.data]

\* The tuples of a page lie behind the tuple infos, inside the page, each
\* directly below the one inserted before it: no two share a byte.
Disjoint(page) ==
    \A i \in 1 .. NumTuples(page) :
       LET info == page.tuple_info[i]
       IN  /\ info.offset >= Reserved(NumTuples(page))
           /\ info.offset + info.size
                <= IF i = 1 THEN BUSTUB_PAGE_SIZE ELSE page.tuple_info[i - 1].offset

-----------------------------------------------------------------------------
(* The heap                                                                *)

first_page_id == 0
RID(page_id, slot) == <<page_id, slot>>
INVALID_RID == RID(INVALID_PAGE_ID, 0)

\* An undo link, None when not valid; an undo log, whose fields is_deleted_,
\* ts_ and tuple_ together are the version it restores.
UndoLink(prev_txn, prev_log_idx) == <<prev_txn, prev_log_idx>>
UndoLog(base, prev_version) == [base |-> base, prev_version |-> prev_version]

Idle == [pc |-> "idle"]

\* The tuples of the heap
Rids == UNION {{RID(p, s) : s \in 0 .. NumTuples(pages[p]) - 1} : p \in DOMAIN pages}

\* a is before b in the heap: NewPage gives ascending page ids
Before(a, b) == a[1] < b[1] \/ (a[1] = b[1] /\ a[2] < b[2])
RidsBefore(b) == {a \in Rids : Before(a, b)}

CanRead(t, p) == writer[p] = None
CanWrite(t, p) == writer[p] = None /\ readers[p] = {}

\* The constructor
Init ==
    /\ pages = [p \in {first_page_id} |-> EmptyPage]
    /\ last_page_id = first_page_id
    /\ latch = None
    /\ writer = [p \in {first_page_id} |-> None]
    /\ readers = [p \in {first_page_id} |-> {}]
    /\ version_info = EmptyMap
    /\ undo_logs = [t \in Threads |-> <<>>]
    /\ th = [t \in Threads |-> Idle]
    /\ history = EmptyMap

Goto(t, state) == th' = [th EXCEPT ![t] = state]
At(t, pc) == th[t].pc = pc

-----------------------------------------------------------------------------
(* InsertTuple                                                             *)

\* The threads that hold latch_ in InsertTuple
Inserting == {t \in Threads : th[t].pc \in {"insert", "last page", "next page"}}

\* std::unique_lock guard(latch_)
LockHeap(t) ==
    /\ At(t, "idle") /\ latch = None
    /\ Cardinality(Rids) < MaxTuples
    /\ \E n \in Lengths : Goto(t, [pc |-> "insert", tuple |-> [length |-> n, data |-> None]])
    /\ latch' = t
    /\ UNCHANGED <<pages, last_page_id, guards, versions>>

\* bpm_->WritePage(last_page_id_)
WriteLastPage(t) ==
    /\ At(t, "insert") /\ CanWrite(t, last_page_id)
    /\ writer' = [writer EXCEPT ![last_page_id] = t]
    /\ Goto(t, [pc |-> "last page", tuple |-> th[t].tuple])
    /\ UNCHANGED <<heap, readers, versions>>


\* A page without room that already has tuples gets a successor.  (A tuple
\* that does not even fit an empty page terminates the process.)
ChainNextPage(t) ==
    /\ At(t, "last page")
    /\ GetNextTupleOffset(pages[last_page_id], th[t].tuple) = Nullopt
    /\ NumTuples(pages[last_page_id]) # 0
    /\ LET next == Cardinality(DOMAIN pages)
       IN  /\ pages' = Put([pages EXCEPT ![last_page_id].next_page_id = next], next, ZeroPage)
           /\ writer' = Put(writer, next, t)
           /\ readers' = Put(readers, next, {})
           /\ Goto(t, [pc |-> "next page", tuple |-> th[t].tuple, next |-> next])
    /\ UNCHANGED <<last_page_id, latch, versions>>

\* The new page is initialised, then the guard on the full one is dropped.
InitNextPage(t) ==
    /\ At(t, "next page")
    /\ pages' = [pages EXCEPT ![th[t].next] = EmptyPage]
    /\ last_page_id' = th[t].next
    /\ writer' = [writer EXCEPT ![last_page_id] = None, ![th[t].next] = t]
    /\ Goto(t, [pc |-> "last page", tuple |-> th[t].tuple])
    /\ UNCHANGED <<latch, readers, versions>>

\* The tuple is stored; latch_ is released before the page guard.
PutTuple(t) ==
    /\ At(t, "last page")
    /\ GetNextTupleOffset(pages[last_page_id], th[t].tuple) # Nullopt
    /\ pages' = [pages EXCEPT ![last_page_id] =
                   InsertTuple(@, [ts |-> None, is_deleted |-> FALSE], th[t].tuple)]
    /\ latch' = None
    /\ Goto(t, [pc |-> "inserted", page |-> last_page_id])
    /\ UNCHANGED <<last_page_id, guards, versions>>

\* Faulty variant: the page guard is not dropped.
FinishInsertKeepGuard(t) ==
    /\ At(t, "inserted")
    /\ Goto(t, Idle)
    /\ UNCHANGED <<heap, guards, versions>>

\* page_guard.Drop()
FinishInsert(t) ==
    /\ At(t, "inserted")
    /\ writer' = [writer EXCEPT ![th[t].page] = None]
    /\ Goto(t, Idle)
    /\ UNCHANGED <<heap, readers, versions>>

-----------------------------------------------------------------------------
(* Updates in place, under one write guard.  A caller changes the deletion *)
(* mark or the data and passes the timestamp it read.                      *)

\* The update of a caller that holds the page's write guard
UpdateTupleInPlaceWithLockAcquired(meta, tuple, rid) ==
    pages' = [pages EXCEPT ![rid[1]] = UpdateTupleInPlaceUnsafe(@, meta, tuple, rid[2])]

UpdateMeta(t, rid) ==
    /\ At(t, "idle") /\ CanWrite(t, rid[1]) /\ InRange(pages[rid[1]], rid[2])
    /\ LET old == GetTuple(pages[rid[1]], rid[2])
       IN  /\ ~old.meta.is_deleted
           /\ pages' = [pages EXCEPT ![rid[1]] =
                          UpdateTupleMeta(@, [old.meta EXCEPT !.is_deleted = TRUE], rid[2])]
    /\ UNCHANGED <<last_page_id, latch, guards, versions, th>>

UpdateTupleInPlace(t, rid) ==
    /\ At(t, "idle") /\ CanWrite(t, rid[1]) /\ InRange(pages[rid[1]], rid[2])
    /\ LET old == GetTuple(pages[rid[1]], rid[2])
           tuple == [old.tuple EXCEPT !.data = t]
       IN  /\ old.tuple.data = None              \* check
           /\ SameSize(pages[rid[1]], tuple, rid[2])
           /\ pages' = [pages EXCEPT ![rid[1]] =
                          UpdateTupleInPlaceUnsafe(@, old.meta, tuple, rid[2])]
    /\ UNCHANGED <<last_page_id, latch, guards, versions, th>>

-----------------------------------------------------------------------------
(* Scans: MakeIterator or MakeEagerIterator, then GetTuple and ++ until    *)
(* IsEnd.  snap is the set of tuples the new iterator must not miss, seen  *)
(* the tuples read so far: history variables.                              *)

\* MakeIterator copies last_page_id_ under latch_ ...
MakeIterator(t) ==
    /\ At(t, "idle") /\ latch = None
    /\ Goto(t, [pc |-> "stop", last |-> last_page_id])
    /\ UNCHANGED <<heap, guards, versions>>

\* ... then reads that page's number of tuples under the page's guard.
ReadStopRid(t) ==
    /\ At(t, "stop") /\ CanRead(t, th[t].last)
    /\ LET stop == RID(th[t].last, NumTuples(pages[th[t].last]))
       IN  Goto(t, [pc |-> "iterator", stop |-> stop, snap |-> RidsBefore(stop)])
    /\ UNCHANGED <<heap, guards, versions>>

MakeEagerIterator(t) ==
    /\ At(t, "idle")
    /\ Goto(t, [pc |-> "iterator", stop |-> INVALID_RID, snap |-> Rids])
    /\ UNCHANGED <<heap, guards, versions>>

\* The constructor of TableIterator, for the tuple {first_page_id_, 0}
ConstructIterator(t) ==
    /\ At(t, "iterator") /\ CanRead(t, first_page_id)
    /\ Goto(t, [pc |-> "scan", stop |-> th[t].stop, snap |-> th[t].snap, seen |-> {},
                rid |-> IF InRange(pages[first_page_id], 0)
                          THEN RID(first_page_id, 0) ELSE INVALID_RID])
    /\ UNCHANGED <<heap, guards, versions>>

IsEnd(t) == th[t].rid = INVALID_RID

\* Faulty variant: the stop tuple is compared before the slot is advanced.
NextRidLateStop(rid, stop, page) ==
    IF rid = stop THEN INVALID_RID
    ELSE IF InRange(page, rid[2] + 1) THEN RID(rid[1], rid[2] + 1)
    ELSE RID(page.next_page_id, 0)

\* Where ++ moves the cursor
NextRid(rid, stop, page) ==
    LET next == RID(rid[1], rid[2] + 1)
    IN  IF next = stop THEN INVALID_RID
        ELSE IF InRange(page, next[2]) THEN next
        ELSE RID(page.next_page_id, 0)

\* GetTuple, then operator++ of a build without assertions
Advance(t) ==
    /\ At(t, "scan") /\ ~IsEnd(t) /\ CanRead(t, th[t].rid[1])
    /\ th' = [th EXCEPT ![t].seen = @ \cup {th[t].rid},
                        ![t].rid = NextRid(@, th[t].stop, pages[@[1]])]
    /\ UNCHANGED <<heap, guards, versions>>

EndScan(t) ==
    /\ At(t, "scan") /\ IsEnd(t)
    /\ Goto(t, Idle)
    /\ UNCHANGED <<heap, guards, versions>>

-----------------------------------------------------------------------------
(* Versions of tuples: the undo links of TransactionManager                *)

GetUndoLink(rid) ==
    IF rid[1] \in DOMAIN version_info /\ rid[2] \in DOMAIN version_info[rid[1]]
      THEN version_info[rid[1]][rid[2]] ELSE None

\* The maps after UpdateUndoLink(rid, link) with a link and without a check.
\* version_info_mutex_ is only released once the page's mutex is held, so the
\* whole call is one step for every other user of the maps.
UpdateUndoLink(rid, link) ==
    LET prev_link == IF rid[1] \in DOMAIN version_info THEN version_info[rid[1]] ELSE EmptyMap
    IN  Put(version_info, rid[1], Put(prev_link, rid[2], link))

GetUndoLog(link) == undo_logs[link[1]][link[2] + 1]

\* GetTupleAndUndoLink reads the tuple under a read guard ...
GetVersion(t, rid) ==
    /\ At(t, "idle") /\ CanRead(t, rid[1]) /\ InRange(pages[rid[1]], rid[2])
    /\ Len(undo_logs[t]) < MaxLogs
    /\ readers' = [readers EXCEPT ![rid[1]] = @ \cup {t}]
    /\ Goto(t, [pc |-> "get link", rid |-> rid, base |-> GetTuple(pages[rid[1]], rid[2])])
    /\ UNCHANGED <<heap, writer, versions>>

\* ... and the undo link before the guard is dropped.
GetVersionLink(t) ==
    /\ At(t, "get link")
    /\ readers' = [readers EXCEPT ![th[t].rid[1]] = @ \ {t}]
    /\ Goto(t, [pc |-> "version", rid |-> th[t].rid, base |-> th[t].base,
                link |-> GetUndoLink(th[t].rid)])
    /\ UNCHANGED <<heap, writer, versions>>

\* Transaction::AppendUndoLog with what the transaction read
AppendUndoLog(t) ==
    /\ At(t, "version")
    /\ undo_logs' = [undo_logs EXCEPT ![t] = Append(@, UndoLog(th[t].base, th[t].link))]
    /\ Goto(t, [pc |-> "logged", rid |-> th[t].rid, base |-> th[t].base,
                link |-> UndoLink(t, Len(undo_logs[t]))])
    /\ UNCHANGED <<heap, guards, version_info, history>>

\* Faulty variant: check is nullptr.
CheckNone(t, base) == TRUE

\* The check a writer passes: the tuple is the one it read.
Check(t, base) == base = th[t].base

\* UpdateTupleAndUndoLink: the tuple, under a write guard, unless check fails
UpdateVersion(t) ==
    LET rid == th[t].rid
        base == GetTuple(pages[rid[1]], rid[2])
        meta == [base.meta EXCEPT !.ts = t]
        tuple == [base.tuple EXCEPT !.data = t]
    IN  /\ At(t, "logged") /\ CanWrite(t, rid[1])
        /\ \/ /\ Check(t, base)
              /\ UpdateTupleInPlaceWithLockAcquired(meta, tuple, rid)
              /\ writer' = [writer EXCEPT ![rid[1]] = t]
              /\ Goto(t, [pc |-> "set link", rid |-> rid, base |-> base, link |-> th[t].link])
           \/ /\ ~Check(t, base)
              /\ Goto(t, Idle)
              /\ UNCHANGED <<pages, writer>>
    /\ UNCHANGED <<last_page_id, latch, readers, versions>>

\* The undo link, still under the write guard, which is then dropped
SetVersionLink(t) ==
    LET rid == th[t].rid
        past == IF rid \in DOMAIN history THEN history[rid] ELSE <<>>
    IN  /\ At(t, "set link")
        /\ version_info' = UpdateUndoLink(rid, th[t].link)
        /\ history' = Put(history, rid, Append(past, th[t].base))
        /\ writer' = [writer EXCEPT ![rid[1]] = None]
        /\ Goto(t, Idle)
        /\ UNCHANGED <<heap, readers, undo_logs>>

-----------------------------------------------------------------------------

\* The steps of a call that has begun
Continue(t) ==
    \/ WriteLastPage(t) \/ ChainNextPage(t) \/ InitNextPage(t) \/ PutTuple(t) \/ FinishInsert(t)
    \/ ReadStopRid(t) \/ ConstructIterator(t) \/ Advance(t) \/ EndScan(t)
    \/ GetVersionLink(t) \/ AppendUndoLog(t) \/ UpdateVersion(t) \/ SetVersionLink(t)

Start(t) ==
    \/ LockHeap(t) \/ MakeIterator(t) \/ MakeEagerIterator(t)
    \/ \E rid \in Rids \cap Patched : UpdateMeta(t, rid) \/ UpdateTupleInPlace(t, rid)
    \/ \E rid \in Rids \cap Versioned : GetVersion(t, rid)

Next == \E t \in Threads : Start(t) \/ Continue(t)

Spec == Init /\ [][Next]_vars

\* A thread that is inside a call and not blocked is scheduled.
FairSpec == Spec /\ \A t \in Threads : WF_vars(Continue(t))

-----------------------------------------------------------------------------

Latched(p) == writer[p] # None

\* What a slot, or an undo log, holds of a tuple
Versions == [meta : [ts : Threads \cup {None}, is_deleted : BOOLEAN],
             tuple : [length : Lengths, data : Threads \cup {None}]]

\* Type correctness.
TypeOK ==
    /\ DOMAIN pages = DOMAIN writer /\ DOMAIN pages = DOMAIN readers
    /\ last_page_id \in DOMAIN pages
    /\ latch \in Inserting \cup {None}
    /\ \A p \in DOMAIN pages : writer[p] \in Threads \cup {None} /\ readers[p] \subseteq Threads
    /\ undo_logs \in [Threads -> Seq([base : Versions, prev_version : {None} \cup (Threads \X Nat)])]
    /\ \A r \in Rids : GetTuple(pages[r[1]], r[2]) \in Versions

\* No insertion makes two tuples of a page overlap, or a tuple overlap the
\* tuple infos (TablePage::GetNextTupleOffset, TableHeap::InsertTuple).
SlotsDisjoint == \A p \in DOMAIN pages : Disjoint(pages[p])

\* Whoever can read a page finds its chain complete: the page holds a tuple
\* unless it is the first, and it is followed by a page with a larger id
\* unless it is the last (the order of InsertTuple's linking, initialising
\* and unlatching).
ChainComplete ==
    \A p \in DOMAIN pages : ~Latched(p) =>
       /\ p # first_page_id => NumTuples(pages[p]) > 0
       /\ IF p = last_page_id THEN pages[p].next_page_id = INVALID_PAGE_ID
          ELSE pages[p].next_page_id \in DOMAIN pages /\ pages[p].next_page_id > p


\* The cursor of a scan is a tuple that GetTuple can read, whatever page is
\* being added: TableIterator never stands on a slot out of range, and the
\* tuples it has read are those before the cursor.
CursorReadable ==
    \A t \in Threads : At(t, "scan") /\ ~IsEnd(t) =>
       /\ ~Latched(th[t].rid[1]) => th[t].rid \in Rids
       /\ th[t].seen = RidsBefore(th[t].rid)

\* A scan that has ended has read every tuple that was in the table when its
\* iterator was made, and an iterator with a stop tuple has read no other:
\* inserts during the scan are not seen (the comment on MakeIterator).  The
\* iterator made over an empty table is the exception: an insert between the
\* two reads of MakeIterator makes its assertion fail.
SnapshotScan ==
    \A t \in Threads : At(t, "scan") /\ IsEnd(t) =>
       /\ th[t].snap \subseteq th[t].seen
       /\ th[t].stop # INVALID_RID /\ th[t].stop[2] # 0 => th[t].seen = th[t].snap

\* A scan goes through the tuples of its snapshot, each readable when the cursor
\* stands on it, and stops behind the last of them.
ScanExact == CursorReadable /\ SnapshotScan

\* A transaction gets a tuple and an undo link that belong together: the link
\* leads into the undo logs of the transaction that wrote the tuple
\* (GetTupleAndUndoLink against UpdateTupleAndUndoLink).
VersionPair ==
    \A t \in Threads : At(t, "version") =>
       IF th[t].base.meta.ts = None THEN th[t].link = None
       ELSE th[t].link # None /\ th[t].link[1] = th[t].base.meta.ts

\* Every call that has begun returns: latch_ and the page guards are taken in
\* one order ("only allow one insertion at a time; otherwise, it will
\* deadlock"), and a scan comes to an end while others insert.
CallsReturn == \A t \in Threads : ~At(t, "idle") ~> At(t, "idle")

=============================================================================
