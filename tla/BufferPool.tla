----------------------------- MODULE BufferPool -----------------------------
(***************************************************************************)
(* The buffer pool manager and its page guards                             *)
(* (src/src/buffer/buffer_pool_manager.cpp,                                *)
(*  src/src/storage/page/page_guard.cpp), used by concurrent threads.      *)
(*                                                                         *)
(* A step ends where another thread can interfere: at the acquisition of   *)
(* bpm_latch_ or of a frame's rwlatch_, and at every disk request, whose   *)
(* issuer waits for the scheduler's future.  op[t] is thread t's position  *)
(* inside the method it executes, with the method's locals; guards[t] are  *)
(* the valid guards it owns.  The replacer is any policy that behaves as   *)
(* ReplacerOps says.                                                       *)
(***************************************************************************)
EXTENDS Integers, Sequences, ReplacerOps

CONSTANTS Threads,
          Frames,
          NumPages,     \* bound on the page ids NewPage hands out
          Values,       \* contents the clients write to a page
          Zero,         \* a page of null bytes
          Unspecified,  \* whatever a page that was never written, or was
                        \* deleted, reads as
          MaxGuards,    \* guards a client thread holds at a time
          FlushModes,   \* the flush variants the clients call
          DiskFaults,   \* how the disk manager may fail a request
          None

Pages == 0 .. NumPages - 1

Contents == Values \cup {Zero, Unspecified}

Guard == [page : Pages, frame : Frames, kind : {"R", "W"}]

ASSUME PoolAssumption ==
    /\ IsFiniteSet(Frames) /\ IsFiniteSet(Threads)
    /\ NumPages \in Nat /\ MaxGuards \in Nat
    /\ FlushModes \subseteq {"safe", "unsafe"}
    /\ DiskFaults \subseteq {"throws", "lost"}
    /\ None \notin Threads \cup Frames \cup Nat \cup Guard

VARIABLES next_page_id,
          bpm_latch,    \* the thread holding bpm_latch_, or None
          page_table,   \* page -> frame
          free_frames,
          frames,       \* frame -> FrameHeader without its latch
          rwlatch,      \* frame -> its readers/writer latch
          replacer,
          disk,         \* what the disk manager stores for a page
          guards,       \* thread -> the valid guards it owns
          op            \* thread -> its position in the current call

pool == <<page_table, free_frames, replacer>>
vars == <<next_page_id, bpm_latch, pool, frames, rwlatch, disk, guards, op>>

\* FrameHeader::Reset
ResetFrame == [page_id |-> None, pin_count |-> 0, is_dirty |-> FALSE, data |-> Zero]

Unlocked == [writer |-> None, readers |-> {}]

Idle == [pc |-> "idle", kind |-> None, page |-> None, frame |-> None, todo |-> {}]

\* The constructor puts every frame on the free list, in some fixed order.
Init ==
    /\ next_page_id = 0
    /\ bpm_latch = None
    /\ page_table = EmptyMap
    /\ free_frames \in {s \in [1 .. Cardinality(Frames) -> Frames] :
                           /\ \A i, j \in DOMAIN s : s[i] = s[j] => i = j
                           /\ \A f \in Frames : \E i \in DOMAIN s : s[i] = f}
    /\ frames = [f \in Frames |-> ResetFrame]
    /\ rwlatch = [f \in Frames |-> Unlocked]
    /\ replacer = EmptyReplacer
    /\ disk = [p \in Pages |-> Unspecified]
    /\ guards = [t \in Threads |-> {}]
    /\ op = [t \in Threads |-> Idle]

-----------------------------------------------------------------------------
(* Latches, disk requests and control.                                     *)

At(t, pc) == op[t].pc = pc

Goto(t, pc) == op' = [op EXCEPT ![t].pc = pc]

Return(t) == op' = [op EXCEPT ![t] = Idle]

\* Faulty variant: the frame is reset before the worker has written its data.
IssueDiskWriteOfReset(p, d, ok) == ok /\ disk' = [disk EXCEPT ![p] = Zero]

\* A disk write whose future has been waited for: ok is the future's value.
\* The disk manager throws on some errors; on others it logs and returns, and
\* the scheduler still reports success.
IssueDiskWrite(p, d, ok) ==
    \/ /\ ok
       /\ disk' = [disk EXCEPT ![p] = d]
    \/ /\ "throws" \in DiskFaults /\ ~ok
       /\ UNCHANGED disk
    \/ /\ "lost" \in DiskFaults /\ ok
       /\ UNCHANGED disk

\* What a read leaves in a zeroed buffer; the pool ignores the result.
DiskRead(p) == {disk[p]} \cup (IF DiskFaults # {} THEN {Zero} ELSE {})

AcquireShared(t, f) ==
    /\ rwlatch[f].writer = None
    /\ rwlatch' = [rwlatch EXCEPT ![f].readers = @ \cup {t}]

AcquireExclusive(t, f) ==
    /\ rwlatch[f] = Unlocked
    /\ rwlatch' = [rwlatch EXCEPT ![f].writer = t]

ReleaseShared(t, f) == rwlatch' = [rwlatch EXCEPT ![f].readers = @ \ {t}]

ReleaseExclusive(f) == rwlatch' = [rwlatch EXCEPT ![f].writer = None]

-----------------------------------------------------------------------------
(* NewPage, CheckedReadPage and CheckedWritePage.                          *)

\* Clients call a method that takes bpm_latch_ while they hold fewer than
\* MaxGuards guards.
Calls(t) == At(t, "idle") /\ Cardinality(guards[t]) < MaxGuards

NewPage(t) ==
    /\ Calls(t)
    /\ next_page_id < NumPages
    /\ next_page_id' = next_page_id + 1
    /\ UNCHANGED <<bpm_latch, pool, frames, rwlatch, disk, guards, op>>

\* A client asks for a page above the ones it holds: it never waits for a
\* page latch in an order that could itself deadlock.
CallCheckedPage(t, p, k) ==
    /\ Calls(t)
    /\ p < next_page_id
    /\ \A g \in guards[t] : g.page < p
    /\ op' = [op EXCEPT ![t] = [Idle EXCEPT !.pc = "lookup", !.kind = k, !.page = p]]
    /\ UNCHANGED <<next_page_id, bpm_latch, pool, frames, rwlatch, disk, guards>>

\* Faulty variant: a pinned frame stays evictable.
PinInReplacerStillEvictable(r, f, p) == Accessed(r, f, p)

\* RecordAccess followed by SetEvictable(frame_id, false).
PinInReplacer(r, f, p) == WithEvictable(Accessed(r, f, p), f, FALSE)

\* Faulty variant: a hit does not count as a pin.
LookupHitNoPin(t) ==
    /\ At(t, "lookup") /\ bpm_latch = None
    /\ op[t].page \in DOMAIN page_table
    /\ LET f == page_table[op[t].page]
       IN  /\ replacer' = PinInReplacer(replacer, f, op[t].page)
           /\ op' = [op EXCEPT ![t].pc = "latch", ![t].frame = f]
    /\ UNCHANGED <<next_page_id, bpm_latch, page_table, free_frames, frames, rwlatch, disk, guards>>

\* The page is resident.
LookupHit(t) ==
    /\ At(t, "lookup") /\ bpm_latch = None
    /\ op[t].page \in DOMAIN page_table
    /\ LET f == page_table[op[t].page]
       IN  /\ frames' = [frames EXCEPT ![f].pin_count = @ + 1]
           /\ replacer' = PinInReplacer(replacer, f, op[t].page)
           /\ op' = [op EXCEPT ![t].pc = "latch", ![t].frame = f]
    /\ UNCHANGED <<next_page_id, bpm_latch, page_table, free_frames, rwlatch, disk, guards>>

\* Faulty variant: the frame is taken from the list without pop_front.
LookupFreeNoPop(t) ==
    /\ At(t, "lookup") /\ bpm_latch = None
    /\ op[t].page \notin DOMAIN page_table
    /\ free_frames # <<>>
    /\ bpm_latch' = t
    /\ frames' = [frames EXCEPT ![Head(free_frames)] = ResetFrame]
    /\ op' = [op EXCEPT ![t].pc = "load", ![t].frame = Head(free_frames)]
    /\ UNCHANGED <<next_page_id, page_table, free_frames, replacer, rwlatch, disk, guards>>

\* The page is not resident and a frame is free.
LookupFree(t) ==
    /\ At(t, "lookup") /\ bpm_latch = None
    /\ op[t].page \notin DOMAIN page_table
    /\ free_frames # <<>>
    /\ bpm_latch' = t
    /\ free_frames' = Tail(free_frames)
    /\ frames' = [frames EXCEPT ![Head(free_frames)] = ResetFrame]
    /\ op' = [op EXCEPT ![t].pc = "load", ![t].frame = Head(free_frames)]
    /\ UNCHANGED <<next_page_id, page_table, replacer, rwlatch, disk, guards>>

\* No frame is free: the replacer gives one up.
LookupEvict(t) ==
    /\ At(t, "lookup") /\ bpm_latch = None
    /\ op[t].page \notin DOMAIN page_table
    /\ free_frames = <<>>
    /\ bpm_latch' = t
    /\ \E f \in replacer.evictable :
          /\ replacer' = Forgotten(replacer, f)
          /\ \/ /\ frames[f].is_dirty
                /\ op' = [op EXCEPT ![t].pc = "writeback", ![t].frame = f]
                /\ UNCHANGED <<page_table, frames>>
             \/ /\ ~frames[f].is_dirty
                /\ op' = [op EXCEPT ![t].pc = "load", ![t].frame = f]
                /\ page_table' = Erase(page_table, frames[f].page_id)
                /\ frames' = [frames EXCEPT ![f] = ResetFrame]
    /\ UNCHANGED <<next_page_id, free_frames, rwlatch, disk, guards>>

\* No frame is free and none can be evicted: the caller gets std::nullopt.
LookupNullopt(t) ==
    /\ At(t, "lookup") /\ bpm_latch = None
    /\ op[t].page \notin DOMAIN page_table
    /\ free_frames = <<>> /\ replacer.evictable = {}
    /\ Return(t)
    /\ UNCHANGED <<next_page_id, bpm_latch, pool, frames, rwlatch, disk, guards>>

\* The victim's data goes to disk; it is forgotten whether or not that worked.
WriteBack(t) ==
    /\ At(t, "writeback")
    /\ LET f == op[t].frame
       IN  /\ \E ok \in BOOLEAN : IssueDiskWrite(frames[f].page_id, frames[f].data, ok)
           /\ page_table' = Erase(page_table, frames[f].page_id)
           /\ frames' = [frames EXCEPT ![f] = ResetFrame]
    /\ Goto(t, "load")
    /\ UNCHANGED <<next_page_id, bpm_latch, free_frames, replacer, rwlatch, guards>>

Load(t) ==
    /\ At(t, "load")
    /\ LET f == op[t].frame
           p == op[t].page
       IN  /\ \E d \in DiskRead(p) :
                 frames' = [frames EXCEPT ![f] = [page_id |-> p, pin_count |-> 1,
                                                  is_dirty |-> FALSE, data |-> d]]
           /\ page_table' = Put(page_table, p, f)
           /\ replacer' = PinInReplacer(replacer, f, p)
    /\ bpm_latch' = None
    /\ Goto(t, "latch")
    /\ UNCHANGED <<next_page_id, free_frames, rwlatch, disk, guards>>

\* The guard's constructor, which runs after bpm_latch_ is released.
LatchPage(t) ==
    /\ At(t, "latch")
    /\ LET f == op[t].frame
       IN  /\ \/ /\ op[t].kind = "R"
                 /\ AcquireShared(t, f)
                 /\ UNCHANGED frames
              \/ /\ op[t].kind = "W"
                 /\ AcquireExclusive(t, f)
                 /\ frames' = [frames EXCEPT ![f].is_dirty = TRUE]
           /\ guards' = [guards EXCEPT ![t] =
                           @ \cup {[page |-> op[t].page, frame |-> f, kind |-> op[t].kind]}]
    /\ Return(t)
    /\ UNCHANGED <<next_page_id, bpm_latch, pool, disk>>

-----------------------------------------------------------------------------
(* What a thread does with a guard it owns.                                *)

\* Faulty variant: only the constructor marks the frame dirty.
GetDataMutNotDirty(t, g) ==
    /\ At(t, "idle") /\ g.kind = "W"
    /\ op' = [op EXCEPT ![t] = [Idle EXCEPT !.pc = "store", !.frame = g.frame]]
    /\ UNCHANGED <<next_page_id, bpm_latch, pool, frames, rwlatch, disk, guards>>

\* GetDataMut marks the frame dirty; the client stores through the pointer
\* it returns in a later step.
GetDataMut(t, g) ==
    /\ At(t, "idle") /\ g.kind = "W"
    /\ frames' = [frames EXCEPT ![g.frame].is_dirty = TRUE]
    /\ op' = [op EXCEPT ![t] = [Idle EXCEPT !.pc = "store", !.frame = g.frame]]
    /\ UNCHANGED <<next_page_id, bpm_latch, pool, rwlatch, disk, guards>>

Store(t) ==
    /\ At(t, "store")
    /\ \E v \in Values : frames' = [frames EXCEPT ![op[t].frame].data = v]
    /\ Return(t)
    /\ UNCHANGED <<next_page_id, bpm_latch, pool, rwlatch, disk, guards>>

\* Flush of a guard: write, and clear the dirty flag once the write is done.
GuardFlush(t, g) ==
    /\ At(t, "idle")
    /\ \E ok \in BOOLEAN :
          /\ IssueDiskWrite(g.page, frames[g.frame].data, ok)
          /\ op' = IF ok THEN [op EXCEPT ![t] = [Idle EXCEPT !.pc = "gclear", !.frame = g.frame]]
                         ELSE op
    /\ UNCHANGED <<next_page_id, bpm_latch, pool, frames, rwlatch, guards>>

GuardFlushClear(t) ==
    /\ At(t, "gclear")
    /\ frames' = [frames EXCEPT ![op[t].frame].is_dirty = FALSE]
    /\ Return(t)
    /\ UNCHANGED <<next_page_id, bpm_latch, pool, rwlatch, disk, guards>>

\* Drop releases the page latch first, and takes bpm_latch_ only then.
Drop(t, g) ==
    /\ At(t, "idle")
    /\ IF g.kind = "R" THEN ReleaseShared(t, g.frame) ELSE ReleaseExclusive(g.frame)
    /\ guards' = [guards EXCEPT ![t] = @ \ {g}]
    /\ op' = [op EXCEPT ![t] = [Idle EXCEPT !.pc = "unpin", !.frame = g.frame]]
    /\ UNCHANGED <<next_page_id, bpm_latch, pool, frames, disk>>

\* Faulty variant: the frame becomes evictable although it is still pinned.
UnpinAlwaysEvictable(t) ==
    /\ At(t, "unpin") /\ bpm_latch = None
    /\ LET f == op[t].frame
       IN  /\ frames' = [frames EXCEPT ![f].pin_count = @ - 1]
           /\ replacer' = WithEvictable(replacer, f, TRUE)
    /\ Return(t)
    /\ UNCHANGED <<next_page_id, bpm_latch, page_table, free_frames, rwlatch, disk, guards>>

Unpin(t) ==
    /\ At(t, "unpin") /\ bpm_latch = None
    /\ LET f == op[t].frame
       IN  /\ frames' = [frames EXCEPT ![f].pin_count = @ - 1]
           /\ replacer' = IF frames[f].pin_count = 1
                            THEN WithEvictable(replacer, f, TRUE) ELSE replacer
    /\ Return(t)
    /\ UNCHANGED <<next_page_id, bpm_latch, page_table, free_frames, rwlatch, disk, guards>>

-----------------------------------------------------------------------------
(* DeletePage and the flushes.                                             *)

\* The disk manager gives a deallocated page another slot when it is used
\* again, with whatever that slot holds.
DeallocatePage(p) == disk' = [disk EXCEPT ![p] = Unspecified]

\* Faulty variant: the frame of a deleted page is not put on the free list.
DeletePageLeaksFrame(t, p) ==
    /\ Calls(t) /\ bpm_latch = None
    /\ p \in DOMAIN page_table
    /\ LET f == page_table[p]
       IN  /\ frames[f].pin_count = 0
           /\ replacer' = Forgotten(replacer, f)
           /\ page_table' = Erase(page_table, p)
           /\ frames' = [frames EXCEPT ![f] = ResetFrame]
    /\ DeallocatePage(p)
    /\ UNCHANGED <<next_page_id, bpm_latch, free_frames, rwlatch, guards, op>>

DeletePage(t, p) ==
    /\ Calls(t) /\ bpm_latch = None
    /\ p < next_page_id
    /\ \/ /\ p \notin DOMAIN page_table
          /\ UNCHANGED <<pool, frames>>
       \/ /\ p \in DOMAIN page_table
          /\ LET f == page_table[p]
             IN  /\ frames[f].pin_count = 0
                 /\ replacer' = Forgotten(replacer, f)
                 /\ page_table' = Erase(page_table, p)
                 /\ frames' = [frames EXCEPT ![f] = ResetFrame]
                 /\ free_frames' = Append(free_frames, f)
    /\ DeallocatePage(p)
    /\ UNCHANGED <<next_page_id, bpm_latch, rwlatch, guards, op>>

\* FlushPage, FlushPageUnsafe, FlushAllPages and FlushAllPagesUnsafe: ps are
\* the pages to flush.  A thread does not flush a page it holds itself.
CallFlush(t, ps, mode) ==
    /\ Calls(t) /\ bpm_latch = None
    /\ \A g \in guards[t] : g.page \notin ps
    /\ bpm_latch' = t
    /\ op' = [op EXCEPT ![t] = [Idle EXCEPT !.pc = "flush", !.kind = mode, !.todo = ps]]
    /\ UNCHANGED <<next_page_id, pool, frames, rwlatch, disk, guards>>

FlushPage(t, mode) == \E p \in DOMAIN page_table : CallFlush(t, {p}, mode)

FlushAllPages(t, mode) == DOMAIN page_table # {} /\ CallFlush(t, DOMAIN page_table, mode)

\* Faulty variant: the loop does not advance past a clean page.
FlushStartRepeats(t) ==
    /\ At(t, "flush")
    /\ \E p \in op[t].todo :
          LET f == page_table[p]
          IN  /\ op[t].kind = "safe" => rwlatch[f].writer = None
              /\ IF frames[f].is_dirty
                   THEN /\ op' = [op EXCEPT ![t].pc = "flush_write", ![t].page = p, ![t].frame = f]
                        /\ IF op[t].kind = "safe" THEN AcquireShared(t, f) ELSE UNCHANGED rwlatch
                   ELSE UNCHANGED <<op, rwlatch>>
    /\ UNCHANGED <<next_page_id, bpm_latch, pool, frames, disk, guards>>

\* The safe variants wait for the page latch here, holding bpm_latch_.
FlushStart(t) ==
    /\ At(t, "flush")
    /\ \E p \in op[t].todo :
          LET f == page_table[p]
          IN  /\ op[t].kind = "safe" => rwlatch[f].writer = None
              /\ \/ /\ ~frames[f].is_dirty
                    /\ op' = [op EXCEPT ![t].todo = @ \ {p}]
                    /\ UNCHANGED rwlatch
                 \/ /\ frames[f].is_dirty
                    /\ op' = [op EXCEPT ![t].pc = "flush_write", ![t].page = p,
                                        ![t].frame = f, ![t].todo = @ \ {p}]
                    /\ IF op[t].kind = "safe" THEN AcquireShared(t, f) ELSE UNCHANGED rwlatch
    /\ UNCHANGED <<next_page_id, bpm_latch, pool, frames, disk, guards>>

\* The end of the loop body releases the page latch.
EndFlushOne(t) ==
    /\ op' = [op EXCEPT ![t].pc = "flush", ![t].page = None, ![t].frame = None]
    /\ IF op[t].kind = "safe" THEN ReleaseShared(t, op[t].frame) ELSE UNCHANGED rwlatch

\* Without the page latch the write may meet a concurrent store half way.
FlushedData(t, f) ==
    IF op[t].kind = "unsafe" /\ rwlatch[f].writer # None THEN Contents ELSE {frames[f].data}

FlushWrite(t) ==
    /\ At(t, "flush_write")
    /\ \E ok \in BOOLEAN, d \in FlushedData(t, op[t].frame) :
          /\ IssueDiskWrite(op[t].page, d, ok)
          /\ IF ok THEN Goto(t, "flush_clear") /\ UNCHANGED rwlatch
                   ELSE EndFlushOne(t)
    /\ UNCHANGED <<next_page_id, bpm_latch, pool, frames, guards>>

FlushClear(t) ==
    /\ At(t, "flush_clear")
    /\ frames' = [frames EXCEPT ![op[t].frame].is_dirty = FALSE]
    /\ EndFlushOne(t)
    /\ UNCHANGED <<next_page_id, bpm_latch, pool, disk, guards>>

FlushReturn(t) ==
    /\ At(t, "flush") /\ op[t].todo = {}
    /\ bpm_latch' = None
    /\ Return(t)
    /\ UNCHANGED <<next_page_id, pool, frames, rwlatch, disk, guards>>

-----------------------------------------------------------------------------
\* The steps a thread owes once it is inside a call that holds bpm_latch_.
LatchHolderStep(t) ==
    \/ WriteBack(t) \/ Load(t)
    \/ FlushStart(t) \/ FlushWrite(t) \/ FlushClear(t) \/ FlushReturn(t)

Step(t) ==
    \/ NewPage(t)
    \/ \E p \in Pages, k \in {"R", "W"} : CallCheckedPage(t, p, k)
    \/ LookupHit(t) \/ LookupFree(t) \/ LookupEvict(t) \/ LookupNullopt(t)
    \/ LatchPage(t)
    \/ \E g \in guards[t] : GetDataMut(t, g) \/ GuardFlush(t, g) \/ Drop(t, g)
    \/ Store(t) \/ GuardFlushClear(t) \/ Unpin(t)
    \/ \E p \in Pages : DeletePage(t, p)
    \/ \E m \in FlushModes : FlushPage(t, m) \/ FlushAllPages(t, m)
    \/ LatchHolderStep(t)

Next == \E t \in Threads : Step(t)

Spec == Init /\ [][Next]_vars

-----------------------------------------------------------------------------
(* Properties.                                                             *)

PCs == {"idle", "lookup", "writeback", "load", "latch", "store", "gclear",
        "unpin", "flush", "flush_write", "flush_clear"}

FrameHeader == [page_id : Pages \cup {None}, pin_count : Nat, is_dirty : BOOLEAN, data : Contents]

RWLatch == [writer : Threads \cup {None}, readers : SUBSET Threads]

Call == [pc : PCs, kind : {"R", "W", "safe", "unsafe", None}, page : Pages \cup {None},
         frame : Frames \cup {None}, todo : SUBSET Pages]

IsReplacer(r) ==
    /\ r = [tracked |-> r.tracked, evictable |-> r.evictable]
    /\ IsMap(r.tracked, Frames, Pages)
    /\ r.evictable \subseteq Frames

\* The shape of the state.
TypeOK ==
    /\ next_page_id \in 0 .. NumPages
    /\ bpm_latch \in Threads \cup {None}
    /\ IsMap(page_table, Pages, Frames)
    /\ free_frames \in Seq(Frames)
    /\ frames \in [Frames -> FrameHeader]
    /\ rwlatch \in [Frames -> RWLatch]
    /\ IsReplacer(replacer)
    /\ disk \in [Pages -> Contents]
    /\ guards \in [Threads -> SUBSET Guard]
    /\ op \in [Threads -> Call]

InUseBy(f, pcs) == {t \in Threads : op[t].frame = f /\ op[t].pc \in pcs}

Resident(f) == frames[f].page_id # None

\* page_table_ and the page ids in the frame headers are inverse to each
\* other, so no page is cached twice and no frame is reachable by two pages.
PageTableMatchesFrames ==
    /\ \A p \in DOMAIN page_table : frames[page_table[p]].page_id = p
    /\ \A f \in Frames : Resident(f) =>
          /\ frames[f].page_id \in DOMAIN page_table
          /\ page_table[frames[f].page_id] = f

IsFree(f) == \E i \in DOMAIN free_frames : free_frames[i] = f

\* No frame leaks: each is on the free list (once), or holds a page, or is
\* being filled by the one thread that holds bpm_latch_, and never two of
\* these.
FramesConserved ==
    /\ \A i, j \in DOMAIN free_frames : free_frames[i] = free_frames[j] => i = j
    /\ \A f \in Frames :
          LET filling == InUseBy(f, {"load"}) # {}
          IN  \/ IsFree(f) /\ ~Resident(f) /\ ~filling
              \/ ~IsFree(f) /\ Resident(f) /\ ~filling
              \/ ~IsFree(f) /\ ~Resident(f) /\ filling

\* Who pins frame f: thread t through its guard g, or (g = None) through a
\* call that is about to construct a guard, or has released the latch of one.
Pins(f) ==
    {x \in Threads \X (Guard \cup {None}) :
        \/ x[2] \in guards[x[1]] /\ x[2].frame = f
        \/ x[2] = None /\ x[1] \in InUseBy(f, {"latch", "unpin"})}

\* A frame's pin count is the number of guards and calls that use it.
PinCountExact == \A f \in Frames : frames[f].pin_count = Cardinality(Pins(f))

\* The replacer tracks exactly the resident frames, for the page they hold,
\* and may evict exactly the unpinned ones; a victim being written back has
\* left it.
EvictableIffUnpinned ==
    /\ DOMAIN replacer.tracked = {f \in Frames : Resident(f) /\ InUseBy(f, {"writeback"}) = {}}
    /\ \A f \in DOMAIN replacer.tracked : replacer.tracked[f] = frames[f].page_id
    /\ replacer.evictable = {f \in DOMAIN replacer.tracked : frames[f].pin_count = 0}

\* While a thread owns a guard, the frame holds the guard's page and is
\* latched the way the guard says.
GuardProtectsPage ==
    \A t \in Threads : \A g \in guards[t] :
       /\ frames[g.frame].page_id = g.page
       /\ IF g.kind = "W" THEN rwlatch[g.frame].writer = t
                          ELSE t \in rwlatch[g.frame].readers

\* page_guard.h: a WritePageGuard is the only guard on its page.
GuardExclusion ==
    \A t, u \in Threads : \A g \in guards[t], h \in guards[u] :
       g.page = h.page /\ g.kind = "W" => t = u /\ g = h

\* A frame whose dirty flag is clear can be dropped: the disk has its data.
CleanMatchesDisk ==
    \A f \in Frames :
       Resident(f) /\ ~frames[f].is_dirty => frames[f].data = disk[frames[f].page_id]

\* A caller gets std::nullopt only while every frame is pinned.
NulloptOnlyWhenAllPinned ==
    [][\A t \in Threads :
          At(t, "lookup") /\ op'[t] = Idle
            => \A f \in Frames : frames[f].pin_count > 0]_vars

\* What a reader of page p would see, wherever the page is.
Content == [p \in Pages |-> IF p \in DOMAIN page_table
                              THEN frames[page_table[p]].data ELSE disk[p]]

Held == [t \in Threads |-> {[page |-> g.page, kind |-> g.kind] : g \in guards[t]}]

PS == INSTANCE PageStore WITH content <- Content, held <- Held

\* Caching is invisible: the pool implements a store of guarded pages.
ImplementsPageStore == PS!Spec

=============================================================================
