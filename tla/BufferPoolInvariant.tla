------------------------- MODULE BufferPoolInvariant -------------------------
(***************************************************************************)
(* The inductive invariant of the buffer pool, for any number of threads,  *)
(* frames and pages, and its preservation by the operations that move no   *)
(* page into or out of a frame.                                            *)
(***************************************************************************)
EXTENDS BufferPool, TLAPS

\* The provers' time limit, which includes the time tlapm needs on a long module.
USE SMTT(60)

\* An overwritten field has its new value. In the scope of every proof this also
\* keeps the SMT translation from inferring types: the translation tries that first
\* and gives it up at an update of a field, and what it has inferred is never
\* forgotten, so that in a module of this length each leaf takes longer than the last.
LEMMA FieldUpdate == \A r \in [pin_count : Nat] : [r EXCEPT !.pin_count = 0].pin_count = 0
  OBVIOUS

USE FieldUpdate

-----------------------------------------------------------------------------
(* The inductive invariant.                                                *)

HolderPCs == {"writeback", "load", "flush", "flush_write", "flush_clear"}

\* bpm_latch_ is held by the one thread inside a critical section that waits
\* for the disk or for a page latch.
LatchHolder == \A t \in Threads : bpm_latch = t <=> op[t].pc \in HolderPCs

\* The locals of the methods.
CallShape ==
    \A t \in Threads :
       /\ op[t].pc \in {"writeback", "load", "latch", "store", "gclear", "unpin"}
            => op[t].frame \in Frames
       /\ op[t].pc \in {"lookup", "writeback", "load", "latch"}
            => op[t].page \in Pages /\ op[t].kind \in {"R", "W"}
       /\ op[t].pc \in {"flush_write", "flush_clear"}
            => /\ op[t].page \in DOMAIN page_table
               /\ op[t].frame = page_table[op[t].page]
       /\ op[t].pc \in {"flush", "flush_write", "flush_clear"}
            => op[t].todo \subseteq DOMAIN page_table

\* A miss installs a page that is not in the page table yet, into a frame
\* that nobody uses.
MissShape ==
    \A t \in Threads :
       /\ op[t].pc \in {"writeback", "load"} => op[t].page \notin DOMAIN page_table
       /\ op[t].pc = "writeback" =>
             /\ frames[op[t].frame].page_id # None
             /\ frames[op[t].frame].pin_count = 0

\* Whoever pins a frame finds its page there.
PinnersResident ==
    \A t \in Threads :
       /\ \A g \in guards[t] : frames[g.frame].page_id = g.page
       /\ op[t].pc = "latch" => frames[op[t].frame].page_id = op[t].page
       /\ op[t].pc = "unpin" => frames[op[t].frame].page_id # None

\* A frame is pinned exactly while its pin count is not zero.
PinnedIffPositive == \A f \in Frames : Pins(f) = {} <=> frames[f].pin_count = 0

\* A thread asks for pages in ascending order, so it has one guard per page.
Ascending ==
    \A t \in Threads :
       /\ \A g, h \in guards[t] : g.page = h.page => g = h
       /\ op[t].pc \in {"lookup", "writeback", "load", "latch"}
            => \A g \in guards[t] : g.page < op[t].page
       /\ op[t].pc \in {"flush", "flush_write", "flush_clear"}
            => \A g \in guards[t] : g.page \notin op[t].todo \cup {op[t].page}
       /\ op[t].pc \in {"store", "gclear"} => \E g \in guards[t] : g.frame = op[t].frame

\* The page latches: a guard holds its latch, and a writer excludes readers.
GuardsLatched ==
    \A t \in Threads : \A g \in guards[t] :
       IF g.kind = "W" THEN rwlatch[g.frame].writer = t
                       ELSE t \in rwlatch[g.frame].readers

WriterAlone == \A f \in Frames : rwlatch[f].writer # None => rwlatch[f].readers = {}

IInv ==
    /\ TypeOK
    /\ LatchHolder
    /\ CallShape
    /\ MissShape
    /\ PageTableMatchesFrames
    /\ FramesConserved
    /\ EvictableIffUnpinned
    /\ PinnedIffPositive
    /\ PinnersResident
    /\ Ascending
    /\ GuardsLatched
    /\ WriterAlone

-----------------------------------------------------------------------------
(* What is shown of every step.                                            *)

\* What a step does to pin counts: nothing, ...
PinsSame == \A x \in Frames : Pins(x)' = Pins(x) /\ frames'[x].pin_count = frames[x].pin_count

OtherPinsSame(f) ==
    \A x \in Frames \ {f} : Pins(x)' = Pins(x) /\ frames'[x].pin_count = frames[x].pin_count

\* ... or frame f gets a user, ...
PinAdded(f, a) ==
    /\ a \notin Pins(f) /\ Pins(f)' = Pins(f) \cup {a}
    /\ frames'[f].pin_count = frames[f].pin_count + 1
    /\ OtherPinsSame(f)

\* ... or loses one, ...
PinRemoved(f, a) ==
    /\ a \in Pins(f) /\ Pins(f)' = Pins(f) \ {a}
    /\ frames'[f].pin_count = frames[f].pin_count - 1
    /\ OtherPinsSame(f)

\* ... or one user takes the place of another.
PinMoved(f, a, b) ==
    /\ a \in Pins(f) /\ b \notin Pins(f) /\ Pins(f)' = (Pins(f) \ {a}) \cup {b}
    /\ frames'[f].pin_count = frames[f].pin_count
    /\ OtherPinsSame(f)

PinStep ==
    \/ PinsSame
    \/ \E f \in Frames : \E a, b : PinAdded(f, a) \/ PinRemoved(f, a) \/ PinMoved(f, a, b)

IStep ==
    /\ TypeOK'
    /\ LatchHolder'
    /\ CallShape'
    /\ MissShape'
    /\ PageTableMatchesFrames'
    /\ FramesConserved'
    /\ EvictableIffUnpinned'
    /\ PinnersResident'
    /\ Ascending'
    /\ GuardsLatched'
    /\ WriterAlone'
    /\ PinStep

\* The types of the variables, one fact each.
LEMMA Types ==
  ASSUME IInv
  PROVE  /\ next_page_id \in 0 .. NumPages /\ bpm_latch \in Threads \cup {None}
         /\ IsMap(page_table, Pages, Frames) /\ IsReplacer(replacer)
         /\ free_frames \in Seq(Frames)
         /\ frames \in [Frames -> FrameHeader] /\ rwlatch \in [Frames -> RWLatch]
         /\ disk \in [Pages -> Contents]
         /\ guards \in [Threads -> SUBSET Guard] /\ op \in [Threads -> Call]
  BY DEF IInv, TypeOK

\* While bpm_latch_ is free no thread is inside a critical section.
LEMMA NoHolder ==
  ASSUME IInv, bpm_latch = None
  PROVE  \A u \in Threads :
           op[u].pc \notin {"writeback", "load", "flush", "flush_write", "flush_clear"}
  BY PoolAssumption DEF IInv, LatchHolder, HolderPCs

-----------------------------------------------------------------------------
(* Steps that move no page and pin nothing.                                *)

\* A step that moves no page and changes no pin count leaves the pool's
\* metadata alone.
LEMMA MetadataStable ==
  ASSUME IInv, NEW t \in Threads,
         UNCHANGED <<page_table, free_frames, replacer>>,
         \A x \in Frames : /\ frames'[x].page_id = frames[x].page_id
                           /\ frames'[x].pin_count = frames[x].pin_count,
         \A u \in Threads : u # t => op'[u] = op[u],
         op[t].pc \notin {"writeback", "load"}, op'[t].pc \notin {"writeback", "load"}
  PROVE  PageTableMatchesFrames' /\ FramesConserved' /\ EvictableIffUnpinned' /\ MissShape'
  <1>1. \A x \in Frames : /\ Resident(x)' <=> Resident(x)
                          /\ InUseBy(x, {"writeback"})' = InUseBy(x, {"writeback"})
                          /\ InUseBy(x, {"load"})' = InUseBy(x, {"load"})
    BY DEF Resident, InUseBy
  <1>2. PageTableMatchesFrames'
    BY <1>1, Types DEF IInv, PageTableMatchesFrames, IsMap
  <1>3. FramesConserved'
    BY <1>1 DEF IInv, FramesConserved, IsFree
  <1>4. EvictableIffUnpinned'
    <2>1. {x \in Frames : Resident(x) /\ InUseBy(x, {"writeback"}) = {}}'
            = {x \in Frames : Resident(x) /\ InUseBy(x, {"writeback"}) = {}}
      BY <1>1
    <2>2. DOMAIN replacer.tracked \subseteq Frames
      BY Types DEF IsReplacer, IsMap
    <2> QED
      BY <2>1, <2>2 DEF IInv, EvictableIffUnpinned
  <1>5. MissShape'
    BY DEF IInv, MissShape, CallShape
  <1> QED
    BY <1>2, <1>3, <1>4, <1>5

QuietPCs == {"idle", "lookup", "store", "gclear", "flush", "flush_write", "flush_clear"}

\* Thread t moves no page, and pins and unpins nothing.
Quiet(t) ==
    /\ UNCHANGED <<page_table, free_frames, replacer, guards>>
    /\ next_page_id' \in 0 .. NumPages /\ disk' \in [Pages -> Contents]
    /\ frames' \in [Frames -> FrameHeader]
    /\ \A x \in Frames : /\ frames'[x].page_id = frames[x].page_id
                         /\ frames'[x].pin_count = frames[x].pin_count
    /\ op' \in [Threads -> Call]
    /\ \A u \in Threads : u # t => op'[u] = op[u]
    /\ op[t].pc \in QuietPCs /\ op'[t].pc \in QuietPCs

\* Such a step has to mind the latches and its own call only.
LEMMA QuietStep ==
  ASSUME IInv, NEW t \in Threads, Quiet(t),
         bpm_latch' \in Threads \cup {None}, rwlatch' \in [Frames -> RWLatch],
         LatchHolder', GuardsLatched', WriterAlone', CallShape', Ascending'
  PROVE  IStep
  <1> USE DEF Quiet, QuietPCs
  <1>1. PageTableMatchesFrames' /\ FramesConserved' /\ EvictableIffUnpinned' /\ MissShape'
    BY MetadataStable
  <1>2. PinnersResident'
    <2>1. ASSUME NEW u \in Threads, NEW g \in guards[u]
          PROVE  frames'[g.frame].page_id = g.page
      <3>1. g.frame \in Frames
        BY Types DEF Guard
      <3> QED
        BY <3>1 DEF IInv, PinnersResident
    <2>2. ASSUME NEW u \in Threads, op'[u].pc \in {"latch", "unpin"}
          PROVE  op'[u] = op[u] /\ op[u].frame \in Frames
      BY <2>2 DEF IInv, CallShape
    <2> QED
      BY <2>1, <2>2 DEF IInv, PinnersResident
  <1>3. PinStep
    <2>1. \A x \in Frames : Pins(x)' = Pins(x)
      BY DEF Pins, InUseBy
    <2> QED
      BY <2>1 DEF PinStep, PinsSame
  <1>4. TypeOK'
    BY Types DEF TypeOK, IsMap, IsReplacer
  <1> QED
    BY <1>1, <1>2, <1>3, <1>4 DEF IStep

CallPCs == {"idle", "lookup", "store", "gclear"}

\* A step outside the critical sections that takes no latch has to mind its
\* own call only.
LEMMA CallStep ==
  ASSUME IInv, NEW t \in Threads, Quiet(t), UNCHANGED <<bpm_latch, rwlatch>>,
         op[t].pc \in CallPCs, op'[t].pc \in CallPCs, CallShape', Ascending'
  PROVE  IStep
  <1>1. LatchHolder'
    BY DEF IInv, LatchHolder, HolderPCs, CallPCs, Quiet
  <1>2. GuardsLatched' /\ WriterAlone'
    BY DEF IInv, GuardsLatched, WriterAlone, Quiet
  <1> QED
    BY <1>1, <1>2, Types, QuietStep

\* A call that gets new locals.
LEMMA CallReplaced ==
  ASSUME IInv, NEW t \in Threads, NEW c, op' = [op EXCEPT ![t] = c]
  PROVE  /\ op'[t] = c /\ \A u \in Threads : u # t => op'[u] = op[u]
         /\ c \in Call => op' \in [Threads -> Call]
  BY Types

\* A call that returns.
LEMMA ReturnEffect ==
  ASSUME IInv, NEW t \in Threads, Return(t)
  PROVE  /\ op' \in [Threads -> Call] /\ op'[t] = Idle /\ Idle.pc = "idle"
         /\ \A u \in Threads : u # t => op'[u] = op[u]
  <1>1. Idle \in Call /\ Idle.pc = "idle"
    BY DEF Idle, Call, PCs
  <1> QED
    BY <1>1, Types DEF Return

-----------------------------------------------------------------------------
(* The second half of Drop.                                                *)

\* The users of a frame are in its pin set.
LEMMA UsersPin ==
  ASSUME IInv, NEW f \in Frames, NEW u \in Threads
  PROVE  /\ \A g \in guards[u] : g.frame = f => <<u, g>> \in Pins(f)
         /\ op[u].pc \in {"latch", "unpin"} /\ op[u].frame = f => <<u, None>> \in Pins(f)
  BY Types DEF Pins, InUseBy

\* Whoever uses a frame keeps its pin count positive.
LEMMA PinnedPositive ==
  ASSUME IInv, NEW f \in Frames, Pins(f) # {}
  PROVE  frames[f].pin_count > 0
  BY Types DEF IInv, PinnedIffPositive, FrameHeader

\* A step that changes the pin count of frame f only.
LEMMA PinCountUpdate ==
  ASSUME frames \in [Frames -> FrameHeader], NEW f \in Frames, NEW n \in Nat,
         frames' = [frames EXCEPT ![f].pin_count = n]
  PROVE  /\ frames' \in [Frames -> FrameHeader]
         /\ \A x \in Frames : x # f => frames'[x] = frames[x]
         /\ \A x \in Frames : /\ frames'[x].page_id = frames[x].page_id
                              /\ frames'[x].is_dirty = frames[x].is_dirty
                              /\ frames'[x].data = frames[x].data
         /\ frames'[f].pin_count = n
  <1>1. frames[f] \in FrameHeader
    OBVIOUS
  <1>2. /\ [frames[f] EXCEPT !.pin_count = n] \in FrameHeader
        /\ [frames[f] EXCEPT !.pin_count = n].page_id = frames[f].page_id
        /\ [frames[f] EXCEPT !.pin_count = n].pin_count = n
        /\ [frames[f] EXCEPT !.pin_count = n].is_dirty = frames[f].is_dirty
        /\ [frames[f] EXCEPT !.pin_count = n].data = frames[f].data
    BY <1>1 DEF FrameHeader
  <1>3. frames' = [frames EXCEPT ![f] = [frames[f] EXCEPT !.pin_count = n]]
    OBVIOUS
  <1> QED
    BY <1>2, <1>3

\* The second half of Drop, under bpm_latch_.
LEMMA UnpinStep == ASSUME IInv, NEW t \in Threads, Unpin(t) PROVE IStep
  <1>1. PICK f \in Frames : f = op[t].frame /\ op[t].pc = "unpin" /\ Resident(f)
    BY DEF IInv, CallShape, PinnersResident, Unpin, At, Resident
  <1>2. /\ bpm_latch = None /\ Return(t)
        /\ frames' = [frames EXCEPT ![f].pin_count = frames[f].pin_count - 1]
        /\ replacer' = IF frames[f].pin_count = 1
                         THEN WithEvictable(replacer, f, TRUE) ELSE replacer
        /\ UNCHANGED <<next_page_id, bpm_latch, page_table, free_frames, rwlatch, disk, guards>>
    BY <1>1 DEF Unpin
  <1>18. bpm_latch' = None /\ UNCHANGED <<free_frames, rwlatch, guards>>
    BY <1>2
  <1>3. /\ op' \in [Threads -> Call]
        /\ \A u \in Threads : u # t => op'[u] = op[u]
        /\ op'[t].pc = "idle"
    BY <1>2, ReturnEffect
  <1>4. <<t, None>> \in Pins(f) /\ frames[f].pin_count > 0
    BY <1>1, UsersPin, PinnedPositive
  <1>5. /\ frames' \in [Frames -> FrameHeader]
        /\ \A x \in Frames : x # f => frames'[x] = frames[x]
        /\ \A x \in Frames : frames'[x].page_id = frames[x].page_id
        /\ frames'[f].pin_count = frames[f].pin_count - 1
    <2>1. frames[f].pin_count - 1 \in Nat
      BY <1>4, Types DEF FrameHeader
    <2> QED
      BY <1>2, <2>1, Types, PinCountUpdate, Zenon
  <1>6. \A u \in Threads :
          op[u].pc \notin {"writeback", "load", "flush", "flush_write", "flush_clear"}
    BY <1>2, NoHolder
  <1>7. \A x \in Frames : InUseBy(x, {"writeback"}) = {} /\ InUseBy(x, {"writeback"})' = {}
    BY <1>3, <1>6 DEF InUseBy
  <1>8. f \in DOMAIN replacer.tracked
    BY <1>1, <1>7 DEF IInv, EvictableIffUnpinned
  <1>9. /\ IsReplacer(replacer')
        /\ replacer'.tracked = replacer.tracked
        /\ replacer'.evictable = IF frames[f].pin_count = 1
                                   THEN replacer.evictable \cup {f} ELSE replacer.evictable
    <2>1. ASSUME NEW r, IsReplacer(r), f \in DOMAIN r.tracked
          PROVE  LET q == WithEvictable(r, f, TRUE)
                 IN  /\ IsReplacer(q) /\ q.tracked = r.tracked
                     /\ q.evictable = r.evictable \cup {f}
      BY <2>1 DEF WithEvictable, IsReplacer, IsMap
    <2> QED
      BY <1>2, <1>8, <2>1, Types, Zenon
  <1>10. TypeOK'
    BY <1>2, <1>3, <1>5, <1>9, Types, Zenon DEF TypeOK
  <1>11. LatchHolder' /\ CallShape' /\ MissShape'
    <2>1. LatchHolder'
      BY <1>3, <1>6, <1>18, PoolAssumption DEF LatchHolder, HolderPCs
    <2>2. CallShape'
      BY <1>3, <1>6 DEF IInv, CallShape
    <2>3. MissShape'
      BY <1>3, <1>6 DEF MissShape
    <2> QED
      BY <2>1, <2>2, <2>3
  <1>12. PageTableMatchesFrames'
    BY <1>2, <1>5, Types DEF IInv, PageTableMatchesFrames, Resident, IsMap
  <1>19. \A x \in Frames : Resident(x)' <=> Resident(x)
    BY <1>5 DEF Resident
  <1>13. FramesConserved'
    <2>1. \A x \in Frames : InUseBy(x, {"load"}) = {} /\ InUseBy(x, {"load"})' = {}
      BY <1>3, <1>6 DEF InUseBy
    <2>2. \A x \in Frames : IsFree(x)' <=> IsFree(x)
      BY <1>18 DEF IsFree
    <2> QED
      BY <1>18, <1>19, <2>1, <2>2 DEF IInv, FramesConserved
  <1>14. EvictableIffUnpinned'
    <2>2. frames[f].pin_count \in Nat /\ (frames'[f].pin_count = 0 <=> frames[f].pin_count = 1)
      BY <1>4, <1>5, Types DEF FrameHeader
    <2>3. frames[f].pin_count # 0 /\ f \notin replacer.evictable
      BY <1>4, Types DEF IInv, EvictableIffUnpinned, FrameHeader
    <2> QED
      BY <1>5, <1>7, <1>8, <1>9, <1>19, <2>2, <2>3 DEF IInv, EvictableIffUnpinned
  <1>15. PinnersResident'
    <2>1. ASSUME NEW u \in Threads, NEW g \in guards[u] PROVE frames'[g.frame].page_id = g.page
      BY <1>5, Types DEF IInv, PinnersResident, Guard
    <2>2. ASSUME NEW u \in Threads, op[u].pc \in {"latch", "unpin"} PROVE op[u].frame \in Frames
      BY <2>2 DEF IInv, CallShape
    <2> QED
      BY <1>3, <1>5, <1>18, <2>1, <2>2 DEF IInv, PinnersResident
  <1>16. PinStep
    <2>1. Pins(f)' = Pins(f) \ {<<t, None>>}
      BY <1>1, <1>3, <1>18, Types, PoolAssumption DEF Pins, InUseBy
    <2>2. \A x \in Frames \ {f} : Pins(x)' = Pins(x)
      BY <1>1, <1>3, <1>18 DEF Pins, InUseBy
    <2>3. \A x \in Frames \ {f} : frames'[x].pin_count = frames[x].pin_count
      BY <1>5
    <2> QED
      BY <1>4, <1>5, <2>1, <2>2, <2>3, Zenon DEF PinStep, PinRemoved, OtherPinsSame
  <1>17. Ascending' /\ GuardsLatched' /\ WriterAlone'
    BY <1>3, <1>18 DEF IInv, Ascending, GuardsLatched, WriterAlone
  <1> QED
    BY <1>10, <1>11, <1>12, <1>13, <1>14, <1>15, <1>16, <1>17 DEF IStep

-----------------------------------------------------------------------------
(* The calls that change no pin count.                                     *)

\* NewPage only takes a page id.
LEMMA NewPageStep == ASSUME IInv, NEW t \in Threads, NewPage(t) PROVE IStep
  <1>1. /\ op[t].pc = "idle" /\ next_page_id' \in 0 .. NumPages
        /\ UNCHANGED <<page_table, free_frames, replacer, guards, frames, disk, bpm_latch, rwlatch, op>>
    BY Types, PoolAssumption DEF NewPage, Calls, At, pool
  <1>2. Quiet(t)
    BY <1>1, Types DEF Quiet, QuietPCs
  <1>3. CallShape' /\ Ascending'
    BY <1>1 DEF IInv, CallShape, Ascending
  <1> QED
    BY <1>1, <1>2, <1>3, CallStep DEF CallPCs

\* The entry of CheckedReadPage and CheckedWritePage.
LEMMA CallCheckedPageStep ==
  ASSUME IInv, NEW t \in Threads, NEW p \in Pages, NEW k \in {"R", "W"}, CallCheckedPage(t, p, k)
  PROVE  IStep
  <1> DEFINE c == [Idle EXCEPT !.pc = "lookup", !.kind = k, !.page = p]
  <1>1. c \in Call /\ c.pc = "lookup" /\ c.page = p /\ c.kind = k
    BY Zenon DEF Call, PCs, Idle
  <1>2. /\ op[t].pc = "idle" /\ \A g \in guards[t] : g.page < p
        /\ op' = [op EXCEPT ![t] = c]
        /\ UNCHANGED <<next_page_id, bpm_latch, page_table, free_frames, replacer, frames,
                       rwlatch, disk, guards>>
    BY DEF CallCheckedPage, Calls, At, pool
  <1> HIDE DEF c
  <1>3. Quiet(t) /\ op'[t] = c
    BY <1>1, <1>2, CallReplaced, Types DEF Quiet, QuietPCs
  <1>4. CallShape' /\ Ascending'
    BY <1>1, <1>2, <1>3 DEF IInv, CallShape, Ascending, Quiet
  <1> QED
    BY <1>1, <1>2, <1>3, <1>4, CallStep DEF CallPCs

\* A lookup that gives up changes nothing.
LEMMA LookupNulloptStep == ASSUME IInv, NEW t \in Threads, LookupNullopt(t) PROVE IStep
  <1>1. /\ op[t].pc = "lookup" /\ op'[t].pc = "idle" /\ Quiet(t)
        /\ UNCHANGED <<bpm_latch, rwlatch>>
    BY ReturnEffect, Types DEF LookupNullopt, At, pool, Quiet, QuietPCs
  <1>2. CallShape' /\ Ascending'
    BY <1>1 DEF IInv, CallShape, Ascending, Quiet
  <1> QED
    BY <1>1, <1>2, CallStep DEF CallPCs

-----------------------------------------------------------------------------
(* The page guards' operations.                                            *)

\* A disk write, failed or not, keeps the type of the disk.
LEMMA DiskWriteType ==
  ASSUME IInv, NEW p \in Pages, NEW d \in Contents, NEW ok, IssueDiskWrite(p, d, ok)
  PROVE  disk' \in [Pages -> Contents]
  BY Types DEF IssueDiskWrite

\* A guard's Flush writes its page.
LEMMA GuardFlushStep ==
  ASSUME IInv, NEW t \in Threads, NEW g \in guards[t], GuardFlush(t, g)
  PROVE  IStep
  <1> DEFINE c == [Idle EXCEPT !.pc = "gclear", !.frame = g.frame]
  <1>1. g.frame \in Frames /\ g.page \in Pages /\ frames[g.frame].data \in Contents
    BY Types DEF Guard, FrameHeader
  <1>2. c \in Call /\ c.pc = "gclear" /\ c.frame = g.frame
    BY <1>1, Zenon DEF Call, PCs, Idle
  <1>3. /\ op[t].pc = "idle" /\ disk' \in [Pages -> Contents]
        /\ op' = op \/ op' = [op EXCEPT ![t] = c]
        /\ UNCHANGED <<next_page_id, bpm_latch, page_table, free_frames, replacer, frames,
                       rwlatch, guards>>
    BY <1>1, DiskWriteType DEF GuardFlush, At, pool
  <1> HIDE DEF c
  <1>4. /\ op' \in [Threads -> Call] /\ op'[t] \in {op[t], c}
        /\ \A u \in Threads : u # t => op'[u] = op[u]
    BY <1>2, <1>3, Types
  <1>5. Quiet(t)
    BY <1>2, <1>3, <1>4, Types DEF Quiet, QuietPCs
  <1>6. CallShape' /\ Ascending'
    BY <1>1, <1>2, <1>3, <1>4 DEF IInv, CallShape, Ascending
  <1> QED
    BY <1>2, <1>3, <1>4, <1>5, <1>6, CallStep DEF CallPCs

\* A step that sets the dirty flag of frame f only.
LEMMA DirtyUpdate ==
  ASSUME frames \in [Frames -> FrameHeader], NEW f \in Frames, NEW b \in BOOLEAN,
         frames' = [frames EXCEPT ![f].is_dirty = b]
  PROVE  /\ frames' \in [Frames -> FrameHeader]
         /\ \A x \in Frames : /\ frames'[x].page_id = frames[x].page_id
                              /\ frames'[x].pin_count = frames[x].pin_count
                              /\ frames'[x].data = frames[x].data
         /\ \A x \in Frames : x # f => frames'[x] = frames[x]
         /\ frames'[f].is_dirty = b
  <1> DEFINE h == [frames[f] EXCEPT !.is_dirty = b]
  <1>1. /\ h \in FrameHeader /\ h.page_id = frames[f].page_id
        /\ h.pin_count = frames[f].pin_count /\ h.data = frames[f].data /\ h.is_dirty = b
    BY DEF FrameHeader
  <1>2. frames' = [frames EXCEPT ![f] = h]
    OBVIOUS
  <1> HIDE DEF h
  <1> QED
    BY <1>1, <1>2

\* GetDataMut sets the dirty flag.
LEMMA GetDataMutStep ==
  ASSUME IInv, NEW t \in Threads, NEW g \in guards[t], GetDataMut(t, g)
  PROVE  IStep
  <1> DEFINE c == [Idle EXCEPT !.pc = "store", !.frame = g.frame]
  <1>1. g.frame \in Frames
    BY Types DEF Guard
  <1>2. c \in Call /\ c.pc = "store" /\ c.frame = g.frame
    BY <1>1, Zenon DEF Call, PCs, Idle
  <1>3. /\ op[t].pc = "idle" /\ op' = [op EXCEPT ![t] = c]
        /\ frames' = [frames EXCEPT ![g.frame].is_dirty = TRUE]
        /\ UNCHANGED <<next_page_id, bpm_latch, page_table, free_frames, replacer,
                       rwlatch, disk, guards>>
    BY DEF GetDataMut, At, pool
  <1> HIDE DEF c
  <1>4. /\ frames' \in [Frames -> FrameHeader]
        /\ \A x \in Frames : /\ frames'[x].page_id = frames[x].page_id
                             /\ frames'[x].pin_count = frames[x].pin_count
    BY <1>1, <1>3, Types, DirtyUpdate, Zenon
  <1>5. Quiet(t) /\ op'[t] = c
    BY <1>2, <1>3, <1>4, CallReplaced, Types DEF Quiet, QuietPCs
  <1>6. CallShape' /\ Ascending'
    <2>1. UNCHANGED <<page_table, guards>> /\ \A u \in Threads : u # t => op'[u] = op[u]
      BY <1>5 DEF Quiet
    <2>2. CallShape'
      BY <1>1, <1>2, <1>5, <2>1 DEF IInv, CallShape
    <2>3. Ascending'
      BY <1>1, <1>2, <1>5, <2>1 DEF IInv, Ascending
    <2> QED
      BY <2>2, <2>3
  <1> QED
    BY <1>2, <1>3, <1>5, <1>6, CallStep DEF CallPCs

\* A step that returns from a guard's method and keeps page ids and pins.
LEMMA GuardReturns ==
  ASSUME IInv, NEW t \in Threads, op[t].pc \in {"store", "gclear"}, Return(t),
         UNCHANGED <<next_page_id, bpm_latch, page_table, free_frames, replacer, rwlatch, disk, guards>>,
         frames' \in [Frames -> FrameHeader],
         \A x \in Frames : /\ frames'[x].page_id = frames[x].page_id
                           /\ frames'[x].pin_count = frames[x].pin_count
  PROVE  IStep
  <1>1. Quiet(t) /\ op'[t].pc = "idle"
    BY ReturnEffect, Types DEF Quiet, QuietPCs
  <1>2. CallShape' /\ Ascending'
    BY <1>1 DEF IInv, CallShape, Ascending, Quiet
  <1> QED
    BY <1>1, <1>2, CallStep DEF CallPCs

\* The client's store changes data only.
LEMMA StoreStep == ASSUME IInv, NEW t \in Threads, Store(t) PROVE IStep
  <1>1. PICK f \in Frames, v \in Contents :
           /\ op[t].frame = f /\ frames' = [frames EXCEPT ![f].data = v]
    BY Zenon DEF IInv, CallShape, Store, At, Contents
  <1> DEFINE h == [frames[f] EXCEPT !.data = v]
  <1>a. frames[f] \in FrameHeader
    BY Types
  <1>2. h \in FrameHeader /\ h.page_id = frames[f].page_id /\ h.pin_count = frames[f].pin_count
    BY <1>a DEF FrameHeader
  <1>3. frames' = [frames EXCEPT ![f] = h]
    BY <1>1, Types
  <1> HIDE DEF h
  <1>4. /\ frames' \in [Frames -> FrameHeader]
        /\ \A x \in Frames : /\ frames'[x].page_id = frames[x].page_id
                             /\ frames'[x].pin_count = frames[x].pin_count
    BY <1>2, <1>3, Types
  <1>5. /\ op[t].pc = "store" /\ Return(t)
        /\ UNCHANGED <<next_page_id, bpm_latch, page_table, free_frames, replacer, rwlatch, disk, guards>>
    BY DEF Store, At, pool
  <1> QED
    BY <1>4, <1>5, GuardReturns

\* The end of a guard's Flush.
LEMMA GuardFlushClearStep == ASSUME IInv, NEW t \in Threads, GuardFlushClear(t) PROVE IStep
  <1>1. PICK f \in Frames : frames' = [frames EXCEPT ![f].is_dirty = FALSE]
    BY Zenon DEF IInv, CallShape, GuardFlushClear, At
  <1>2. /\ frames' \in [Frames -> FrameHeader]
        /\ \A x \in Frames : /\ frames'[x].page_id = frames[x].page_id
                             /\ frames'[x].pin_count = frames[x].pin_count
    BY <1>1, Types, DirtyUpdate, Zenon
  <1>3. /\ op[t].pc = "gclear" /\ Return(t)
        /\ UNCHANGED <<next_page_id, bpm_latch, page_table, free_frames, replacer,
                       rwlatch, disk, guards>>
    BY DEF GuardFlushClear, At, pool
  <1> QED
    BY <1>2, <1>3, GuardReturns

-----------------------------------------------------------------------------
(* The flushes of one page and of all pages.                               *)

\* A flush enters its critical section.
LEMMA CallFlushStep ==
  ASSUME IInv, NEW t \in Threads, NEW ps \in SUBSET Pages, ps \subseteq DOMAIN page_table,
         NEW m \in {"safe", "unsafe"}, CallFlush(t, ps, m)
  PROVE  IStep
  <1> DEFINE c == [Idle EXCEPT !.pc = "flush", !.kind = m, !.todo = ps]
  <1>1. c \in Call /\ c.pc = "flush" /\ c.todo = ps /\ c.page = None
    BY Zenon DEF Call, PCs, Idle
  <1>2. /\ op[t].pc = "idle" /\ bpm_latch = None /\ bpm_latch' = t
        /\ \A g \in guards[t] : g.page \notin ps
        /\ op' = [op EXCEPT ![t] = c]
        /\ UNCHANGED <<next_page_id, page_table, free_frames, replacer, frames,
                       rwlatch, disk, guards>>
    BY DEF CallFlush, Calls, At, pool
  <1> HIDE DEF c
  <1>3. Quiet(t) /\ op'[t] = c
    BY <1>1, <1>2, CallReplaced, Types DEF Quiet, QuietPCs
  <1>4. LatchHolder'
    BY <1>1, <1>2, <1>3, NoHolder DEF LatchHolder, HolderPCs, Quiet
  <1>5. CallShape' /\ GuardsLatched' /\ WriterAlone'
    BY <1>1, <1>2, <1>3 DEF IInv, CallShape, GuardsLatched, WriterAlone, Quiet
  <1>6. \A g \in guards[t] : g.page # None
    BY Types, PoolAssumption DEF Guard, Pages
  <1>7. Ascending'
    BY <1>1, <1>2, <1>3, <1>6 DEF IInv, Ascending, Quiet
  <1> QED
    BY <1>2, <1>3, <1>4, <1>5, <1>7, Types, QuietStep

\* A flush leaves its critical section.
LEMMA FlushReturnStep == ASSUME IInv, NEW t \in Threads, FlushReturn(t) PROVE IStep
  <1>1. /\ op[t].pc = "flush" /\ bpm_latch' = None /\ Return(t)
        /\ UNCHANGED <<next_page_id, page_table, free_frames, replacer, frames,
                       rwlatch, disk, guards>>
    BY DEF FlushReturn, At, pool
  <1>2. Quiet(t) /\ op'[t].pc = "idle"
    BY <1>1, ReturnEffect, Types DEF Quiet, QuietPCs
  <1>3. LatchHolder'
    BY <1>1, <1>2, PoolAssumption DEF IInv, LatchHolder, HolderPCs, Quiet
  <1>4. CallShape' /\ GuardsLatched' /\ WriterAlone' /\ Ascending'
    BY <1>1, <1>2 DEF IInv, CallShape, GuardsLatched, WriterAlone, Ascending, Quiet
  <1> QED
    BY <1>1, <1>2, <1>3, <1>4, Types, QuietStep

FlushPCs == {"flush", "flush_write", "flush_clear"}

\* A step inside the loop of a flush has to mind the page latches and its page.
LEMMA FlushStep ==
  ASSUME IInv, NEW t \in Threads, Quiet(t), UNCHANGED bpm_latch,
         op[t].pc \in FlushPCs, op'[t].pc \in FlushPCs, op'[t].todo \subseteq op[t].todo,
         op'[t].pc # "flush" => /\ op'[t].page \in DOMAIN page_table
                                /\ op'[t].frame = page_table[op'[t].page],
         op'[t].page \in op[t].todo \cup {op[t].page, None},
         rwlatch' \in [Frames -> RWLatch], GuardsLatched', WriterAlone'
  PROVE  IStep
  <1> USE DEF FlushPCs
  <1>1. LatchHolder'
    BY DEF IInv, LatchHolder, HolderPCs, Quiet
  <1>2. CallShape'
    BY DEF IInv, CallShape, Quiet
  <1>3. \A g \in guards[t] : g.page # None /\ g.page \notin op[t].todo \cup {op[t].page}
    BY Types, PoolAssumption DEF Guard, Pages, IInv, Ascending
  <1>4. Ascending'
    BY <1>3 DEF IInv, Ascending, Quiet
  <1> QED
    BY <1>1, <1>2, <1>4, Types, QuietStep

\* A step that changes the latch of frame f only.
LEMMA LatchUpdate ==
  ASSUME IInv, NEW f \in Frames, NEW l \in RWLatch, rwlatch' = [rwlatch EXCEPT ![f] = l]
  PROVE  /\ rwlatch' \in [Frames -> RWLatch] /\ rwlatch'[f] = l
         /\ \A x \in Frames : x # f => rwlatch'[x] = rwlatch[x]
  BY Types

\* A flush turns to its next page.
LEMMA FlushStartStep == ASSUME IInv, NEW t \in Threads, FlushStart(t) PROVE IStep
  <1>1. PICK p \in op[t].todo :
           LET f == page_table[p]
           IN  \/ /\ op' = [op EXCEPT ![t].todo = @ \ {p}]
                  /\ UNCHANGED rwlatch
               \/ /\ op' = [op EXCEPT ![t].pc = "flush_write", ![t].page = p,
                                      ![t].frame = f, ![t].todo = @ \ {p}]
                  /\ AcquireShared(t, f) \/ UNCHANGED rwlatch
    BY Zenon DEF FlushStart
  <1>2. /\ op[t].pc = "flush"
        /\ UNCHANGED <<next_page_id, bpm_latch, page_table, free_frames, replacer, frames,
                       disk, guards>>
    BY DEF FlushStart, At, pool
  <1>3. PICK f \in Frames : f = page_table[p] /\ p \in DOMAIN page_table /\ p \in Pages
    BY <1>2, Types DEF IInv, CallShape, IsMap
  <1>4. /\ op' \in [Threads -> Call]
        /\ \A u \in Threads : u # t => op'[u] = op[u]
        /\ op'[t].todo = op[t].todo \ {p}
        /\ \/ op'[t].pc = "flush" /\ op'[t].page = op[t].page
           \/ op'[t].pc = "flush_write" /\ op'[t].page = p /\ op'[t].frame = page_table[p]
    <2>1. CASE op' = [op EXCEPT ![t].todo = @ \ {p}]
      BY <1>2, <2>1, Types DEF Call
    <2>2. CASE op' = [op EXCEPT ![t].pc = "flush_write", ![t].page = p,
                                ![t].frame = page_table[p], ![t].todo = @ \ {p}]
      BY <1>3, <2>2, Types DEF Call, PCs
    <2> QED
      BY <1>1, <2>1, <2>2, Zenon
  <1>5. rwlatch' \in [Frames -> RWLatch] /\ GuardsLatched' /\ WriterAlone'
    <2>1. CASE UNCHANGED rwlatch
      BY <1>2, <2>1, Types DEF IInv, GuardsLatched, WriterAlone
    <2>2. CASE AcquireShared(t, f)
      <3> DEFINE l == [rwlatch[f] EXCEPT !.readers = @ \cup {t}]
      <3>1. rwlatch[f].writer = None /\ rwlatch' = [rwlatch EXCEPT ![f] = l] /\ rwlatch[f] \in RWLatch
        BY <2>2, Types DEF AcquireShared
      <3>2. l \in RWLatch /\ l.writer = None /\ l.readers = rwlatch[f].readers \cup {t}
        BY <3>1 DEF RWLatch
      <3> HIDE DEF l
      <3>4. /\ rwlatch' \in [Frames -> RWLatch] /\ rwlatch'[f] = l
            /\ \A x \in Frames : x # f => rwlatch'[x] = rwlatch[x]
        BY <3>1, <3>2, LatchUpdate, Zenon
      <3>5. GuardsLatched'
        BY <1>2, <3>1, <3>2, <3>4, Types DEF IInv, GuardsLatched, Guard
      <3> QED
        BY <3>2, <3>4, <3>5 DEF IInv, WriterAlone
    <2> QED
      BY <1>1, <1>3, <2>1, <2>2
  <1>6. Quiet(t)
    BY <1>2, <1>4, Types DEF Quiet, QuietPCs
  <1> QED
    BY <1>2, <1>3, <1>4, <1>5, <1>6, FlushStep DEF FlushPCs

\* The end of flushing one page: the latch it gives back is not one of a guard.
LEMMA EndFlushOneStep ==
  ASSUME IInv, NEW t \in Threads, op[t].pc \in {"flush_write", "flush_clear"}, EndFlushOne(t),
         UNCHANGED <<next_page_id, bpm_latch, page_table, free_frames, replacer, guards>>,
         disk' \in [Pages -> Contents], frames' \in [Frames -> FrameHeader],
         \A x \in Frames : /\ frames'[x].page_id = frames[x].page_id
                           /\ frames'[x].pin_count = frames[x].pin_count
  PROVE  IStep
  <1>1. PICK p \in Pages, f \in Frames :
           /\ p = op[t].page /\ f = op[t].frame /\ p \in DOMAIN page_table /\ f = page_table[p]
    BY Types DEF IInv, CallShape, IsMap
  <1> DEFINE c == [op[t] EXCEPT !.pc = "flush", !.page = None, !.frame = None]
  <1>2. op[t] \in Call
    BY Types
  <1>3. c \in Call /\ c.pc = "flush" /\ c.todo = op[t].todo /\ c.page = None
    BY <1>2, Zenon DEF Call, PCs
  <1>4. op' = [op EXCEPT ![t] = c]
    BY Types, Zenon DEF EndFlushOne
  <1> HIDE DEF c
  <1>5. Quiet(t) /\ op'[t] = c
    BY <1>3, <1>4, CallReplaced, Types DEF Quiet, QuietPCs
  <1>6. rwlatch' \in [Frames -> RWLatch] /\ GuardsLatched' /\ WriterAlone'
    <2>1. CASE UNCHANGED rwlatch
      BY <2>1, Types DEF IInv, GuardsLatched, WriterAlone
    <2>2. CASE ReleaseShared(t, f)
      <3> DEFINE l == [rwlatch[f] EXCEPT !.readers = @ \ {t}]
      <3>1. rwlatch' = [rwlatch EXCEPT ![f] = l] /\ rwlatch[f] \in RWLatch
        BY <2>2, Types DEF ReleaseShared
      <3>2. l \in RWLatch /\ l.writer = rwlatch[f].writer /\ l.readers = rwlatch[f].readers \ {t}
        BY <3>1 DEF RWLatch
      <3> HIDE DEF l
      <3>3. /\ rwlatch' \in [Frames -> RWLatch] /\ rwlatch'[f] = l
            /\ \A x \in Frames : x # f => rwlatch'[x] = rwlatch[x]
        BY <3>1, <3>2, LatchUpdate, Zenon
      <3>4. ASSUME NEW g \in guards[t]
            PROVE  g.frame # f
        BY <1>1 DEF IInv, PinnersResident, PageTableMatchesFrames, Ascending
      <3>5. GuardsLatched'
        BY <3>2, <3>3, <3>4, Types DEF IInv, GuardsLatched, Guard
      <3> QED
        BY <3>2, <3>3, <3>5 DEF IInv, WriterAlone
    <2> QED
      BY <1>1, <2>1, <2>2 DEF EndFlushOne
  <1> QED
    BY <1>3, <1>5, <1>6, FlushStep DEF FlushPCs

\* A flush clears one dirty flag.
LEMMA FlushClearStep == ASSUME IInv, NEW t \in Threads, FlushClear(t) PROVE IStep
  <1>1. PICK f \in Frames : frames' = [frames EXCEPT ![f].is_dirty = FALSE]
    BY Types, Zenon DEF IInv, CallShape, IsMap, FlushClear, At
  <1>2. /\ frames' \in [Frames -> FrameHeader]
        /\ \A x \in Frames : /\ frames'[x].page_id = frames[x].page_id
                             /\ frames'[x].pin_count = frames[x].pin_count
    BY <1>1, Types, DirtyUpdate, Zenon
  <1>3. /\ op[t].pc = "flush_clear" /\ EndFlushOne(t)
        /\ UNCHANGED <<next_page_id, bpm_latch, page_table, free_frames, replacer, disk, guards>>
    BY DEF FlushClear, At, pool
  <1> QED
    BY <1>2, <1>3, Types, EndFlushOneStep

\* A flush writes one page.
LEMMA FlushWriteStep == ASSUME IInv, NEW t \in Threads, FlushWrite(t) PROVE IStep
  <1>1. /\ op[t].pc = "flush_write"
        /\ UNCHANGED <<next_page_id, bpm_latch, page_table, free_frames, replacer, frames, guards>>
    BY DEF FlushWrite, At, pool
  <1>2. PICK p \in Pages, f \in Frames :
           /\ p = op[t].page /\ f = op[t].frame /\ p \in DOMAIN page_table /\ f = page_table[p]
    BY <1>1, Types DEF IInv, CallShape, IsMap
  <1>3. FlushedData(t, f) \subseteq Contents
    BY Types DEF FlushedData, FrameHeader
  <1>4. disk' \in [Pages -> Contents]
    BY <1>2, <1>3, DiskWriteType DEF FlushWrite
  <1>5. CASE EndFlushOne(t)
    BY <1>1, <1>4, <1>5, Types, EndFlushOneStep
  <1>6. CASE Goto(t, "flush_clear") /\ UNCHANGED rwlatch
    <2> DEFINE c == [op[t] EXCEPT !.pc = "flush_clear"]
    <2>1. op' = [op EXCEPT ![t] = c] /\ op[t] \in Call
      BY <1>6, Types DEF Goto
    <2>2. c \in Call /\ c.pc = "flush_clear" /\ c.todo = op[t].todo /\ c.page = p /\ c.frame = f
      BY <1>2, <2>1, Zenon DEF Call, PCs
    <2> HIDE DEF c
    <2>3. Quiet(t) /\ op'[t] = c
      BY <1>1, <1>4, <2>1, <2>2, CallReplaced, Types DEF Quiet, QuietPCs
    <2>4. GuardsLatched' /\ WriterAlone'
      BY <1>1, <1>6 DEF IInv, GuardsLatched, WriterAlone
    <2> QED
      BY <1>1, <1>2, <1>6, <2>2, <2>3, <2>4, Types, FlushStep DEF FlushPCs
  <1> QED
    BY <1>5, <1>6 DEF FlushWrite

-----------------------------------------------------------------------------
(* A page guard is built, and it is dropped.                               *)

\* A step that neither moves a page nor changes a page id or a pin count, but
\* exchanges one user of frame f for another.
LEMMA UserExchanged ==
  ASSUME IInv, NEW t \in Threads, NEW f \in Frames, NEW a \in Pins(f), NEW b, b \notin Pins(f),
         Pins(f)' = (Pins(f) \ {a}) \cup {b}, \A x \in Frames \ {f} : Pins(x)' = Pins(x),
         UNCHANGED <<page_table, free_frames, replacer>>,
         \A x \in Frames : /\ frames'[x].page_id = frames[x].page_id
                           /\ frames'[x].pin_count = frames[x].pin_count,
         \A u \in Threads : u # t => op'[u] = op[u],
         op[t].pc \notin {"writeback", "load"}, op'[t].pc \notin {"writeback", "load"}
  PROVE  /\ PageTableMatchesFrames' /\ FramesConserved' /\ EvictableIffUnpinned' /\ MissShape'
         /\ PinStep
  <1>1. PageTableMatchesFrames' /\ FramesConserved' /\ EvictableIffUnpinned' /\ MissShape'
    BY MetadataStable
  <1>2. PinStep
    BY DEF PinStep, PinMoved, OtherPinsSame
  <1> QED
    BY <1>1, <1>2

\* The constructor of a guard takes the page latch.
LEMMA LatchPageStep == ASSUME IInv, NEW t \in Threads, LatchPage(t) PROVE IStep
  <1>1. PICK f \in Frames, p \in Pages :
          /\ f = op[t].frame /\ p = op[t].page /\ frames[f].page_id = p
          /\ op[t].kind \in {"R", "W"} /\ op[t].pc = "latch"
    BY DEF IInv, CallShape, PinnersResident, LatchPage, At
  <1>2. PICK g \in Guard : g = [page |-> p, frame |-> f, kind |-> op[t].kind]
    BY <1>1, Zenon DEF Guard
  <1>3. g.page = p /\ g.frame = f /\ g.kind = op[t].kind
    BY <1>2
  <1>4. /\ guards' = [guards EXCEPT ![t] = @ \cup {g}] /\ Return(t)
        /\ UNCHANGED <<next_page_id, bpm_latch, page_table, free_frames, replacer, disk>>
    BY <1>1, <1>2 DEF LatchPage, pool
  <1>5. /\ guards' \in [Threads -> SUBSET Guard]
        /\ guards'[t] = guards[t] \cup {g}
        /\ \A u \in Threads : u # t => guards'[u] = guards[u]
    BY <1>4, Types
  <1>6. /\ op' \in [Threads -> Call]
        /\ \A u \in Threads : u # t => op'[u] = op[u]
        /\ op'[t].pc = "idle"
    BY <1>4, ReturnEffect
  <1>7. \A h \in guards[t] : h \in Guard /\ h.page < p
    BY <1>1, Types DEF IInv, Ascending
  <1>8. g \notin guards[t]
    BY <1>3, <1>7 DEF Pages
  <1>18. \/ op[t].kind = "R" /\ AcquireShared(t, f) /\ UNCHANGED frames
         \/ op[t].kind = "W" /\ AcquireExclusive(t, f) /\ frames' = [frames EXCEPT ![f].is_dirty = TRUE]
    BY <1>1, Zenon DEF LatchPage
  <1>9. /\ frames' \in [Frames -> FrameHeader]
        /\ \A x \in Frames : /\ frames'[x].page_id = frames[x].page_id
                             /\ frames'[x].pin_count = frames[x].pin_count
    <2>1. CASE UNCHANGED frames
      BY <2>1, Types
    <2>2. CASE frames' = [frames EXCEPT ![f].is_dirty = TRUE]
      BY <2>2, Types, DirtyUpdate, Zenon
    <2> QED
      BY <1>18, <2>1, <2>2
  <1>10. /\ rwlatch' \in [Frames -> RWLatch]
         /\ \A x \in Frames : x # f => rwlatch'[x] = rwlatch[x]
         /\ \/ /\ g.kind = "R" /\ rwlatch[f].writer = None /\ rwlatch'[f].writer = None
               /\ rwlatch'[f].readers = rwlatch[f].readers \cup {t}
            \/ /\ g.kind = "W" /\ rwlatch[f].writer = None /\ rwlatch[f].readers = {}
               /\ rwlatch'[f].writer = t /\ rwlatch'[f].readers = {}
    <2>1. CASE g.kind = "R" /\ AcquireShared(t, f)
      <3> DEFINE l == [rwlatch[f] EXCEPT !.readers = @ \cup {t}]
      <3>1. rwlatch[f].writer = None /\ rwlatch' = [rwlatch EXCEPT ![f] = l] /\ rwlatch[f] \in RWLatch
        BY <2>1, Types DEF AcquireShared
      <3>2. l \in RWLatch /\ l.writer = None /\ l.readers = rwlatch[f].readers \cup {t}
        BY <3>1 DEF RWLatch
      <3> HIDE DEF l
      <3> QED
        BY <2>1, <3>1, <3>2, LatchUpdate, Zenon
    <2>2. CASE g.kind = "W" /\ AcquireExclusive(t, f)
      <3> DEFINE l == [rwlatch[f] EXCEPT !.writer = t]
      <3>0. rwlatch[f] \in RWLatch
        BY Types
      <3>1. /\ rwlatch[f].writer = None /\ rwlatch[f].readers = {}
            /\ rwlatch' = [rwlatch EXCEPT ![f] = l]
        BY <2>2, Types DEF AcquireExclusive, Unlocked
      <3>2. l \in RWLatch /\ l.writer = t /\ l.readers = rwlatch[f].readers
        BY <3>0 DEF RWLatch
      <3> HIDE DEF l
      <3> QED
        BY <2>2, <3>1, <3>2, LatchUpdate, Zenon
    <2>3. (g.kind = "R" /\ AcquireShared(t, f)) \/ (g.kind = "W" /\ AcquireExclusive(t, f))
      BY <1>3, <1>18, Zenon
    <2> QED
      BY <2>1, <2>2, <2>3, Zenon
  <1>11. TypeOK'
    BY <1>4, <1>5, <1>6, <1>9, <1>10, Types DEF TypeOK
  <1>12. LatchHolder' /\ CallShape'
    BY <1>1, <1>4, <1>6 DEF IInv, LatchHolder, HolderPCs, CallShape
  <1>13. /\ PageTableMatchesFrames' /\ FramesConserved' /\ EvictableIffUnpinned' /\ MissShape'
         /\ PinStep
    <2>1. <<t, None>> \in Pins(f) /\ <<t, g>> \notin Pins(f)
      BY <1>1, <1>8, UsersPin, PoolAssumption DEF Pins
    <2>2. Pins(f)' = (Pins(f) \ {<<t, None>>}) \cup {<<t, g>>}
      BY <1>1, <1>3, <1>5, <1>6, Types, PoolAssumption DEF Pins, InUseBy
    <2>3. \A x \in Frames \ {f} : Pins(x)' = Pins(x)
      BY <1>1, <1>3, <1>5, <1>6 DEF Pins, InUseBy
    <2> DEFINE a == <<t, None>>
               b == <<t, g>>
    <2>4. /\ a \in Pins(f) /\ b \notin Pins(f) /\ Pins(f)' = (Pins(f) \ {a}) \cup {b}
          /\ op[t].pc \notin {"writeback", "load"} /\ op'[t].pc \notin {"writeback", "load"}
      BY <1>1, <1>6, <2>1, <2>2
    <2> HIDE DEF a, b
    <2> QED
      BY <1>4, <1>6, <1>9, <2>3, <2>4, UserExchanged, Zenon
  <1>14. PinnersResident'
    <2>1. ASSUME NEW u \in Threads, NEW h \in guards'[u]
          PROVE  frames'[h.frame].page_id = h.page
      <3>1. CASE h \in guards[u]
        BY <1>9, <3>1, Types DEF IInv, PinnersResident, Guard
      <3>2. CASE h = g
        BY <1>1, <1>3, <1>9, <3>2
      <3> QED
        BY <1>5, <3>1, <3>2
    <2> QED
      BY <1>6, <1>9, <2>1 DEF IInv, PinnersResident, CallShape
  <1>15. Ascending'
    <2>1. \A u \in Threads : \A h, k \in guards'[u] : h.page = k.page => h = k
      BY <1>3, <1>5, <1>7, Types DEF IInv, Ascending, Pages, Guard
    <2> QED
      BY <1>5, <1>6, <2>1 DEF IInv, Ascending
  <1>16. WriterAlone'
    BY <1>10 DEF IInv, WriterAlone
  <1>17. GuardsLatched'
    <2> SUFFICES ASSUME NEW u \in Threads, NEW h \in guards'[u]
                 PROVE  IF h.kind = "W" THEN rwlatch'[h.frame].writer = u
                                        ELSE u \in rwlatch'[h.frame].readers
      BY DEF GuardsLatched
    <2>1. CASE u = t /\ h = g
      BY <1>3, <1>10, <2>1
    <2>2. CASE h \in guards[u]
      <3>1. /\ h \in Guard
            /\ IF h.kind = "W" THEN rwlatch[h.frame].writer = u
                               ELSE u \in rwlatch[h.frame].readers
        BY <2>2, Types DEF IInv, GuardsLatched
      <3> QED
        BY <1>10, <3>1, PoolAssumption DEF Guard
    <2> QED
      BY <1>5, <2>1, <2>2
  <1> QED
    BY <1>11, <1>12, <1>13, <1>14, <1>15, <1>16, <1>17 DEF IStep

\* The first half of Drop gives the page latch back.
LEMMA DropStep ==
  ASSUME IInv, NEW t \in Threads, NEW g \in guards[t], Drop(t, g)
  PROVE  IStep
  <1>1. PICK f \in Frames : /\ f = g.frame /\ g \in Guard /\ g.page \in Pages
                            /\ g.kind \in {"R", "W"} /\ frames[f].page_id = g.page
    BY Types DEF IInv, PinnersResident, Guard
  <1>2. /\ op[t].pc = "idle"
        /\ guards' = [guards EXCEPT ![t] = @ \ {g}]
        /\ op' = [op EXCEPT ![t] = [Idle EXCEPT !.pc = "unpin", !.frame = f]]
        /\ UNCHANGED <<next_page_id, bpm_latch, page_table, free_frames, replacer, frames, disk>>
    BY <1>1 DEF Drop, At, pool
  <1>3. /\ guards' \in [Threads -> SUBSET Guard]
        /\ guards'[t] = guards[t] \ {g}
        /\ \A u \in Threads : u # t => guards'[u] = guards[u]
    BY <1>2, Types
  <1>4. /\ op' \in [Threads -> Call]
        /\ \A u \in Threads : u # t => op'[u] = op[u]
        /\ op'[t].pc = "unpin" /\ op'[t].frame = f
    <2> DEFINE c == [Idle EXCEPT !.pc = "unpin", !.frame = f]
    <2>1. c \in Call /\ c.pc = "unpin" /\ c.frame = f
      BY Zenon DEF Idle, Call, PCs
    <2>2. op' = [op EXCEPT ![t] = c]
      BY <1>2
    <2> HIDE DEF c
    <2> QED
      BY <2>1, <2>2, Types
  <1>5. /\ rwlatch' \in [Frames -> RWLatch]
        /\ \A x \in Frames : x # f => rwlatch'[x] = rwlatch[x]
        /\ \/ /\ g.kind = "R" /\ rwlatch'[f].writer = rwlatch[f].writer
              /\ rwlatch'[f].readers = rwlatch[f].readers \ {t}
           \/ /\ g.kind = "W" /\ rwlatch'[f].writer = None
              /\ rwlatch'[f].readers = rwlatch[f].readers
    <2>1. CASE g.kind = "R"
      <3> DEFINE l == [rwlatch[f] EXCEPT !.readers = @ \ {t}]
      <3>1. rwlatch' = [rwlatch EXCEPT ![f] = l] /\ rwlatch[f] \in RWLatch
        BY <1>1, <2>1, Types DEF Drop, ReleaseShared
      <3>2. l \in RWLatch /\ l.writer = rwlatch[f].writer /\ l.readers = rwlatch[f].readers \ {t}
        BY <3>1 DEF RWLatch
      <3> HIDE DEF l
      <3> QED
        BY <2>1, <3>1, <3>2, LatchUpdate, Zenon
    <2>2. CASE g.kind = "W"
      <3> DEFINE l == [rwlatch[f] EXCEPT !.writer = None]
      <3>1. rwlatch' = [rwlatch EXCEPT ![f] = l] /\ rwlatch[f] \in RWLatch
        BY <1>1, <2>2, Types DEF Drop, ReleaseExclusive
      <3>2. l \in RWLatch /\ l.writer = None /\ l.readers = rwlatch[f].readers
        BY <3>1 DEF RWLatch
      <3> HIDE DEF l
      <3> QED
        BY <2>2, <3>1, <3>2, LatchUpdate, Zenon
    <2> QED
      BY <1>1, <2>1, <2>2
  <1>6. TypeOK'
    BY <1>2, <1>3, <1>4, <1>5, Types DEF TypeOK
  <1>7. LatchHolder' /\ CallShape'
    BY <1>2, <1>4 DEF IInv, LatchHolder, HolderPCs, CallShape
  <1>8. /\ PageTableMatchesFrames' /\ FramesConserved' /\ EvictableIffUnpinned' /\ MissShape'
        /\ PinStep
    <2>1. <<t, g>> \in Pins(f) /\ <<t, None>> \notin Pins(f)
      BY <1>1, <1>2, UsersPin, Types, PoolAssumption DEF Pins, InUseBy
    <2>2. Pins(f)' = (Pins(f) \ {<<t, g>>}) \cup {<<t, None>>}
      BY <1>1, <1>2, <1>3, <1>4, Types, PoolAssumption DEF Pins, InUseBy
    <2>3. \A x \in Frames \ {f} : Pins(x)' = Pins(x)
      BY <1>1, <1>2, <1>3, <1>4 DEF Pins, InUseBy
    <2> QED
      BY <1>2, <1>4, <2>1, <2>2, <2>3, UserExchanged
  <1>9. PinnersResident'
    BY <1>1, <1>2, <1>3, <1>4, PoolAssumption DEF IInv, PinnersResident, Pages
  <1>10. Ascending'
    BY <1>3, <1>4 DEF IInv, Ascending
  <1>11. WriterAlone'
    BY <1>5 DEF IInv, WriterAlone
  <1>12. GuardsLatched'
    <2> SUFFICES ASSUME NEW u \in Threads, NEW h \in guards'[u]
                 PROVE  IF h.kind = "W" THEN rwlatch'[h.frame].writer = u
                                        ELSE u \in rwlatch'[h.frame].readers
      BY DEF GuardsLatched
    <2>1. /\ h \in guards[u] /\ h \in Guard /\ (u = t => h # g)
          /\ IF h.kind = "W" THEN rwlatch[h.frame].writer = u
                             ELSE u \in rwlatch[h.frame].readers
      BY <1>3, Types DEF IInv, GuardsLatched
    <2>2. IF g.kind = "W" THEN rwlatch[f].writer = t ELSE t \in rwlatch[f].readers
      BY <1>1 DEF IInv, GuardsLatched
    <2>3. h.frame = f => u # t
      <3> SUFFICES ASSUME h.frame = f, u = t PROVE FALSE
        OBVIOUS
      <3>1. h.page = g.page
        BY <1>1, <2>1 DEF IInv, PinnersResident
      <3> QED
        BY <2>1, <3>1 DEF IInv, Ascending
    <2>4. h.frame \in Frames /\ h.kind \in {"R", "W"}
      BY <2>1 DEF Guard
    <2>5. CASE h.frame # f
      BY <1>5, <2>1, <2>4, <2>5
    <2>6. CASE h.frame = f
      BY <1>5, <2>1, <2>2, <2>3, <2>4, <2>6
    <2> QED
      BY <2>5, <2>6
  <1> QED
    BY <1>6, <1>7, <1>8, <1>9, <1>10, <1>11, <1>12 DEF IStep

-----------------------------------------------------------------------------
(* Facts about the frames and the calls that fetching a page relies on.    *)

\* A frame has pins exactly while its pin count is not zero.
LEMMA UnpinnedIsZero ==
  ASSUME IInv, NEW f \in Frames
  PROVE  Pins(f) = {} <=> frames[f].pin_count = 0
  BY DEF IInv, PinnedIffPositive

\* A call that moves on.
LEMMA GotoEffect ==
  ASSUME IInv, NEW t \in Threads, NEW pc \in PCs, Goto(t, pc)
  PROVE  /\ op' \in [Threads -> Call]
         /\ \A u \in Threads : u # t => op'[u] = op[u]
         /\ op'[t].pc = pc /\ op'[t].frame = op[t].frame /\ op'[t].page = op[t].page
         /\ op'[t].kind = op[t].kind /\ op'[t].todo = op[t].todo
  <1> DEFINE c == [op[t] EXCEPT !.pc = pc]
  <1>1. op' = [op EXCEPT ![t] = c] /\ op[t] \in Call
    BY Types DEF Goto
  <1>2. /\ c \in Call /\ c.pc = pc /\ c.frame = op[t].frame /\ c.page = op[t].page
        /\ c.kind = op[t].kind /\ c.todo = op[t].todo
    BY <1>1 DEF Call
  <1> HIDE DEF c
  <1> QED
    BY <1>1, <1>2, Types

ChooseFrame(t, pc, f) == op' = [op EXCEPT ![t].pc = pc, ![t].frame = f]

\* A call that moves on with its frame chosen.
LEMMA CallUpdate ==
  ASSUME IInv, NEW t \in Threads, NEW pc \in PCs, NEW f \in Frames, ChooseFrame(t, pc, f)
  PROVE  /\ op' \in [Threads -> Call]
         /\ \A u \in Threads : u # t => op'[u] = op[u]
         /\ op'[t].pc = pc /\ op'[t].frame = f /\ op'[t].page = op[t].page
         /\ op'[t].kind = op[t].kind /\ op'[t].todo = op[t].todo
  <1> DEFINE c == [op[t] EXCEPT !.pc = pc, !.frame = f]
  <1>1. op' = [op EXCEPT ![t] = c] /\ op[t] \in Call
    BY Types, Zenon DEF ChooseFrame
  <1>2. /\ c \in Call /\ c.pc = pc /\ c.frame = f /\ c.page = op[t].page
        /\ c.kind = op[t].kind /\ c.todo = op[t].todo
    BY <1>1, Zenon DEF Call
  <1> HIDE DEF c
  <1> QED
    BY <1>1, <1>2, Types

\* Nobody pins a frame that holds no page.
LEMMA NonResidentUnpinned ==
  ASSUME IInv, NEW f \in Frames, ~Resident(f)
  PROVE  Pins(f) = {}
  <1> SUFFICES ASSUME NEW x \in Pins(f) PROVE FALSE
    OBVIOUS
  <1>1. x[1] \in Threads
    BY DEF Pins
  <1>2. CASE x[2] \in guards[x[1]] /\ x[2].frame = f
    <2>1. x[2].page \in Pages /\ frames[f].page_id = x[2].page
      BY <1>1, <1>2, Types DEF IInv, PinnersResident, Guard
    <2> QED
      BY <2>1, PoolAssumption DEF Resident, Pages
  <1>3. CASE x[1] \in InUseBy(f, {"latch", "unpin"})
    <2>1. op[x[1]].frame = f /\ op[x[1]].pc \in {"latch", "unpin"}
      BY <1>3 DEF InUseBy
    <2>2. frames[f].page_id # None
      BY <1>1, <2>1, PoolAssumption DEF IInv, PinnersResident, CallShape, Pages
    <2> QED
      BY <2>2 DEF Resident
  <1> QED
    BY <1>2, <1>3 DEF Pins

\* The thread inside a critical section is the only one.
LEMMA OneHolder ==
  ASSUME IInv, NEW t \in Threads, op[t].pc \in HolderPCs
  PROVE  bpm_latch = t /\ \A u \in Threads : u # t => op[u].pc \notin HolderPCs
  BY DEF IInv, LatchHolder

Vacate(f) ==
    /\ page_table' = Erase(page_table, frames[f].page_id)
    /\ frames' = [frames EXCEPT ![f] = ResetFrame]

\* The victim of an eviction, or a deleted page, leaves its frame.
LEMMA VacateEffect ==
  ASSUME IInv, NEW f \in Frames, Resident(f), Vacate(f)
  PROVE  /\ IsMap(page_table', Pages, Frames)
         /\ DOMAIN page_table' = DOMAIN page_table \ {frames[f].page_id}
         /\ \A p \in DOMAIN page_table' : page_table'[p] = page_table[p]
         /\ frames' \in [Frames -> FrameHeader]
         /\ \A x \in Frames : x # f => frames'[x] = frames[x]
         /\ frames'[f].page_id = None /\ frames'[f].pin_count = 0
         /\ \A x \in Frames : Resident(x)' <=> Resident(x) /\ x # f
         /\ PageTableMatchesFrames'
  <1>1. IsMap(page_table, Pages, Frames) /\ frames \in [Frames -> FrameHeader]
    BY Types DEF IsMap
  <1>2. /\ DOMAIN page_table' = DOMAIN page_table \ {frames[f].page_id}
        /\ \A p \in DOMAIN page_table' : page_table'[p] = page_table[p]
        /\ IsMap(page_table', Pages, Frames)
    BY <1>1 DEF Vacate, Erase, IsMap
  <1>3. ResetFrame \in FrameHeader /\ ResetFrame.page_id = None /\ ResetFrame.pin_count = 0
    BY DEF ResetFrame, FrameHeader, Contents
  <1>4. /\ frames' \in [Frames -> FrameHeader]
        /\ \A x \in Frames : x # f => frames'[x] = frames[x]
        /\ frames'[f].page_id = None /\ frames'[f].pin_count = 0
    BY <1>1, <1>3 DEF Vacate
  <1>5. \A x \in Frames : Resident(x)' <=> Resident(x) /\ x # f
    BY <1>4 DEF Resident
  <1>6. PageTableMatchesFrames'
    <2>1. ASSUME NEW p \in DOMAIN page_table' PROVE frames'[page_table'[p]].page_id = p
      <3>1. page_table[p] \in Frames /\ page_table[p] # f /\ page_table'[p] = page_table[p]
        BY <1>1, <1>2 DEF IInv, PageTableMatchesFrames, IsMap
      <3> QED
        BY <1>2, <1>4, <3>1 DEF IInv, PageTableMatchesFrames
    <2>2. ASSUME NEW x \in Frames, Resident(x)'
          PROVE  frames'[x].page_id \in DOMAIN page_table' /\ page_table'[frames'[x].page_id] = x
      BY <1>2, <1>4, <1>5, <2>2 DEF IInv, PageTableMatchesFrames
    <2> QED
      BY <2>1, <2>2 DEF PageTableMatchesFrames
  <1> QED
    BY <1>2, <1>4, <1>5, <1>6

=============================================================================
