----------------------- MODULE BufferPoolFetchProofs ------------------------
(***************************************************************************)
(* Fetching a page under bpm_latch_ preserves the buffer pool's invariant, *)
(* whether the lookup finds the page, a free frame or a victim; so do      *)
(* writing the victim back, loading the page and deleting one.             *)
(***************************************************************************)
EXTENDS BufferPoolInvariant

\* The provers' time limit, which includes the time tlapm needs on a long module.
USE SMTT(60)
USE FieldUpdate

-----------------------------------------------------------------------------
(* A lookup that gives up.                                                 *)

\* A lookup that returns without a guard found every frame pinned.
LEMMA NulloptMeansPinned ==
  ASSUME IInv, NEW t \in Threads, LookupNullopt(t), NEW f \in Frames
  PROVE  frames[f].pin_count > 0
  <1>1. bpm_latch = None /\ free_frames = <<>> /\ replacer.evictable = {}
    BY DEF LookupNullopt
  <1>2. InUseBy(f, {"load"}) = {} /\ InUseBy(f, {"writeback"}) = {}
    BY <1>1, NoHolder DEF InUseBy
  <1>3. ~IsFree(f)
    BY <1>1 DEF IsFree
  <1>4. Resident(f)
    BY <1>2, <1>3 DEF IInv, FramesConserved
  <1>5. frames[f].pin_count # 0
    BY <1>1, <1>2, <1>4 DEF IInv, EvictableIffUnpinned
  <1> QED
    BY <1>5, Types DEF FrameHeader

\* Only LookupNullopt ends a call that is still looking for a frame.
LEMMA LookupEnds ==
  ASSUME IInv, NEW t \in Threads, At(t, "lookup"), op'[t] = Idle, NEW u \in Threads, Step(u)
  PROVE  LookupNullopt(t)
  <1>1. op[t].pc = "lookup" /\ op'[t].pc = "idle" /\ op \in [Threads -> Call]
    BY Types DEF At, Idle
  <1>2. ASSUME op'[t] = op[t] PROVE FALSE
    BY <1>1, <1>2
  <1>3. CASE u # t
    <2> SUFFICES op'[t] = op[t]
      BY <1>2
    <2> USE <1>1, <1>3
    <2>1. CASE NewPage(u) \/ \E p \in Pages : DeletePage(u, p)
      BY <2>1 DEF NewPage, DeletePage
    <2>2. CASE \E p \in Pages, k \in {"R", "W"} : CallCheckedPage(u, p, k)
      BY <2>2 DEF CallCheckedPage
    <2>3. CASE LookupHit(u) \/ LookupFree(u)
      BY <2>3 DEF LookupHit, LookupFree
    <2>4. CASE LookupEvict(u) \/ LookupNullopt(u)
      BY <2>4 DEF LookupEvict, LookupNullopt, Return
    <2>5. CASE LatchPage(u) \/ Store(u) \/ GuardFlushClear(u) \/ Unpin(u)
      BY <2>5, Zenon DEF LatchPage, Store, GuardFlushClear, Unpin, Return
    <2>6. CASE \E g \in guards[u] : GetDataMut(u, g) \/ GuardFlush(u, g) \/ Drop(u, g)
      BY <2>6 DEF GetDataMut, GuardFlush, Drop
    <2>7. CASE \E m \in FlushModes : FlushPage(u, m) \/ FlushAllPages(u, m)
      BY <2>7, Zenon DEF FlushPage, FlushAllPages, CallFlush
    <2>8. CASE WriteBack(u) \/ Load(u) \/ FlushReturn(u)
      BY <2>8 DEF WriteBack, Load, FlushReturn, Goto, Return
    <2>9. CASE FlushStart(u)
      BY <2>9 DEF FlushStart
    <2>10. CASE FlushWrite(u) \/ FlushClear(u)
      BY <2>10 DEF FlushWrite, FlushClear, EndFlushOne, Goto
    <2> QED
      BY <2>1, <2>2, <2>3, <2>4, <2>5, <2>6, <2>7, <2>8, <2>9, <2>10, Zenon DEF Step, LatchHolderStep
  <1>4. CASE u = t
    <2> USE <1>1, <1>4
    <2>1. ASSUME NewPage(u) \/ LatchPage(u) \/ Store(u) \/ GuardFlushClear(u) \/ Unpin(u) PROVE FALSE
      BY <2>1, Zenon DEF NewPage, LatchPage, Store, GuardFlushClear, Unpin, Calls, At
    <2>2. ASSUME \/ \E p \in Pages, k \in {"R", "W"} : CallCheckedPage(u, p, k)
                 \/ \E p \in Pages : DeletePage(u, p) PROVE FALSE
      BY <2>2, Zenon DEF CallCheckedPage, DeletePage, Calls, At
    <2>3. ASSUME LookupHit(u) PROVE FALSE
      <3>1. op'[t].pc = "latch"
        BY <2>3, Zenon DEF LookupHit, Call
      <3> QED
        BY <3>1
    <2>4. ASSUME LookupFree(u) PROVE FALSE
      <3>1. op'[t].pc = "load"
        BY <2>4, Zenon DEF LookupFree, Call
      <3> QED
        BY <3>1
    <2>5. ASSUME LookupEvict(u) PROVE FALSE
      <3>1. op'[t].pc \in {"load", "writeback"}
        BY <2>5 DEF LookupEvict, Call
      <3> QED
        BY <3>1
    <2>6. ASSUME \E g \in guards[u] : GetDataMut(u, g) \/ GuardFlush(u, g) \/ Drop(u, g) PROVE FALSE
      BY <2>6 DEF GetDataMut, GuardFlush, Drop, At
    <2>7. ASSUME \E m \in FlushModes : FlushPage(u, m) \/ FlushAllPages(u, m) PROVE FALSE
      BY <2>7, Zenon DEF FlushPage, FlushAllPages, CallFlush, Calls, At
    <2>8. ASSUME LatchHolderStep(u) PROVE FALSE
      BY <2>8, Zenon DEF LatchHolderStep, WriteBack, Load, FlushStart, FlushWrite, FlushClear, FlushReturn, At
    <2> QED
      BY <2>1, <2>2, <2>3, <2>4, <2>5, <2>6, <2>7, <2>8 DEF Step
  <1> QED
    BY <1>3, <1>4

-----------------------------------------------------------------------------
(* A page that is not resident gets a frame.                               *)

\* A step that rewrites the header of an unpinned frame.
LEMMA UnpinnedFrameStep ==
  ASSUME IInv, NEW t \in Threads, NEW f \in Frames, Pins(f) = {},
         \A x \in Frames : x # f => frames'[x] = frames[x],
         frames'[f].pin_count = 0,
         UNCHANGED guards,
         \A u \in Threads : u # t => op'[u] = op[u],
         op[t].pc \notin {"latch", "unpin"}, op'[t].pc \notin {"latch", "unpin"}
  PROVE  PinnersResident' /\ PinStep
  <1>1. PinnersResident'
    <2>1. ASSUME NEW u \in Threads, NEW g \in guards[u]
          PROVE  frames'[g.frame].page_id = g.page
      <3>1. g \in Guard
        BY Types
      <3>2. g.frame = f => <<u, g>> \in Pins(f)
        BY UsersPin, Zenon
      <3>3. g.frame \in Frames /\ g.frame # f
        BY <3>1, <3>2 DEF Guard
      <3> QED
        BY <3>3 DEF IInv, PinnersResident
    <2>2. ASSUME NEW u \in Threads, op'[u].pc \in {"latch", "unpin"}
          PROVE  op'[u] = op[u] /\ op[u].frame \in Frames /\ op[u].frame # f
      BY <2>2, UsersPin, Zenon DEF IInv, CallShape
    <2> QED
      BY <2>1, <2>2 DEF IInv, PinnersResident
  <1>2. \A x \in Frames : Pins(x)' = Pins(x)
    BY DEF Pins, InUseBy
  <1>3. \A x \in Frames : frames'[x].pin_count = frames[x].pin_count
    BY UnpinnedIsZero
  <1> QED
    BY <1>1, <1>2, <1>3 DEF PinStep, PinsSame


\* Thread t, whose page is not resident, has chosen the unpinned frame f for
\* it, or vacates that frame.
Missing(t, f) ==
    /\ UNCHANGED <<next_page_id, rwlatch, guards>> /\ bpm_latch' = t
    /\ IsMap(page_table', Pages, Frames) /\ IsReplacer(replacer')
    /\ free_frames' \in Seq(Frames) /\ disk' \in [Pages -> Contents]
    /\ op[t].page \notin DOMAIN page_table'
    /\ frames' \in [Frames -> FrameHeader] /\ frames'[f].pin_count = 0
    /\ \A x \in Frames : x # f => frames'[x] = frames[x]
    /\ op' \in [Threads -> Call]
    /\ \A u \in Threads : u # t => op'[u] = op[u] /\ op[u].pc \notin HolderPCs
    /\ \/ op[t].pc = "lookup"
       \/ op[t].pc = "writeback" /\ op[t].frame = f
    /\ \/ op'[t].pc = "writeback" /\ frames'[f].page_id # None
       \/ op'[t].pc = "load" /\ frames'[f].page_id = None
    /\ op'[t].frame = f /\ op'[t].page = op[t].page /\ op'[t].kind = op[t].kind

\* Frame f leaves the free list and the replacer, wherever it was.
Taken(f) ==
    /\ \A i, j \in DOMAIN free_frames' : free_frames'[i] = free_frames'[j] => i = j
    /\ \A x \in Frames : IsFree(x)' <=> IsFree(x) /\ x # f
    /\ replacer'.evictable = replacer.evictable \ {f}
    /\ DOMAIN replacer'.tracked = DOMAIN replacer.tracked \ {f}
    /\ \A x \in DOMAIN replacer.tracked : x # f => replacer'.tracked[x] = replacer.tracked[x]

\* Such a step has to mind the page table only.
LEMMA MissStep ==
  ASSUME IInv, NEW t \in Threads, NEW f \in Frames, Pins(f) = {}, Missing(t, f), Taken(f),
         PageTableMatchesFrames'
  PROVE  IStep
  <1>1. UNCHANGED <<next_page_id, rwlatch, guards>> /\ bpm_latch' = t
    BY DEF Missing
  <1>2. op' \in [Threads -> Call] /\ \A u \in Threads : u # t => op'[u] = op[u] /\ op[u].pc \notin HolderPCs
    BY DEF Missing
  <1>3. /\ op[t].pc \in {"lookup", "writeback"} /\ (op[t].pc = "writeback" => op[t].frame = f)
        /\ op'[t].frame = f /\ op'[t].page = op[t].page /\ op'[t].kind = op[t].kind
    BY DEF Missing
  <1>4. \/ op'[t].pc = "writeback" /\ frames'[f].page_id # None
        \/ op'[t].pc = "load" /\ frames'[f].page_id = None
    BY DEF Missing
  <1>5. frames'[f].pin_count = 0 /\ \A x \in Frames : x # f => frames'[x] = frames[x]
    BY DEF Missing
  <1>6. TypeOK'
    BY Types DEF TypeOK, Missing
  <1>7. LatchHolder'
    BY <1>1, <1>2, <1>3, <1>4 DEF LatchHolder, HolderPCs
  <1>8. CallShape'
    BY <1>2, <1>3, <1>4 DEF IInv, CallShape, HolderPCs
  <1>9. MissShape'
    <2>1. op[t].page \notin DOMAIN page_table'
      BY DEF Missing
    <2> QED
      BY <1>2, <1>3, <1>4, <1>5, <2>1 DEF MissShape, HolderPCs
  <1>10. PinnersResident' /\ PinStep
    <2>1. op[t].pc \notin {"latch", "unpin"} /\ op'[t].pc \notin {"latch", "unpin"}
      BY <1>3, <1>4
    <2> QED
      BY <1>1, <1>2, <1>5, <2>1, UnpinnedFrameStep, Zenon
  <1>11. Ascending'
    BY <1>1, <1>2, <1>3, <1>4 DEF IInv, Ascending
  <1>12. GuardsLatched' /\ WriterAlone'
    BY <1>1, <1>2, <1>3, <1>4 DEF IInv, GuardsLatched, WriterAlone
  <1>13. \A x \in Frames \ {f} : Resident(x)' <=> Resident(x)
    BY <1>5 DEF Resident
  <1>14. \A x \in Frames \ {f} : /\ InUseBy(x, {"load"}) = {} /\ InUseBy(x, {"load"})' = {}
                                 /\ InUseBy(x, {"writeback"}) = {} /\ InUseBy(x, {"writeback"})' = {}
    BY <1>2, <1>3, <1>4 DEF InUseBy, HolderPCs
  <1>15. \/ InUseBy(f, {"writeback"})' # {} /\ InUseBy(f, {"load"})' = {} /\ Resident(f)'
         \/ InUseBy(f, {"load"})' # {} /\ ~Resident(f)'
    BY <1>2, <1>3, <1>4 DEF Resident, InUseBy, HolderPCs
  <1>16. FramesConserved'
    BY <1>13, <1>14, <1>15 DEF IInv, FramesConserved, Taken
  <1>17. EvictableIffUnpinned'
    BY <1>5, <1>13, <1>14, <1>15 DEF IInv, EvictableIffUnpinned, Taken
  <1> QED
    BY <1>6, <1>7, <1>8, <1>9, <1>10, <1>11, <1>12, <1>16, <1>17 DEF IStep

\* A lookup that takes a free frame.
LEMMA LookupFreeStep == ASSUME IInv, NEW t \in Threads, LookupFree(t) PROVE IStep
  <1>1. PICK f \in Frames : f = Head(free_frames) /\ free_frames # <<>>
    BY Types DEF LookupFree
  <1>2. /\ op[t].pc = "lookup" /\ bpm_latch = None /\ bpm_latch' = t
        /\ op[t].page \notin DOMAIN page_table
        /\ free_frames' = Tail(free_frames)
        /\ frames' = [frames EXCEPT ![f] = ResetFrame]
        /\ ChooseFrame(t, "load", f) /\ "load" \in PCs
        /\ UNCHANGED <<next_page_id, page_table, replacer, rwlatch, disk, guards>>
    BY <1>1 DEF LookupFree, At, ChooseFrame, PCs
  <1>3. /\ op' \in [Threads -> Call]
        /\ \A u \in Threads : u # t => op'[u] = op[u]
        /\ op'[t].pc = "load" /\ op'[t].frame = f
        /\ op'[t].page = op[t].page /\ op'[t].kind = op[t].kind
    BY <1>2, CallUpdate
  <1>4. /\ frames' \in [Frames -> FrameHeader]
        /\ \A x \in Frames : x # f => frames'[x] = frames[x]
        /\ frames'[f].page_id = None /\ frames'[f].pin_count = 0
    <2>1. ResetFrame \in FrameHeader /\ ResetFrame.page_id = None /\ ResetFrame.pin_count = 0
      BY DEF ResetFrame, FrameHeader, Contents
    <2> QED
      BY <1>2, <2>1, Types
  <1>5. /\ free_frames' \in Seq(Frames)
        /\ Len(free_frames) \in Nat /\ Len(free_frames) > 0
        /\ DOMAIN free_frames = 1 .. Len(free_frames)
        /\ DOMAIN free_frames' = 1 .. Len(free_frames) - 1
        /\ \A i \in 1 .. Len(free_frames) - 1 : free_frames'[i] = free_frames[i + 1]
        /\ free_frames[1] = f
    BY <1>1, <1>2, Types
  <1>6. IsFree(f) /\ ~Resident(f)
    BY <1>5 DEF IInv, FramesConserved, IsFree
  <1>7. Missing(t, f)
    <2>1. \A u \in Threads : op[u].pc \notin HolderPCs
      BY <1>2, NoHolder DEF HolderPCs
    <2>2. /\ op[t].page \notin DOMAIN page_table' /\ IsMap(page_table', Pages, Frames)
          /\ IsReplacer(replacer') /\ disk' \in [Pages -> Contents]
      BY <1>2, Types
    <2> QED
      BY <1>2, <1>3, <1>4, <1>5, <2>1, <2>2, Zenon DEF Missing
  <1>8. Taken(f)
    <2>1. ASSUME NEW x \in Frames, IsFree(x)' PROVE IsFree(x) /\ x # f
      <3>1. PICK i \in DOMAIN free_frames' : free_frames'[i] = x
        BY <2>1 DEF IsFree
      <3>2. i + 1 \in DOMAIN free_frames /\ i + 1 # 1 /\ free_frames[i + 1] = x
        BY <1>5, <3>1
      <3> QED
        BY <1>5, <3>2 DEF IInv, FramesConserved, IsFree
    <2>2. ASSUME NEW x \in Frames, IsFree(x), x # f PROVE IsFree(x)'
      <3>1. PICK i \in DOMAIN free_frames : free_frames[i] = x
        BY <2>2 DEF IsFree
      <3>2. i - 1 \in 1 .. Len(free_frames) - 1 /\ free_frames'[i - 1] = x
        BY <1>5, <2>2, <3>1
      <3> QED
        BY <1>5, <3>2 DEF IsFree
    <2>3. \A i, j \in DOMAIN free_frames' : free_frames'[i] = free_frames'[j] => i = j
      BY <1>5 DEF IInv, FramesConserved
    <2>4. f \notin DOMAIN replacer.tracked /\ f \notin replacer.evictable
      BY <1>6 DEF IInv, EvictableIffUnpinned
    <2> QED
      BY <1>2, <2>1, <2>2, <2>3, <2>4 DEF Taken
  <1>9. PageTableMatchesFrames'
    BY <1>2, <1>4, <1>6, Types DEF IInv, PageTableMatchesFrames, Resident, IsMap
  <1> QED
    BY <1>6, <1>7, <1>8, <1>9, NonResidentUnpinned, MissStep

\* An evicted or removed frame is forgotten.
LEMMA ForgottenEffect ==
  ASSUME NEW r, IsReplacer(r), NEW f
  PROVE  LET q == Forgotten(r, f)
         IN  /\ IsReplacer(q)
             /\ q.evictable = r.evictable \ {f}
             /\ DOMAIN q.tracked = DOMAIN r.tracked \ {f}
             /\ \A x \in DOMAIN r.tracked : x # f => q.tracked[x] = r.tracked[x]
  BY DEF Forgotten, Erase, IsReplacer, IsMap


\* CheckedReadPage and CheckedWritePage with no free frame.
LEMMA LookupEvictStep == ASSUME IInv, NEW t \in Threads, LookupEvict(t) PROVE IStep
  <1>1. PICK f \in replacer.evictable :
          /\ replacer' = Forgotten(replacer, f)
          /\ \/ ChooseFrame(t, "writeback", f) /\ UNCHANGED <<page_table, frames>>
             \/ ChooseFrame(t, "load", f) /\ Vacate(f)
    BY DEF LookupEvict, ChooseFrame, Vacate
  <1>2. /\ op[t].pc = "lookup" /\ bpm_latch = None /\ bpm_latch' = t
        /\ op[t].page \notin DOMAIN page_table
        /\ UNCHANGED <<next_page_id, free_frames, rwlatch, disk, guards>>
    BY DEF LookupEvict, At
  <1>3. /\ f \in Frames /\ Resident(f) /\ frames[f].pin_count = 0
        /\ f \in DOMAIN replacer.tracked /\ ~IsFree(f)
    BY DEF IInv, EvictableIffUnpinned, FramesConserved
  <1>4. Pins(f) = {}
    BY <1>3, UnpinnedIsZero
  <1>5. /\ IsReplacer(replacer')
        /\ replacer'.evictable = replacer.evictable \ {f}
        /\ DOMAIN replacer'.tracked = DOMAIN replacer.tracked \ {f}
        /\ \A x \in DOMAIN replacer.tracked : x # f => replacer'.tracked[x] = replacer.tracked[x]
    BY <1>1, Types, ForgottenEffect
  <1>6. Taken(f)
    BY <1>2, <1>3, <1>5 DEF IInv, FramesConserved, IsFree, Taken
  <1>7. \A u \in Threads : op[u].pc \notin HolderPCs
    BY <1>2, NoHolder DEF HolderPCs
  <1>8. "writeback" \in PCs /\ "load" \in PCs
    BY DEF PCs
  <1>9. CASE ChooseFrame(t, "writeback", f) /\ UNCHANGED <<page_table, frames>>
    <2>1. /\ op' \in [Threads -> Call]
          /\ \A u \in Threads : u # t => op'[u] = op[u]
          /\ op'[t].pc = "writeback" /\ op'[t].frame = f
          /\ op'[t].page = op[t].page /\ op'[t].kind = op[t].kind
      BY <1>3, <1>8, <1>9, CallUpdate
    <2>2. Missing(t, f)
      <3>1. /\ op[t].page \notin DOMAIN page_table' /\ IsMap(page_table', Pages, Frames)
            /\ frames' \in [Frames -> FrameHeader] /\ \A x \in Frames : frames'[x] = frames[x]
            /\ free_frames' \in Seq(Frames) /\ disk' \in [Pages -> Contents]
        BY <1>2, <1>9, Types
      <3>2. frames'[f].page_id # None /\ frames'[f].pin_count = 0
        BY <1>3, <3>1 DEF Resident
      <3> QED
        BY <1>2, <1>5, <1>7, <2>1, <3>1, <3>2, Zenon DEF Missing
    <2>3. PageTableMatchesFrames'
      BY <1>9 DEF IInv, PageTableMatchesFrames, Resident
    <2> QED
      BY <1>3, <1>4, <1>6, <2>2, <2>3, MissStep
  <1>10. CASE ChooseFrame(t, "load", f) /\ Vacate(f)
    <2>1. /\ op' \in [Threads -> Call]
          /\ \A u \in Threads : u # t => op'[u] = op[u]
          /\ op'[t].pc = "load" /\ op'[t].frame = f
          /\ op'[t].page = op[t].page /\ op'[t].kind = op[t].kind
      BY <1>3, <1>8, <1>10, CallUpdate
    <2>2. /\ IsMap(page_table', Pages, Frames) /\ DOMAIN page_table' = DOMAIN page_table \ {frames[f].page_id}
          /\ frames' \in [Frames -> FrameHeader]
          /\ \A x \in Frames : x # f => frames'[x] = frames[x]
          /\ frames'[f].page_id = None /\ frames'[f].pin_count = 0
          /\ PageTableMatchesFrames'
      BY <1>3, <1>10, VacateEffect, Zenon
    <2>3. Missing(t, f)
      <3>1. /\ op[t].page \notin DOMAIN page_table'
            /\ free_frames' \in Seq(Frames) /\ disk' \in [Pages -> Contents]
        BY <1>2, <2>2, Types
      <3> QED
        BY <1>2, <1>5, <1>7, <2>1, <2>2, <3>1, Zenon DEF Missing
    <2> QED
      BY <1>3, <1>4, <1>6, <2>2, <2>3, MissStep
  <1> QED
    BY <1>1, <1>9, <1>10

\* The write of a dirty victim.
LEMMA WriteBackStep == ASSUME IInv, NEW t \in Threads, WriteBack(t) PROVE IStep
  <1>1. PICK f \in Frames :
          /\ f = op[t].frame /\ Resident(f) /\ frames[f].pin_count = 0
          /\ op[t].page \notin DOMAIN page_table
    <2>1. op[t].pc = "writeback"
      BY DEF WriteBack, At
    <2>2. op[t].frame \in Frames
      BY <2>1 DEF IInv, CallShape
    <2>3. /\ frames[op[t].frame].page_id # None /\ frames[op[t].frame].pin_count = 0
          /\ op[t].page \notin DOMAIN page_table
      BY <2>1, Zenon DEF IInv, MissShape
    <2> QED
      BY <2>2, <2>3 DEF Resident
  <1>2. /\ op[t].pc = "writeback" /\ Goto(t, "load") /\ Vacate(f)
        /\ UNCHANGED <<next_page_id, bpm_latch, free_frames, replacer, rwlatch, guards>>
    BY <1>1 DEF WriteBack, At, Vacate
  <1>3. /\ op' \in [Threads -> Call]
        /\ \A u \in Threads : u # t => op'[u] = op[u]
        /\ op'[t].pc = "load" /\ op'[t].frame = f
        /\ op'[t].page = op[t].page /\ op'[t].kind = op[t].kind
    <2>1. "load" \in PCs
      BY DEF PCs
    <2> QED
      BY <1>1, <1>2, <2>1, GotoEffect, Zenon
  <1>4. /\ IsMap(page_table', Pages, Frames) /\ DOMAIN page_table' = DOMAIN page_table \ {frames[f].page_id}
        /\ frames' \in [Frames -> FrameHeader]
        /\ \A x \in Frames : x # f => frames'[x] = frames[x]
        /\ frames'[f].page_id = None /\ frames'[f].pin_count = 0
        /\ PageTableMatchesFrames'
    BY <1>1, <1>2, VacateEffect, Zenon
  <1>5. disk' \in [Pages -> Contents]
    <2>1. frames[f].page_id \in Pages /\ frames[f].data \in Contents
      BY <1>1, Types DEF FrameHeader, Resident
    <2> QED
      BY <1>1, <2>1, DiskWriteType, Zenon DEF WriteBack
  <1>6. bpm_latch = t /\ \A u \in Threads : u # t => op[u].pc \notin HolderPCs
    BY <1>2, OneHolder DEF HolderPCs
  <1>7. Missing(t, f)
    <2>1. /\ bpm_latch' = t /\ op[t].page \notin DOMAIN page_table'
          /\ IsReplacer(replacer') /\ free_frames' \in Seq(Frames)
      BY <1>1, <1>2, <1>4, <1>6, Types, Zenon
    <2> QED
      BY <1>1, <1>2, <1>3, <1>4, <1>5, <1>6, <2>1, Zenon DEF Missing
  <1>8. f \notin DOMAIN replacer.tracked /\ f \notin replacer.evictable /\ ~IsFree(f)
    <2>1. InUseBy(f, {"writeback"}) # {}
      BY <1>1, <1>2 DEF InUseBy
    <2> QED
      BY <1>1, <2>1, Zenon DEF IInv, EvictableIffUnpinned, FramesConserved
  <1>9. Taken(f)
    BY <1>2, <1>8 DEF IInv, FramesConserved, IsFree, Taken
  <1>10. Pins(f) = {}
    BY <1>1, UnpinnedIsZero
  <1> QED
    BY <1>4, <1>7, <1>9, <1>10, MissStep

-----------------------------------------------------------------------------
(* A page gets a new user.                                                 *)

\* Thread t has found or loaded page p in frame f and pins it.
Fetched(t, f, p) ==
    /\ UNCHANGED <<next_page_id, free_frames, rwlatch, disk, guards>> /\ bpm_latch' = None
    /\ IsMap(page_table', Pages, Frames) /\ replacer' = PinInReplacer(replacer, f, p)
    /\ frames' \in [Frames -> FrameHeader] /\ frames'[f].page_id = p
    /\ frames'[f].pin_count = frames[f].pin_count + 1
    /\ \A x \in Frames : x # f => frames'[x] = frames[x]
    /\ op' \in [Threads -> Call]
    /\ \A u \in Threads : u # t => op'[u] = op[u] /\ op[u].pc \notin HolderPCs
    /\ \/ op[t].pc = "lookup"
       \/ op[t].pc = "load" /\ op[t].frame = f
    /\ op'[t].pc = "latch" /\ op'[t].frame = f /\ op[t].page = p /\ op'[t].page = p
    /\ op'[t].kind = op[t].kind

\* Pinning a frame for a page: it is tracked for that page, not evictable.
LEMMA PinEffect ==
  ASSUME NEW r, IsReplacer(r), NEW f \in Frames, NEW p \in Pages
  PROVE  LET q == PinInReplacer(r, f, p)
         IN  /\ IsReplacer(q)
             /\ q.evictable = r.evictable \ {f}
             /\ DOMAIN q.tracked = DOMAIN r.tracked \cup {f}
             /\ q.tracked[f] = p
             /\ \A x \in DOMAIN r.tracked : x # f => q.tracked[x] = r.tracked[x]
  <1> DEFINE m == Put(r.tracked, f, p)
  <1>1. /\ DOMAIN m = DOMAIN r.tracked \cup {f}
        /\ m[f] = p
        /\ \A x \in DOMAIN r.tracked : x # f => m[x] = r.tracked[x]
        /\ m \in [DOMAIN r.tracked \cup {f} -> Pages]
    BY DEF Put, IsReplacer, IsMap
  <1> HIDE DEF m
  <1>2. PinInReplacer(r, f, p) = [tracked |-> m, evictable |-> r.evictable \ {f}]
    <2> DEFINE e == IF f \in DOMAIN r.tracked /\ r.tracked[f] = p
                      THEN r.evictable ELSE r.evictable \ {f}
    <2>1. Accessed(r, f, p) = [tracked |-> m, evictable |-> e]
      BY DEF Accessed, m
    <2>2. e \ {f} = r.evictable \ {f}
      OBVIOUS
    <2> HIDE DEF e
    <2> QED
      BY <1>1, <2>1, <2>2 DEF PinInReplacer, WithEvictable
  <1> QED
    BY <1>1, <1>2 DEF IsReplacer, IsMap


\* Such a step has to mind the page table only.
LEMMA FetchStep ==
  ASSUME IInv, NEW t \in Threads, NEW f \in Frames, NEW p \in Pages, Fetched(t, f, p),
         ~IsFree(f), Pins(f) = {} \/ frames[f].page_id = p, PageTableMatchesFrames'
  PROVE  IStep
  <1>1. UNCHANGED <<rwlatch, guards>>
    BY DEF Fetched
  <1>2. /\ frames'[f].page_id = p /\ frames'[f].pin_count = frames[f].pin_count + 1
        /\ \A x \in Frames : x # f => frames'[x] = frames[x]
    BY DEF Fetched
  <1>3. \A u \in Threads : u # t => op'[u] = op[u] /\ op[u].pc \notin HolderPCs
    BY DEF Fetched
  <1>4. /\ op[t].pc \in {"lookup", "load"} /\ op'[t].pc = "latch" /\ op'[t].frame = f
        /\ op[t].page = p /\ op'[t].page = p /\ op'[t].kind = op[t].kind
    BY DEF Fetched
  <1>5. /\ IsReplacer(replacer')
        /\ replacer'.evictable = replacer.evictable \ {f}
        /\ DOMAIN replacer'.tracked = DOMAIN replacer.tracked \cup {f}
        /\ replacer'.tracked[f] = p
        /\ \A x \in DOMAIN replacer.tracked : x # f => replacer'.tracked[x] = replacer.tracked[x]
    <2>1. replacer' = PinInReplacer(replacer, f, p)
      BY DEF Fetched
    <2> QED
      BY <2>1, Types, PinEffect
  <1>6. TypeOK'
    BY <1>5, Types DEF TypeOK, Fetched
  <1>7. LatchHolder'
    <2>1. bpm_latch' = None
      BY DEF Fetched
    <2> QED
      BY <1>3, <1>4, <2>1, PoolAssumption DEF LatchHolder, HolderPCs
  <1>8. CallShape' /\ MissShape'
    <2>1. CallShape'
      BY <1>3, <1>4 DEF IInv, CallShape, HolderPCs
    <2>2. MissShape'
      BY <1>3, <1>4 DEF MissShape, HolderPCs
    <2> QED
      BY <2>1, <2>2
  <1>9. Ascending'
    BY <1>1, <1>3, <1>4 DEF IInv, Ascending
  <1>10. GuardsLatched' /\ WriterAlone'
    BY <1>1, <1>3, <1>4 DEF IInv, GuardsLatched, WriterAlone
  <1>11. p # None /\ \A x \in Frames : Resident(x)' <=> Resident(x) \/ x = f
    BY <1>2, PoolAssumption DEF Resident, Pages
  <1>12. \A x \in Frames : /\ x # f => InUseBy(x, {"load"}) = {}
                           /\ InUseBy(x, {"load"})' = {} /\ InUseBy(x, {"writeback"}) = {}
                           /\ InUseBy(x, {"writeback"})' = {}
    <2>1. op[t].pc = "load" => op[t].frame = f
      BY DEF Fetched
    <2> QED
      BY <1>3, <1>4, <2>1 DEF InUseBy, HolderPCs
  <1>13. FramesConserved'
    <2>1. free_frames' = free_frames
      BY DEF Fetched
    <2>2. \A x \in Frames : IsFree(x)' <=> IsFree(x)
      BY <2>1 DEF IsFree
    <2> QED
      BY <1>11, <1>12, <2>1, <2>2 DEF IInv, FramesConserved
  <1>14. EvictableIffUnpinned'
    <2>1. frames'[f].pin_count # 0
      BY <1>2, Types DEF FrameHeader
    <2> QED
      BY <1>2, <1>5, <1>11, <1>12, <2>1 DEF IInv, EvictableIffUnpinned
  <1>15. PinnersResident'
    <2>1. ASSUME NEW u \in Threads, NEW g \in guards[u]
          PROVE  frames'[g.frame].page_id = g.page
      <3>1. g.frame \in Frames /\ frames[g.frame].page_id = g.page
        BY Types DEF IInv, PinnersResident, Guard
      <3>2. g.frame = f => <<u, g>> \in Pins(f)
        BY UsersPin, Zenon
      <3> QED
        BY <1>2, <3>1, <3>2
    <2>2. ASSUME NEW u \in Threads, u # t, op[u].pc \in {"latch", "unpin"}
          PROVE  frames'[op[u].frame].page_id = frames[op[u].frame].page_id
      <3>1. op[u].frame \in Frames
        BY <2>2 DEF IInv, CallShape
      <3>2. op[u].frame = f => <<u, None>> \in Pins(f)
        BY <2>2, UsersPin, Zenon
      <3> QED
        BY <1>2, <3>1, <3>2
    <2>3. frames'[op'[t].frame].page_id = op'[t].page /\ op'[t].pc = "latch"
      BY <1>2, <1>4
    <2>4. ASSUME NEW u \in Threads, u # t
          PROVE  /\ op'[u].pc = "latch" => frames'[op'[u].frame].page_id = op'[u].page
                 /\ op'[u].pc = "unpin" => frames'[op'[u].frame].page_id # None
      <3>1. op'[u] = op[u]
        BY <1>1, <1>3, <2>4, Zenon
      <3> QED
        BY <2>2, <2>4, <3>1 DEF IInv, PinnersResident
    <2>5. UNCHANGED guards
      BY <1>1, <1>3, Zenon
    <2> QED
      BY <2>1, <2>3, <2>4, <2>5 DEF PinnersResident
  <1>16. PinStep
    <2>1. <<t, None>> \notin Pins(f)
      BY <1>4, Types, PoolAssumption DEF Pins, InUseBy
    <2>2. Pins(f)' = Pins(f) \cup {<<t, None>>}
      BY <1>1, <1>3, <1>4 DEF Pins, InUseBy
    <2>3. \A x \in Frames \ {f} : Pins(x)' = Pins(x)
      BY <1>1, <1>3, <1>4 DEF Pins, InUseBy
    <2> QED
      BY <1>2, <2>1, <2>2, <2>3 DEF PinStep, PinAdded, OtherPinsSame
  <1> QED
    BY <1>6, <1>7, <1>8, <1>9, <1>10, <1>13, <1>14, <1>15, <1>16 DEF IStep

\* A lookup that finds its page pins it.
LEMMA LookupHitStep == ASSUME IInv, NEW t \in Threads, LookupHit(t) PROVE IStep
  <1>1. PICK p \in Pages, f \in Frames :
           /\ p = op[t].page /\ p \in DOMAIN page_table
           /\ f = page_table[p] /\ frames[f].page_id = p
    BY DEF IInv, TypeOK, IsMap, CallShape, PageTableMatchesFrames, LookupHit, At
  <1>2. /\ op[t].pc = "lookup" /\ bpm_latch = None
        /\ frames' = [frames EXCEPT ![f].pin_count = frames[f].pin_count + 1]
        /\ replacer' = PinInReplacer(replacer, f, p)
        /\ ChooseFrame(t, "latch", f) /\ "latch" \in PCs
        /\ UNCHANGED <<next_page_id, bpm_latch, page_table, free_frames, rwlatch, disk, guards>>
    BY <1>1 DEF LookupHit, At, ChooseFrame, PCs
  <1>3. /\ op' \in [Threads -> Call]
        /\ \A u \in Threads : u # t => op'[u] = op[u]
        /\ op'[t].pc = "latch" /\ op'[t].frame = f
        /\ op'[t].page = p /\ op'[t].kind = op[t].kind
    BY <1>1, <1>2, CallUpdate
  <1>4. /\ frames' \in [Frames -> FrameHeader]
        /\ \A x \in Frames : x # f => frames'[x] = frames[x]
        /\ \A x \in Frames : frames'[x].page_id = frames[x].page_id
        /\ frames'[f].pin_count = frames[f].pin_count + 1
    <2>1. frames[f].pin_count + 1 \in Nat
      BY Types DEF FrameHeader
    <2> QED
      BY <1>2, <2>1, Types, PinCountUpdate, Zenon
  <1>5. Fetched(t, f, p)
    <2>1. \A u \in Threads : op[u].pc \notin HolderPCs
      BY <1>2, NoHolder DEF HolderPCs
    <2>2. bpm_latch' = None /\ IsMap(page_table', Pages, Frames) /\ frames'[f].page_id = p
      BY <1>1, <1>2, <1>4, Types, Zenon
    <2> QED
      BY <1>1, <1>2, <1>3, <1>4, <2>1, <2>2, Zenon DEF Fetched
  <1>6. PageTableMatchesFrames'
    BY <1>2, <1>4, Types DEF IInv, PageTableMatchesFrames, Resident, IsMap
  <1>7. ~IsFree(f)
    BY <1>1, PoolAssumption DEF IInv, FramesConserved, Resident, Pages
  <1> QED
    BY <1>1, <1>5, <1>6, <1>7, FetchStep

\* The page arrives in its frame, pinned for the caller.
LEMMA LoadStep == ASSUME IInv, NEW t \in Threads, Load(t) PROVE IStep
  <1>1. PICK f \in Frames, p \in Pages :
          /\ f = op[t].frame /\ p = op[t].page /\ p \notin DOMAIN page_table /\ op[t].pc = "load"
    <2>1. op[t].pc = "load"
      BY DEF Load, At
    <2> QED
      BY <2>1, Zenon DEF IInv, CallShape, MissShape
  <1>2. PICK d \in DiskRead(p) :
          frames' = [frames EXCEPT ![f] = [page_id |-> p, pin_count |-> 1,
                                           is_dirty |-> FALSE, data |-> d]]
    BY <1>1, Zenon DEF Load
  <1>3. /\ page_table' = Put(page_table, p, f)
        /\ replacer' = PinInReplacer(replacer, f, p)
        /\ bpm_latch' = None /\ Goto(t, "latch")
        /\ UNCHANGED <<next_page_id, free_frames, rwlatch, disk, guards>>
    BY <1>1 DEF Load
  <1>4. /\ op' \in [Threads -> Call]
        /\ \A u \in Threads : u # t => op'[u] = op[u]
        /\ op'[t].pc = "latch" /\ op'[t].frame = f /\ op'[t].page = p
        /\ op'[t].kind = op[t].kind
    <2>1. "latch" \in PCs
      BY DEF PCs
    <2> QED
      BY <1>1, <1>3, <2>1, GotoEffect, Zenon
  <1>5. /\ frames' \in [Frames -> FrameHeader]
        /\ \A x \in Frames : x # f => frames'[x] = frames[x]
        /\ frames'[f].page_id = p /\ frames'[f].pin_count = 1
    <2> DEFINE h == [page_id |-> p, pin_count |-> 1, is_dirty |-> FALSE, data |-> d]
    <2>1. d \in Contents
      BY Types DEF DiskRead, Contents
    <2>2. h \in FrameHeader /\ h.page_id = p /\ h.pin_count = 1
      BY <2>1 DEF FrameHeader
    <2>3. frames' = [frames EXCEPT ![f] = h]
      BY <1>2
    <2> HIDE DEF h
    <2> QED
      BY <2>2, <2>3, Types
  <1>6. /\ DOMAIN page_table' = DOMAIN page_table \cup {p}
        /\ page_table'[p] = f
        /\ \A q \in DOMAIN page_table : page_table'[q] = page_table[q]
        /\ IsMap(page_table', Pages, Frames)
    BY <1>1, <1>3, Types DEF Put, IsMap
  <1>7. bpm_latch = t /\ \A u \in Threads : u # t => op[u].pc \notin HolderPCs
    BY <1>1, OneHolder DEF HolderPCs
  <1>8. ~IsFree(f) /\ ~Resident(f)
    BY <1>1 DEF IInv, FramesConserved, InUseBy
  <1>9. Pins(f) = {} /\ frames[f].pin_count = 0
    BY <1>8, NonResidentUnpinned, UnpinnedIsZero
  <1>10. Fetched(t, f, p)
    <2>1. frames'[f].pin_count = frames[f].pin_count + 1
      BY <1>5, <1>9
    <2> QED
      BY <1>1, <1>3, <1>4, <1>5, <1>6, <1>7, <2>1, Zenon DEF Fetched
  <1>11. PageTableMatchesFrames'
    <2>1. ASSUME NEW q \in DOMAIN page_table
          PROVE  page_table[q] \in Frames /\ page_table[q] # f /\ frames[page_table[q]].page_id = q
      BY <1>8, Types, PoolAssumption DEF IInv, PageTableMatchesFrames, Resident, IsMap, Pages
    <2>2. ASSUME NEW q \in DOMAIN page_table' PROVE frames'[page_table'[q]].page_id = q
      BY <1>5, <1>6, <2>1
    <2>3. ASSUME NEW x \in Frames, Resident(x)'
          PROVE  frames'[x].page_id \in DOMAIN page_table' /\ page_table'[frames'[x].page_id] = x
      BY <1>5, <1>6, <2>3 DEF IInv, PageTableMatchesFrames, Resident
    <2> QED
      BY <2>2, <2>3 DEF PageTableMatchesFrames
  <1> QED
    BY <1>8, <1>9, <1>10, <1>11, FetchStep

-----------------------------------------------------------------------------
(* DeletePage.                                                             *)

\* DeletePage of an unpinned or absent page.
LEMMA DeletePageStep ==
  ASSUME IInv, NEW t \in Threads, NEW p \in Pages, DeletePage(t, p)
  PROVE  IStep
  <1>1. /\ bpm_latch = None /\ op[t].pc = "idle"
        /\ disk' = [disk EXCEPT ![p] = Unspecified]
        /\ UNCHANGED <<next_page_id, bpm_latch, rwlatch, guards, op>>
    BY DEF DeletePage, DeallocatePage, Calls, At
  <1>2. disk' \in [Pages -> Contents]
    BY <1>1, Types DEF Contents
  <1>3. \A u \in Threads :
          op[u].pc \notin {"writeback", "load", "flush", "flush_write", "flush_clear"}
    BY <1>1, NoHolder
  <1>4. LatchHolder' /\ CallShape' /\ MissShape'
    <2>1. LatchHolder'
      BY <1>1 DEF IInv, LatchHolder
    <2>2. CallShape'
      BY <1>1, <1>3 DEF IInv, CallShape
    <2>3. MissShape'
      BY <1>1, <1>3 DEF MissShape
    <2> QED
      BY <2>1, <2>2, <2>3
  <1>5. Ascending' /\ GuardsLatched' /\ WriterAlone'
    BY <1>1 DEF IInv, Ascending, GuardsLatched, WriterAlone
  <1>6. CASE UNCHANGED <<pool, frames>>
    <2>1. UNCHANGED <<page_table, free_frames, replacer, frames>>
      BY <1>6 DEF pool
    <2>2. Quiet(t)
      BY <1>1, <1>2, <2>1, Types DEF Quiet, QuietPCs
    <2> QED
      BY <1>1, <1>4, <1>5, <2>2, CallStep DEF CallPCs
  <1>7. CASE /\ p \in DOMAIN page_table
             /\ frames[page_table[p]].pin_count = 0
             /\ replacer' = Forgotten(replacer, page_table[p])
             /\ page_table' = Erase(page_table, p)
             /\ frames' = [frames EXCEPT ![page_table[p]] = ResetFrame]
             /\ free_frames' = Append(free_frames, page_table[p])
    <2>1. PICK f \in Frames : f = page_table[p] /\ frames[f].page_id = p /\ Resident(f)
      BY <1>7, Types, PoolAssumption DEF IInv, PageTableMatchesFrames, IsMap, Resident, Pages
    <2>2. Vacate(f)
      BY <1>7, <2>1 DEF Vacate
    <2>3. /\ IsMap(page_table', Pages, Frames)
          /\ frames' \in [Frames -> FrameHeader]
          /\ \A x \in Frames : x # f => frames'[x] = frames[x]
          /\ frames'[f].page_id = None /\ frames'[f].pin_count = 0
          /\ \A x \in Frames : Resident(x)' <=> Resident(x) /\ x # f
          /\ PageTableMatchesFrames'
      BY <2>1, <2>2, VacateEffect, Zenon
    <2>4. /\ IsReplacer(replacer')
          /\ replacer'.evictable = replacer.evictable \ {f}
          /\ DOMAIN replacer'.tracked = DOMAIN replacer.tracked \ {f}
          /\ \A x \in DOMAIN replacer.tracked : x # f => replacer'.tracked[x] = replacer.tracked[x]
      BY <1>7, <2>1, Types, ForgottenEffect
    <2>5. /\ free_frames' \in Seq(Frames)
          /\ Len(free_frames) \in Nat
          /\ DOMAIN free_frames = 1 .. Len(free_frames)
          /\ DOMAIN free_frames' = 1 .. Len(free_frames) + 1
          /\ \A i \in 1 .. Len(free_frames) : free_frames'[i] = free_frames[i]
          /\ free_frames'[Len(free_frames) + 1] = f
      <3>1. free_frames' = Append(free_frames, f) /\ free_frames \in Seq(Frames)
        BY <1>7, <2>1, Types
      <3> QED
        BY <3>1
    <2>6. TypeOK'
      BY <1>1, <1>2, <2>3, <2>4, <2>5, Types DEF TypeOK
    <2>7. FramesConserved'
      <3>1. ~IsFree(f)
        BY <2>1 DEF IInv, FramesConserved
      <3>2. \A i, j \in DOMAIN free_frames' : free_frames'[i] = free_frames'[j] => i = j
        BY <2>5, <3>1 DEF IInv, FramesConserved, IsFree
      <3>3. \A x \in Frames : IsFree(x)' <=> IsFree(x) \/ x = f
        <4>1. ASSUME NEW x \in Frames, IsFree(x)' PROVE IsFree(x) \/ x = f
          <5>1. PICK i \in DOMAIN free_frames' : free_frames'[i] = x
            BY <4>1 DEF IsFree
          <5>2. CASE i = Len(free_frames) + 1
            BY <2>5, <5>1, <5>2
          <5>3. CASE i \in DOMAIN free_frames
            BY <2>5, <5>1, <5>3 DEF IsFree
          <5> QED
            BY <2>5, <5>1, <5>2, <5>3
        <4>2. ASSUME NEW x \in Frames, IsFree(x) PROVE IsFree(x)'
          <5>1. PICK i \in DOMAIN free_frames : free_frames[i] = x
            BY <4>2 DEF IsFree
          <5>2. i \in DOMAIN free_frames' /\ free_frames'[i] = x
            BY <2>5, <5>1
          <5> QED
            BY <5>2 DEF IsFree
        <4>3. IsFree(f)'
          <5>1. Len(free_frames) + 1 \in DOMAIN free_frames'
            BY <2>5
          <5> QED
            BY <2>5, <5>1 DEF IsFree
        <4> QED
          BY <4>1, <4>2, <4>3
      <3>4. \A x \in Frames : InUseBy(x, {"load"}) = {} /\ InUseBy(x, {"load"})' = {}
        BY <1>1, <1>3 DEF InUseBy
      <3> QED
        BY <2>1, <2>3, <3>2, <3>3, <3>4, Zenon DEF IInv, FramesConserved
    <2>8. EvictableIffUnpinned'
      <3>1. \A x \in Frames : InUseBy(x, {"writeback"}) = {} /\ InUseBy(x, {"writeback"})' = {}
        BY <1>1, <1>3 DEF InUseBy
      <3> QED
        BY <2>1, <2>3, <2>4, <3>1 DEF IInv, EvictableIffUnpinned
    <2>9. PinnersResident' /\ PinStep
      <3>1. Pins(f) = {}
        BY <1>7, <2>1, UnpinnedIsZero
      <3>2. /\ UNCHANGED guards /\ \A u \in Threads : u # t => op'[u] = op[u]
            /\ op[t].pc \notin {"latch", "unpin"} /\ op'[t].pc \notin {"latch", "unpin"}
        BY <1>1
      <3> QED
        BY <2>3, <3>1, <3>2, UnpinnedFrameStep, Zenon
    <2> QED
      BY <1>4, <1>5, <2>3, <2>6, <2>7, <2>8, <2>9, Zenon DEF IStep
  <1> QED
    BY <1>6, <1>7 DEF DeletePage

-----------------------------------------------------------------------------
(* Every step of the buffer pool.                                          *)

\* One case per operation.
LEMMA NextIStep == IInv /\ [Next]_vars => IStep
  <1> SUFFICES ASSUME IInv, [Next]_vars PROVE IStep
    OBVIOUS
  <1>1. CASE UNCHANGED vars
    <2>1. UNCHANGED <<next_page_id, bpm_latch, page_table, free_frames, replacer, frames, rwlatch,
                      disk, guards, op>>
      BY <1>1 DEF vars, pool
    <2>2. \A f \in Frames : Pins(f)' = Pins(f) /\ frames'[f].pin_count = frames[f].pin_count
      BY <2>1 DEF Pins, InUseBy
    <2>3. PinStep
      BY <2>2 DEF PinStep, PinsSame
    <2>4. TypeOK' /\ LatchHolder'
      BY <2>1 DEF IInv, TypeOK, LatchHolder
    <2>5. CallShape' /\ MissShape'
      BY <2>1 DEF IInv, CallShape, MissShape
    <2>6. PageTableMatchesFrames' /\ FramesConserved'
      BY <2>1 DEF IInv, PageTableMatchesFrames, FramesConserved, Resident, InUseBy, IsFree
    <2>9. EvictableIffUnpinned'
      BY <2>1 DEF IInv, EvictableIffUnpinned, Resident, InUseBy
    <2>7. PinnersResident' /\ Ascending'
      BY <2>1 DEF IInv, PinnersResident, Ascending
    <2>8. GuardsLatched' /\ WriterAlone'
      BY <2>1 DEF IInv, GuardsLatched, WriterAlone
    <2> QED
      BY <2>3, <2>4, <2>5, <2>6, <2>7, <2>8, <2>9 DEF IStep
  <1>2. ASSUME NEW t \in Threads, Step(t) PROVE IStep
    <2>1. CASE NewPage(t)
      BY <2>1, NewPageStep
    <2>2. ASSUME NEW p \in Pages, NEW k \in {"R", "W"}, CallCheckedPage(t, p, k) PROVE IStep
      BY <2>2, CallCheckedPageStep
    <2>3. CASE LookupHit(t) \/ LookupFree(t) \/ LookupEvict(t) \/ LookupNullopt(t)
      BY <2>3, LookupHitStep, LookupFreeStep, LookupEvictStep, LookupNulloptStep
    <2>4. CASE LatchPage(t)
      BY <2>4, LatchPageStep
    <2>5. ASSUME NEW g \in guards[t], GetDataMut(t, g) \/ GuardFlush(t, g) \/ Drop(t, g) PROVE IStep
      BY <2>5, GetDataMutStep, GuardFlushStep, DropStep
    <2>6. CASE Store(t) \/ GuardFlushClear(t) \/ Unpin(t)
      BY <2>6, StoreStep, GuardFlushClearStep, UnpinStep
    <2>7. ASSUME NEW p \in Pages, DeletePage(t, p) PROVE IStep
      BY <2>7, DeletePageStep
    <2>8. ASSUME NEW m \in FlushModes, FlushPage(t, m) \/ FlushAllPages(t, m) PROVE IStep
      <3>1. PICK ps \in SUBSET DOMAIN page_table : CallFlush(t, ps, m)
        BY <2>8, Zenon DEF FlushPage, FlushAllPages
      <3>2. ps \in SUBSET Pages /\ m \in {"safe", "unsafe"}
        BY Types, PoolAssumption DEF IsMap
      <3> QED
        BY <3>1, <3>2, CallFlushStep
    <2>9. CASE LatchHolderStep(t)
      BY <2>9, WriteBackStep, LoadStep, FlushStartStep, FlushWriteStep, FlushClearStep, FlushReturnStep
      DEF LatchHolderStep
    <2> QED
      BY <1>2, <2>1, <2>2, <2>3, <2>4, <2>5, <2>6, <2>7, <2>8, <2>9, Zenon DEF Step
  <1> QED
    BY <1>1, <1>2 DEF Next

=============================================================================
