-------------------------- MODULE BufferPoolProofs --------------------------
(***************************************************************************)
(* What is proved about the buffer pool, for any number of threads, frames *)
(* and pages.                                                              *)
(***************************************************************************)
EXTENDS BufferPoolFetchProofs, BufferPoolContents, FiniteSetTheorems

\* The provers' time limit, which includes the time tlapm needs on a long module.
USE SMTT(60)
USE FieldUpdate

\* A frame has finitely many users at a time.
PinsFinite == \A f \in Frames : IsFiniteSet(Pins(f))

PoolInv == IInv /\ PinsFinite /\ PinCountExact

-----------------------------------------------------------------------------
(* The initial state.                                                      *)

\* The pool starts in a state that satisfies the invariant.
LEMMA InitPoolInv == Init => PoolInv
  <1> SUFFICES ASSUME Init PROVE PoolInv
    OBVIOUS
  <1> USE PoolAssumption DEF Init
  <1>1. IsMap(EmptyMap, Pages, Frames) /\ IsMap(EmptyMap, Frames, Pages)
    BY DEF EmptyMap, IsMap
  <1>2. free_frames \in Seq(Frames)
    <2>1. Cardinality(Frames) \in Nat
      BY FS_CardinalityType
    <2>2. free_frames \in [1 .. Cardinality(Frames) -> Frames]
      OBVIOUS
    <2> HIDE DEF Init
    <2> QED
      BY <2>1, <2>2
  <1>3. TypeOK
    <2>1. ResetFrame \in FrameHeader
      BY DEF ResetFrame, FrameHeader, Contents
    <2>2. Unlocked \in RWLatch /\ Idle \in Call
      BY DEF Unlocked, RWLatch, Idle, Call, PCs
    <2>3. IsReplacer(EmptyReplacer)
      BY <1>1 DEF IsReplacer, EmptyReplacer
    <2> QED
      BY <1>1, <1>2, <2>1, <2>2, <2>3 DEF TypeOK, Contents
  <1>4. \A f \in Frames : Pins(f) = {} /\ ~Resident(f) /\ InUseBy(f, {"load"}) = {}
    BY DEF Pins, InUseBy, Resident, ResetFrame, Idle
  <1>5. LatchHolder /\ CallShape /\ MissShape /\ PinnersResident /\ Ascending
    BY DEF LatchHolder, HolderPCs, CallShape, MissShape, PinnersResident, Ascending, Idle
  <1>6. PageTableMatchesFrames
    BY <1>4 DEF PageTableMatchesFrames, EmptyMap
  <1>7. FramesConserved
    BY <1>4 DEF FramesConserved, IsFree
  <1>8. EvictableIffUnpinned
    BY <1>4 DEF EvictableIffUnpinned, EmptyReplacer, EmptyMap
  <1>9. PinnedIffPositive /\ PinsFinite /\ PinCountExact
    <2>1. \A f \in Frames : frames[f].pin_count = 0
      BY DEF ResetFrame
    <2> HIDE DEF Init
    <2>2. PinnedIffPositive
      BY <1>4, <2>1 DEF PinnedIffPositive
    <2>3. PinsFinite /\ PinCountExact
      BY <1>4, <2>1, FS_EmptySet, Zenon DEF PinsFinite, PinCountExact
    <2> QED
      BY <2>2, <2>3
  <1>10. GuardsLatched /\ WriterAlone
    BY DEF GuardsLatched, WriterAlone, Unlocked
  <1> HIDE PoolAssumption DEF Init
  <1> QED
    BY <1>3, <1>5, <1>6, <1>7, <1>8, <1>9, <1>10, Zenon DEF PoolInv, IInv

-----------------------------------------------------------------------------
(* Counting pins.                                                          *)

\* Pin counts stay exact when one user of frame f is added, ...
LEMMA AddedCounts ==
  ASSUME PinsFinite, PinCountExact, NEW f \in Frames, NEW a, PinAdded(f, a)
  PROVE  PinsFinite' /\ PinCountExact'
  <1>1. IsFiniteSet(Pins(f)') /\ Cardinality(Pins(f)') = Cardinality(Pins(f)) + 1
    BY FS_AddElement DEF PinAdded, PinsFinite
  <1> QED
    BY <1>1, Zenon DEF PinAdded, OtherPinsSame, PinsFinite, PinCountExact

\* ... when one is removed, ...
LEMMA RemovedCounts ==
  ASSUME PinsFinite, PinCountExact, NEW f \in Frames, NEW a, PinRemoved(f, a)
  PROVE  PinsFinite' /\ PinCountExact'
  <1>1. IsFiniteSet(Pins(f)') /\ Cardinality(Pins(f)') = Cardinality(Pins(f)) - 1
    BY FS_RemoveElement DEF PinRemoved, PinsFinite
  <1> QED
    BY <1>1, Zenon DEF PinRemoved, OtherPinsSame, PinsFinite, PinCountExact

\* ... and when one takes the place of another.
LEMMA MovedCounts ==
  ASSUME PinsFinite, PinCountExact, NEW f \in Frames, NEW a, NEW b, PinMoved(f, a, b)
  PROVE  PinsFinite' /\ PinCountExact'
  <1> DEFINE S == Pins(f) \ {a}
  <1>1. /\ IsFiniteSet(Pins(f)) /\ Cardinality(Pins(f)) \in Nat /\ a \in Pins(f) /\ b \notin S
        /\ Pins(f)' = S \cup {b}
    BY FS_CardinalityType DEF PinsFinite, PinMoved
  <1>2. IsFiniteSet(S) /\ Cardinality(S) = Cardinality(Pins(f)) - 1
    BY <1>1, FS_RemoveElement
  <1>3. IsFiniteSet(S \cup {b}) /\ Cardinality(S \cup {b}) = Cardinality(S) + 1
    BY <1>1, <1>2, FS_AddElement, Zenon
  <1>4. IsFiniteSet(Pins(f)') /\ Cardinality(Pins(f)') = Cardinality(Pins(f))
    BY <1>1, <1>2, <1>3
  <1> QED
    BY <1>4, Zenon DEF PinMoved, OtherPinsSame, PinsFinite, PinCountExact

\* So every step keeps them exact.
LEMMA PinStepCounts ==
  ASSUME PinsFinite, PinCountExact, PinStep
  PROVE  PinsFinite' /\ PinCountExact' /\ PinnedIffPositive'
  <1>1. ASSUME PinsSame PROVE PinsFinite' /\ PinCountExact'
    <2>1. ASSUME NEW f \in Frames
          PROVE  IsFiniteSet(Pins(f)') /\ frames'[f].pin_count = Cardinality(Pins(f)')
      <3>1. Pins(f)' = Pins(f) /\ frames'[f].pin_count = frames[f].pin_count
        BY <1>1, Zenon DEF PinsSame
      <3> QED
        BY <3>1 DEF PinsFinite, PinCountExact
    <2> QED
      BY <2>1, Zenon DEF PinsFinite, PinCountExact
  <1>2. ASSUME NEW f \in Frames, NEW a, NEW b, PinAdded(f, a) \/ PinRemoved(f, a) \/ PinMoved(f, a, b)
        PROVE  PinsFinite' /\ PinCountExact'
    BY <1>2, AddedCounts, RemovedCounts, MovedCounts
  <1>3. PinsFinite' /\ PinCountExact'
    BY <1>1, <1>2, Zenon DEF PinStep
  <1>4. PinnedIffPositive'
    <2> SUFFICES ASSUME NEW f \in Frames PROVE Pins(f)' = {} <=> frames'[f].pin_count = 0
      BY DEF PinnedIffPositive
    <2>1. IsFiniteSet(Pins(f)') /\ frames'[f].pin_count = Cardinality(Pins(f)')
      BY <1>3 DEF PinsFinite, PinCountExact
    <2> QED
      BY <2>1, FS_EmptySet
  <1> QED
    BY <1>3, <1>4

-----------------------------------------------------------------------------
(* The theorems.                                                           *)

\* The inductive invariant holds in every reachable state.
THEOREM PoolInvariant == Spec => []PoolInv
  <1>1. PoolInv /\ [Next]_vars => PoolInv'
    BY NextIStep, PinStepCounts DEF PoolInv, IInv, IStep
  <1> QED
    BY <1>1, InitPoolInv, PTL DEF Spec

\* The state keeps its shape; in particular no pin count becomes negative.
THEOREM PoolTypeOK == Spec => []TypeOK
  <1>1. PoolInv => TypeOK
    BY DEF PoolInv, IInv
  <1> QED
    BY <1>1, PoolInvariant, PTL

\* page_table_ and the frame headers stay inverse to each other across hits,
\* evictions with and without a (failing) write-back, loads and deletions.
THEOREM PoolPageTableMatchesFrames == Spec => []PageTableMatchesFrames
  <1>1. PoolInv => PageTableMatchesFrames
    BY DEF PoolInv, IInv
  <1> QED
    BY <1>1, PoolInvariant, PTL

\* No frame is lost, and none is both free and in use.
THEOREM PoolFramesConserved == Spec => []FramesConserved
  <1>1. PoolInv => FramesConserved
    BY DEF PoolInv, IInv
  <1> QED
    BY <1>1, PoolInvariant, PTL

\* The replacer's view of what may be evicted never goes stale.
THEOREM PoolEvictableIffUnpinned == Spec => []EvictableIffUnpinned
  <1>1. PoolInv => EvictableIffUnpinned
    BY DEF PoolInv, IInv
  <1> QED
    BY <1>1, PoolInvariant, PTL

\* pin_count_ counts the users of a frame exactly, whatever the interleaving
\* of guard constructors, drops and lookups.
THEOREM PoolPinCountExact == Spec => []PinCountExact
  <1>1. PoolInv => PinCountExact
    BY DEF PoolInv, IInv
  <1> QED
    BY <1>1, PoolInvariant, PTL

\* A guard's frame is not given to another page under it.
THEOREM PoolGuardProtectsPage == Spec => []GuardProtectsPage
  <1>1. PoolInv => GuardProtectsPage
    BY DEF PoolInv, IInv, PinnersResident, GuardsLatched, GuardProtectsPage
  <1> QED
    BY <1>1, PoolInvariant, PTL

\* A WritePageGuard excludes every other guard on its page.
THEOREM PoolGuardExclusion == Spec => []GuardExclusion
  <1>1. PoolInv => GuardExclusion
    <2> SUFFICES ASSUME IInv, NEW t \in Threads, NEW u \in Threads,
                        NEW g \in guards[t], NEW h \in guards[u],
                        g.page = h.page, g.kind = "W"
                 PROVE  t = u /\ g = h
      BY DEF GuardExclusion, PoolInv
    <2>1. /\ g.frame \in Frames /\ h.frame \in Frames /\ g.page \in Pages
          /\ h.kind \in {"R", "W"}
      BY Types DEF Guard
    <2>2. frames[g.frame].page_id = g.page /\ frames[h.frame].page_id = g.page
      BY DEF IInv, PinnersResident
    <2>3. g.frame = h.frame
      BY <2>1, <2>2, PagesDistinct, PoolAssumption DEF Resident, Pages
    <2>4. rwlatch[g.frame].writer = t /\ rwlatch[g.frame].readers = {}
      BY <2>1, PoolAssumption DEF IInv, GuardsLatched, WriterAlone
    <2>5. t = u
      BY <2>1, <2>3, <2>4 DEF IInv, GuardsLatched
    <2> QED
      BY <2>5 DEF IInv, Ascending
  <1> QED
    BY <1>1, PoolInvariant, PTL

\* std::nullopt means that no frame could have been used.
THEOREM PoolNulloptOnlyWhenAllPinned == Spec => NulloptOnlyWhenAllPinned
  <1>1. PoolInv /\ [Next]_vars =>
          [\A t \in Threads : At(t, "lookup") /\ op'[t] = Idle
                                => \A f \in Frames : frames[f].pin_count > 0]_vars
    BY LookupEnds, NulloptMeansPinned DEF Next, PoolInv
  <1> QED
    BY <1>1, PoolInvariant, PTL DEF Spec, NulloptOnlyWhenAllPinned

-----------------------------------------------------------------------------
(* The pages' contents, while the disk manager does what it is asked and   *)
(* the clients use the flushes that take the page latch.                   *)

\* The contents' invariant holds in every reachable state.
LEMMA ContentInvariant ==
  ASSUME DiskFaults = {}, "unsafe" \notin FlushModes
  PROVE  Spec => []ContentInv
  <1>1. PoolInv /\ ContentInv /\ [Next]_vars => ContentInv'
    BY NextContent DEF PoolInv, ContentStep
  <1>2. Init => ContentInv
    BY InitContent
  <1> QED
    BY <1>1, <1>2, PoolInvariant, PTL DEF Spec

\* A frame whose dirty flag is clear can be dropped: the disk has its data,
\* whatever the interleaving of stores, flushes and evictions.
THEOREM PoolCleanMatchesDisk ==
  ASSUME DiskFaults = {}, "unsafe" \notin FlushModes
  PROVE  Spec => []CleanMatchesDisk
  <1>1. ContentInv => CleanMatchesDisk
    BY DEF ContentInv
  <1> QED
    BY <1>1, ContentInvariant, PTL

\* Caching is invisible: to its clients the pool is a store of guarded pages,
\* whatever it evicts, writes back, flushes or deletes.
THEOREM PoolImplementsPageStore ==
  ASSUME DiskFaults = {}, "unsafe" \notin FlushModes
  PROVE  Spec => ImplementsPageStore
  <1>1. PoolInv /\ ContentInv /\ [Next]_vars => [PS!Next]_(PS!vars)
    <2> SUFFICES ASSUME PoolInv, ContentInv, [Next]_vars PROVE PS!Next \/ UNCHANGED PS!vars
      OBVIOUS
    <2>1. Unseen \/ PS!Next
      BY NextContent DEF PoolInv, ContentStep
    <2>2. Unseen => UNCHANGED PS!vars
      BY DEF Unseen, PS!vars
    <2> QED
      BY <2>1, <2>2
  <1>2. Init => PS!Init
    BY InitContent
  <1> QED
    BY <1>1, <1>2, PoolInvariant, ContentInvariant, PTL DEF Spec, ImplementsPageStore, PS!Spec

=============================================================================
