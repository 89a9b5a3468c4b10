------------------------- MODULE BufferPoolContents -------------------------
(***************************************************************************)
(* What the buffer pool keeps of the pages' contents: the disk has what a  *)
(* clean frame holds, and caching, eviction and write-back are invisible   *)
(* to the clients.  Both hold while the disk manager does what it is asked *)
(* and the clients use the flushes that take the page latch.               *)
(***************************************************************************)
EXTENDS BufferPoolInvariant

\* The provers' time limit, which includes the time tlapm needs on a long module.
USE SMTT(60)
USE FieldUpdate

-----------------------------------------------------------------------------
(* The inductive invariant.                                                *)

\* A flush that takes the page latch holds it while it writes and clears.
FlushLatched(t) ==
    /\ op[t].pc \in {"flush", "flush_write", "flush_clear"} => op[t].kind = "safe"
    /\ op[t].pc \in {"flush_write", "flush_clear"} => t \in rwlatch[op[t].frame].readers

\* A client stores through a write guard, after GetDataMut marked the frame.
StoreMarked(t) ==
    op[t].pc = "store" =>
       /\ frames[op[t].frame].is_dirty
       /\ \E g \in guards[t] : g.frame = op[t].frame /\ g.kind = "W"

\* When a flush is about to clear the dirty flag, what it wrote is current.
WrittenCurrent(t) ==
    op[t].pc \in {"gclear", "flush_clear"}
       => frames[op[t].frame].data = disk[frames[op[t].frame].page_id]

ThreadInv(t) == FlushLatched(t) /\ StoreMarked(t) /\ WrittenCurrent(t)

ContentInv ==
    /\ CleanMatchesDisk
    /\ \A t \in Threads : ThreadInv(t)

\* The pages' contents are the same to a reader, and so are the guards.
Unseen == Content' = Content /\ Held' = Held

-----------------------------------------------------------------------------
(* The frames that calls use.                                              *)

UserPCs == {"store", "gclear", "flush_write", "flush_clear"}

\* A call that stores to a frame, or flushes it, finds a page there; through a
\* guard it also has it pinned.
LEMMA UserFrames ==
  ASSUME IInv, NEW u \in Threads
  PROVE  /\ op[u].pc \in UserPCs => op[u].frame \in Frames /\ Resident(op[u].frame)
         /\ op[u].pc \in {"store", "gclear"} => frames[op[u].frame].pin_count # 0
  <1>1. ASSUME op[u].pc \in {"store", "gclear"}
        PROVE  /\ op[u].frame \in Frames /\ Resident(op[u].frame)
               /\ frames[op[u].frame].pin_count # 0
    <2>1. PICK g \in guards[u] : g.frame = op[u].frame
      BY <1>1 DEF IInv, Ascending
    <2>2. g \in Guard /\ g.page \in Pages /\ g.frame \in Frames
      BY Types DEF Guard
    <2>3. frames[g.frame].page_id = g.page
      BY DEF IInv, PinnersResident
    <2>4. <<u, g>> \in Pins(g.frame)
      BY <2>2, UsersPin, Zenon
    <2>5. frames[g.frame].pin_count # 0
      BY <2>2, <2>4, UnpinnedIsZero
    <2> QED
      BY <2>1, <2>2, <2>3, <2>5, PoolAssumption DEF Resident, Pages
  <1>2. ASSUME op[u].pc \in {"flush_write", "flush_clear"}
        PROVE  op[u].frame \in Frames /\ Resident(op[u].frame)
    <2>1. op[u].page \in DOMAIN page_table /\ op[u].frame = page_table[op[u].page]
      BY <1>2 DEF IInv, CallShape
    <2>2. op[u].page \in Pages /\ op[u].frame \in Frames
      BY <2>1, Types DEF IsMap
    <2> QED
      BY <2>1, <2>2, PoolAssumption DEF IInv, PageTableMatchesFrames, Resident, Pages
  <1> QED
    BY <1>1, <1>2 DEF UserPCs

\* Nobody reads under a client that stores.
LEMMA StoreExclusive ==
  ASSUME IInv, ContentInv, NEW u \in Threads, op[u].pc = "store"
  PROVE  rwlatch[op[u].frame].writer = u /\ rwlatch[op[u].frame].readers = {}
  <1>1. PICK g \in guards[u] : g.frame = op[u].frame /\ g.kind = "W"
    BY DEF ContentInv, ThreadInv, StoreMarked
  <1>2. g.frame \in Frames /\ rwlatch[g.frame].writer = u
    BY <1>1, Types DEF Guard, IInv, GuardsLatched
  <1> QED
    BY <1>1, <1>2, PoolAssumption DEF IInv, WriterAlone

\* So a client that holds a page latch, and is not storing itself, has its
\* frame's data and dirty flag to itself and to other readers.
LEMMA NoStoreUnder ==
  ASSUME IInv, ContentInv, NEW t \in Threads, op[t].pc # "store", NEW f \in Frames,
         \/ t \in rwlatch[f].readers
         \/ \E g \in guards[t] : g.frame = f,
         NEW u \in Threads, op[u].pc = "store"
  PROVE  op[u].frame # f
  <1>1. rwlatch[op[u].frame].writer = u /\ rwlatch[op[u].frame].readers = {}
    BY StoreExclusive
  <1>2. CASE \E g \in guards[t] : g.frame = f
    <2>1. PICK g \in guards[t] : g.frame = f
      BY <1>2
    <2>2. rwlatch[f].writer = t \/ t \in rwlatch[f].readers
      BY <2>1 DEF IInv, GuardsLatched
    <2> QED
      BY <1>1, <2>2
  <1> QED
    BY <1>1, <1>2

\* Two frames do not hold the same page.
LEMMA PagesDistinct ==
  ASSUME IInv, NEW x \in Frames, NEW y \in Frames, Resident(x),
         frames[x].page_id = frames[y].page_id
  PROVE  x = y
  BY DEF IInv, PageTableMatchesFrames, Resident

-----------------------------------------------------------------------------
(* Six kinds of step.                                                      *)

\* What a step of thread t leaves to the others.
OthersKeep(t) ==
    \A u \in Threads : u # t =>
       /\ op'[u] = op[u] /\ guards'[u] = guards[u]
       /\ \A x \in Frames : u \in rwlatch[x].readers => u \in rwlatch'[x].readers

\* The others' part of the invariant lasts while no frame that is stored to is
\* cleaned, and what a flush wrote stays current.
LEMMA OtherThread ==
  ASSUME IInv, ContentInv, NEW t \in Threads, OthersKeep(t), NEW u \in Threads, u # t,
         op[u].pc = "store" => frames'[op[u].frame].is_dirty,
         op[u].pc \in {"gclear", "flush_clear"}
            => frames'[op[u].frame].data = disk'[frames'[op[u].frame].page_id]
  PROVE  ThreadInv(u)'
  <1>1. /\ op'[u] = op[u] /\ guards'[u] = guards[u]
        /\ \A x \in Frames : u \in rwlatch[x].readers => u \in rwlatch'[x].readers
    BY DEF OthersKeep
  <1>2. FlushLatched(u) /\ StoreMarked(u)
    BY DEF ContentInv, ThreadInv
  <1>3. op[u].pc \in {"flush_write", "flush_clear"} => op[u].frame \in Frames
    BY UserFrames DEF UserPCs
  <1>4. FlushLatched(u)'
    BY <1>1, <1>2, <1>3 DEF FlushLatched
  <1>5. StoreMarked(u)'
    BY <1>1, <1>2 DEF StoreMarked
  <1>6. WrittenCurrent(u)'
    BY <1>1 DEF WrittenCurrent
  <1> QED
    BY <1>4, <1>5, <1>6 DEF ThreadInv

\* A step that changes neither the pages in the frames nor the disk, and
\* cleans no frame.
LEMMA StableStep ==
  ASSUME IInv, ContentInv, NEW t \in Threads, OthersKeep(t), ThreadInv(t)',
         UNCHANGED <<page_table, disk>>,
         \A x \in Frames : /\ frames'[x].page_id = frames[x].page_id
                           /\ frames'[x].data = frames[x].data
                           /\ frames[x].is_dirty => frames'[x].is_dirty
  PROVE  ContentInv' /\ Content' = Content
  <1>1. CleanMatchesDisk'
    BY DEF ContentInv, CleanMatchesDisk, Resident
  <1>2. ASSUME NEW u \in Threads, u # t PROVE ThreadInv(u)'
    <2>1. op[u].pc \in UserPCs => op[u].frame \in Frames
      BY UserFrames
    <2>2. StoreMarked(u) /\ WrittenCurrent(u)
      BY DEF ContentInv, ThreadInv
    <2>3. op[u].pc = "store" => frames'[op[u].frame].is_dirty
      BY <2>1, <2>2 DEF StoreMarked, UserPCs
    <2>4. op[u].pc \in {"gclear", "flush_clear"}
            => frames'[op[u].frame].data = disk'[frames'[op[u].frame].page_id]
      BY <2>1, <2>2 DEF WrittenCurrent, UserPCs
    <2> QED
      BY <1>2, <2>3, <2>4, OtherThread, Zenon
  <1>3. Content' = Content
    BY Types DEF Content, IsMap
  <1> QED
    BY <1>1, <1>2, <1>3 DEF ContentInv

\* A step that empties or fills a frame nobody uses.
LEMMA MoveStep ==
  ASSUME IInv, ContentInv, NEW t \in Threads, op'[t].pc \notin UserPCs \cup {"flush"},
         \A u \in Threads : u # t => op'[u] = op[u] /\ op[u].pc \notin {"flush_write", "flush_clear"},
         UNCHANGED <<rwlatch, guards>>,
         NEW f \in Frames, frames[f].pin_count = 0,
         \A x \in Frames : x # f => frames'[x] = frames[x],
         Resident(f)' => frames'[f].data = disk'[frames'[f].page_id],
         \A x \in Frames : x # f /\ Resident(x)
                             => disk'[frames[x].page_id] = disk[frames[x].page_id]
  PROVE  ContentInv'
  <1>1. CleanMatchesDisk'
    BY DEF ContentInv, CleanMatchesDisk, Resident
  <1>2. ThreadInv(t)'
    BY DEF ThreadInv, FlushLatched, StoreMarked, WrittenCurrent, UserPCs
  <1>3. ASSUME NEW u \in Threads, u # t PROVE ThreadInv(u)'
    <2>1. OthersKeep(t) /\ op[u].pc \notin {"flush_write", "flush_clear"}
      BY <1>3 DEF OthersKeep
    <2>2. op[u].pc \in {"store", "gclear"}
            => op[u].frame \in Frames /\ op[u].frame # f /\ Resident(op[u].frame)
      BY UserFrames DEF UserPCs
    <2>3. StoreMarked(u) /\ WrittenCurrent(u)
      BY DEF ContentInv, ThreadInv
    <2>4. op[u].pc = "store" => frames'[op[u].frame].is_dirty
      BY <2>2, <2>3 DEF StoreMarked
    <2>5. op[u].pc \in {"gclear", "flush_clear"}
            => frames'[op[u].frame].data = disk'[frames'[op[u].frame].page_id]
      BY <2>1, <2>2, <2>3 DEF WrittenCurrent
    <2> QED
      BY <1>3, <2>1, <2>4, <2>5, OtherThread, Zenon
  <1> QED
    BY <1>1, <1>2, <1>3 DEF ContentInv

\* A step that changes what the disk has of pages that are not cached.
LEMMA DiskStep ==
  ASSUME IInv, ContentInv, UNCHANGED <<frames, rwlatch, guards, op>>,
         \A x \in Frames : Resident(x) => disk'[frames[x].page_id] = disk[frames[x].page_id]
  PROVE  ContentInv'
  <1>1. CleanMatchesDisk'
    BY DEF ContentInv, CleanMatchesDisk, Resident
  <1>2. ASSUME NEW u \in Threads PROVE ThreadInv(u)'
    <2>1. op[u].pc \in UserPCs => op[u].frame \in Frames /\ Resident(op[u].frame)
      BY UserFrames
    <2>2. FlushLatched(u)' /\ StoreMarked(u)'
      BY DEF ContentInv, ThreadInv, FlushLatched, StoreMarked
    <2>3. WrittenCurrent(u)'
      BY <2>1 DEF ContentInv, ThreadInv, WrittenCurrent, UserPCs
    <2> QED
      BY <2>2, <2>3 DEF ThreadInv
  <1> QED
    BY <1>1, <1>2 DEF ContentInv

\* A step that writes a resident page's data to disk.
LEMMA SaveStep ==
  ASSUME IInv, ContentInv, NEW t \in Threads, OthersKeep(t), ThreadInv(t)',
         UNCHANGED <<page_table, frames>>,
         NEW f \in Frames, Resident(f),
         disk' = [disk EXCEPT ![frames[f].page_id] = frames[f].data]
  PROVE  ContentInv' /\ Content' = Content
  <1> DEFINE p == frames[f].page_id
  <1>1. p \in Pages /\ p \in DOMAIN page_table /\ page_table[p] = f
    BY Types DEF FrameHeader, Resident, IInv, PageTableMatchesFrames
  <1>2. disk'[p] = frames[f].data /\ \A q \in Pages : q # p => disk'[q] = disk[q]
    BY <1>1, Types
  <1>3. \A x \in Frames : Resident(x) =>
           \/ disk'[frames[x].page_id] = frames[x].data
           \/ disk'[frames[x].page_id] = disk[frames[x].page_id]
    <2> SUFFICES ASSUME NEW x \in Frames, Resident(x), x # f
                 PROVE  disk'[frames[x].page_id] = disk[frames[x].page_id]
      BY <1>2
    <2>1. frames[x].page_id # p
      BY PagesDistinct
    <2>2. frames[x].page_id \in Pages
      BY Types DEF FrameHeader, Resident
    <2> QED
      BY <1>2, <2>1, <2>2
  <1>4. CleanMatchesDisk'
    BY <1>3 DEF ContentInv, CleanMatchesDisk, Resident
  <1>5. ASSUME NEW u \in Threads, u # t PROVE ThreadInv(u)'
    <2>1. op[u].pc \in UserPCs => op[u].frame \in Frames /\ Resident(op[u].frame)
      BY UserFrames
    <2>2. StoreMarked(u) /\ WrittenCurrent(u)
      BY DEF ContentInv, ThreadInv
    <2>3. op[u].pc = "store" => frames'[op[u].frame].is_dirty
      BY <2>2 DEF StoreMarked
    <2>4. op[u].pc \in {"gclear", "flush_clear"}
            => frames'[op[u].frame].data = disk'[frames'[op[u].frame].page_id]
      BY <1>3, <2>1, <2>2 DEF WrittenCurrent, UserPCs
    <2> QED
      BY <1>5, <2>3, <2>4, OtherThread, Zenon
  <1>6. Content' = Content
    <2>1. \A q \in Pages : q \notin DOMAIN page_table => disk'[q] = disk[q]
      BY <1>1, <1>2
    <2> QED
      BY <2>1 DEF Content
  <1> QED
    BY <1>4, <1>5, <1>6 DEF ContentInv

\* A step that clears the dirty flag of frame f after such a write.
LEMMA ClearStep ==
  ASSUME IInv, ContentInv, NEW t \in Threads, OthersKeep(t), ThreadInv(t)',
         UNCHANGED <<page_table, disk>>,
         NEW f \in Frames, f = op[t].frame, op[t].pc \in {"gclear", "flush_clear"},
         \A x \in Frames : /\ frames'[x].page_id = frames[x].page_id
                           /\ frames'[x].data = frames[x].data,
         \A x \in Frames : x # f => frames'[x] = frames[x]
  PROVE  ContentInv' /\ Content' = Content
  <1>1. frames[f].data = disk[frames[f].page_id]
    BY DEF ContentInv, ThreadInv, WrittenCurrent
  <1>2. \/ t \in rwlatch[f].readers
        \/ \E g \in guards[t] : g.frame = f
    BY DEF ContentInv, ThreadInv, FlushLatched, IInv, Ascending
  <1>3. CleanMatchesDisk'
    BY <1>1 DEF ContentInv, CleanMatchesDisk, Resident
  <1>4. ASSUME NEW u \in Threads, u # t PROVE ThreadInv(u)'
    <2>1. op[u].pc \in UserPCs => op[u].frame \in Frames
      BY UserFrames
    <2>2. op[u].pc = "store" => op[u].frame # f
      BY <1>2, NoStoreUnder
    <2>3. StoreMarked(u) /\ WrittenCurrent(u)
      BY DEF ContentInv, ThreadInv
    <2>4. op[u].pc = "store" => frames'[op[u].frame].is_dirty
      BY <2>1, <2>2, <2>3 DEF StoreMarked, UserPCs
    <2>5. op[u].pc \in {"gclear", "flush_clear"}
            => frames'[op[u].frame].data = disk'[frames'[op[u].frame].page_id]
      BY <2>1, <2>3 DEF WrittenCurrent, UserPCs
    <2> QED
      BY <1>4, <2>4, <2>5, OtherThread, Zenon
  <1>5. Content' = Content
    BY Types DEF Content, IsMap
  <1> QED
    BY <1>3, <1>4, <1>5 DEF ContentInv

\* A step that stores to the frame f of a write guard.
LEMMA WriteStep ==
  ASSUME IInv, ContentInv, NEW t \in Threads, OthersKeep(t), ThreadInv(t)',
         UNCHANGED <<page_table, disk>>,
         NEW f \in Frames, f = op[t].frame, op[t].pc = "store",
         \A x \in Frames : /\ frames'[x].page_id = frames[x].page_id
                           /\ frames'[x].is_dirty = frames[x].is_dirty,
         \A x \in Frames : x # f => frames'[x] = frames[x]
  PROVE  /\ ContentInv'
         /\ Content' = [Content EXCEPT ![frames[f].page_id] = frames'[f].data]
  <1>1. frames[f].is_dirty
    BY DEF ContentInv, ThreadInv, StoreMarked
  <1>2. CleanMatchesDisk'
    BY <1>1 DEF ContentInv, CleanMatchesDisk, Resident
  <1>3. ASSUME NEW u \in Threads, u # t PROVE ThreadInv(u)'
    <2>1. StoreMarked(u) /\ WrittenCurrent(u)
      BY DEF ContentInv, ThreadInv
    <2>2. op[u].pc \in UserPCs => op[u].frame \in Frames
      BY UserFrames
    <2>3. ASSUME op[u].pc \in {"gclear", "flush_clear"} PROVE op[u].frame # f
      <3>1. \/ u \in rwlatch[op[u].frame].readers
            \/ \E g \in guards[u] : g.frame = op[u].frame
        BY <2>3 DEF ContentInv, ThreadInv, FlushLatched, IInv, Ascending
      <3> QED
        BY <2>2, <2>3, <3>1, NoStoreUnder DEF UserPCs
    <2>4. op[u].pc = "store" => frames'[op[u].frame].is_dirty
      BY <2>1, <2>2 DEF StoreMarked, UserPCs
    <2>5. op[u].pc \in {"gclear", "flush_clear"}
            => frames'[op[u].frame].data = disk'[frames'[op[u].frame].page_id]
      BY <2>1, <2>2, <2>3 DEF WrittenCurrent, UserPCs
    <2> QED
      BY <1>3, <2>4, <2>5, OtherThread, Zenon
  <1>4. Content' = [Content EXCEPT ![frames[f].page_id] = frames'[f].data]
    <2> DEFINE p == frames[f].page_id
    <2>1. p \in DOMAIN page_table /\ page_table[p] = f
      BY UserFrames DEF UserPCs, IInv, PageTableMatchesFrames
    <2>2. \A q \in DOMAIN page_table : page_table[q] \in Frames /\ (q # p => page_table[q] # f)
      BY Types DEF IsMap, IInv, PageTableMatchesFrames
    <2> HIDE DEF p
    <2>3. ASSUME NEW q \in Pages
          PROVE  (IF q \in DOMAIN page_table THEN frames'[page_table[q]].data ELSE disk[q])
                   = (IF q = p THEN frames'[f].data
                      ELSE IF q \in DOMAIN page_table THEN frames[page_table[q]].data ELSE disk[q])
      BY <2>1, <2>2
    <2>4. Content' = [q \in Pages |-> IF q = p THEN frames'[f].data ELSE Content[q]]
      BY <2>3 DEF Content
    <2>5. Content = [q \in Pages |-> Content[q]]
      BY Zenon DEF Content
    <2>6. Content' = [Content EXCEPT ![p] = frames'[f].data]
      BY <2>4, <2>5
    <2> QED
      BY <2>6 DEF p
  <1> QED
    BY <1>2, <1>3, <1>4 DEF ContentInv

-----------------------------------------------------------------------------
(* One lemma per operation.                                                *)

\* What is shown of every step.
ContentStep == ContentInv' /\ (Unseen \/ PS!Next)

\* A call outside the flushes, and not about to store, owes nothing.
LEMMA RestingCall ==
  ASSUME NEW t, op'[t].pc \notin UserPCs \cup {"flush"}
  PROVE  ThreadInv(t)'
  BY DEF ThreadInv, FlushLatched, StoreMarked, WrittenCurrent, UserPCs

\* A thread that changes its own position only disturbs nobody.
LEMMA OwnMove ==
  ASSUME NEW t, \A u \in Threads : u # t => op'[u] = op[u], UNCHANGED <<guards, rwlatch>>
  PROVE  OthersKeep(t)
  BY DEF OthersKeep

\* A thread keeps what it owes while what it reads stays the same.
LEMMA SameThread ==
  ASSUME ContentInv, NEW t \in Threads, UNCHANGED <<frames, rwlatch, disk, guards, op>>
  PROVE  ThreadInv(t)'
  <1>1. FlushLatched(t)'
    BY DEF ContentInv, ThreadInv, FlushLatched
  <1>2. StoreMarked(t)'
    BY DEF ContentInv, ThreadInv, StoreMarked
  <1>3. WrittenCurrent(t)'
    BY DEF ContentInv, ThreadInv, WrittenCurrent
  <1> QED
    BY <1>1, <1>2, <1>3 DEF ThreadInv

\* A step that the clients do not see.
LEMMA SilentStep ==
  ASSUME ContentInv', Content' = Content, UNCHANGED guards
  PROVE  ContentStep
  BY DEF ContentStep, Unseen, Held

\* NewPage only takes a page id.
LEMMA NewPageContent == ASSUME IInv, ContentInv, NEW t \in Threads, NewPage(t) PROVE ContentStep
  <1>1. UNCHANGED <<page_table, frames, rwlatch, disk, guards, op>>
    BY DEF NewPage, pool
  <1>2. ThreadInv(t)' /\ OthersKeep(t)
    BY <1>1, SameThread, OwnMove
  <1>3. ContentInv' /\ Content' = Content
    BY <1>1, <1>2, StableStep
  <1> QED
    BY <1>1, <1>3, SilentStep

\* CheckedReadPage or CheckedWritePage begins, ...
LEMMA CallCheckedPageContent ==
  ASSUME IInv, ContentInv, NEW t \in Threads, NEW p \in Pages, NEW k \in {"R", "W"},
         CallCheckedPage(t, p, k)
  PROVE  ContentStep
  <1> DEFINE c == [Idle EXCEPT !.pc = "lookup", !.kind = k, !.page = p]
  <1>1. op' = [op EXCEPT ![t] = c] /\ UNCHANGED <<page_table, frames, rwlatch, disk, guards>>
    BY DEF CallCheckedPage, pool
  <1>2. c.pc = "lookup"
    BY DEF Idle
  <1> HIDE DEF c
  <1>3. op'[t] = c /\ \A u \in Threads : u # t => op'[u] = op[u]
    BY <1>1, CallReplaced, Zenon
  <1>4. ThreadInv(t)' /\ OthersKeep(t)
    BY <1>1, <1>2, <1>3, RestingCall, OwnMove DEF UserPCs
  <1>5. ContentInv' /\ Content' = Content
    BY <1>1, <1>4, StableStep
  <1> QED
    BY <1>1, <1>5, SilentStep

\* ... finds the page, ...
LEMMA LookupHitContent == ASSUME IInv, ContentInv, NEW t \in Threads, LookupHit(t) PROVE ContentStep
  <1>1. PICK f \in Frames : /\ op[t].page \in DOMAIN page_table /\ f = page_table[op[t].page]
                            /\ ChooseFrame(t, "latch", f)
                            /\ frames' = [frames EXCEPT ![f].pin_count = @ + 1]
    BY Types, Zenon DEF LookupHit, IsMap, ChooseFrame
  <1>2. UNCHANGED <<page_table, rwlatch, disk, guards>>
    BY DEF LookupHit
  <1>3. op'[t].pc = "latch" /\ \A u \in Threads : u # t => op'[u] = op[u]
    <2>1. "latch" \in PCs
      BY DEF PCs
    <2> QED
      BY <1>1, <2>1, CallUpdate, Zenon
  <1>4. ThreadInv(t)' /\ OthersKeep(t)
    BY <1>2, <1>3, RestingCall, OwnMove DEF UserPCs
  <1>5. \A x \in Frames : /\ frames'[x].page_id = frames[x].page_id
                          /\ frames'[x].is_dirty = frames[x].is_dirty
                          /\ frames'[x].data = frames[x].data
    <2> DEFINE n == frames[f].pin_count + 1
    <2>1. n \in Nat
      BY Types DEF FrameHeader
    <2>2. frames' = [frames EXCEPT ![f].pin_count = n]
      BY <1>1
    <2> HIDE DEF n
    <2> QED
      BY <2>1, <2>2, Types, PinCountUpdate, Zenon
  <1>6. ContentInv' /\ Content' = Content
    BY <1>2, <1>4, <1>5, StableStep
  <1> QED
    BY <1>2, <1>6, SilentStep

\* ... or gives up.
LEMMA LookupNulloptContent ==
  ASSUME IInv, ContentInv, NEW t \in Threads, LookupNullopt(t)
  PROVE  ContentStep
  <1>1. Return(t) /\ UNCHANGED <<page_table, frames, rwlatch, disk, guards>>
    BY DEF LookupNullopt, pool
  <1>2. op'[t].pc = "idle" /\ \A u \in Threads : u # t => op'[u] = op[u]
    BY <1>1, ReturnEffect
  <1>3. ThreadInv(t)' /\ OthersKeep(t)
    BY <1>1, <1>2, RestingCall, OwnMove DEF UserPCs
  <1>4. ContentInv' /\ Content' = Content
    BY <1>1, <1>3, StableStep
  <1> QED
    BY <1>1, <1>4, SilentStep

\* Contents that agree everywhere are equal.
LEMMA SameContent ==
  ASSUME \A q \in Pages :
            (IF q \in DOMAIN page_table' THEN frames'[page_table'[q]].data ELSE disk'[q])
               = (IF q \in DOMAIN page_table THEN frames[page_table[q]].data ELSE disk[q])
  PROVE  Content' = Content
  BY DEF Content

\* A free frame is taken.
LEMMA LookupFreeContent == ASSUME IInv, ContentInv, NEW t \in Threads, LookupFree(t) PROVE ContentStep
  <1>1. PICK f \in Frames : f = Head(free_frames) /\ IsFree(f)
    BY Types DEF LookupFree, IsFree
  <1>2. /\ bpm_latch = None /\ ChooseFrame(t, "load", f)
        /\ frames' = [frames EXCEPT ![f] = ResetFrame]
        /\ UNCHANGED <<page_table, rwlatch, disk, guards>>
    BY <1>1 DEF LookupFree, ChooseFrame
  <1>3. op'[t].pc = "load" /\ \A u \in Threads : u # t => op'[u] = op[u]
    BY <1>2, CallUpdate DEF PCs
  <1>4. \A u \in Threads : op[u].pc \notin {"flush_write", "flush_clear"}
    BY <1>2, NoHolder
  <1>5. ~Resident(f)
    BY <1>1 DEF IInv, FramesConserved
  <1>6. frames[f].pin_count = 0
    BY <1>5, NonResidentUnpinned, UnpinnedIsZero
  <1>7. ~Resident(f)' /\ \A x \in Frames : x # f => frames'[x] = frames[x]
    BY <1>2, Types DEF Resident, ResetFrame
  <1>8. ContentInv'
    BY <1>2, <1>3, <1>4, <1>6, <1>7, MoveStep DEF UserPCs
  <1>9. Content' = Content
    <2>1. \A q \in DOMAIN page_table : page_table[q] \in Frames /\ page_table[q] # f
      BY <1>5, Types, PoolAssumption DEF IsMap, IInv, PageTableMatchesFrames, Resident, Pages
    <2> QED
      BY <1>2, <1>7, <2>1, SameContent
  <1> QED
    BY <1>2, <1>8, <1>9, SilentStep

\* What is dropped with a page that leaves its frame: nothing, if the disk
\* has its data.
LEMMA VacateContent ==
  ASSUME IInv, NEW f \in Frames, Resident(f), Vacate(f),
         disk'[frames[f].page_id] = frames[f].data,
         \A q \in Pages : q # frames[f].page_id => disk'[q] = disk[q]
  PROVE  Content' = Content
  <1> DEFINE p == frames[f].page_id
  <1>1. p \in DOMAIN page_table /\ page_table[p] = f
    BY DEF IInv, PageTableMatchesFrames
  <1>2. /\ DOMAIN page_table' = DOMAIN page_table \ {p}
        /\ \A q \in DOMAIN page_table' : page_table'[q] = page_table[q]
        /\ \A x \in Frames : x # f => frames'[x] = frames[x]
    BY VacateEffect
  <1>3. \A q \in DOMAIN page_table : page_table[q] \in Frames /\ (q # p => page_table[q] # f)
    BY Types DEF IsMap, IInv, PageTableMatchesFrames
  <1>4. disk'[p] = frames[f].data /\ \A q \in Pages : q # p => disk'[q] = disk[q]
    OBVIOUS
  <1> HIDE DEF p
  <1> QED
    BY <1>1, <1>2, <1>3, <1>4, SameContent

\* A victim is chosen.  A clean one is dropped at once.
LEMMA LookupEvictContent ==
  ASSUME IInv, ContentInv, NEW t \in Threads, LookupEvict(t)
  PROVE  ContentStep
  <1>1. PICK f \in Frames :
          /\ f \in replacer.evictable
          /\ \/ /\ ChooseFrame(t, "writeback", f)
                /\ UNCHANGED <<page_table, frames>>
             \/ /\ ~frames[f].is_dirty
                /\ ChooseFrame(t, "load", f)
                /\ Vacate(f)
    BY Types, Zenon DEF LookupEvict, IsReplacer, ChooseFrame, Vacate
  <1>2. bpm_latch = None /\ UNCHANGED <<rwlatch, disk, guards>>
    BY DEF LookupEvict
  <1>3. Resident(f) /\ frames[f].pin_count = 0
    BY <1>1 DEF IInv, EvictableIffUnpinned
  <1>4. CASE ChooseFrame(t, "writeback", f) /\ UNCHANGED <<page_table, frames>>
    <2>1. op'[t].pc = "writeback" /\ \A u \in Threads : u # t => op'[u] = op[u]
      BY <1>4, CallUpdate DEF PCs
    <2>2. ThreadInv(t)' /\ OthersKeep(t)
      BY <1>2, <2>1, RestingCall, OwnMove DEF UserPCs
    <2>3. ContentInv' /\ Content' = Content
      BY <1>2, <1>4, <2>2, StableStep
    <2> QED
      BY <1>2, <2>3, SilentStep
  <1>5. CASE ~frames[f].is_dirty /\ ChooseFrame(t, "load", f) /\ Vacate(f)
    <2>1. op'[t].pc = "load" /\ \A u \in Threads : u # t => op'[u] = op[u]
      BY <1>5, CallUpdate DEF PCs
    <2>2. \A u \in Threads : op[u].pc \notin {"flush_write", "flush_clear"}
      BY <1>2, NoHolder
    <2>3. ~Resident(f)' /\ \A x \in Frames : x # f => frames'[x] = frames[x]
      BY <1>3, <1>5, VacateEffect, Zenon
    <2>4. ContentInv'
      BY <1>2, <1>3, <2>1, <2>2, <2>3, MoveStep DEF UserPCs
    <2>5. disk[frames[f].page_id] = frames[f].data
      BY <1>3, <1>5 DEF ContentInv, CleanMatchesDisk
    <2>6. Content' = Content
      BY <1>2, <1>3, <1>5, <2>5, VacateContent
    <2> QED
      BY <1>2, <2>4, <2>6, SilentStep
  <1> QED
    BY <1>1, <1>4, <1>5

\* While no disk request fails, a write that was waited for is on disk.
LEMMA WriteDone ==
  ASSUME DiskFaults = {}, IInv, NEW p \in Pages, NEW d, NEW ok, IssueDiskWrite(p, d, ok)
  PROVE  /\ ok /\ disk' = [disk EXCEPT ![p] = d]
         /\ disk'[p] = d /\ \A q \in Pages : q # p => disk'[q] = disk[q]
  BY Types DEF IssueDiskWrite

\* A dirty victim is written before it is dropped.
LEMMA WriteBackContent ==
  ASSUME DiskFaults = {}, IInv, ContentInv, NEW t \in Threads, WriteBack(t)
  PROVE  ContentStep
  <1>1. PICK f \in Frames : /\ f = op[t].frame /\ Resident(f) /\ frames[f].pin_count = 0
                            /\ op[t].pc = "writeback"
    <2>1. op[t].pc = "writeback"
      BY DEF WriteBack, At
    <2>2. op[t].frame \in Frames
      BY <2>1 DEF IInv, CallShape
    <2>3. frames[op[t].frame].page_id # None /\ frames[op[t].frame].pin_count = 0
      BY <2>1 DEF IInv, MissShape
    <2> QED
      BY <2>1, <2>2, <2>3, Zenon DEF Resident
  <1>2. PICK ok \in BOOLEAN : IssueDiskWrite(frames[f].page_id, frames[f].data, ok)
    BY <1>1, Zenon DEF WriteBack
  <1>3. Goto(t, "load") /\ Vacate(f) /\ UNCHANGED <<rwlatch, guards>>
    <2>1. Goto(t, "load") /\ UNCHANGED <<rwlatch, guards>>
      BY DEF WriteBack
    <2>2. Vacate(f)
      BY <1>1, Zenon DEF WriteBack, Vacate
    <2> QED
      BY <2>1, <2>2
  <1>4. frames[f].page_id \in Pages
    BY <1>1, Types DEF FrameHeader, Resident
  <1>5. /\ disk'[frames[f].page_id] = frames[f].data
        /\ \A q \in Pages : q # frames[f].page_id => disk'[q] = disk[q]
    BY <1>2, <1>4, WriteDone
  <1>6. op'[t].pc = "load" /\ \A u \in Threads : u # t => op'[u] = op[u]
    BY <1>3, GotoEffect DEF PCs
  <1>7. \A u \in Threads : u # t => op[u].pc \notin {"flush_write", "flush_clear"}
    BY <1>1, OneHolder DEF HolderPCs
  <1>8. ~Resident(f)' /\ \A x \in Frames : x # f => frames'[x] = frames[x]
    BY <1>1, <1>3, VacateEffect, Zenon
  <1>9. \A x \in Frames : x # f /\ Resident(x) => disk'[frames[x].page_id] = disk[frames[x].page_id]
    <2> SUFFICES ASSUME NEW x \in Frames, x # f, Resident(x)
                 PROVE  disk'[frames[x].page_id] = disk[frames[x].page_id]
      OBVIOUS
    <2>1. frames[x].page_id # frames[f].page_id /\ frames[x].page_id \in Pages
      BY PagesDistinct, Types DEF FrameHeader, Resident
    <2> QED
      BY <1>5, <2>1
  <1>10. ContentInv'
    <2>1. op'[t].pc \notin UserPCs \cup {"flush"}
      BY <1>6 DEF UserPCs
    <2>2. \A u \in Threads : u # t => op'[u] = op[u] /\ op[u].pc \notin {"flush_write", "flush_clear"}
      BY <1>6, <1>7, Zenon
    <2> QED
      BY <1>1, <1>3, <1>8, <1>9, <2>1, <2>2, MoveStep, Zenon
  <1>11. Content' = Content
    BY <1>1, <1>3, <1>5, VacateContent, Zenon
  <1> QED
    BY <1>3, <1>10, <1>11, SilentStep

\* The page is read from disk.
LEMMA LoadContent ==
  ASSUME DiskFaults = {}, IInv, ContentInv, NEW t \in Threads, Load(t)
  PROVE  ContentStep
  <1>1. PICK f \in Frames, p \in Pages :
          /\ f = op[t].frame /\ p = op[t].page /\ p \notin DOMAIN page_table
          /\ op[t].pc = "load"
    <2>1. op[t].pc = "load"
      BY DEF Load, At
    <2>2. op[t].frame \in Frames /\ op[t].page \in Pages
      BY <2>1 DEF IInv, CallShape
    <2>3. op[t].page \notin DOMAIN page_table
      BY <2>1 DEF IInv, MissShape
    <2> QED
      BY <2>1, <2>2, <2>3, Zenon
  <1> DEFINE h == [page_id |-> p, pin_count |-> 1, is_dirty |-> FALSE, data |-> disk[p]]
  <1>2. /\ frames' = [frames EXCEPT ![f] = h] /\ page_table' = Put(page_table, p, f)
        /\ Goto(t, "latch") /\ UNCHANGED <<rwlatch, disk, guards>>
    <2>1. PICK d \in DiskRead(p) :
            frames' = [frames EXCEPT ![f] = [page_id |-> p, pin_count |-> 1,
                                             is_dirty |-> FALSE, data |-> d]]
      BY <1>1, Zenon DEF Load
    <2>2. d = disk[p]
      BY DEF DiskRead
    <2> QED
      BY <1>1, <2>1, <2>2, Zenon DEF Load
  <1>3. h.page_id = p /\ h.data = disk[p]
    OBVIOUS
  <1> HIDE DEF h
  <1>4. frames'[f] = h /\ \A x \in Frames : x # f => frames'[x] = frames[x]
    BY <1>2, Types
  <1>5. ~Resident(f)
    BY <1>1 DEF IInv, FramesConserved, InUseBy
  <1>6. frames[f].pin_count = 0
    BY <1>5, NonResidentUnpinned, UnpinnedIsZero
  <1>7. op'[t].pc = "latch" /\ \A u \in Threads : u # t => op'[u] = op[u]
    BY <1>2, GotoEffect DEF PCs
  <1>8. \A u \in Threads : u # t => op[u].pc \notin {"flush_write", "flush_clear"}
    BY <1>1, OneHolder DEF HolderPCs
  <1>9. ContentInv'
    <2>1. op'[t].pc \notin UserPCs \cup {"flush"}
      BY <1>7 DEF UserPCs
    <2>2. \A u \in Threads : u # t => op'[u] = op[u] /\ op[u].pc \notin {"flush_write", "flush_clear"}
      BY <1>7, <1>8, Zenon
    <2>3. frames'[f].data = disk'[frames'[f].page_id] /\ UNCHANGED <<rwlatch, guards, disk>>
      BY <1>2, <1>3, <1>4
    <2> QED
      BY <1>4, <1>6, <2>1, <2>2, <2>3, MoveStep, Zenon
  <1>10. Content' = Content
    <2>1. \A q \in DOMAIN page_table : page_table[q] \in Frames /\ page_table[q] # f
      BY <1>5, Types, PoolAssumption DEF IsMap, IInv, PageTableMatchesFrames, Resident, Pages
    <2>2. /\ DOMAIN page_table' = DOMAIN page_table \cup {p} /\ page_table'[p] = f
          /\ \A q \in DOMAIN page_table : page_table'[q] = page_table[q]
      BY <1>1, <1>2 DEF Put
    <2>3. frames'[f].data = disk[p] /\ disk' = disk
      BY <1>2, <1>3, <1>4, Zenon
    <2>4. ASSUME NEW q \in Pages
          PROVE  (IF q \in DOMAIN page_table' THEN frames'[page_table'[q]].data ELSE disk'[q])
                   = (IF q \in DOMAIN page_table THEN frames[page_table[q]].data ELSE disk[q])
      <3>1. CASE q = p
        BY <1>1, <2>2, <2>3, <3>1
      <3>2. CASE q \in DOMAIN page_table
        BY <1>4, <2>1, <2>2, <3>2
      <3>3. CASE q # p /\ q \notin DOMAIN page_table
        BY <2>2, <2>3, <3>3
      <3> QED
        BY <3>1, <3>2, <3>3, Zenon
    <2> QED
      BY <2>4, SameContent, Zenon
  <1> QED
    BY <1>2, <1>9, <1>10, SilentStep

-----------------------------------------------------------------------------
(* The guards.                                                             *)

\* What the clients hold, spelled out.
LEMMA HeldAt ==
  ASSUME NEW u \in Threads, NEW p, NEW k
  PROVE  PS!Holds(u, p, k) <=> \E g \in guards[u] : g.page = p /\ g.kind = k
  <1> DEFINE Mark(g) == [page |-> g.page, kind |-> g.kind]
  <1>1. PS!Holds(u, p, k) <=> [page |-> p, kind |-> k] \in {Mark(g) : g \in guards[u]}
    BY DEF PS!Holds, Held
  <1>2. \A g : Mark(g) = [page |-> p, kind |-> k] <=> g.page = p /\ g.kind = k
    OBVIOUS
  <1> HIDE DEF Mark
  <1> QED
    BY <1>1, <1>2

\* A guard on a page is a guard on the frame that has it.
LEMMA HolderOf ==
  ASSUME IInv, NEW u \in Threads, NEW p \in Pages, NEW k, PS!Holds(u, p, k)
  PROVE  /\ p \in DOMAIN page_table
         /\ \E g \in guards[u] : g.page = p /\ g.kind = k /\ g.frame = page_table[p]
  <1>1. PICK g \in guards[u] : g.page = p /\ g.kind = k
    BY HeldAt
  <1>2. g.page = p /\ g.kind = k
    BY <1>1
  <1>3. g.frame \in Frames /\ frames[g.frame].page_id = p
    BY <1>2, Types DEF Guard, IInv, PinnersResident
  <1>4. p \in DOMAIN page_table /\ page_table[p] = g.frame
    BY <1>3, PoolAssumption DEF IInv, PageTableMatchesFrames, Resident, Pages
  <1> QED
    BY <1>2, <1>4

\* GetDataMut marks the frame; the client's view does not change yet.
LEMMA GetDataMutContent ==
  ASSUME IInv, ContentInv, NEW t \in Threads, NEW g \in guards[t], GetDataMut(t, g)
  PROVE  ContentStep
  <1>1. g.frame \in Frames /\ g.kind = "W"
    BY Types DEF Guard, GetDataMut
  <1> DEFINE c == [Idle EXCEPT !.pc = "store", !.frame = g.frame]
  <1>2. /\ op' = [op EXCEPT ![t] = c] /\ UNCHANGED <<page_table, rwlatch, disk, guards>>
        /\ frames' = [frames EXCEPT ![g.frame].is_dirty = TRUE]
    BY DEF GetDataMut, pool
  <1>3. c.pc = "store" /\ c.frame = g.frame
    BY Zenon DEF Idle
  <1> HIDE DEF c
  <1>4. op'[t] = c /\ \A u \in Threads : u # t => op'[u] = op[u]
    BY <1>2, CallReplaced, Zenon
  <1>5. /\ \A x \in Frames : /\ frames'[x].page_id = frames[x].page_id
                             /\ frames'[x].data = frames[x].data
        /\ \A x \in Frames : x # g.frame => frames'[x] = frames[x]
        /\ frames'[g.frame].is_dirty
    BY <1>1, <1>2, Types, DirtyUpdate, Zenon
  <1>6. ThreadInv(t)'
    <2>1. op'[t].pc = "store" /\ op'[t].frame = g.frame
      BY <1>3, <1>4, Zenon
    <2>2. g \in guards'[t] /\ g.kind = "W" /\ frames'[g.frame].is_dirty
      BY <1>1, <1>2, <1>5
    <2>3. StoreMarked(t)'
      BY <2>1, <2>2 DEF StoreMarked
    <2> QED
      BY <2>1, <2>3 DEF ThreadInv, FlushLatched, WrittenCurrent
  <1>7. OthersKeep(t)
    BY <1>2, <1>4, OwnMove
  <1>8. ContentInv' /\ Content' = Content
    BY <1>2, <1>5, <1>6, <1>7, StableStep
  <1> QED
    BY <1>2, <1>8, SilentStep

\* The client's store is the abstract write.
LEMMA StoreContent == ASSUME IInv, ContentInv, NEW t \in Threads, Store(t) PROVE ContentStep
  <1>1. PICK f \in Frames, v \in Values : f = op[t].frame /\ frames' = [frames EXCEPT ![f].data = v]
    BY Zenon DEF IInv, CallShape, Store, At
  <1>2. op[t].pc = "store" /\ Return(t) /\ UNCHANGED <<page_table, rwlatch, disk, guards>>
    BY DEF Store, At, pool
  <1>3. op'[t].pc = "idle" /\ \A u \in Threads : u # t => op'[u] = op[u]
    BY <1>2, ReturnEffect
  <1>4. /\ \A x \in Frames : /\ frames'[x].page_id = frames[x].page_id
                             /\ frames'[x].is_dirty = frames[x].is_dirty
        /\ \A x \in Frames : x # f => frames'[x] = frames[x]
        /\ frames'[f].data = v
    <2> DEFINE h == [frames[f] EXCEPT !.data = v]
    <2>1. frames[f] \in FrameHeader /\ frames' = [frames EXCEPT ![f] = h]
      BY <1>1, Types
    <2>2. h.page_id = frames[f].page_id /\ h.is_dirty = frames[f].is_dirty /\ h.data = v
      BY <2>1 DEF FrameHeader
    <2> HIDE DEF h
    <2> QED
      BY <2>1, <2>2, Types
  <1>5. ThreadInv(t)' /\ OthersKeep(t)
    BY <1>2, <1>3, RestingCall, OwnMove DEF UserPCs
  <1>6. ContentInv' /\ Content' = [Content EXCEPT ![frames[f].page_id] = v]
    <2>1. ContentInv' /\ Content' = [Content EXCEPT ![frames[f].page_id] = frames'[f].data]
      BY <1>1, <1>2, <1>4, <1>5, WriteStep, Zenon
    <2>2. frames'[f].data = v
      BY <1>4, Zenon
    <2> QED
      BY <2>1, <2>2
  <1>7. PICK g \in guards[t] : g.frame = f /\ g.kind = "W"
    BY <1>1, <1>2 DEF ContentInv, ThreadInv, StoreMarked
  <1>8. g.page \in Pages /\ frames[f].page_id = g.page
    BY <1>7, Types DEF Guard, IInv, PinnersResident
  <1>9. PS!Holds(t, g.page, "W")
    BY <1>7, HeldAt
  <1>10. Held' = Held
    BY <1>2 DEF Held
  <1>11. PS!Write(t, g.page, v)
    BY <1>6, <1>8, <1>9, <1>10 DEF PS!Write
  <1> QED
    BY <1>6, <1>8, <1>11 DEF ContentStep, PS!Next

\* The flush of a guard writes what the guard protects, ...
LEMMA GuardFlushContent ==
  ASSUME DiskFaults = {}, IInv, ContentInv, NEW t \in Threads, NEW g \in guards[t], GuardFlush(t, g)
  PROVE  ContentStep
  <1>1. PICK f \in Frames : f = g.frame /\ frames[f].page_id = g.page /\ g.page \in Pages
    BY Types DEF Guard, IInv, PinnersResident
  <1>2. Resident(f)
    BY <1>1, PoolAssumption DEF Resident, Pages
  <1> DEFINE c == [Idle EXCEPT !.pc = "gclear", !.frame = f]
  <1>3. PICK ok \in BOOLEAN :
          /\ IssueDiskWrite(g.page, frames[f].data, ok)
          /\ op' = IF ok THEN [op EXCEPT ![t] = c] ELSE op
    BY <1>1, Zenon DEF GuardFlush
  <1>4. UNCHANGED <<page_table, frames, rwlatch, guards>>
    BY DEF GuardFlush, pool
  <1>5. c.pc = "gclear" /\ c.frame = f
    BY Zenon DEF Idle
  <1> HIDE DEF c
  <1>6. ok /\ disk' = [disk EXCEPT ![g.page] = frames[f].data] /\ disk'[g.page] = frames[f].data
    BY <1>1, <1>3, WriteDone
  <1>7. op'[t] = c /\ \A u \in Threads : u # t => op'[u] = op[u]
    BY <1>3, <1>6, CallReplaced, Zenon
  <1>8. ThreadInv(t)'
    <2>1. op'[t].pc = "gclear" /\ op'[t].frame = f
      BY <1>5, <1>7, Zenon
    <2>2. frames'[f].data = disk'[frames'[f].page_id]
      BY <1>1, <1>4, <1>6
    <2> QED
      BY <2>1, <2>2 DEF ThreadInv, FlushLatched, StoreMarked, WrittenCurrent
  <1>9. OthersKeep(t)
    BY <1>4, <1>7, OwnMove
  <1>10. ContentInv' /\ Content' = Content
    <2>1. disk' = [disk EXCEPT ![frames[f].page_id] = frames[f].data]
      BY <1>1, <1>6
    <2> QED
      BY <1>2, <1>4, <1>8, <1>9, <2>1, SaveStep, Zenon
  <1> QED
    BY <1>4, <1>10, SilentStep

\* ... and clears the dirty flag after that.
LEMMA GuardFlushClearContent ==
  ASSUME IInv, ContentInv, NEW t \in Threads, GuardFlushClear(t)
  PROVE  ContentStep
  <1>1. PICK f \in Frames : f = op[t].frame /\ frames' = [frames EXCEPT ![f].is_dirty = FALSE]
    BY Zenon DEF IInv, CallShape, GuardFlushClear, At
  <1>2. op[t].pc = "gclear" /\ Return(t) /\ UNCHANGED <<page_table, rwlatch, disk, guards>>
    BY DEF GuardFlushClear, At, pool
  <1>3. op'[t].pc = "idle" /\ \A u \in Threads : u # t => op'[u] = op[u]
    BY <1>2, ReturnEffect
  <1>4. /\ \A x \in Frames : /\ frames'[x].page_id = frames[x].page_id
                             /\ frames'[x].data = frames[x].data
        /\ \A x \in Frames : x # f => frames'[x] = frames[x]
    BY <1>1, Types, DirtyUpdate, Zenon
  <1>5. ThreadInv(t)' /\ OthersKeep(t)
    BY <1>2, <1>3, RestingCall, OwnMove DEF UserPCs
  <1>6. ContentInv' /\ Content' = Content
    <2>1. op[t].pc \in {"gclear", "flush_clear"} /\ UNCHANGED <<page_table, disk>>
      BY <1>2
    <2> QED
      BY <1>1, <1>4, <1>5, <2>1, ClearStep, Zenon
  <1> QED
    BY <1>2, <1>6, SilentStep

\* The last step of Drop only unpins.
LEMMA UnpinContent == ASSUME IInv, ContentInv, NEW t \in Threads, Unpin(t) PROVE ContentStep
  <1>1. PICK f \in Frames : f = op[t].frame /\ <<t, None>> \in Pins(f)
    <2>1. op[t].pc \in {"latch", "unpin"}
      BY DEF Unpin, At
    <2>2. op[t].frame \in Frames
      BY <2>1 DEF IInv, CallShape
    <2> QED
      BY <2>1, <2>2, UsersPin, Zenon
  <1> DEFINE n == frames[f].pin_count - 1
  <1>2. n \in Nat
    BY <1>1, Types, PinnedPositive DEF FrameHeader
  <1>3. /\ frames' = [frames EXCEPT ![f].pin_count = n]
        /\ Return(t) /\ UNCHANGED <<page_table, rwlatch, disk, guards>>
    BY <1>1 DEF Unpin
  <1> HIDE DEF n
  <1>4. op'[t].pc = "idle" /\ \A u \in Threads : u # t => op'[u] = op[u]
    BY <1>3, ReturnEffect
  <1>5. ThreadInv(t)' /\ OthersKeep(t)
    BY <1>3, <1>4, RestingCall, OwnMove DEF UserPCs
  <1>6. \A x \in Frames : /\ frames'[x].page_id = frames[x].page_id
                          /\ frames'[x].is_dirty = frames[x].is_dirty
                          /\ frames'[x].data = frames[x].data
    BY <1>2, <1>3, Types, PinCountUpdate, Zenon
  <1>7. ContentInv' /\ Content' = Content
    BY <1>3, <1>5, <1>6, StableStep
  <1> QED
    BY <1>3, <1>7, SilentStep

\* Taking a page latch evicts no reader, ...
LEMMA SharedKeepsReaders ==
  ASSUME IInv, NEW t \in Threads, NEW f \in Frames, AcquireShared(t, f)
  PROVE  /\ rwlatch[f].writer = None /\ t \in rwlatch'[f].readers
         /\ \A u \in Threads, x \in Frames : u \in rwlatch[x].readers => u \in rwlatch'[x].readers
  <1> DEFINE l == [rwlatch[f] EXCEPT !.readers = @ \cup {t}]
  <1>1. rwlatch \in [Frames -> RWLatch] /\ rwlatch[f] \in RWLatch
    BY Types
  <1>2. rwlatch[f].writer = None /\ rwlatch' = [rwlatch EXCEPT ![f] = l]
    BY DEF AcquireShared
  <1>3. l.readers = rwlatch[f].readers \cup {t}
    BY <1>1 DEF RWLatch
  <1> HIDE DEF l
  <1> QED
    BY <1>1, <1>2, <1>3

\* ... in exclusive mode neither, ...
LEMMA ExclusiveKeepsReaders ==
  ASSUME IInv, NEW t \in Threads, NEW f \in Frames, AcquireExclusive(t, f)
  PROVE  /\ rwlatch[f].writer = None /\ rwlatch[f].readers = {}
         /\ \A u \in Threads, x \in Frames : u \in rwlatch[x].readers => u \in rwlatch'[x].readers
  <1> DEFINE l == [rwlatch[f] EXCEPT !.writer = t]
  <1>1. rwlatch \in [Frames -> RWLatch] /\ rwlatch[f] \in RWLatch
    BY Types
  <1>2. /\ rwlatch[f].writer = None /\ rwlatch[f].readers = {}
        /\ rwlatch' = [rwlatch EXCEPT ![f] = l]
    BY DEF AcquireExclusive, Unlocked
  <1>3. l.readers = rwlatch[f].readers
    BY <1>1 DEF RWLatch
  <1> HIDE DEF l
  <1> QED
    BY <1>1, <1>2, <1>3

\* ... and giving one back takes it from nobody else.
LEMMA ReleaseKeepsReaders ==
  ASSUME IInv, NEW t \in Threads, NEW f \in Frames, ReleaseShared(t, f) \/ ReleaseExclusive(f)
  PROVE  \A u \in Threads, x \in Frames :
            u # t /\ u \in rwlatch[x].readers => u \in rwlatch'[x].readers
  <1>1. rwlatch \in [Frames -> RWLatch] /\ rwlatch[f] \in RWLatch
    BY Types
  <1>2. CASE ReleaseShared(t, f)
    <2> DEFINE l == [rwlatch[f] EXCEPT !.readers = @ \ {t}]
    <2>1. rwlatch' = [rwlatch EXCEPT ![f] = l]
      BY <1>2 DEF ReleaseShared
    <2>2. l.readers = rwlatch[f].readers \ {t}
      BY <1>1 DEF RWLatch
    <2> HIDE DEF l
    <2> QED
      BY <1>1, <2>1, <2>2
  <1>3. CASE ReleaseExclusive(f)
    <2> DEFINE l == [rwlatch[f] EXCEPT !.writer = None]
    <2>1. rwlatch' = [rwlatch EXCEPT ![f] = l]
      BY <1>3 DEF ReleaseExclusive
    <2>2. l.readers = rwlatch[f].readers
      BY <1>1 DEF RWLatch
    <2> HIDE DEF l
    <2> QED
      BY <1>1, <2>1, <2>2
  <1> QED
    BY <1>2, <1>3

\* A new guard is one more that the client holds, ...
LEMMA HeldAdded ==
  ASSUME IInv, NEW t \in Threads, NEW g, guards' = [guards EXCEPT ![t] = @ \cup {g}]
  PROVE  Held' = [Held EXCEPT ![t] = @ \cup {[page |-> g.page, kind |-> g.kind]}]
  <1> DEFINE Mark(h) == [page |-> h.page, kind |-> h.kind]
  <1>1. guards'[t] = guards[t] \cup {g} /\ \A u \in Threads : u # t => guards'[u] = guards[u]
    BY Types
  <1>2. Held = [u \in Threads |-> {Mark(h) : h \in guards[u]}]
    BY DEF Held
  <1>3. Held' = [u \in Threads |-> {Mark(h) : h \in guards'[u]}]
    BY DEF Held
  <1> HIDE DEF Mark
  <1>4. {Mark(h) : h \in guards'[t]} = {Mark(h) : h \in guards[t]} \cup {Mark(g)}
    BY <1>1
  <1>5. /\ Held = [u \in Threads |-> Held[u]] /\ Held' = [u \in Threads |-> Held'[u]]
        /\ Held'[t] = Held[t] \cup {Mark(g)}
        /\ \A u \in Threads : u # t => Held'[u] = Held[u]
    BY <1>1, <1>2, <1>3, <1>4, Zenon
  <1>6. Held' = [Held EXCEPT ![t] = @ \cup {Mark(g)}]
    BY <1>5
  <1> QED
    BY <1>6 DEF Mark

\* ... and a dropped one, the only one on its page, is one less.
LEMMA HeldRemoved ==
  ASSUME IInv, NEW t \in Threads, NEW g \in guards[t], guards' = [guards EXCEPT ![t] = @ \ {g}]
  PROVE  Held' = [Held EXCEPT ![t] = @ \ {[page |-> g.page, kind |-> g.kind]}]
  <1> DEFINE Mark(h) == [page |-> h.page, kind |-> h.kind]
  <1>1. guards'[t] = guards[t] \ {g} /\ \A u \in Threads : u # t => guards'[u] = guards[u]
    BY Types
  <1>2. Held = [u \in Threads |-> {Mark(h) : h \in guards[u]}]
    BY DEF Held
  <1>3. Held' = [u \in Threads |-> {Mark(h) : h \in guards'[u]}]
    BY DEF Held
  <1>4. \A h \in guards[t] : Mark(h) = Mark(g) => h = g
    BY DEF IInv, Ascending
  <1> HIDE DEF Mark
  <1>5. {Mark(h) : h \in guards'[t]} = {Mark(h) : h \in guards[t]} \ {Mark(g)}
    BY <1>1, <1>4
  <1>6. /\ Held = [u \in Threads |-> Held[u]] /\ Held' = [u \in Threads |-> Held'[u]]
        /\ Held'[t] = Held[t] \ {Mark(g)}
        /\ \A u \in Threads : u # t => Held'[u] = Held[u]
    BY <1>1, <1>2, <1>3, <1>5, Zenon
  <1>7. Held' = [Held EXCEPT ![t] = @ \ {Mark(g)}]
    BY <1>6
  <1> QED
    BY <1>7 DEF Mark

\* The constructor of a guard takes the page latch: the abstract acquisition.
LEMMA LatchPageContent == ASSUME IInv, ContentInv, NEW t \in Threads, LatchPage(t) PROVE ContentStep
  <1>1. PICK f \in Frames, p \in Pages, k \in {"R", "W"} :
          /\ f = op[t].frame /\ p = op[t].page /\ k = op[t].kind /\ frames[f].page_id = p
    <2>1. op[t].pc = "latch"
      BY DEF LatchPage, At
    <2>2. op[t].frame \in Frames /\ op[t].page \in Pages /\ op[t].kind \in {"R", "W"}
      BY <2>1 DEF IInv, CallShape
    <2>3. frames[op[t].frame].page_id = op[t].page
      BY <2>1 DEF IInv, PinnersResident
    <2> QED
      BY <2>2, <2>3, Zenon
  <1>2. p \in DOMAIN page_table /\ page_table[p] = f
    BY <1>1, PoolAssumption DEF IInv, PageTableMatchesFrames, Resident, Pages
  <1> DEFINE g == [page |-> p, frame |-> f, kind |-> k]
  <1>3. /\ guards' = [guards EXCEPT ![t] = @ \cup {g}] /\ Return(t)
        /\ UNCHANGED <<page_table, disk>>
    BY <1>1 DEF LatchPage, pool
  <1>4. g.page = p /\ g.kind = k
    OBVIOUS
  <1> HIDE DEF g
  <1>5. \A u \in Threads : u # t => guards'[u] = guards[u]
    BY <1>3, Types
  <1>6. op'[t].pc = "idle" /\ \A u \in Threads : u # t => op'[u] = op[u]
    BY <1>3, ReturnEffect
  <1>7. /\ rwlatch[f].writer = None
        /\ k = "W" => rwlatch[f].readers = {}
        /\ \A u \in Threads, x \in Frames : u \in rwlatch[x].readers => u \in rwlatch'[x].readers
    <2>1. CASE k = "R" /\ AcquireShared(t, f)
      BY <2>1, SharedKeepsReaders
    <2>2. CASE k = "W" /\ AcquireExclusive(t, f)
      BY <2>2, ExclusiveKeepsReaders
    <2> QED
      BY <1>1, <2>1, <2>2, Zenon DEF LatchPage
  <1>8. \A x \in Frames : /\ frames'[x].page_id = frames[x].page_id
                          /\ frames'[x].data = frames[x].data
                          /\ frames[x].is_dirty => frames'[x].is_dirty
    <2>1. CASE UNCHANGED frames
      BY <2>1
    <2>2. CASE frames' = [frames EXCEPT ![f].is_dirty = TRUE]
      <3>1. /\ \A x \in Frames : /\ frames'[x].page_id = frames[x].page_id
                                 /\ frames'[x].data = frames[x].data
            /\ \A x \in Frames : x # f => frames'[x] = frames[x]
            /\ frames'[f].is_dirty
        BY <2>2, Types, DirtyUpdate, Zenon
      <3> QED
        BY <3>1
    <2> QED
      BY <1>1, <2>1, <2>2, Zenon DEF LatchPage
  <1>9. ThreadInv(t)'
    BY <1>6, RestingCall DEF UserPCs
  <1>10. OthersKeep(t)
    BY <1>5, <1>6, <1>7 DEF OthersKeep
  <1>11. ContentInv' /\ Content' = Content
    BY <1>3, <1>8, <1>9, <1>10, StableStep
  <1>12. ASSUME NEW u \in Threads
         PROVE  ~PS!Holds(u, p, "W") /\ (k = "W" => ~PS!Holds(u, p, "R"))
    <2>1. \A h \in guards[u] : h.frame = f => h.kind # "W" /\ (k = "W" => h.kind # "R")
      BY <1>7, PoolAssumption DEF IInv, GuardsLatched
    <2>2. ASSUME NEW j, PS!Holds(u, p, j) PROVE \E h \in guards[u] : h.kind = j /\ h.frame = f
      BY <1>2, <2>2, HolderOf
    <2> QED
      BY <2>1, <2>2, Zenon
  <1>13. Held' = [Held EXCEPT ![t] = @ \cup {[page |-> p, kind |-> k]}]
    <2>1. Held' = [Held EXCEPT ![t] = @ \cup {[page |-> g.page, kind |-> g.kind]}]
      BY <1>3, HeldAdded, Zenon
    <2> QED
      BY <1>4, <2>1
  <1>14. PS!Acquire(t, p, k)
    BY <1>11, <1>12, <1>13, Zenon DEF PS!Acquire
  <1>15. PS!Next
    BY <1>14, Zenon DEF PS!Next, PS!Kinds
  <1> QED
    BY <1>11, <1>15 DEF ContentStep

\* The first half of Drop gives the page latch back: the abstract release.
LEMMA DropContent ==
  ASSUME IInv, ContentInv, NEW t \in Threads, NEW g \in guards[t], Drop(t, g)
  PROVE  ContentStep
  <1>1. g.frame \in Frames /\ g.page \in Pages /\ g.kind \in {"R", "W"}
    BY Types DEF Guard
  <1> DEFINE c == [Idle EXCEPT !.pc = "unpin", !.frame = g.frame]
  <1>2. /\ op' = [op EXCEPT ![t] = c] /\ guards' = [guards EXCEPT ![t] = @ \ {g}]
        /\ UNCHANGED <<page_table, frames, disk>>
        /\ ReleaseShared(t, g.frame) \/ ReleaseExclusive(g.frame)
    BY DEF Drop, pool
  <1>3. c.pc = "unpin"
    BY Zenon DEF Idle
  <1> HIDE DEF c
  <1>4. op'[t] = c /\ \A u \in Threads : u # t => op'[u] = op[u]
    BY <1>2, CallReplaced, Zenon
  <1>5. \A u \in Threads : u # t => guards'[u] = guards[u]
    BY <1>2, Types
  <1>6. \A u \in Threads, x \in Frames :
           u # t /\ u \in rwlatch[x].readers => u \in rwlatch'[x].readers
    BY <1>1, <1>2, ReleaseKeepsReaders, Zenon
  <1>7. ThreadInv(t)'
    BY <1>3, <1>4, RestingCall DEF UserPCs
  <1>8. OthersKeep(t)
    BY <1>4, <1>5, <1>6 DEF OthersKeep
  <1>9. ContentInv' /\ Content' = Content
    BY <1>2, <1>7, <1>8, StableStep
  <1>10. Held' = [Held EXCEPT ![t] = @ \ {[page |-> g.page, kind |-> g.kind]}]
    BY <1>2, HeldRemoved, Zenon
  <1>11. PS!Holds(t, g.page, g.kind)
    BY HeldAt
  <1>12. PS!Release(t, g.page, g.kind)
    BY <1>9, <1>10, <1>11, Zenon DEF PS!Release
  <1>13. PS!Next
    BY <1>1, <1>12, Zenon DEF PS!Next, PS!Kinds
  <1> QED
    BY <1>9, <1>13 DEF ContentStep

-----------------------------------------------------------------------------
(* DeletePage and the flushes.                                             *)

\* Nobody holds a page that is not cached, or whose frame is not pinned.
LEMMA UnpinnedUnheld ==
  ASSUME IInv, NEW p \in Pages,
         p \in DOMAIN page_table => frames[page_table[p]].pin_count = 0,
         NEW u \in Threads, NEW k
  PROVE  ~PS!Holds(u, p, k)
  <1> SUFFICES ASSUME PS!Holds(u, p, k) PROVE FALSE
    OBVIOUS
  <1>1. PICK g \in guards[u] : g.frame = page_table[p] /\ p \in DOMAIN page_table
    BY HolderOf
  <1>2. g.frame \in Frames
    BY Types DEF Guard
  <1>3. <<u, g>> \in Pins(g.frame)
    BY <1>2, UsersPin, Zenon
  <1> QED
    BY <1>1, <1>2, <1>3, UnpinnedIsZero

\* A page is deleted, cached or not.
LEMMA DeletePageContent ==
  ASSUME IInv, ContentInv, NEW t \in Threads, NEW p \in Pages, DeletePage(t, p)
  PROVE  ContentStep
  <1>1. /\ bpm_latch = None /\ op[t].pc = "idle" /\ disk' = [disk EXCEPT ![p] = Unspecified]
        /\ UNCHANGED <<rwlatch, guards, op>>
    BY DEF DeletePage, DeallocatePage, Calls, At
  <1>2. disk'[p] = Unspecified /\ \A q \in Pages : q # p => disk'[q] = disk[q]
    BY <1>1, Types
  <1>3. ASSUME ContentInv', \A u \in Threads, k \in {"R", "W"} : ~PS!Holds(u, p, k),
               \A q \in Pages :
                  (IF q \in DOMAIN page_table' THEN frames'[page_table'[q]].data ELSE disk'[q])
                     = (IF q = p THEN Unspecified
                        ELSE IF q \in DOMAIN page_table THEN frames[page_table[q]].data ELSE disk[q])
        PROVE  ContentStep
    <2>1. Content' = [q \in Pages |-> IF q = p THEN Unspecified ELSE Content[q]]
      BY <1>3 DEF Content
    <2>2. Content = [q \in Pages |-> Content[q]]
      BY Zenon DEF Content
    <2>3. Content' = [Content EXCEPT ![p] = Unspecified]
      BY <2>1, <2>2
    <2>4. Held' = Held
      BY <1>1 DEF Held
    <2>5. PS!Delete(p)
      BY <1>3, <2>3, <2>4, Zenon DEF PS!Delete, PS!Kinds
    <2> QED
      BY <1>3, <2>5, Zenon DEF ContentStep, PS!Next
  <1>4. CASE p \notin DOMAIN page_table /\ UNCHANGED <<page_table, frames>>
    <2>1. \A u \in Threads, k \in {"R", "W"} : ~PS!Holds(u, p, k)
      BY <1>4, UnpinnedUnheld
    <2>2. \A x \in Frames : Resident(x) => disk'[frames[x].page_id] = disk[frames[x].page_id]
      <3>1. ASSUME NEW x \in Frames, Resident(x)
            PROVE  frames[x].page_id \in Pages /\ frames[x].page_id \in DOMAIN page_table
        BY <3>1, Types DEF IInv, PageTableMatchesFrames, FrameHeader, Resident
      <3> QED
        BY <1>2, <1>4, <3>1
    <2>3. ContentInv'
      BY <1>1, <1>4, <2>2, DiskStep
    <2>4. \A q \in Pages :
            (IF q \in DOMAIN page_table' THEN frames'[page_table'[q]].data ELSE disk'[q])
               = (IF q = p THEN Unspecified
                  ELSE IF q \in DOMAIN page_table THEN frames[page_table[q]].data ELSE disk[q])
      BY <1>2, <1>4
    <2> QED
      BY <1>3, <2>1, <2>3, <2>4, Zenon
  <1>5. CASE \E f \in Frames : /\ p \in DOMAIN page_table /\ f = page_table[p]
                               /\ frames[f].pin_count = 0
                               /\ page_table' = Erase(page_table, p)
                               /\ frames' = [frames EXCEPT ![f] = ResetFrame]
    <2>1. PICK f \in Frames : /\ p \in DOMAIN page_table /\ f = page_table[p]
                              /\ frames[f].pin_count = 0
                              /\ page_table' = Erase(page_table, p)
                              /\ frames' = [frames EXCEPT ![f] = ResetFrame]
      BY <1>5, Zenon
    <2>2. frames[f].page_id = p /\ Resident(f)
      BY <2>1, PoolAssumption DEF IInv, PageTableMatchesFrames, Resident, Pages
    <2>3. Vacate(f)
      BY <2>1, <2>2, Zenon DEF Vacate
    <2>4. /\ DOMAIN page_table' = DOMAIN page_table \ {p}
          /\ \A q \in DOMAIN page_table' : page_table'[q] = page_table[q]
          /\ \A x \in Frames : x # f => frames'[x] = frames[x]
          /\ \A x \in Frames : Resident(x)' <=> Resident(x) /\ x # f
      BY <2>2, <2>3, VacateEffect, Zenon
    <2>5. \A u \in Threads, k \in {"R", "W"} : ~PS!Holds(u, p, k)
      BY <2>1, UnpinnedUnheld
    <2>6. \A u \in Threads : op[u].pc \notin {"flush_write", "flush_clear"}
      BY <1>1, NoHolder
    <2>7. \A x \in Frames : x # f /\ Resident(x)
                              => disk'[frames[x].page_id] = disk[frames[x].page_id]
      <3> SUFFICES ASSUME NEW x \in Frames, x # f, Resident(x)
                   PROVE  disk'[frames[x].page_id] = disk[frames[x].page_id]
        OBVIOUS
      <3>1. frames[x].page_id # p /\ frames[x].page_id \in Pages
        BY <2>2, PagesDistinct, Types DEF FrameHeader, Resident
      <3> QED
        BY <1>2, <3>1
    <2>8. ContentInv'
      <3>1. op'[t].pc \notin UserPCs \cup {"flush"}
        BY <1>1 DEF UserPCs
      <3>2. ~Resident(f)'
        BY <2>4, Zenon
      <3>3. /\ UNCHANGED <<rwlatch, guards>> /\ frames[f].pin_count = 0
            /\ \A u \in Threads : u # t => op'[u] = op[u] /\ op[u].pc \notin {"flush_write", "flush_clear"}
        BY <1>1, <2>1, <2>6, Zenon
      <3> QED
        BY <2>4, <2>7, <3>1, <3>2, <3>3, MoveStep, Zenon
    <2>9. \A q \in DOMAIN page_table : page_table[q] \in Frames /\ (q # p => page_table[q] # f)
      BY <2>2, Types DEF IsMap, IInv, PageTableMatchesFrames
    <2>10. \A q \in Pages :
             (IF q \in DOMAIN page_table' THEN frames'[page_table'[q]].data ELSE disk'[q])
                = (IF q = p THEN Unspecified
                   ELSE IF q \in DOMAIN page_table THEN frames[page_table[q]].data ELSE disk[q])
      <3> SUFFICES ASSUME NEW q \in Pages
                   PROVE  (IF q \in DOMAIN page_table' THEN frames'[page_table'[q]].data ELSE disk'[q])
                            = (IF q = p THEN Unspecified
                               ELSE IF q \in DOMAIN page_table THEN frames[page_table[q]].data
                                    ELSE disk[q])
        BY Zenon
      <3>1. CASE q = p BY <1>2, <2>4, <3>1
      <3>2. CASE q # p /\ q \in DOMAIN page_table BY <2>4, <2>9, <3>2
      <3>3. CASE q # p /\ q \notin DOMAIN page_table BY <1>2, <2>4, <3>3
      <3> QED BY <3>1, <3>2, <3>3
    <2> QED
      BY <1>3, <2>5, <2>8, <2>10, Zenon
  <1> QED
    <2>1. p \in DOMAIN page_table => page_table[p] \in Frames
      BY Types DEF IsMap
    <2> QED
      BY <1>4, <1>5, <2>1 DEF DeletePage, pool

\* A flush enters its critical section, ...
LEMMA CallFlushContent ==
  ASSUME IInv, ContentInv, NEW t \in Threads, NEW ps, CallFlush(t, ps, "safe")
  PROVE  ContentStep
  <1> DEFINE c == [Idle EXCEPT !.pc = "flush", !.kind = "safe", !.todo = ps]
  <1>1. op' = [op EXCEPT ![t] = c] /\ UNCHANGED <<page_table, frames, rwlatch, disk, guards>>
    BY DEF CallFlush, pool
  <1>2. c.pc = "flush" /\ c.kind = "safe"
    BY Zenon DEF Idle
  <1> HIDE DEF c
  <1>3. op'[t] = c /\ \A u \in Threads : u # t => op'[u] = op[u]
    BY <1>1, CallReplaced, Zenon
  <1>4. ThreadInv(t)'
    BY <1>2, <1>3 DEF ThreadInv, FlushLatched, StoreMarked, WrittenCurrent
  <1>5. OthersKeep(t)
    BY <1>1, <1>3, OwnMove
  <1>6. ContentInv' /\ Content' = Content
    BY <1>1, <1>4, <1>5, StableStep
  <1> QED
    BY <1>1, <1>6, SilentStep

\* ... latches a dirty page or skips a clean one, ...
LEMMA FlushStartContent ==
  ASSUME IInv, ContentInv, NEW t \in Threads, FlushStart(t)
  PROVE  ContentStep
  <1>1. op[t].pc = "flush" /\ op[t].kind = "safe" /\ op[t] \in Call
    BY Types DEF FlushStart, At, ContentInv, ThreadInv, FlushLatched
  <1>2. PICK p \in op[t].todo :
           LET f == page_table[p]
           IN  \/ /\ op' = [op EXCEPT ![t].todo = @ \ {p}]
                  /\ UNCHANGED rwlatch
               \/ /\ op' = [op EXCEPT ![t].pc = "flush_write", ![t].page = p,
                                      ![t].frame = f, ![t].todo = @ \ {p}]
                  /\ AcquireShared(t, f)
    BY <1>1, Zenon DEF FlushStart
  <1>3. PICK f \in Frames : f = page_table[p]
    <2>1. p \in DOMAIN page_table
      BY <1>1 DEF IInv, CallShape
    <2> QED
      BY <2>1, Types DEF IsMap
  <1>4. UNCHANGED <<page_table, frames, disk, guards>>
    BY DEF FlushStart, pool
  <1>5. CASE op' = [op EXCEPT ![t].todo = @ \ {p}] /\ UNCHANGED rwlatch
    <2> DEFINE c == [op[t] EXCEPT !.todo = @ \ {p}]
    <2>1. op' = [op EXCEPT ![t] = c]
      BY <1>5, Zenon
    <2>2. c.pc = "flush" /\ c.kind = "safe"
      BY <1>1, Zenon DEF Call
    <2> HIDE DEF c
    <2>3. op'[t] = c /\ \A u \in Threads : u # t => op'[u] = op[u]
      BY <2>1, CallReplaced, Zenon
    <2>4. ThreadInv(t)'
      BY <2>2, <2>3 DEF ThreadInv, FlushLatched, StoreMarked, WrittenCurrent
    <2>5. OthersKeep(t)
      BY <1>4, <1>5, <2>3, OwnMove
    <2>6. ContentInv' /\ Content' = Content
      BY <1>4, <2>4, <2>5, StableStep
    <2> QED
      BY <1>4, <2>6, SilentStep
  <1>6. CASE /\ op' = [op EXCEPT ![t].pc = "flush_write", ![t].page = p,
                                 ![t].frame = f, ![t].todo = @ \ {p}]
             /\ AcquireShared(t, f)
    <2> DEFINE c == [op[t] EXCEPT !.pc = "flush_write", !.page = p, !.frame = f, !.todo = @ \ {p}]
    <2>1. op' = [op EXCEPT ![t] = c]
      BY <1>6, Types, Zenon
    <2>2. c.pc = "flush_write" /\ c.kind = "safe" /\ c.frame = f
      BY <1>1, Zenon DEF Call
    <2> HIDE DEF c
    <2>3. op'[t] = c /\ \A u \in Threads : u # t => op'[u] = op[u]
      BY <2>1, CallReplaced, Zenon
    <2>4. /\ t \in rwlatch'[f].readers
          /\ \A u \in Threads, x \in Frames : u \in rwlatch[x].readers => u \in rwlatch'[x].readers
      BY <1>6, SharedKeepsReaders
    <2>5. ThreadInv(t)'
      BY <2>2, <2>3, <2>4 DEF ThreadInv, FlushLatched, StoreMarked, WrittenCurrent
    <2>6. OthersKeep(t)
      BY <1>4, <2>3, <2>4 DEF OthersKeep
    <2>7. ContentInv' /\ Content' = Content
      BY <1>4, <2>5, <2>6, StableStep
    <2> QED
      BY <1>4, <2>7, SilentStep
  <1> QED
    BY <1>2, <1>3, <1>5, <1>6, Zenon

\* ... writes the page, ...
LEMMA FlushWriteContent ==
  ASSUME DiskFaults = {}, IInv, ContentInv, NEW t \in Threads, FlushWrite(t)
  PROVE  ContentStep
  <1>1. PICK p \in Pages, f \in Frames :
           /\ p = op[t].page /\ f = op[t].frame /\ p \in DOMAIN page_table /\ f = page_table[p]
    <2>1. op[t].pc = "flush_write"
      BY Zenon DEF FlushWrite, At
    <2>2. op[t].page \in DOMAIN page_table /\ op[t].frame = page_table[op[t].page]
      BY <2>1 DEF IInv, CallShape
    <2> QED
      BY <2>2, Types DEF IsMap
  <1>2. frames[f].page_id = p /\ Resident(f)
    BY <1>1, PoolAssumption DEF IInv, PageTableMatchesFrames, Resident, Pages
  <1>3. op[t].pc = "flush_write" /\ op[t].kind = "safe" /\ t \in rwlatch[f].readers
    <2>1. op[t].pc = "flush_write"
      BY Zenon DEF FlushWrite, At
    <2>2. FlushLatched(t)
      BY DEF ContentInv, ThreadInv
    <2>3. op[t].kind = "safe" /\ t \in rwlatch[op[t].frame].readers
      BY <2>1, <2>2 DEF FlushLatched
    <2> QED
      BY <1>1, <2>1, <2>3
  <1>4. PICK ok \in BOOLEAN, d \in FlushedData(t, f) :
           /\ IssueDiskWrite(p, d, ok)
           /\ ok => Goto(t, "flush_clear") /\ UNCHANGED rwlatch
    BY <1>1, Zenon DEF FlushWrite
  <1>5. d = frames[f].data
    BY <1>3 DEF FlushedData
  <1>6. ok /\ disk' = [disk EXCEPT ![p] = d] /\ disk'[p] = d
    BY <1>4, WriteDone
  <1>7. UNCHANGED <<page_table, frames, guards>>
    BY DEF FlushWrite, pool
  <1>8. /\ \A u \in Threads : u # t => op'[u] = op[u]
        /\ op'[t].pc = "flush_clear" /\ op'[t].frame = f /\ op'[t].kind = "safe"
    <2>1. Goto(t, "flush_clear") /\ "flush_clear" \in PCs
      BY <1>4, <1>6 DEF PCs
    <2> QED
      BY <1>1, <1>3, <2>1, GotoEffect, Zenon
  <1>9. ThreadInv(t)'
    <2>1. rwlatch' = rwlatch /\ frames'[f].data = disk'[frames'[f].page_id]
      BY <1>2, <1>4, <1>5, <1>6, <1>7
    <2>2. FlushLatched(t)'
      BY <1>3, <1>8, <2>1 DEF FlushLatched
    <2> QED
      BY <1>8, <2>1, <2>2 DEF ThreadInv, StoreMarked, WrittenCurrent
  <1>10. OthersKeep(t)
    BY <1>4, <1>6, <1>7, <1>8, OwnMove
  <1>11. ContentInv' /\ Content' = Content
    <2>1. disk' = [disk EXCEPT ![frames[f].page_id] = frames[f].data]
      BY <1>2, <1>5, <1>6
    <2> QED
      BY <1>2, <1>7, <1>9, <1>10, <2>1, SaveStep, Zenon
  <1> QED
    BY <1>7, <1>11, SilentStep

\* ... marks it clean and releases its latch, ...
LEMMA FlushClearContent ==
  ASSUME IInv, ContentInv, NEW t \in Threads, FlushClear(t)
  PROVE  ContentStep
  <1>1. PICK f \in Frames : f = op[t].frame
    BY UserFrames DEF FlushClear, At, UserPCs
  <1>2. op[t].pc = "flush_clear" /\ op[t].kind = "safe" /\ op[t] \in Call
    BY Types DEF FlushClear, At, ContentInv, ThreadInv, FlushLatched
  <1> DEFINE c == [op[t] EXCEPT !.pc = "flush", !.page = None, !.frame = None]
  <1>3. /\ frames' = [frames EXCEPT ![f].is_dirty = FALSE] /\ ReleaseShared(t, f)
        /\ UNCHANGED <<page_table, disk, guards>>
    BY <1>1, <1>2 DEF FlushClear, EndFlushOne, pool
  <1>4. op' = [op EXCEPT ![t] = c]
    BY Types, Zenon DEF FlushClear, EndFlushOne
  <1>5. c.pc = "flush" /\ c.kind = "safe"
    BY <1>2, Zenon DEF Call
  <1> HIDE DEF c
  <1>6. op'[t] = c /\ \A u \in Threads : u # t => op'[u] = op[u]
    BY <1>4, CallReplaced, Zenon
  <1>7. /\ \A x \in Frames : /\ frames'[x].page_id = frames[x].page_id
                             /\ frames'[x].data = frames[x].data
        /\ \A x \in Frames : x # f => frames'[x] = frames[x]
    BY <1>3, Types, DirtyUpdate, Zenon
  <1>8. ThreadInv(t)'
    BY <1>5, <1>6 DEF ThreadInv, FlushLatched, StoreMarked, WrittenCurrent
  <1>9. OthersKeep(t)
    BY <1>3, <1>6, ReleaseKeepsReaders DEF OthersKeep
  <1>10. ContentInv' /\ Content' = Content
    <2>1. op[t].pc \in {"gclear", "flush_clear"} /\ UNCHANGED <<page_table, disk>>
      BY <1>2, <1>3
    <2> QED
      BY <1>1, <1>7, <1>8, <1>9, <2>1, ClearStep, Zenon
  <1> QED
    BY <1>3, <1>10, SilentStep

\* ... and returns.
LEMMA FlushReturnContent ==
  ASSUME IInv, ContentInv, NEW t \in Threads, FlushReturn(t)
  PROVE  ContentStep
  <1>1. Return(t) /\ UNCHANGED <<page_table, frames, rwlatch, disk, guards>>
    BY DEF FlushReturn, pool
  <1>2. op'[t].pc = "idle" /\ \A u \in Threads : u # t => op'[u] = op[u]
    BY <1>1, ReturnEffect
  <1>3. ThreadInv(t)' /\ OthersKeep(t)
    BY <1>1, <1>2, RestingCall, OwnMove DEF UserPCs
  <1>4. ContentInv' /\ Content' = Content
    BY <1>1, <1>3, StableStep
  <1> QED
    BY <1>1, <1>4, SilentStep

-----------------------------------------------------------------------------
(* The initial state, and every step.                                      *)

\* Nothing is cached, and nothing is held.
LEMMA InitContent == Init => ContentInv /\ PS!Init
  <1> SUFFICES ASSUME Init PROVE ContentInv /\ PS!Init
    OBVIOUS
  <1>1. \A t \in Threads : op[t].pc = "idle" /\ guards[t] = {}
    BY DEF Init, Idle
  <1>2. \A f \in Frames : ~Resident(f)
    BY DEF Init, Resident, ResetFrame
  <1>3. ContentInv
    BY <1>1, <1>2
    DEF ContentInv, CleanMatchesDisk, ThreadInv, FlushLatched, StoreMarked, WrittenCurrent
  <1>4. Content = [p \in Pages |-> Unspecified]
    BY DEF Init, Content, EmptyMap
  <1>5. Held = [t \in Threads |-> {}]
    BY <1>1 DEF Held
  <1> QED
    BY <1>3, <1>4, <1>5, Zenon DEF PS!Init

\* One case per operation.
LEMMA NextContent ==
  ASSUME DiskFaults = {}, "unsafe" \notin FlushModes, IInv, ContentInv, [Next]_vars
  PROVE  ContentStep
  <1>1. CASE UNCHANGED vars
    <2>1. UNCHANGED <<page_table, frames, rwlatch, disk, guards, op>>
      BY <1>1 DEF vars, pool
    <2>2. ContentInv'
      <3>1. CleanMatchesDisk'
        BY <2>1 DEF ContentInv, CleanMatchesDisk, Resident
      <3>2. ASSUME NEW t \in Threads PROVE ThreadInv(t)'
        BY <2>1, SameThread
      <3> QED
        BY <3>1, <3>2 DEF ContentInv
    <2>3. Content' = Content
      BY <2>1 DEF Content
    <2> QED
      BY <2>1, <2>2, <2>3, SilentStep
  <1>2. ASSUME NEW t \in Threads, Step(t) PROVE ContentStep
    <2>1. CASE NewPage(t) \/ LookupHit(t) \/ LookupNullopt(t)
      BY <2>1, NewPageContent, LookupHitContent, LookupNulloptContent
    <2>2. ASSUME NEW p \in Pages, NEW k \in {"R", "W"}, CallCheckedPage(t, p, k) PROVE ContentStep
      BY <2>2, CallCheckedPageContent
    <2>3. CASE LookupFree(t) \/ LookupEvict(t)
      BY <2>3, LookupFreeContent, LookupEvictContent
    <2>4. CASE LatchPage(t) \/ Store(t) \/ GuardFlushClear(t) \/ Unpin(t)
      BY <2>4, LatchPageContent, StoreContent, GuardFlushClearContent, UnpinContent
    <2>5. ASSUME NEW g \in guards[t], GetDataMut(t, g) \/ GuardFlush(t, g) \/ Drop(t, g)
          PROVE  ContentStep
      BY <2>5, GetDataMutContent, GuardFlushContent, DropContent
    <2>6. ASSUME NEW p \in Pages, DeletePage(t, p) PROVE ContentStep
      BY <2>6, DeletePageContent
    <2>7. ASSUME NEW m \in FlushModes, FlushPage(t, m) \/ FlushAllPages(t, m) PROVE ContentStep
      <3>1. m = "safe"
        BY PoolAssumption
      <3>2. PICK ps : CallFlush(t, ps, "safe")
        BY <2>7, <3>1, Zenon DEF FlushPage, FlushAllPages
      <3> QED
        BY <3>2, CallFlushContent
    <2>8. CASE LatchHolderStep(t)
      BY <2>8, WriteBackContent, LoadContent, FlushStartContent, FlushWriteContent,
         FlushClearContent, FlushReturnContent DEF LatchHolderStep
    <2> QED
      BY <1>2, <2>1, <2>2, <2>3, <2>4, <2>5, <2>6, <2>7, <2>8, Zenon DEF Step
  <1> QED
    BY <1>1, <1>2 DEF Next

=============================================================================
