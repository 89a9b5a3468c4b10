-------------------------- MODULE DiskManagerProofs -------------------------
(***************************************************************************)
(* The disk manager over a file, for any number of pages, any initial      *)
(* capacity and failing system calls: its slots stay consistent, and it is *)
(* the store of pages its callers rely on.                                 *)
(***************************************************************************)
EXTENDS DiskManager, FiniteSetTheorems, TLAPS

\* Overwriting a field adds and removes none. In the scope of every proof this also
\* keeps the SMT translation from inferring types: the translation tries that first
\* and gives it up at an update of a field, and what it has inferred is never
\* forgotten, so that in a module of this length each leaf takes longer than the last.
LEMMA FieldUpdate == \A r : DOMAIN [r EXCEPT !.slot = 0] = DOMAIN r
  OBVIOUS

USE FieldUpdate

\* The file stays below 2^31 bytes, where GetFileSize gives its size.  The
\* capacity is doubled only while it is at most the number of pages.
FileFitsInt ==
    /\ DEFAULT_DB_IO_SIZE + 1 < IntPages
    /\ 2 * Cardinality(Pages) + 1 < IntPages

-----------------------------------------------------------------------------
(* The inductive invariant.                                                *)

SlotTypes ==
    /\ IsMap(pages, Pages, Nat)
    /\ free_slots \in Seq(Nat)
    /\ page_capacity \in Nat \ {0}
    /\ FileSize \in Nat /\ file \in [0 .. FileSize - 1 -> Data]
    /\ failed \subseteq Faults

\* AllocatePage hands out slots below the capacity, and an access maps one only
\* where the file reaches it: a read may map the slot just behind the end.
SlotsReached ==
    /\ \A p \in DOMAIN pages : pages[p] < page_capacity /\ pages[p] <= FileSize
    /\ \A i \in DOMAIN free_slots :
          free_slots[i] < page_capacity /\ free_slots[i] <= FileSize

\* The file has room for the capacity, unless resize_file failed.
FileCovers ==
    /\ SlotCount <= Cardinality(Pages) /\ SlotCount <= page_capacity
    /\ FileSize <= page_capacity + 1 /\ page_capacity + 1 < IntPages
    /\ "resize" \notin failed => FileSize = page_capacity + 1

DInv == SlotTypes /\ SlotsReached /\ FileCovers /\ SlotsPartitioned

-----------------------------------------------------------------------------
(* Facts about the operators.                                              *)

\* The number of slots of a file is its size.
LEMMA SizeOfFile ==
    ASSUME NEW n \in Nat, NEW f, DOMAIN f = 0 .. n - 1
    PROVE  Cardinality(DOMAIN f) = n
  BY FS_Interval, SMT

\* resize_file keeps what is there and fills the rest with null bytes.
LEMMA ResizedFile ==
    ASSUME NEW n \in Nat, NEW m \in Nat, NEW f \in [0 .. n - 1 -> Data]
    PROVE  /\ Resized(f, m) \in [0 .. m - 1 -> Data]
           /\ Cardinality(DOMAIN Resized(f, m)) = m
           /\ \A i \in 0 .. m - 1 : Resized(f, m)[i] = IF i \in DOMAIN f THEN f[i] ELSE Zero
  <1>1. Resized(f, m) \in [0 .. m - 1 -> Data] BY DEF Resized, Data
  <1>2. Cardinality(DOMAIN Resized(f, m)) = m BY <1>1, SizeOfFile
  <1>3. QED BY <1>1, <1>2 DEF Resized

\* A size below 2^31 bytes survives the cast to int.
LEMMA IntSize ==
    ASSUME NEW n \in Nat, NEW k \in Nat, n < k
    PROVE  ((n + k) % (2 * k)) - k = n
  <1>1. (n + k) % (2 * k) = n + k BY SMT
  <1>2. QED BY <1>1

\* An access to a page of Pages has at most that page to add.
LEMMA KeysOf ==
    ASSUME SlotTypes, NEW p \in Pages
    PROVE  /\ IsFiniteSet(DOMAIN pages) /\ Cardinality(DOMAIN pages) \in Nat
           /\ Cardinality(Pages) \in Nat /\ Cardinality(DOMAIN pages \cup {p}) \in Nat
           /\ p \in DOMAIN pages => /\ DOMAIN pages \cup {p} = DOMAIN pages
                                    /\ Cardinality(DOMAIN pages \ {p}) = Cardinality(DOMAIN pages) - 1
           /\ p \notin DOMAIN pages =>
                /\ Cardinality(DOMAIN pages \cup {p}) = Cardinality(DOMAIN pages) + 1
                /\ Cardinality(DOMAIN pages) + 1 <= Cardinality(Pages)
  <1>1. IsFiniteSet(Pages) /\ DOMAIN pages \in SUBSET Pages
    BY DiskAssumption DEF SlotTypes, IsMap
  <1>2. IsFiniteSet(DOMAIN pages) BY <1>1, FS_Subset
  <1>3. Cardinality(DOMAIN pages) \in Nat /\ Cardinality(Pages) \in Nat
    BY <1>1, <1>2, FS_CardinalityType
  <1>4. Cardinality(DOMAIN pages \cup {p}) <= Cardinality(Pages)
    <2>1. DOMAIN pages \cup {p} \in SUBSET Pages BY <1>1
    <2>2. QED BY <1>1, <2>1, FS_Subset
  <1>5. Cardinality(DOMAIN pages \cup {p}) =
          IF p \in DOMAIN pages THEN Cardinality(DOMAIN pages) ELSE Cardinality(DOMAIN pages) + 1
    BY <1>2, FS_AddElement
  <1>6. Cardinality(DOMAIN pages \ {p}) =
          IF p \in DOMAIN pages THEN Cardinality(DOMAIN pages) - 1 ELSE Cardinality(DOMAIN pages)
    BY <1>2, FS_RemoveElement
  <1>7. p \in DOMAIN pages => DOMAIN pages \cup {p} = DOMAIN pages OBVIOUS
  <1>8. QED BY <1>2, <1>3, <1>4, <1>5, <1>6, <1>7

-----------------------------------------------------------------------------
(* Slots.                                                                  *)

Keys(p) == Cardinality(DOMAIN pages \cup {p})

\* The slot, the free list and the capacity fit together.
SlotFits(p, a) ==
    /\ a.slot \in Nat /\ a.free \in Seq(Nat) /\ a.capacity \in Nat \ {0}
    /\ Keys(p) + Len(a.free) <= Cardinality(Pages) /\ Keys(p) + Len(a.free) <= a.capacity
    /\ page_capacity <= a.capacity /\ a.slot < a.capacity /\ a.capacity + 1 < IntPages
    /\ \A i \in DOMAIN a.free : a.free[i] < page_capacity /\ a.free[i] <= FileSize
    /\ p \in DOMAIN pages => a.slot = pages[p]
    /\ p \in DOMAIN pages \/ a.slot > FileSize => a.free = free_slots

\* The file has grown with the capacity, by null bytes.
FileGrown(a, size) ==
    /\ size \in Nat /\ a.file \in [0 .. size - 1 -> Data]
    /\ FileSize <= size /\ size <= a.capacity + 1
    /\ "resize" \notin failed => size = a.capacity + 1
    /\ \A i \in 0 .. size - 1 : a.file[i] = IF i \in DOMAIN file THEN file[i] ELSE Zero

\* The slot is nobody else's.
SlotUnshared(p, a) ==
    ~bad =>
      /\ \A q \in DOMAIN pages \ {p} : pages[q] # a.slot
      /\ \A i \in DOMAIN a.free : a.free[i] # a.slot
      /\ \A i, j \in DOMAIN a.free : a.free[i] = a.free[j] => i = j
      /\ \A q \in DOMAIN pages, i \in DOMAIN a.free : pages[q] # a.free[i]
      /\ a.slot < Keys(p) + Len(a.free)
      /\ \A q \in DOMAIN pages : pages[q] < Keys(p) + Len(a.free)
      /\ \A i \in DOMAIN a.free : a.free[i] < Keys(p) + Len(a.free)

\* What an access to page p may rely on in the slot it gets.
SlotOK(p, a) ==
    SlotFits(p, a) /\ FileGrown(a, Cardinality(DOMAIN a.file)) /\ SlotUnshared(p, a)

\* free_slots_.back() and pop_back().
LEMMA Popped ==
    ASSUME NEW s \in Seq(Nat), s # <<>>
    PROVE  LET k == Len(s)
               t == SubSeq(s, 1, k - 1)
           IN  /\ k \in Nat \ {0} /\ k \in DOMAIN s
               /\ t \in Seq(Nat) /\ Len(t) = k - 1 /\ DOMAIN t = 1 .. k - 1
               /\ \A i \in DOMAIN t : i \in DOMAIN s /\ t[i] = s[i]
  <1>1. Len(s) \in Nat \ {0} /\ DOMAIN s = 1 .. Len(s) OBVIOUS
  <1>2. SubSeq(s, 1, Len(s) - 1) = [i \in 1 .. Len(s) - 1 |-> s[i]] BY <1>1
  <1>3. QED BY <1>1, <1>2

\* A slot for a page without one: the last free slot, or the one behind all others.
LEMMA Allocation ==
    ASSUME DInv, FileFitsInt, NEW p \in Pages, p \notin DOMAIN pages
    PROVE  SlotOK(p, AllocatePage)
  <1> DEFINE a == AllocatePage
             n == Cardinality(DOMAIN pages)
  <1>1. /\ n \in Nat /\ Keys(p) = n + 1 /\ n + 1 <= Cardinality(Pages)
        /\ Cardinality(Pages) \in Nat /\ IntPages \in Nat
    BY KeysOf, DiskAssumption DEF DInv, Keys
  <1>2. /\ free_slots \in Seq(Nat) /\ page_capacity \in Nat \ {0}
        /\ FileSize \in Nat /\ file \in [0 .. FileSize - 1 -> Data]
        /\ Cardinality(DOMAIN file) = FileSize
        /\ \A q \in DOMAIN pages : pages[q] \in Nat
    BY DEF DInv, SlotTypes, IsMap, FileSize
  <1>3. /\ n + Len(free_slots) <= Cardinality(Pages) /\ n + Len(free_slots) <= page_capacity
        /\ FileSize <= page_capacity + 1 /\ page_capacity + 1 < IntPages
        /\ "resize" \notin failed => FileSize = page_capacity + 1
    BY DEF DInv, FileCovers, SlotCount
  <1> HIDE DEF n
  <1> SUFFICES SlotOK(p, a) OBVIOUS
  <1>4. CASE free_slots # <<>>
    <2> DEFINE k == Len(free_slots)
    <2>1. /\ a.slot = free_slots[k] /\ a.capacity = page_capacity /\ a.file = file
          /\ a.free = SubSeq(free_slots, 1, k - 1)
      BY <1>4 DEF AllocatePage
    <2>2. /\ k \in Nat \ {0} /\ k \in DOMAIN free_slots
          /\ a.free \in Seq(Nat) /\ Len(a.free) = k - 1 /\ DOMAIN a.free = 1 .. k - 1
          /\ \A i \in DOMAIN a.free : i \in DOMAIN free_slots /\ a.free[i] = free_slots[i]
      BY <1>2, <1>4, <2>1, Popped
    <2> HIDE DEF a
    <2>3. a.slot \in Nat /\ a.slot < page_capacity /\ a.slot <= FileSize
      BY <1>2, <2>1, <2>2 DEF DInv, SlotsReached
    <2>4. \A i \in DOMAIN a.free : a.free[i] < page_capacity /\ a.free[i] <= FileSize
      BY <2>2 DEF DInv, SlotsReached
    <2>5. SlotUnshared(p, a)
      <3>1. Keys(p) + Len(a.free) = SlotCount BY <1>1, <2>2 DEF n, SlotCount
      <3>2. \A i \in DOMAIN a.free : i # k BY <2>2
      <3>3. QED BY <2>1, <2>2, <3>1, <3>2 DEF DInv, SlotsPartitioned, NoSharedSlot, SlotUnshared
    <2>6. \A i \in 0 .. FileSize - 1 : a.file[i] = IF i \in DOMAIN file THEN file[i] ELSE Zero
      BY <1>2, <2>1
    <2>7. Keys(p) + Len(a.free) <= Cardinality(Pages) /\ Keys(p) + Len(a.free) <= a.capacity
      <3>1. Keys(p) + Len(a.free) = n + k BY <1>1, <2>2
      <3>2. QED BY <1>2, <1>3, <2>1, <3>1
    <2>8. ~(p \in DOMAIN pages \/ a.slot > FileSize)
      BY <1>2, <2>3
    <2>9. QED
      <3>1. SlotFits(p, a) BY <1>2, <1>3, <2>1, <2>2, <2>3, <2>4, <2>7, <2>8 DEF SlotFits
      <3>2. FileGrown(a, FileSize) BY <1>2, <1>3, <2>1, <2>6 DEF FileGrown
      <3>3. QED BY <1>2, <2>1, <2>5, <3>1, <3>2 DEF SlotOK
  <1>5. CASE free_slots = <<>>
    <2> DEFINE capacity == IF NeedsResize THEN 2 * page_capacity ELSE page_capacity
               size == IF NeedsResize THEN capacity + 1 ELSE FileSize
    <2>1. /\ a.slot = n /\ a.capacity = capacity /\ a.free = <<>>
          /\ a.file = IF NeedsResize THEN Resized(file, capacity + 1) ELSE file
      BY <1>5 DEF AllocatePage, n
    <2>2. NeedsResize <=> n + 1 >= page_capacity
      BY <1>5 DEF NeedsResize, n
    <2>3. /\ capacity \in Nat \ {0} /\ page_capacity <= capacity /\ n + 1 <= capacity
          /\ capacity + 1 < IntPages
      <3>1. CASE NeedsResize
        <4>1. capacity = 2 * page_capacity /\ n + 1 >= page_capacity BY <2>2, <3>1
        <4>2. 2 * Cardinality(Pages) + 1 < IntPages BY DEF FileFitsInt
        <4>3. n <= page_capacity BY <1>1, <1>2, <1>3
        <4> HIDE DEF capacity
        <4>4. page_capacity \in Nat \ {0} BY <1>2
        <4>5. capacity + 1 < IntPages BY <1>1, <4>1, <4>2, <4>4
        <4>6. QED BY <1>1, <4>1, <4>3, <4>4, <4>5
      <3>2. CASE ~NeedsResize
        <4>1. capacity = page_capacity /\ n + 1 < page_capacity BY <1>1, <1>2, <2>2, <3>2
        <4> HIDE DEF capacity
        <4>2. QED BY <1>1, <1>2, <1>3, <4>1
      <3>3. QED BY <3>1, <3>2
    <2> HIDE DEF a, capacity
    <2>4. /\ size \in Nat /\ a.file \in [0 .. size - 1 -> Data]
          /\ Cardinality(DOMAIN a.file) = size
          /\ \A i \in 0 .. size - 1 : a.file[i] = IF i \in DOMAIN file THEN file[i] ELSE Zero
      <3>1. CASE NeedsResize
        <4>1. size = capacity + 1 /\ a.file = Resized(file, size) /\ size \in Nat
          BY <2>1, <2>3, <3>1
        <4>2. FileSize \in Nat /\ file \in [0 .. FileSize - 1 -> Data] BY <1>2
        <4> HIDE DEF size
        <4>3. QED BY <4>1, <4>2, ResizedFile
      <3>2. CASE ~NeedsResize BY <1>2, <2>1, <3>2
      <3>3. QED BY <3>1, <3>2
    <2>5. /\ FileSize <= size /\ size <= capacity + 1
          /\ "resize" \notin failed => size = capacity + 1
      BY <1>2, <1>3, <2>3 DEF capacity
    <2> HIDE DEF size
    <2>6. Len(a.free) = 0 /\ a.free \in Seq(Nat) /\ DOMAIN a.free = {}
      BY <2>1
    <2>7. ~bad => \A q \in DOMAIN pages : pages[q] < n
      BY <1>1, <1>5 DEF DInv, SlotsPartitioned, SlotCount, n
    <2>8. QED
      <3>1. SlotFits(p, a) BY <1>1, <1>2, <1>5, <2>1, <2>3, <2>6 DEF SlotFits
      <3>2. FileGrown(a, size) BY <2>1, <2>4, <2>5 DEF FileGrown
      <3>3. SlotUnshared(p, a) BY <1>1, <1>2, <2>1, <2>6, <2>7 DEF SlotUnshared
      <3>4. QED BY <2>4, <3>1, <3>2, <3>3 DEF SlotOK
  <1>6. QED BY <1>4, <1>5

\* Every access gets such a slot.
LEMMA SlotForOK ==
    ASSUME DInv, FileFitsInt, NEW p \in Pages
    PROVE  SlotOK(p, SlotFor(p))
  <1>1. CASE p \notin DOMAIN pages
    BY <1>1, Allocation DEF SlotFor
  <1>2. CASE p \in DOMAIN pages
    <2> DEFINE a == SlotFor(p)
               n == Cardinality(DOMAIN pages)
    <2>1. /\ a.slot = pages[p] /\ a.capacity = page_capacity /\ a.file = file
          /\ a.free = free_slots
      BY <1>2 DEF SlotFor
    <2>2. n \in Nat /\ Keys(p) = n BY <1>2, KeysOf DEF DInv, Keys
    <2>3. /\ free_slots \in Seq(Nat) /\ page_capacity \in Nat \ {0}
          /\ FileSize \in Nat /\ file \in [0 .. FileSize - 1 -> Data]
          /\ Cardinality(DOMAIN file) = FileSize
          /\ pages[p] \in Nat
      BY <1>2 DEF DInv, SlotTypes, IsMap, FileSize
    <2> SUFFICES SlotOK(p, a) OBVIOUS
    <2> HIDE DEF a
    <2>4. Keys(p) + Len(a.free) = SlotCount BY <2>1, <2>2 DEF SlotCount
    <2>5. SlotFits(p, a)
      BY <1>2, <2>1, <2>3, <2>4 DEF SlotFits, DInv, SlotsReached, FileCovers
    <2>6. FileGrown(a, FileSize)
      BY <2>1, <2>3 DEF FileGrown, DInv, FileCovers
    <2>7. SlotUnshared(p, a)
      BY <1>2, <2>1, <2>4 DEF SlotUnshared, DInv, SlotsPartitioned, NoSharedSlot
    <2>8. QED BY <2>1, <2>3, <2>5, <2>6, <2>7 DEF SlotOK
  <1>3. QED BY <1>1, <1>2

\* A map with one more key, or the key's value replaced.
LEMMA PutMap ==
    ASSUME NEW p \in Pages, NEW s \in Nat, IsMap(pages, Pages, Nat), pages' = Put(pages, p, s)
    PROVE  /\ IsMap(pages', Pages, Nat) /\ DOMAIN pages' = DOMAIN pages \cup {p}
           /\ pages'[p] = s /\ \A q \in DOMAIN pages \ {p} : pages'[q] = pages[q]
  BY DEF IsMap, Put

\* The access maps the page to its slot, in a file that reaches the slot.
LEMMA Mapped ==
    ASSUME DInv, NEW p \in Pages, NEW a, SlotOK(p, a),
           Allocated(a), pages' = Put(pages, p, a.slot), UNCHANGED failed,
           NEW size \in Nat, file' \in [0 .. size - 1 -> Data],
           Cardinality(DOMAIN a.file) <= size, a.slot <= size, size <= a.capacity + 1
    PROVE  DInv'
  <1> DEFINE n == Keys(p)
  <1>1. SlotFits(p, a) /\ FileGrown(a, Cardinality(DOMAIN a.file)) /\ SlotUnshared(p, a)
    BY DEF SlotOK
  <1>2. /\ IsMap(pages, Pages, Nat) /\ FileSize \in Nat /\ page_capacity \in Nat
        /\ failed \subseteq Faults
    BY DEF DInv, SlotTypes
  <1>3. page_capacity' = a.capacity /\ free_slots' = a.free BY DEF Allocated
  <1>4. /\ IsMap(pages', Pages, Nat) /\ DOMAIN pages' = DOMAIN pages \cup {p}
        /\ pages'[p] = a.slot /\ \A q \in DOMAIN pages \ {p} : pages'[q] = pages[q]
    <2>1. a.slot \in Nat BY <1>1 DEF SlotFits
    <2>2. QED BY <1>2, <2>1, PutMap, Zenon
  <1>5. FileSize' = size BY SizeOfFile DEF FileSize
  <1>6. Cardinality(DOMAIN pages') = n BY <1>4 DEF Keys
  <1>7. n \in Nat BY KeysOf DEF DInv, Keys
  <1>8. SlotCount' = n + Len(a.free) BY <1>3, <1>6 DEF SlotCount
  <1>9. SlotTypes' BY <1>1, <1>2, <1>3, <1>4, <1>5 DEF SlotTypes, SlotFits
  <1>10. SlotsReached'
    <2>1. a.capacity \in Nat /\ page_capacity <= a.capacity /\ FileSize <= size
      BY <1>1, <1>2 DEF SlotFits, FileGrown
    <2>2. \A q \in DOMAIN pages : pages[q] \in Nat /\ pages[q] < page_capacity /\ pages[q] <= FileSize
      BY <1>2 DEF DInv, SlotsReached, IsMap
    <2>3. \A i \in DOMAIN a.free : a.free[i] \in Nat /\ a.free[i] < page_capacity /\ a.free[i] <= FileSize
      BY <1>1 DEF SlotFits
    <2>4. a.slot \in Nat /\ a.slot < a.capacity BY <1>1 DEF SlotFits
    <2>5. QED BY <1>2, <1>3, <1>4, <1>5, <2>1, <2>2, <2>3, <2>4 DEF SlotsReached
  <1>11. FileCovers'
    <2>1. /\ n + Len(a.free) <= Cardinality(Pages) /\ n + Len(a.free) <= a.capacity
          /\ a.capacity \in Nat /\ a.capacity + 1 < IntPages
      BY <1>1 DEF SlotFits
    <2>2. "resize" \notin failed => size = a.capacity + 1
      BY <1>1, <2>1 DEF FileGrown
    <2>3. QED BY <1>3, <1>5, <1>8, <2>1, <2>2 DEF FileCovers
  <1>12. SlotsPartitioned'
    <2>1. SUFFICES ASSUME ~bad PROVE SlotsPartitioned'
      BY DEF bad, SlotsPartitioned
    <2>2. /\ \A q \in DOMAIN pages \ {p} : pages[q] # a.slot
          /\ \A i \in DOMAIN a.free : a.free[i] # a.slot
          /\ \A i, j \in DOMAIN a.free : a.free[i] = a.free[j] => i = j
          /\ \A q \in DOMAIN pages, i \in DOMAIN a.free : pages[q] # a.free[i]
          /\ a.slot < n + Len(a.free)
          /\ \A q \in DOMAIN pages : pages[q] < n + Len(a.free)
          /\ \A i \in DOMAIN a.free : a.free[i] < n + Len(a.free)
      BY <1>1, <2>1 DEF SlotUnshared
    <2>3. \A q, r \in DOMAIN pages : pages[q] = pages[r] => q = r
      BY <2>1 DEF DInv, SlotsPartitioned, NoSharedSlot
    <2> HIDE DEF n
    <2>4. \A q, r \in DOMAIN pages' : pages'[q] = pages'[r] => q = r
      BY <1>4, <2>2, <2>3
    <2>5. \A q \in DOMAIN pages' : /\ \A i \in DOMAIN free_slots' : pages'[q] # free_slots'[i]
                                  /\ pages'[q] < SlotCount'
      BY <1>3, <1>4, <1>8, <2>2
    <2>6. \A i \in DOMAIN free_slots' :
             /\ \A j \in DOMAIN free_slots' : free_slots'[i] = free_slots'[j] => i = j
             /\ free_slots'[i] < SlotCount'
      BY <1>3, <1>8, <2>2
    <2>7. QED BY <2>4, <2>5, <2>6 DEF SlotsPartitioned, NoSharedSlot
  <1>13. QED BY <1>9, <1>10, <1>11, <1>12 DEF DInv

\* An access that leaves the page without a slot: nothing is lost from the free
\* list unless a write failed.
LEMMA NotMapped ==
    ASSUME DInv, NEW p \in Pages, NEW a, SlotOK(p, a),
           Allocated(a), file' = a.file, UNCHANGED pages,
           failed' \subseteq Faults, "resize" \in failed' <=> "resize" \in failed,
           bad' \/ (a.free = free_slots /\ UNCHANGED failed)
    PROVE  DInv'
  <1> DEFINE size == Cardinality(DOMAIN a.file)
             n == Cardinality(DOMAIN pages)
  <1>1. SlotFits(p, a) /\ FileGrown(a, size) BY DEF SlotOK
  <1>2. page_capacity' = a.capacity /\ free_slots' = a.free /\ FileSize' = size
    BY DEF Allocated, FileSize
  <1>3. /\ n \in Nat /\ Keys(p) \in Nat /\ n <= Keys(p) /\ Cardinality(Pages) \in Nat
    <2>1. p \in DOMAIN pages => Keys(p) = n BY KeysOf DEF DInv, Keys
    <2>2. p \notin DOMAIN pages => Keys(p) = n + 1 BY KeysOf DEF DInv, Keys
    <2>3. n \in Nat /\ Keys(p) \in Nat /\ Cardinality(Pages) \in Nat BY KeysOf DEF DInv, Keys
    <2>4. QED BY <2>1, <2>2, <2>3
  <1>4. SlotCount' = n + Len(a.free) BY <1>2 DEF SlotCount
  <1>5. /\ IsMap(pages, Pages, Nat) /\ FileSize \in Nat /\ page_capacity \in Nat
    BY DEF DInv, SlotTypes
  <1> HIDE DEF n, size
  <1>6. SlotTypes'
    <2>1. size \in Nat /\ file' \in [0 .. size - 1 -> Data] BY <1>1 DEF FileGrown
    <2>2. QED BY <1>1, <1>2, <1>5, <2>1 DEF SlotTypes, SlotFits
  <1>7. SlotsReached'
    <2>1. a.capacity \in Nat /\ page_capacity <= a.capacity /\ size \in Nat /\ FileSize <= size
      BY <1>1 DEF SlotFits, FileGrown
    <2>2. \A q \in DOMAIN pages : pages[q] \in Nat /\ pages[q] < page_capacity /\ pages[q] <= FileSize
      BY <1>5 DEF DInv, SlotsReached, IsMap
    <2>3. \A i \in DOMAIN a.free : a.free[i] \in Nat /\ a.free[i] < page_capacity /\ a.free[i] <= FileSize
      BY <1>1 DEF SlotFits
    <2>4. QED BY <1>2, <1>5, <2>1, <2>2, <2>3 DEF SlotsReached
  <1>8. FileCovers'
    <2>1. /\ Keys(p) + Len(a.free) <= Cardinality(Pages) /\ Keys(p) + Len(a.free) <= a.capacity
          /\ a.capacity \in Nat /\ a.capacity + 1 < IntPages /\ Len(a.free) \in Nat
      BY <1>1 DEF SlotFits
    <2>2. /\ size <= a.capacity + 1
          /\ "resize" \notin failed => size = a.capacity + 1
      BY <1>1 DEF FileGrown
    <2>3. SlotCount' <= Cardinality(Pages) /\ SlotCount' <= a.capacity
      BY <1>3, <1>4, <2>1
    <2>4. "resize" \notin failed' => size = a.capacity + 1 BY <2>2
    <2>5. QED BY <1>2, <2>1, <2>2, <2>3, <2>4 DEF FileCovers
  <1>9. SlotsPartitioned'
    <2>1. CASE bad' BY <2>1 DEF SlotsPartitioned
    <2>2. CASE a.free = free_slots /\ UNCHANGED failed
      BY <1>2, <2>2 DEF DInv, SlotsPartitioned, NoSharedSlot, SlotCount, bad
    <2>3. QED BY <2>1, <2>2
  <1>10. QED BY <1>6, <1>7, <1>8, <1>9 DEF DInv

\* The capacity that was doubled before resize_file threw is one the file may get.
LEMMA ThrowsInv ==
    ASSUME DInv, FileFitsInt, NEW p \in Pages, AllocationThrows(p)
    PROVE  DInv'
  <1> DEFINE n == Cardinality(DOMAIN pages)
  <1>1. /\ p \notin DOMAIN pages /\ n + 1 >= page_capacity /\ free_slots = <<>>
        /\ page_capacity' = 2 * page_capacity /\ failed' = failed \cup {"resize"}
        /\ "resize" \in Faults /\ UNCHANGED <<pages, free_slots, file>>
    BY DEF AllocationThrows, NeedsResize
  <1>2. n \in Nat /\ n + 1 <= Cardinality(Pages) /\ Cardinality(Pages) \in Nat /\ IntPages \in Nat
    BY <1>1, KeysOf, DiskAssumption DEF DInv
  <1>3. page_capacity \in Nat \ {0} /\ FileSize \in Nat BY DEF DInv, SlotTypes
  <1>4. FileSize' = FileSize /\ SlotCount' = SlotCount BY <1>1 DEF FileSize, SlotCount
  <1>5. SlotCount = n /\ n <= page_capacity BY <1>1, <1>2 DEF SlotCount, DInv, FileCovers
  <1> HIDE DEF n
  <1>6. SlotTypes' BY <1>1, <1>3, <1>4 DEF DInv, SlotTypes
  <1>7. SlotsReached'
    <2>1. \A q \in DOMAIN pages : pages[q] \in Nat /\ pages[q] < page_capacity /\ pages[q] <= FileSize
      BY DEF DInv, SlotTypes, SlotsReached, IsMap
    <2>2. QED BY <1>1, <1>3, <1>4, <2>1 DEF SlotsReached
  <1>8. FileCovers'
    BY <1>1, <1>2, <1>3, <1>4, <1>5 DEF DInv, FileCovers, FileFitsInt
  <1>9. SlotsPartitioned'
    <2>1. bad' <=> bad BY <1>1 DEF bad
    <2>2. QED BY <1>1, <1>4, <2>1 DEF DInv, SlotsPartitioned, NoSharedSlot
  <1>10. QED BY <1>6, <1>7, <1>8, <1>9 DEF DInv

\* The size of a file after a write to slot s, and the file.
SizeFor(f, s) == IF s < Cardinality(DOMAIN f) THEN Cardinality(DOMAIN f) ELSE s + 1
Written(f, s, d) == [Resized(f, SizeFor(f, s)) EXCEPT ![s] = d]

\* The file after a write reaches the slot, and holds what it held elsewhere.
WriteFits(f, s, d, n, m) ==
    /\ m \in Nat /\ n <= m /\ s < m
    /\ m = IF s < n THEN n ELSE s + 1
    /\ Written(f, s, d) \in [0 .. m - 1 -> Data] /\ Written(f, s, d)[s] = d
    /\ \A i \in 0 .. m - 1 : i # s =>
         Written(f, s, d)[i] = IF i \in DOMAIN f THEN f[i] ELSE Zero

LEMMA WrittenFile ==
    ASSUME NEW n \in Nat, NEW f \in [0 .. n - 1 -> Data], NEW s \in Nat, NEW d \in Data
    PROVE  WriteFits(f, s, d, n, SizeFor(f, s))
  <1> DEFINE m == SizeFor(f, s)
  <1>1. m = IF s < n THEN n ELSE s + 1 BY SizeOfFile DEF SizeFor
  <1>2. m \in Nat /\ n <= m /\ s < m BY <1>1
  <1> HIDE DEF m
  <1>3. /\ Resized(f, m) \in [0 .. m - 1 -> Data]
        /\ \A i \in 0 .. m - 1 : Resized(f, m)[i] = IF i \in DOMAIN f THEN f[i] ELSE Zero
    BY <1>2, ResizedFile
  <1>4. s \in 0 .. m - 1 BY <1>2
  <1> DEFINE g == [Resized(f, m) EXCEPT ![s] = d]
  <1>5. /\ g \in [0 .. m - 1 -> Data] /\ g[s] = d
        /\ \A i \in 0 .. m - 1 : i # s => g[i] = IF i \in DOMAIN f THEN f[i] ELSE Zero
    BY <1>3, <1>4
  <1>6. g = Written(f, s, d) BY DEF Written, m
  <1> HIDE DEF g
  <1>7. WriteFits(f, s, d, n, m) BY <1>1, <1>2, <1>5, <1>6 DEF WriteFits
  <1>8. QED BY <1>7 DEF m

\* WritePage.
LEMMA WriteInv ==
    ASSUME DInv, FileFitsInt, NEW p \in Pages, NEW d \in Values, WritePage(p, d)
    PROVE  DInv'
  <1> DEFINE a == SlotFor(p)
             n == Cardinality(DOMAIN a.file)
             m == SizeFor(a.file, a.slot)
  <1>1. SlotOK(p, a) BY SlotForOK
  <1>2. CASE AllocationThrows(p) BY <1>2, ThrowsInv
  <1>3. CASE /\ Allocated(a) /\ ~bad
             /\ pages' = Put(pages, p, a.slot)
             /\ file' = Written(a.file, a.slot, d)
             /\ UNCHANGED failed
    <2>1. /\ n \in Nat /\ a.file \in [0 .. n - 1 -> Data] /\ n <= a.capacity + 1
          /\ a.slot \in Nat /\ a.slot < a.capacity /\ a.capacity \in Nat
      BY <1>1 DEF SlotOK, FileGrown, SlotFits
    <2>2. d \in Data BY DEF Data
    <2> HIDE DEF a
    <2>3. WriteFits(a.file, a.slot, d, n, m) BY <2>1, <2>2, WrittenFile
    <2> HIDE DEF m
    <2>4. /\ m \in Nat /\ n <= m /\ m = IF a.slot < n THEN n ELSE a.slot + 1
          /\ file' \in [0 .. m - 1 -> Data]
      BY <1>3, <2>3 DEF WriteFits
    <2>5. m <= a.capacity + 1 /\ a.slot <= m BY <2>1, <2>4
    <2>6. QED BY <1>1, <1>3, <2>4, <2>5, Mapped
  <1>4. CASE /\ Allocated(a)
             /\ bad \/ "write" \in Faults
             /\ failed' = failed \cup {"write"} /\ file' = a.file /\ UNCHANGED pages
    <2>1. failed' \subseteq Faults /\ bad' /\ ("resize" \in failed' <=> "resize" \in failed)
      BY <1>4 DEF bad, DInv, SlotTypes
    <2> HIDE DEF a
    <2>2. QED BY <1>1, <1>4, <2>1, NotMapped
  <1>5. QED BY <1>2, <1>3, <1>4 DEF WritePage, Written, SizeFor

\* ReadPage: as the file is smaller than 2^31 bytes, it returns early only
\* with a slot that was not on the free list.
LEMMA ReadInv ==
    ASSUME DInv, FileFitsInt, NEW p \in Pages, ReadPage(p)
    PROVE  DInv'
  <1> DEFINE a == SlotFor(p)
             n == Cardinality(DOMAIN a.file)
  <1>1. SlotOK(p, a) BY SlotForOK
  <1>2. /\ n \in Nat /\ a.file \in [0 .. n - 1 -> Data] /\ n <= a.capacity + 1 /\ FileSize <= n
        /\ a.slot \in Nat /\ a.capacity \in Nat /\ a.capacity + 1 < IntPages
        /\ p \in DOMAIN pages \/ a.slot > FileSize => a.free = free_slots
    BY <1>1 DEF SlotOK, FileGrown, SlotFits
  <1>3. ASSUME file' = a.file PROVE GetFileSize' = n
    <2>1. FileSize' = n BY <1>3 DEF FileSize
    <2>2. IntPages \in Nat /\ n < IntPages BY <1>2, DiskAssumption
    <2>3. GetFileSize' = ((n + IntPages) % (2 * IntPages)) - IntPages BY <2>1 DEF GetFileSize
    <2>4. QED BY <1>2, <2>2, <2>3, IntSize
  <1>4. FileSize \in Nat /\ failed \subseteq Faults BY DEF DInv, SlotTypes
  <1>5. CASE AllocationThrows(p) BY <1>5, ThrowsInv
  <1>6. CASE /\ Allocated(a) /\ file' = a.file /\ UNCHANGED failed
             /\ GetFileSize' < 0 \/ a.slot > GetFileSize'
             /\ UNCHANGED pages
    <2> HIDE DEF a
    <2>1. a.slot > FileSize BY <1>2, <1>3, <1>4, <1>6
    <2>2. QED BY <1>1, <1>2, <1>4, <1>6, <2>1, NotMapped
  <1>7. CASE /\ Allocated(a) /\ file' = a.file /\ UNCHANGED failed
             /\ a.slot <= GetFileSize'
             /\ pages' = Put(pages, p, a.slot)
    <2> HIDE DEF a
    <2>1. a.slot <= n BY <1>3, <1>7
    <2>2. file' \in [0 .. n - 1 -> Data] BY <1>2, <1>7
    <2>3. QED BY <1>1, <1>2, <1>7, <2>1, <2>2, Mapped
  <1>8. QED BY <1>5, <1>6, <1>7 DEF ReadPage

\* DeletePage moves the slot of the page to the free list.
LEMMA DeleteInv ==
    ASSUME DInv, NEW p \in Pages, DeletePage(p)
    PROVE  DInv'
  <1> DEFINE n == Cardinality(DOMAIN pages)
             k == Len(free_slots)
  <1>1. /\ IsMap(pages, Pages, Nat) /\ free_slots \in Seq(Nat) /\ FileSize \in Nat
        /\ UNCHANGED <<page_capacity, file, failed>> /\ FileSize' = FileSize
    BY DEF DeletePage, DInv, SlotTypes, FileSize
  <1>2. CASE p \notin DOMAIN pages
    BY <1>1, <1>2 DEF DeletePage, DInv, SlotTypes, SlotsReached, FileCovers, SlotsPartitioned,
                      NoSharedSlot, SlotCount, bad
  <1>3. CASE p \in DOMAIN pages
    <2>1. free_slots' = Append(free_slots, pages[p]) /\ pages' = Erase(pages, p)
      BY <1>3 DEF DeletePage
    <2>2. /\ free_slots' \in Seq(Nat) /\ Len(free_slots') = k + 1 /\ DOMAIN free_slots' = 1 .. k + 1
          /\ k \in Nat /\ DOMAIN free_slots = 1 .. k
          /\ free_slots'[k + 1] = pages[p] /\ \A i \in 1 .. k : free_slots'[i] = free_slots[i]
      BY <1>1, <1>3, <2>1 DEF IsMap
    <2>3. /\ IsMap(pages', Pages, Nat) /\ DOMAIN pages' = DOMAIN pages \ {p}
          /\ \A q \in DOMAIN pages' : q \in DOMAIN pages /\ q # p /\ pages'[q] = pages[q]
      BY <1>1, <2>1 DEF IsMap, Erase
    <2>4. n \in Nat /\ Cardinality(DOMAIN pages') = n - 1
      BY <1>3, <2>3, KeysOf DEF DInv
    <2>5. SlotCount' = SlotCount BY <2>2, <2>4 DEF SlotCount
    <2> HIDE DEF n, k
    <2>6. SlotTypes' BY <1>1, <2>2, <2>3 DEF DInv, SlotTypes
    <2>7. SlotsReached'
      <3>1. \A q \in DOMAIN pages' : pages'[q] < page_capacity /\ pages'[q] <= FileSize
        BY <2>3 DEF DInv, SlotsReached
      <3>2. \A i \in 1 .. k : free_slots'[i] < page_capacity /\ free_slots'[i] <= FileSize
        BY <2>2 DEF DInv, SlotsReached
      <3>3. free_slots'[k + 1] < page_capacity /\ free_slots'[k + 1] <= FileSize
        BY <1>3, <2>2 DEF DInv, SlotsReached
      <3>4. \A i \in DOMAIN free_slots' : i \in 1 .. k \/ i = k + 1 BY <2>2
      <3>5. QED BY <1>1, <3>1, <3>2, <3>3, <3>4 DEF SlotsReached
    <2>8. FileCovers' BY <1>1, <2>5 DEF DInv, FileCovers
    <2>9. SlotsPartitioned'
      <3>1. SUFFICES ASSUME ~bad PROVE SlotsPartitioned' BY <1>1 DEF bad, SlotsPartitioned
      <3>2. /\ \A q, r \in DOMAIN pages : pages[q] = pages[r] => q = r
            /\ \A i, j \in 1 .. k : free_slots[i] = free_slots[j] => i = j
            /\ \A q \in DOMAIN pages, i \in 1 .. k : pages[q] # free_slots[i]
            /\ \A q \in DOMAIN pages : pages[q] < SlotCount
            /\ \A i \in 1 .. k : free_slots[i] < SlotCount
        BY <2>2, <3>1 DEF DInv, SlotsPartitioned, NoSharedSlot
      <3>3. \A i \in DOMAIN free_slots' : i \in 1 .. k \/ i = k + 1 BY <2>2
      <3>4. \A q \in DOMAIN pages', i \in DOMAIN free_slots' : pages'[q] # free_slots'[i]
        BY <1>3, <2>2, <2>3, <3>2, <3>3
      <3>5. \A i \in DOMAIN free_slots' :
               /\ \A j \in DOMAIN free_slots' : free_slots'[i] = free_slots'[j] => i = j
               /\ free_slots'[i] < SlotCount'
        BY <1>3, <2>2, <2>5, <3>2, <3>3
      <3>6. \A q \in DOMAIN pages' : pages'[q] < SlotCount' BY <2>3, <2>5, <3>2
      <3>7. \A q, r \in DOMAIN pages' : pages'[q] = pages'[r] => q = r BY <2>3, <3>2
      <3>8. QED BY <3>4, <3>5, <3>6, <3>7 DEF SlotsPartitioned, NoSharedSlot
    <2>10. QED BY <2>6, <2>7, <2>8, <2>9 DEF DInv
  <1>4. QED BY <1>2, <1>3

Opened ==
    /\ pages = EmptyMap /\ free_slots = <<>> /\ failed = {}
    /\ page_capacity = DEFAULT_DB_IO_SIZE
    /\ \E n \in Nat : \E f \in [0 .. n - 1 -> Data] :
          file = Resized(f, DEFAULT_DB_IO_SIZE + 1)

\* A disk manager that was just opened has no pages.
LEMMA OpenedInv ==
    ASSUME FileFitsInt, Opened
    PROVE  DInv
  <1>1. /\ DEFAULT_DB_IO_SIZE \in Nat \ {0} /\ IsFiniteSet(Pages)
        /\ Cardinality(Pages) \in Nat
    BY DiskAssumption, FS_CardinalityType
  <1>0. file \in [0 .. DEFAULT_DB_IO_SIZE -> Data] /\ FileSize = DEFAULT_DB_IO_SIZE + 1
    <2> DEFINE m == DEFAULT_DB_IO_SIZE + 1
    <2>1. PICK n \in Nat : \E f \in [0 .. n - 1 -> Data] : file = Resized(f, m) BY DEF Opened
    <2>2. PICK f \in [0 .. n - 1 -> Data] : file = Resized(f, m) BY <2>1
    <2>3. m \in Nat /\ m - 1 = DEFAULT_DB_IO_SIZE BY <1>1
    <2> HIDE DEF m
    <2>4. Resized(f, m) \in [0 .. m - 1 -> Data] /\ Cardinality(DOMAIN Resized(f, m)) = m
      BY <2>3, ResizedFile
    <2>5. file \in [0 .. DEFAULT_DB_IO_SIZE -> Data] BY <2>2, <2>3, <2>4
    <2>6. FileSize = m BY <2>2, <2>4 DEF FileSize
    <2>7. QED BY <2>5, <2>6 DEF m
  <1> USE DEF Opened
  <1>2. /\ file \in [0 .. DEFAULT_DB_IO_SIZE -> Data] /\ FileSize = DEFAULT_DB_IO_SIZE + 1
    BY <1>0, <1>1
  <1>3. IsMap(pages, Pages, Nat) /\ DOMAIN pages = {} BY DEF IsMap, EmptyMap
  <1>4. SlotCount = 0 BY <1>3, FS_EmptySet DEF SlotCount
  <1>5. SlotTypes BY <1>1, <1>2, <1>3 DEF SlotTypes
  <1>6. SlotsReached BY <1>3 DEF SlotsReached
  <1>7. FileCovers BY <1>1, <1>2, <1>4 DEF FileCovers, FileFitsInt
  <1>8. SlotsPartitioned BY <1>3 DEF SlotsPartitioned, NoSharedSlot
  <1>9. QED BY <1>5, <1>6, <1>7, <1>8 DEF DInv


\* Every step preserves the invariant, or opens the disk manager anew.
LEMMA StepInv ==
    ASSUME FileFitsInt, DInv, [Next]_vars
    PROVE  DInv' \/ Opened'
  <1>1. CASE \E p \in Pages, d \in Values : WritePage(p, d) BY <1>1, WriteInv
  <1>2. CASE \E p \in Pages : ReadPage(p) BY <1>2, ReadInv
  <1>3. CASE \E p \in Pages : DeletePage(p) BY <1>3, DeleteInv
  <1>4. CASE Reopen
    <2>1. FileSize \in Nat /\ file \in [0 .. FileSize - 1 -> Data] BY DEF DInv, SlotTypes
    <2>2. QED BY <1>4, <2>1 DEF Reopen, Opened
  <1>5. CASE UNCHANGED vars
    BY <1>5 DEF vars, DInv, SlotTypes, SlotsReached, FileCovers, SlotsPartitioned, NoSharedSlot,
                SlotCount, FileSize, bad
  <1>6. QED BY <1>1, <1>2, <1>3, <1>4, <1>5 DEF Next

-----------------------------------------------------------------------------
(* The theorems.                                                           *)

\* The invariant of the disk manager, for any number of pages, any initial
\* capacity and failing writes and resizes, as long as the size of the file fits
\* an int.
THEOREM DiskInvariant ==
    ASSUME FileFitsInt
    PROVE  Spec => []DInv
  <1>1. Init => Opened
    <2>1. EmptyMap \in [0 .. 0 - 1 -> Data] BY DEF EmptyMap
    <2>2. QED BY <2>1 DEF Init, Opened
  <1>2. Opened => DInv BY OpenedInv
  <1>3. DInv /\ [Next]_vars => DInv' \/ Opened' BY StepInv
  <1>4. QED BY <1>1, <1>2, <1>3, PTL DEF Spec

\* The page map, the free list and the file fit together after any sequence of
\* calls: AllocatePage never hands out a slot in use, and no slot is lost.
THEOREM DiskSlotsConsistent ==
    ASSUME FileFitsInt
    PROVE  Spec => []SlotsConsistent
  <1>1. DInv => SlotsConsistent
    <2> SUFFICES ASSUME DInv PROVE SlotsConsistent OBVIOUS
    <2>1. TypeOK BY DEF TypeOK, DInv, SlotTypes, FileCovers
    <2>2. PagesInFile
      <3>1. \A p \in DOMAIN pages : pages[p] \in Nat /\ pages[p] < page_capacity
        BY DEF DInv, SlotTypes, SlotsReached, IsMap
      <3>2. FileSize \in Nat /\ page_capacity \in Nat /\ DOMAIN file = 0 .. FileSize - 1
        BY DEF DInv, SlotTypes
      <3>3. QED BY <3>1, <3>2 DEF PagesInFile, DInv, FileCovers
    <2>3. QED BY <2>1, <2>2 DEF SlotsConsistent, DInv
  <1>2. QED BY <1>1, DiskInvariant, PTL

-----------------------------------------------------------------------------
(* The refinement of DiskStore.                                            *)

\* What a file holds in a slot, a read behind its end included.
SlotContents(f, s) == IF s \in DOMAIN f THEN f[s] ELSE Zero

\* The growth of the file shows in no page.
LEMMA GrownContents ==
    ASSUME DInv, NEW a, NEW size \in Nat, FileGrown(a, size), NEW s \in Nat
    PROVE  SlotContents(a.file, s) = SlotContents(file, s)
  <1>1. FileSize \in Nat /\ DOMAIN file = 0 .. FileSize - 1 BY DEF DInv, SlotTypes
  <1>2. /\ DOMAIN a.file = 0 .. size - 1 /\ FileSize <= size
        /\ \A i \in 0 .. size - 1 : a.file[i] = IF i \in DOMAIN file THEN file[i] ELSE Zero
    BY DEF FileGrown
  <1>3. s \in DOMAIN file => s \in DOMAIN a.file BY <1>1, <1>2
  <1>4. QED BY <1>2, <1>3 DEF SlotContents

\* A page with a slot shows what its slot holds.
LEMMA ContentsOfPage ==
    ASSUME DInv, NEW q \in DOMAIN pages
    PROVE  Contents(q) = SlotContents(file, pages[q]) /\ Contents(q) \in Data /\ pages[q] \in Nat
  <1>1. file \in [0 .. FileSize - 1 -> Data] /\ pages[q] \in Nat BY DEF DInv, SlotTypes, IsMap
  <1>2. QED BY <1>1 DEF Contents, SlotContents, Data

-----------------------------------------------------------------------------
(* One lemma per way a call may end, while no write has failed.            *)

\* A call that throws changes no page.
LEMMA ThrowRefines ==
    ASSUME DInv, NEW p \in Pages, AllocationThrows(p)
    PROVE  DiskStore!Throw /\ bad' = bad
  BY DEF AllocationThrows, DiskStore!Throw, Contents, bad

\* An access that maps page p to its slot shows in no other page.
LEMMA OthersKept ==
    ASSUME DInv, ~bad, NEW p \in Pages, NEW a, SlotOK(p, a),
           pages' = Put(pages, p, a.slot),
           \A s \in Nat \ {a.slot} : SlotContents(file', s) = SlotContents(a.file, s)
    PROVE  \A q \in Pages \ {p} : Contents(q)' = Contents(q)
  <1> SUFFICES ASSUME NEW q \in Pages \ {p} PROVE Contents(q)' = Contents(q) OBVIOUS
  <1>1. /\ FileGrown(a, Cardinality(DOMAIN a.file)) /\ a.slot \in Nat
        /\ Cardinality(DOMAIN a.file) \in Nat /\ \A r \in DOMAIN pages \ {p} : pages[r] # a.slot
    BY DEF SlotOK, SlotFits, FileGrown, SlotUnshared
  <1>2. DOMAIN pages' = DOMAIN pages \cup {p} /\ \A r \in DOMAIN pages \ {p} : pages'[r] = pages[r]
    <2>1. IsMap(pages, Pages, Nat) BY DEF DInv, SlotTypes
    <2>2. QED BY <1>1, <2>1, PutMap, Zenon
  <1>3. CASE q \notin DOMAIN pages BY <1>2, <1>3 DEF Contents
  <1>4. CASE q \in DOMAIN pages
    <2>1. pages[q] \in Nat /\ Contents(q) = SlotContents(file, pages[q]) BY <1>4, ContentsOfPage
    <2>2. Contents(q)' = SlotContents(file', pages[q]) BY <1>2, <1>4 DEF Contents, SlotContents
    <2>3. SlotContents(file', pages[q]) = SlotContents(a.file, pages[q]) BY <1>1, <1>4, <2>1
    <2>4. QED BY <1>1, <2>1, <2>2, <2>3, GrownContents
  <1>5. QED BY <1>3, <1>4

\* A write that succeeds.
LEMMA WriteRefines ==
    ASSUME DInv, ~bad, NEW p \in Pages, NEW d \in Values, NEW a, SlotOK(p, a),
           pages' = Put(pages, p, a.slot), ret' = [call |-> "write"],
           NEW m \in Nat, Cardinality(DOMAIN a.file) <= m, a.slot < m,
           file' \in [0 .. m - 1 -> Data], file'[a.slot] = d,
           \A i \in 0 .. m - 1 : i # a.slot =>
              file'[i] = IF i \in DOMAIN a.file THEN a.file[i] ELSE Zero
    PROVE  DiskStore!Write(p, d)
  <1> DEFINE n == Cardinality(DOMAIN a.file)
  <1>1. n \in Nat /\ a.file \in [0 .. n - 1 -> Data] /\ a.slot \in Nat
    BY DEF SlotOK, FileGrown, SlotFits
  <1> HIDE DEF n
  <1>2. \A s \in Nat \ {a.slot} : SlotContents(file', s) = SlotContents(a.file, s)
    BY <1>1 DEF SlotContents, n
  <1>3. SlotContents(file', a.slot) = d BY <1>1 DEF SlotContents
  <1>4. p \in DOMAIN pages' /\ pages'[p] = a.slot
    <2>1. p \in DOMAIN Put(pages, p, a.slot) /\ Put(pages, p, a.slot)[p] = a.slot BY DEF Put
    <2>2. QED BY <2>1
  <1>5. Contents(p)' = SlotContents(file', a.slot) BY <1>4 DEF Contents, SlotContents
  <1>6. \A q \in Pages \ {p} : Contents(q)' = Contents(q) BY <1>2, OthersKept
  <1>7. QED BY <1>3, <1>5, <1>6 DEF DiskStore!Write

\* A read that finds the page, or a slot for it within the file.
LEMMA ReadRefines ==
    ASSUME DInv, ~bad, NEW p \in Pages, NEW a, SlotOK(p, a),
           pages' = Put(pages, p, a.slot), file' = a.file,
           ret' = Gave(SlotContents(file', a.slot))
    PROVE  \E d \in Data : DiskStore!Read(p, d)
  <1> DEFINE d == SlotContents(file', a.slot)
  <1>1. /\ FileGrown(a, Cardinality(DOMAIN a.file)) /\ Cardinality(DOMAIN a.file) \in Nat
        /\ a.slot \in Nat
        /\ p \in DOMAIN pages => a.slot = pages[p]
    BY DEF SlotOK, FileGrown, SlotFits
  <1>2. p \in DOMAIN pages' /\ pages'[p] = a.slot
    <2>1. p \in DOMAIN Put(pages, p, a.slot) /\ Put(pages, p, a.slot)[p] = a.slot BY DEF Put
    <2>2. QED BY <2>1
  <1>3. Contents(p)' = d BY <1>2 DEF Contents, SlotContents
  <1>4. \A q \in Pages \ {p} : Contents(q)' = Contents(q) BY OthersKept
  <1>5. d \in Data BY <1>1 DEF FileGrown, SlotContents, Data
  <1>6. Contents(p) \in {d, Unspecified}
    <2>1. CASE p \notin DOMAIN pages BY <2>1 DEF Contents
    <2>2. CASE p \in DOMAIN pages
      <3>1. Contents(p) = SlotContents(file, a.slot) BY <1>1, <2>2, ContentsOfPage
      <3>2. QED BY <1>1, <3>1, GrownContents
    <2>3. QED BY <2>1, <2>2
  <1>7. ret' = Gave(d) OBVIOUS
  <1> HIDE DEF d
  <1>8. DiskStore!Read(p, d)
    BY <1>3, <1>4, <1>6, <1>7 DEF DiskStore!Read, DiskStore!Gave, Gave
  <1>9. QED BY <1>5, <1>8

\* A read that returns early: the page is not stored, as the file reaches every
\* page that is.
LEMMA EarlyReadRefines ==
    ASSUME DInv, NEW p \in Pages, NEW a, SlotOK(p, a), a.slot > FileSize,
           UNCHANGED pages, file' = a.file, ret' = Gave(Unspecified)
    PROVE  DiskStore!ReadNothing(p)
  <1>1. /\ FileGrown(a, Cardinality(DOMAIN a.file)) /\ Cardinality(DOMAIN a.file) \in Nat
        /\ p \in DOMAIN pages => a.slot = pages[p]
    BY DEF SlotOK, FileGrown, SlotFits
  <1>2. p \notin DOMAIN pages
    <2> SUFFICES ASSUME p \in DOMAIN pages PROVE FALSE OBVIOUS
    <2>1. pages[p] \in Nat /\ pages[p] <= FileSize /\ FileSize \in Nat
      BY DEF DInv, SlotTypes, SlotsReached, IsMap
    <2>2. QED BY <1>1, <2>1
  <1>3. Contents(p) = Unspecified BY <1>2 DEF Contents
  <1>4. \A q \in Pages : Contents(q)' = Contents(q)
    <2> SUFFICES ASSUME NEW q \in Pages PROVE Contents(q)' = Contents(q) OBVIOUS
    <2>1. CASE q \notin DOMAIN pages BY <2>1 DEF Contents
    <2>2. CASE q \in DOMAIN pages
      <3>1. pages[q] \in Nat /\ Contents(q) = SlotContents(file, pages[q])
        BY <2>2, ContentsOfPage
      <3>2. Contents(q)' = SlotContents(a.file, pages[q]) BY <2>2 DEF Contents, SlotContents
      <3>3. QED BY <1>1, <3>1, <3>2, GrownContents
    <2>3. QED BY <2>1, <2>2
  <1>5. QED BY <1>3, <1>4 DEF DiskStore!ReadNothing, DiskStore!Gave, Gave

\* A page that is deleted reads as anything; the others stay.
LEMMA DeleteRefines ==
    ASSUME DInv, NEW p \in Pages, DeletePage(p)
    PROVE  DiskStore!Delete(p)
  <1>1. CASE p \notin DOMAIN pages
    BY <1>1 DEF DeletePage, Contents, DiskStore!Delete, Void
  <1>2. CASE p \in DOMAIN pages
    <2>1. /\ file' = file /\ ret' = Void
          /\ DOMAIN pages' = DOMAIN pages \ {p}
          /\ \A q \in DOMAIN pages' : pages'[q] = pages[q]
      BY <1>2 DEF DeletePage, Erase
    <2>2. Contents(p)' = Unspecified BY <2>1 DEF Contents
    <2>3. \A q \in Pages \ {p} : Contents(q)' = Contents(q) BY <2>1 DEF Contents
    <2>4. QED BY <2>1, <2>2, <2>3 DEF DiskStore!Delete, Void
  <1>3. QED BY <1>1, <1>2

-----------------------------------------------------------------------------
(* The refinement.                                                         *)

\* Opening the file anew leaves no page.
LEMMA ReopenRefines ==
    ASSUME Reopen
    PROVE  DiskStore!Reopen
  <1>1. DOMAIN pages' = {} BY DEF Reopen, EmptyMap
  <1>2. \A q \in Pages : Contents(q)' = Unspecified BY <1>1 DEF Contents
  <1>3. bad' = FALSE BY DEF Reopen, bad
  <1>4. QED BY <1>2, <1>3 DEF Reopen, DiskStore!Reopen, Void

\* Every call, however it ends, is a call of the store as long as no write has
\* failed.
LEMMA CallRefines ==
    ASSUME DInv, FileFitsInt, ~bad, ~bad', NEW p \in Pages,
           ReadPage(p) \/ \E d \in Values : WritePage(p, d)
    PROVE  DiskStore!Call
  <1> DEFINE a == SlotFor(p)
             n == Cardinality(DOMAIN a.file)
             m == SizeFor(a.file, a.slot)
  <1>1. SlotOK(p, a) BY SlotForOK
  <1>2. /\ n \in Nat /\ a.file \in [0 .. n - 1 -> Data] /\ FileSize <= n
        /\ a.slot \in Nat /\ n < IntPages
    BY <1>1, DiskAssumption, SMTT(60) DEF SlotOK, FileGrown, SlotFits
  <1>3. CASE AllocationThrows(p) BY <1>3, ThrowRefines DEF DiskStore!Call
  <1>4. ASSUME NEW d \in Values, pages' = Put(pages, p, a.slot),
               file' = Written(a.file, a.slot, d), ret' = [call |-> "write"]
        PROVE  DiskStore!Call
    <2>1. d \in Data BY DEF Data
    <2> HIDE DEF a
    <2>2. WriteFits(a.file, a.slot, d, n, m) BY <1>2, <2>1, WrittenFile
    <2> HIDE DEF m
    <2>3. /\ m \in Nat /\ n <= m /\ a.slot < m
          /\ file' \in [0 .. m - 1 -> Data] /\ file'[a.slot] = d
          /\ \A i \in 0 .. m - 1 : i # a.slot =>
               file'[i] = IF i \in DOMAIN a.file THEN a.file[i] ELSE Zero
      BY <1>4, <2>2 DEF WriteFits
    <2>4. DiskStore!Write(p, d) BY <1>1, <1>4, <2>3, WriteRefines
    <2>5. QED BY <2>1, <2>4 DEF DiskStore!Call
  <1>5. ASSUME file' = a.file PROVE GetFileSize' = n
    <2>1. FileSize' = n BY <1>5 DEF FileSize
    <2>2. GetFileSize' = ((n + IntPages) % (2 * IntPages)) - IntPages BY <2>1 DEF GetFileSize
    <2> HIDE DEF a
    <2>3. QED BY <1>2, <2>2, IntSize, DiskAssumption, SMTT(60)
  <1>6. CASE /\ file' = a.file /\ UNCHANGED pages /\ ret' = Gave(Unspecified)
             /\ GetFileSize' < 0 \/ a.slot > GetFileSize'
    <2> HIDE DEF a
    <2>1. FileSize \in Nat BY DEF DInv, SlotTypes
    <2>2. a.slot > FileSize BY <1>2, <1>5, <1>6, <2>1
    <2>3. QED BY <1>1, <1>6, <2>2, EarlyReadRefines DEF DiskStore!Call
  <1>7. CASE /\ file' = a.file /\ pages' = Put(pages, p, a.slot)
             /\ ret' = Gave(IF a.slot \in DOMAIN file' THEN file'[a.slot] ELSE Zero)
    <2> HIDE DEF a
    <2>1. ret' = Gave(SlotContents(file', a.slot)) BY <1>7 DEF SlotContents
    <2>2. QED BY <1>1, <1>7, <2>1, ReadRefines DEF DiskStore!Call
  <1>8. CASE ReadPage(p) BY <1>3, <1>6, <1>7, <1>8 DEF ReadPage
  <1>9. ASSUME NEW d \in Values, WritePage(p, d) PROVE DiskStore!Call
    BY <1>3, <1>4, <1>9 DEF WritePage, Written, SizeFor, bad
  <1>10. QED BY <1>8, <1>9

\* Once a write has failed, it stays so until the file is opened anew.
LEMMA StaysBad ==
    ASSUME Next, bad
    PROVE  bad' = TRUE \/ Reopen
  BY DEF Next, WritePage, ReadPage, DeletePage, AllocationThrows, bad

\* A step of the disk manager is a step of the store.
LEMMA StepRefines ==
    ASSUME DInv, FileFitsInt, [Next]_vars
    PROVE  [DiskStore!Next]_(DiskStore!vars)
  <1>1. CASE UNCHANGED vars
    BY <1>1 DEF vars, DiskStore!vars, Contents, bad
  <1>2. CASE Reopen BY <1>2, ReopenRefines DEF DiskStore!Next
  <1>3. CASE Next /\ bad' BY <1>3 DEF DiskStore!Next, DiskStore!Broken, bad
  <1>4. CASE Next /\ ~bad /\ ~bad' /\ ~Reopen
    <2>1. bad' = bad BY <1>4 DEF bad
    <2>2. DiskStore!Call
      <3>1. CASE \E p \in Pages : ReadPage(p) \/ \E d \in Values : WritePage(p, d)
        BY <1>4, <3>1, CallRefines
      <3>2. CASE \E p \in Pages : DeletePage(p)
        BY <3>2, DeleteRefines DEF DiskStore!Call
      <3>3. QED BY <1>4, <3>1, <3>2 DEF Next
    <2>3. QED BY <1>4, <2>1, <2>2 DEF DiskStore!Next
  <1>5. QED BY <1>1, <1>2, <1>3, <1>4, StaysBad

\* The disk manager implements the store of pages: allocation, the reuse of
\* slots, growth of the file and calls that throw never show, and a page reads
\* back as it was last written, as long as no write has failed.
THEOREM DiskImplementsStore ==
    ASSUME FileFitsInt
    PROVE  Spec => ImplementsDiskStore
  <1>1. Init => DiskStore!Init
    <2> SUFFICES ASSUME Init PROVE DiskStore!Init OBVIOUS
    <2>1. DOMAIN pages = {} BY DEF Init, EmptyMap
    <2>2. \A q \in Pages : Contents(q) = Unspecified BY <2>1 DEF Contents
    <2>3. bad = FALSE BY DEF Init, bad
    <2>4. QED BY <2>2, <2>3 DEF Init, DiskStore!Init, Void
  <1>2. DInv /\ [Next]_vars => [DiskStore!Next]_(DiskStore!vars) BY StepRefines
  <1>3. Spec => []DInv BY DiskInvariant
  <1>4. QED BY <1>1, <1>2, <1>3, PTL DEF Spec, ImplementsDiskStore, DiskStore!Spec

=============================================================================
