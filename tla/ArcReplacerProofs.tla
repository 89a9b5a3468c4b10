------------------------- MODULE ArcReplacerProofs --------------------------
(***************************************************************************)
(* The theorems about ArcReplacer: its directory is always consistent, it  *)
(* stays within ARC's bounds when it is never scanned, and it implements   *)
(* the abstract Replacer.                                                  *)
(***************************************************************************)
EXTENDS ArcReplacerSteps, WellFoundedInduction

\* The provers' time limit, which includes the time tlapm needs on a long module.
USE SMTT(60)
USE FieldUpdate

-----------------------------------------------------------------------------
(* The victim.                                                             *)

\* The first match of a walk exists when there is a match.
LEMMA SmallestIndex ==
    ASSUME NEW I \in SUBSET Nat, I # {}
    PROVE  \E i \in I : \A j \in I : i <= j
  <1> DEFINE less == {ss \in Nat \X Nat : ss[1] < ss[2]}
  <1>0. IsWellFoundedOn(less, Nat) BY NatLessThanWellFounded DEF OpToRel
  <1>1. \A i, j \in Nat : <<j, i>> \notin less => i <= j
    OBVIOUS
  <1> HIDE DEF less
  <1>2. \E i \in I : \A j \in I : <<j, i>> \notin less
    BY <1>0, WFMin, Zenon
  <1>3. QED BY <1>1, <1>2, Zenon

\* The same for a walk from the back.
LEMMA LargestIndex ==
    ASSUME NEW n \in Nat, NEW I \in SUBSET (1 .. n), I # {}
    PROVE  \E i \in I : \A j \in I : i >= j
  <1> DEFINE back == {k \in Nat : \E i \in I : k = n - i}
  <1>1. back \in SUBSET Nat /\ back # {}
    <2>1. PICK i \in I : TRUE BY Zenon
    <2>2. n - i \in Nat BY <2>1
    <2>3. n - i \in back BY <2>2
    <2>4. QED BY <2>3, Zenon
  <1>2. PICK k \in back : \A m \in back : k <= m
    <2> HIDE DEF back
    <2> QED BY <1>1, SmallestIndex
  <1>3. PICK i \in I : k = n - i BY <1>2
  <1>4. ASSUME NEW j \in I PROVE i >= j
    <2>1. n - j \in back OBVIOUS
    <2>2. k <= n - j BY <1>2, <2>1
    <2> HIDE DEF back
    <2>3. QED BY <1>3, <2>2
  <1>5. QED BY <1>4

\* The two eviction walks stop at an evictable frame of their list, and both fail
\* only when no frame is evictable.
LEMMA EvictWalks ==
    ASSUME NEW s, Directory(s)
    PROVE  LET i == TryEvictFromMru(s)
               j == TryEvictFromMfu(s)
           IN  /\ i # 0 => i \in DOMAIN s.mru /\ Candidate(s, s.mru[i], "MRU")
               /\ j # 0 => j \in DOMAIN s.mfu /\ Candidate(s, s.mfu[j], "MFU")
               /\ i = 0 /\ j = 0 => Evictable(s) = {}
  <1> DEFINE mru == s.mru
             mfu == s.mfu
             am == s.alive_map
             found1 == {i \in DOMAIN mru : Candidate(s, mru[i], "MRU")}
             found2 == {i \in DOMAIN mfu : Candidate(s, mfu[i], "MFU")}
             i1 == TryEvictFromMru(s)
             j1 == TryEvictFromMfu(s)
  <1>1. /\ i1 = IF found1 = {} THEN 0 ELSE CHOOSE i \in found1 : \A j \in found1 : i <= j
        /\ j1 = IF found2 = {} THEN 0 ELSE CHOOSE i \in found2 : \A j \in found2 : i >= j
    BY DEF TryEvictFromMru, TryEvictFromMfu
  <1>2. Cached(mru, mfu, am, s.curr_size) BY DEF Directory, Consistent
  <1>3. /\ Listed(mru, Frames, WithStatus(am, "MRU")) /\ Listed(mfu, Frames, WithStatus(am, "MFU"))
        /\ DOMAIN am = WithStatus(am, "MRU") \cup WithStatus(am, "MFU")
    BY <1>2, CachedTypes, Zenon DEF Cached
  <1>4. /\ DOMAIN mru = 1 .. Len(mru) /\ Len(mru) \in Nat
        /\ DOMAIN mfu = 1 .. Len(mfu) /\ Len(mfu) \in Nat
    BY <1>3 DEF Listed
  <1>5. found1 # {} => i1 \in found1 /\ i1 # 0
    <2> SUFFICES ASSUME found1 # {} PROVE i1 \in found1 /\ i1 # 0 OBVIOUS
    <2>1. found1 \in SUBSET (1 .. Len(mru)) BY <1>4
    <2>2. i1 = CHOOSE i \in found1 : \A j \in found1 : i <= j BY <1>1
    <2> HIDE DEF found1, i1
    <2>3. found1 \in SUBSET Nat BY <1>4, <2>1
    <2>4. \E i \in found1 : \A j \in found1 : i <= j BY <2>3, SmallestIndex
    <2>5. i1 \in found1 BY <2>2, <2>4
    <2>6. QED BY <1>4, <2>1, <2>5
  <1>6. found2 # {} => j1 \in found2 /\ j1 # 0
    <2> SUFFICES ASSUME found2 # {} PROVE j1 \in found2 /\ j1 # 0 OBVIOUS
    <2>1. found2 \in SUBSET (1 .. Len(mfu)) BY <1>4
    <2>2. j1 = CHOOSE i \in found2 : \A j \in found2 : i >= j BY <1>1
    <2> HIDE DEF found2, j1
    <2>4. \E i \in found2 : \A j \in found2 : i >= j BY <1>4, <2>1, LargestIndex, Zenon
    <2>5. j1 \in found2 BY <2>2, <2>4
    <2>6. QED BY <1>4, <2>1, <2>5
  <1>7. (found1 = {} => i1 = 0) /\ (found2 = {} => j1 = 0) BY <1>1
  <1>8. ASSUME NEW f \in Evictable(s) PROVE found1 # {} \/ found2 # {}
    <2>1. f \in DOMAIN am /\ am[f].evictable BY DEF Evictable
    <2>2. CASE f \in WithStatus(am, "MRU")
      <3>1. PICK i \in 1 .. Len(mru) : mru[i] = f BY <1>3, <2>2 DEF Listed
      <3>2. Candidate(s, f, "MRU") BY <2>1, <2>2 DEF Candidate, WithStatus
      <3>3. QED BY <1>4, <3>1, <3>2
    <2>3. CASE f \in WithStatus(am, "MFU")
      <3>1. PICK i \in 1 .. Len(mfu) : mfu[i] = f BY <1>3, <2>3 DEF Listed
      <3>2. Candidate(s, f, "MFU") BY <2>1, <2>3 DEF Candidate, WithStatus
      <3>3. QED BY <1>4, <3>1, <3>2
    <2>4. QED BY <1>3, <2>1, <2>2, <2>3
  <1> HIDE DEF i1, j1
  <1>9. i1 # 0 => i1 \in DOMAIN mru /\ Candidate(s, mru[i1], "MRU") BY <1>5, <1>7
  <1>10. j1 # 0 => j1 \in DOMAIN mfu /\ Candidate(s, mfu[j1], "MFU") BY <1>6, <1>7
  <1> HIDE DEF found1, found2
  <1>11. i1 = 0 /\ j1 = 0 => Evictable(s) = {} BY <1>5, <1>6, <1>8
  <1>12. QED BY <1>9, <1>10, <1>11, Zenon DEF i1, j1

\* Evict finds an evictable frame, and none only when there is none.
LEMMA VictimEvictable ==
    ASSUME NEW s, Directory(s)
    PROVE  /\ Victim(s) = None => Evictable(s) = {}
           /\ Victim(s) # None => Victim(s) \in Evictable(s)
           /\ Evictable(s) \subseteq Frames /\ s.curr_size = Cardinality(Evictable(s)) /\ s.curr_size \in Nat
  <1> DEFINE i1 == TryEvictFromMru(s)
             j1 == TryEvictFromMfu(s)
  <1>1. /\ i1 # 0 => i1 \in DOMAIN s.mru /\ Candidate(s, s.mru[i1], "MRU")
        /\ j1 # 0 => j1 \in DOMAIN s.mfu /\ Candidate(s, s.mfu[j1], "MFU")
        /\ i1 = 0 /\ j1 = 0 => Evictable(s) = {}
    BY EvictWalks, Zenon
  <1>2. Victim(s) = IF s.curr_size = 0 \/ (i1 = 0 /\ j1 = 0) THEN None
                    ELSE IF i1 # 0 /\ (j1 = 0 \/ Len(s.mru) >= s.mru_target_size) THEN s.mru[i1]
                    ELSE s.mfu[j1]
    BY Zenon DEF Victim
  <1> HIDE DEF i1, j1
  <1>3. Cached(s.mru, s.mfu, s.alive_map, s.curr_size) BY DEF Directory, Consistent
  <1>4. /\ Evictable(s) = EvictableIn(s.alive_map) /\ IsFiniteSet(Evictable(s))
        /\ s.curr_size = Cardinality(Evictable(s)) /\ s.curr_size \in Nat
        /\ Evictable(s) \subseteq Frames
    <2>1. Evictable(s) = EvictableIn(s.alive_map) BY DEF Evictable, EvictableIn
    <2>2. IsFiniteSet(EvictableIn(s.alive_map)) /\ s.curr_size \in Nat BY <1>3, CachedTypes, Zenon
    <2>3. s.curr_size = Cardinality(EvictableIn(s.alive_map)) BY <1>3 DEF Cached
    <2>4. DOMAIN s.alive_map \subseteq Frames BY <1>3 DEF Cached, IsMap
    <2>5. QED BY <2>1, <2>2, <2>3, <2>4, Zenon DEF Evictable
  <1>5. s.curr_size = 0 => Evictable(s) = {} BY <1>4, FS_EmptySet, Zenon
  <1>6. \A f, status : Candidate(s, f, status) => f \in Evictable(s) BY DEF Candidate, Evictable
  <1>7. None \notin Evictable(s) BY <1>4, ArcAssumption
  <1>8. QED BY <1>1, <1>2, <1>4, <1>5, <1>6, <1>7

-----------------------------------------------------------------------------
(* The inductive invariant.                                                *)

\* A map put twice at a key.
LEMMA PutErased ==
    ASSUME NEW m, NEW k, NEW v
    PROVE  Put(Erase(m, k), k, v) = Put(m, k, v)
  BY DEF Put, Erase

\* The whole of RecordAccess.
LEMMA RecordAccessDirectory ==
    ASSUME NEW s, Directory(s), NEW f \in Frames, NEW p \in Pages, ~AliveElsewhere(s, f, p), NEW t
    PROVE  LET u == DoRecordAccess(s, f, p, t)
           IN  /\ Directory(u)
               /\ InBounds(s) /\ t # "Scan" => InBounds(u)
               /\ \E status \in {"MRU", "MFU"} :
                     u.alive_map = IF f \in DOMAIN s.alive_map /\ s.alive_map[f].page = p
                                     THEN [s.alive_map EXCEPT ![f].status = status]
                                     ELSE Put(s.alive_map, f, NewEntry(p, status))
  <1> DEFINE u == DoRecordAccess(s, f, p, t)
  <1>1. ASSUME NEW r, Directory(r), f \notin DOMAIN r.alive_map, ~AliveElsewhere(r, f, p)
        PROVE  LET w == NotAlive(r, f, p, t)
               IN  /\ Directory(w)
                   /\ InBounds(r) /\ t # "Scan" => InBounds(w)
                   /\ \E status \in {"MRU", "MFU"} : w.alive_map = Put(r.alive_map, f, NewEntry(p, status))
    <2>1. CASE p \in DOMAIN r.ghost_map
      <3>1. NotAlive(r, f, p, t) = GhostHit(r, f, p, t) BY <2>1 DEF NotAlive
      <3>2. QED BY <1>1, <2>1, <3>1, GhostHitDirectory
    <2>2. CASE p \notin DOMAIN r.ghost_map
      <3>1. NotAlive(r, f, p, t) = Miss(r, f, p) BY <2>2 DEF NotAlive
      <3>2. QED BY <1>1, <2>2, <3>1, MissDirectory
    <2>3. QED BY <2>1, <2>2
  <1>2. CASE f \notin DOMAIN s.alive_map
    <2>1. u = NotAlive(s, f, p, t) BY <1>2 DEF DoRecordAccess
    <2>2. QED BY <1>1, <1>2, <2>1
  <1>3. CASE f \in DOMAIN s.alive_map /\ s.alive_map[f].page # p
    <2> DEFINE r == ForgetOtherPage(s, f)
    <2>1. u = NotAlive(r, f, p, t) BY <1>3 DEF DoRecordAccess
    <2>2. /\ Directory(r) /\ r.alive_map = Erase(s.alive_map, f)
          /\ InBounds(s) => InBounds(r)
      BY <1>3, DropDirectory
    <2> DEFINE sm == s.alive_map
               rm == r.alive_map
    <2> HIDE DEF r, u
    <2>3. DOMAIN rm = DOMAIN sm \ {f} /\ \A g \in DOMAIN sm \ {f} : rm[g] = sm[g]
      <3>1. rm = Erase(sm, f) BY <2>2
      <3> HIDE DEF rm, sm
      <3>2. QED BY <3>1 DEF Erase
    <2>4. f \notin DOMAIN r.alive_map /\ ~AliveElsewhere(r, f, p) BY <2>3 DEF AliveElsewhere
    <2>5. /\ Directory(u)
          /\ InBounds(r) /\ t # "Scan" => InBounds(u)
          /\ \E status \in {"MRU", "MFU"} : u.alive_map = Put(r.alive_map, f, NewEntry(p, status))
      BY <1>1, <2>1, <2>2, <2>4
    <2>6. \E status \in {"MRU", "MFU"} : u.alive_map = Put(s.alive_map, f, NewEntry(p, status))
      BY <2>2, <2>5, PutErased
    <2>7. QED BY <1>3, <2>2, <2>5, <2>6 DEF u
  <1>4. CASE f \in DOMAIN s.alive_map /\ s.alive_map[f].page = p
    <2>1. u = AliveHit(s, f, t) BY <1>4 DEF DoRecordAccess
    <2>2. QED BY <1>4, <2>1, AliveHitDirectory
  <1>5. QED BY <1>2, <1>3, <1>4

\* The return values.
RetOK ==
    ret \in {<<"void">>, <<"throw">>} \cup ({"size"} \X Nat)
              \cup ({"frame"} \X (Frames \cup {None}))

\* What one call does.
LEMMA StepDirectory ==
    ASSUME Directory(arc), Next
    PROVE  /\ Directory(arc') /\ RetOK'
           /\ InBounds(arc) /\ "Scan" \notin AccessTypes => InBounds(arc')
  <1>1. ASSUME NEW f \in Frames, NEW p \in Pages, NEW t \in AccessTypes, RecordAccess(f, p, t)
        PROVE  /\ Directory(arc') /\ RetOK'
               /\ InBounds(arc) /\ "Scan" \notin AccessTypes => InBounds(arc')
    <2>1. /\ arc' = DoRecordAccess(arc, f, p, t) /\ ~AliveElsewhere(arc, f, p) /\ RetOK'
      BY <1>1 DEF RecordAccess, RetOK
    <2>2. QED BY <2>1, RecordAccessDirectory, Zenon
  <1>2. ASSUME NEW f \in Frames, NEW b \in BOOLEAN, SetEvictable(f, b)
        PROVE  /\ Directory(arc') /\ RetOK'
               /\ InBounds(arc) /\ "Scan" \notin AccessTypes => InBounds(arc')
    <2>1. arc' = DoSetEvictable(arc, f, b) /\ RetOK' BY <1>2 DEF SetEvictable, RetOK
    <2>2. CASE f \in DOMAIN arc.alive_map /\ arc.alive_map[f].evictable # b
      BY <2>1, <2>2, SetEvictableDirectory, Zenon
    <2>3. CASE ~(f \in DOMAIN arc.alive_map /\ arc.alive_map[f].evictable # b)
      <3>1. arc' = arc BY <2>1, <2>3 DEF DoSetEvictable
      <3>2. QED BY <2>1, <3>1
    <2>4. QED BY <2>2, <2>3
  <1>3. ASSUME NEW f \in Frames, RemoveFrame(f)
        PROVE  /\ Directory(arc') /\ RetOK'
               /\ InBounds(arc) /\ "Scan" \notin AccessTypes => InBounds(arc')
    <2>1. RetOK' BY <1>3 DEF RemoveFrame, RetOK
    <2>2. CASE arc' = arc BY <2>1, <2>2
    <2>3. CASE arc' # arc
      <3>1. /\ f \in DOMAIN arc.alive_map /\ arc.alive_map[f].evictable /\ arc' = DropAlive(arc, f)
        BY <1>3, <2>3 DEF RemoveFrame
      <3>2. QED BY <2>1, <3>1, DropDirectory
    <2>4. QED BY <2>2, <2>3
  <1>4. ASSUME Evict
        PROVE  /\ Directory(arc') /\ RetOK'
               /\ InBounds(arc) /\ "Scan" \notin AccessTypes => InBounds(arc')
    <2> DEFINE f == Victim(arc)
    <2>1. /\ f # None => f \in DOMAIN arc.alive_map /\ arc.alive_map[f].evictable
          /\ f \in Frames \cup {None}
      BY VictimEvictable, Zenon DEF Evictable
    <2>2. ret' = <<"frame", f>> /\ arc' = IF f = None THEN arc ELSE DoEvict(arc, f) BY <1>4 DEF Evict
    <2> HIDE DEF f
    <2>3. RetOK' BY <2>1, <2>2 DEF RetOK
    <2>4. CASE f = None BY <2>2, <2>3, <2>4
    <2>5. CASE f # None BY <2>1, <2>2, <2>3, <2>5, EvictDirectory
    <2>6. QED BY <2>4, <2>5
  <1>5. ASSUME Size
        PROVE  /\ Directory(arc') /\ RetOK'
               /\ InBounds(arc) /\ "Scan" \notin AccessTypes => InBounds(arc')
    <2>1. arc.curr_size \in Nat BY VictimEvictable
    <2>2. QED BY <1>5, <2>1 DEF Size, RetOK
  <1>6. QED BY <1>1, <1>2, <1>3, <1>4, <1>5 DEF Next

\* The directory of EmptyArc.
LEMMA InitDirectory ==
    ASSUME Init
    PROVE  Directory(arc) /\ RetOK /\ InBounds(arc)
  <1>1. Has(arc, <<>>, <<>>, <<>>, <<>>, EmptyMap, EmptyMap, 0, 0)
    BY DEF Init, EmptyArc, Has, ArcFields
  <1>2. /\ DOMAIN EmptyMap = {} /\ WithStatus(EmptyMap, "MRU") = {} /\ WithStatus(EmptyMap, "MFU") = {}
        /\ EvictableIn(EmptyMap) = {}
        /\ GhostsOf(EmptyMap, "MRU_GHOST") = {} /\ GhostsOf(EmptyMap, "MFU_GHOST") = {}
    BY DEF EmptyMap, WithStatus, EvictableIn, GhostsOf
  <1>3. IsMap(EmptyMap, Frames, AliveEntry) /\ IsMap(EmptyMap, Pages, {"MRU_GHOST", "MFU_GHOST"})
    BY DEF IsMap, EmptyMap
  <1>4. Listed(<<>>, Frames, {}) /\ Listed(<<>>, Pages, {}) BY ListedEmpty
  <1>5. Cached(<<>>, <<>>, EmptyMap, 0) BY <1>2, <1>3, <1>4, FS_EmptySet, Zenon DEF Cached
  <1>6. Remembered(<<>>, <<>>, EmptyMap) BY <1>2, <1>3, <1>4, Zenon DEF Remembered
  <1>7. replacer_size \in Nat BY ArcAssumption, FS_CardinalityType DEF replacer_size
  <1>8. Consistent(<<>>, <<>>, <<>>, <<>>, EmptyMap, EmptyMap, 0, 0)
    BY <1>2, <1>5, <1>6, <1>7 DEF Consistent
  <1>9. Bounded(<<>>, <<>>, <<>>, <<>>) BY <1>7 DEF Bounded
  <1>10. Directory(arc) /\ InBounds(arc) BY <1>1, <1>8, <1>9, DirectoryKept
  <1>11. QED BY <1>10 DEF Init, RetOK

\* Directory says what DirectoryConsistent says.
LEMMA DirectoryMeans ==
    ASSUME Directory(arc), RetOK
    PROVE  DirectoryConsistent
  <1> DEFINE am == arc.alive_map
             gm == arc.ghost_map
  <1>1. /\ Cached(arc.mru, arc.mfu, am, arc.curr_size)
        /\ Remembered(arc.mru_ghost, arc.mfu_ghost, gm)
        /\ \A f \in DOMAIN am : am[f].page \notin DOMAIN gm
        /\ arc.mru_target_size \in 0 .. replacer_size /\ DOMAIN arc = ArcFields
    BY DEF Directory, Consistent
  <1>2. /\ Listed(arc.mru, Frames, WithStatus(am, "MRU")) /\ Listed(arc.mfu, Frames, WithStatus(am, "MFU"))
        /\ Listed(arc.mru_ghost, Pages, GhostsOf(gm, "MRU_GHOST"))
        /\ Listed(arc.mfu_ghost, Pages, GhostsOf(gm, "MFU_GHOST"))
    BY <1>1 DEF Cached, Remembered
  <1>3. /\ Distinct(arc.mru) /\ Range(arc.mru) = WithStatus(am, "MRU")
        /\ Distinct(arc.mfu) /\ Range(arc.mfu) = WithStatus(am, "MFU")
        /\ Distinct(arc.mru_ghost) /\ Range(arc.mru_ghost) = GhostsOf(gm, "MRU_GHOST")
        /\ Distinct(arc.mfu_ghost) /\ Range(arc.mfu_ghost) = GhostsOf(gm, "MFU_GHOST")
    <2>1. ASSUME NEW S, NEW l, NEW D, Listed(l, S, D) PROVE Distinct(l) /\ Range(l) = D
      <3>1. l \in Seq(S) /\ D \subseteq S BY <2>1 DEF Listed
      <3>2. QED BY <2>1, <3>1, ListedDistinct, Zenon
    <2>2. QED BY <1>2, <2>1, Zenon
  <1>4. ListsMatchMaps BY <1>3 DEF ListsMatchMaps, WithStatus, GhostsOf
  <1>5. SizeCountsEvictable BY VictimEvictable DEF SizeCountsEvictable
  <1>6. AliveNotGhost BY <1>1 DEF AliveNotGhost, AlivePages
  <1>7. PageInOneFrame BY <1>1 DEF PageInOneFrame, Cached
  <1>8. TypeOK
    <2>1. DOMAIN arc = DOMAIN EmptyArc BY <1>1 DEF ArcFields, EmptyArc
    <2>2. /\ arc.mru \in Seq(Frames) /\ arc.mfu \in Seq(Frames)
          /\ arc.mru_ghost \in Seq(Pages) /\ arc.mfu_ghost \in Seq(Pages)
      BY <1>2 DEF Listed
    <2>3. /\ IsMap(am, Frames, AliveEntry) /\ IsMap(gm, Pages, {"MRU_GHOST", "MFU_GHOST"})
      BY <1>1 DEF Cached, Remembered
    <2>4. arc.curr_size \in Nat BY VictimEvictable
    <2>5. QED BY <1>1, <2>1, <2>2, <2>3, <2>4 DEF TypeOK, RetOK
  <1>9. QED BY <1>4, <1>5, <1>6, <1>7, <1>8 DEF DirectoryConsistent

\* InBounds is ARC's two bounds.
LEMMA BoundsMean ==
    ASSUME Directory(arc), InBounds(arc)
    PROVE  ArcBounds
  <1>1. /\ Len(arc.mru) \in Nat /\ Len(arc.mfu) \in Nat
        /\ Len(arc.mru_ghost) \in Nat /\ Len(arc.mfu_ghost) \in Nat
    BY ListSizes, Zenon DEF Directory
  <1>2. QED BY <1>1, Zenon DEF InBounds, Bounded, ArcBounds, RecencySideBound, DirectoryBound, DirectorySize

\* After any sequence of calls, with any number of frames and pages, the four
\* lists and the two maps of ArcReplacer agree, curr_size_ counts the evictable
\* frames and no cached page is remembered as evicted.
THEOREM ArcDirectoryConsistent == Spec => []DirectoryConsistent
  <1> DEFINE Inv == Directory(arc) /\ RetOK
  <1>1. Init => Inv BY InitDirectory
  <1>2. Inv /\ [Next]_vars => Inv'
    <2> SUFFICES ASSUME Inv, [Next]_vars PROVE Inv' OBVIOUS
    <2>1. CASE Next BY <2>1, StepDirectory
    <2>2. CASE UNCHANGED vars BY <2>2 DEF vars, RetOK
    <2>3. QED BY <2>1, <2>2
  <1>3. Inv => DirectoryConsistent BY DirectoryMeans
  <1> HIDE DEF Inv
  <1>4. QED BY <1>1, <1>2, <1>3, PTL DEF Spec

\* A replacer that is never called with AccessType::Scan keeps ARC's bounds:
\* the recency side within c entries, the whole directory within 2c.
THEOREM ArcWithinBounds ==
    ASSUME "Scan" \notin AccessTypes
    PROVE  Spec => []ArcBounds
  <1> DEFINE Inv == Directory(arc) /\ InBounds(arc)
  <1>1. Init => Inv BY InitDirectory
  <1>2. Inv /\ [Next]_vars => Inv'
    <2> SUFFICES ASSUME Inv, [Next]_vars PROVE Inv' OBVIOUS
    <2>1. CASE Next BY <2>1, StepDirectory
    <2>2. CASE UNCHANGED vars BY <2>2 DEF vars
    <2>3. QED BY <2>1, <2>2
  <1>3. Inv => ArcBounds BY BoundsMean
  <1> HIDE DEF Inv
  <1>4. QED BY <1>1, <1>2, <1>3, PTL DEF Spec

-----------------------------------------------------------------------------
(* Refinement of the abstract replacer.                                    *)

\* The replacer a buffer pool sees in alive_map_.
Abs(am) == [tracked   |-> [f \in DOMAIN am |-> am[f].page],
            evictable |-> {f \in DOMAIN am : am[f].evictable}]

\* Abs is the refinement mapping.
LEMMA AbsIs == AbsReplacer = Abs(arc.alive_map) BY DEF AbsReplacer, Abs, Evictable

\* What the changes of alive_map_ are to the abstract replacer.
LEMMA AbsAccessed ==
    ASSUME NEW am, am \in [DOMAIN am -> AliveEntry], NEW f, NEW p, NEW status,
           NEW new, new = IF f \in DOMAIN am /\ am[f].page = p
                            THEN [am EXCEPT ![f].status = status]
                            ELSE Put(am, f, NewEntry(p, status))
    PROVE  Abs(new) = R!Accessed(Abs(am), f, p)
  <1> DEFINE tr == [g \in DOMAIN am |-> am[g].page]
             ev == {g \in DOMAIN am : am[g].evictable}
             tr1 == [g \in DOMAIN new |-> new[g].page]
             ev1 == {g \in DOMAIN new : new[g].evictable}
  <1>1. /\ DOMAIN new = DOMAIN am \cup {f}
        /\ \A g \in DOMAIN am \ {f} : new[g].page = am[g].page /\ new[g].evictable = am[g].evictable
        /\ new[f].page = p
        /\ new[f].evictable = IF f \in DOMAIN am /\ am[f].page = p THEN am[f].evictable ELSE FALSE
    <2>1. CASE f \in DOMAIN am /\ am[f].page = p
      BY <2>1, Zenon DEF AliveEntry
    <2>2. CASE ~(f \in DOMAIN am /\ am[f].page = p)
      BY <2>2 DEF Put, NewEntry
    <2>3. QED BY <2>1, <2>2, Zenon
  <1>2. tr1 = R!Put(tr, f, p) BY <1>1 DEF R!Put
  <1>3. ev1 = IF f \in DOMAIN tr /\ tr[f] = p THEN ev ELSE ev \ {f} BY <1>1, Zenon
  <1>4. Abs(new) = [tracked |-> tr1, evictable |-> ev1] /\ Abs(am) = [tracked |-> tr, evictable |-> ev]
    BY DEF Abs
  <1> HIDE DEF tr, ev, tr1, ev1
  <1>5. QED BY <1>2, <1>3, <1>4 DEF R!Accessed

\* Erasing a frame from alive_map_ forgets it.
LEMMA AbsForgotten ==
    ASSUME NEW am, NEW f
    PROVE  Abs(Erase(am, f)) = R!Forgotten(Abs(am), f)
  <1> DEFINE new == Erase(am, f)
             tr == [g \in DOMAIN am |-> am[g].page]
             ev == {g \in DOMAIN am : am[g].evictable}
             tr1 == [g \in DOMAIN new |-> new[g].page]
             ev1 == {g \in DOMAIN new : new[g].evictable}
  <1>1. DOMAIN new = DOMAIN am \ {f} /\ \A g \in DOMAIN am \ {f} : new[g] = am[g]
    BY EraseMap, Zenon
  <1>2. Abs(new) = [tracked |-> tr1, evictable |-> ev1] /\ Abs(am) = [tracked |-> tr, evictable |-> ev]
    BY DEF Abs
  <1> HIDE DEF new
  <1>3. tr1 = R!Erase(tr, f) BY <1>1 DEF R!Erase
  <1>4. ev1 = ev \ {f} BY <1>1
  <1> HIDE DEF tr, ev, tr1, ev1
  <1>5. QED BY <1>2, <1>3, <1>4 DEF R!Forgotten, new

\* Changing a frame's flag changes the evictable set.
LEMMA AbsWithEvictable ==
    ASSUME NEW am, am \in [DOMAIN am -> AliveEntry], NEW f \in DOMAIN am, NEW b \in BOOLEAN
    PROVE  Abs([am EXCEPT ![f].evictable = b]) = R!WithEvictable(Abs(am), f, b)
  <1> DEFINE new == [am EXCEPT ![f].evictable = b]
             tr == [g \in DOMAIN am |-> am[g].page]
             ev == {g \in DOMAIN am : am[g].evictable}
             tr1 == [g \in DOMAIN new |-> new[g].page]
             ev1 == {g \in DOMAIN new : new[g].evictable}
  <1>1. /\ DOMAIN new = DOMAIN am
        /\ \A g \in DOMAIN am \ {f} : new[g].page = am[g].page /\ new[g].evictable = am[g].evictable
        /\ new[f].page = am[f].page /\ new[f].evictable = b
    BY DEF AliveEntry
  <1>2. Abs(new) = [tracked |-> tr1, evictable |-> ev1] /\ Abs(am) = [tracked |-> tr, evictable |-> ev]
    BY DEF Abs
  <1> HIDE DEF new
  <1>3. tr1 = tr /\ f \in DOMAIN tr BY <1>1
  <1>4. ev1 = IF b THEN ev \cup {f} ELSE ev \ {f} BY <1>1
  <1> HIDE DEF tr, ev, tr1, ev1
  <1>5. QED BY <1>2, <1>3, <1>4 DEF R!WithEvictable, new

\* What the abstract replacer's guards are in alive_map_.
LEMMA AbsFields ==
    ASSUME NEW am
    PROVE  /\ DOMAIN Abs(am).tracked = DOMAIN am
           /\ Abs(am).evictable = {g \in DOMAIN am : am[g].evictable}
           /\ \A g \in DOMAIN am : Abs(am).tracked[g] = am[g].page
  BY DEF Abs

\* SetEvictable that changes no flag changes nothing.
LEMMA AbsSame ==
    ASSUME NEW am, am \in [DOMAIN am -> AliveEntry], NEW f, NEW b \in BOOLEAN,
           f \notin DOMAIN am \/ am[f].evictable = b
    PROVE  R!WithEvictable(Abs(am), f, b) = Abs(am)
  <1> DEFINE tr == [g \in DOMAIN am |-> am[g].page]
             ev == {g \in DOMAIN am : am[g].evictable}
  <1>1. Abs(am) = [tracked |-> tr, evictable |-> ev] BY DEF Abs
  <1>2. DOMAIN tr = DOMAIN am /\ (f \in DOMAIN am => ev = IF b THEN ev \cup {f} ELSE ev \ {f})
    OBVIOUS
  <1> HIDE DEF tr, ev
  <1>3. QED BY <1>1, <1>2 DEF R!WithEvictable

\* Every call of ArcReplacer is a call of the abstract replacer.
LEMMA StepRefines ==
    ASSUME Directory(arc), Next
    PROVE  R!Next
  <1> DEFINE am == arc.alive_map
             new == arc'.alive_map
  <1>1. /\ AbsReplacer = Abs(am) /\ AbsReplacer' = Abs(new) BY AbsIs DEF AbsReplacer, Abs, Evictable
  <1>2. am \in [DOMAIN am -> AliveEntry] /\ DOMAIN am \subseteq Frames
    BY DEF Directory, Consistent, Cached, IsMap
  <1>3. /\ DOMAIN AbsReplacer.tracked = DOMAIN am
        /\ AbsReplacer.evictable = {g \in DOMAIN am : am[g].evictable}
        /\ \A g \in DOMAIN am : AbsReplacer.tracked[g] = am[g].page
    BY <1>1, AbsFields
  <1>4. ASSUME NEW f \in Frames, NEW p \in Pages, NEW t \in AccessTypes, RecordAccess(f, p, t)
        PROVE  R!RecordAccess(f, p)
    <2>1. /\ arc' = DoRecordAccess(arc, f, p, t) /\ ~AliveElsewhere(arc, f, p) /\ ret' = <<"void">>
      BY <1>4 DEF RecordAccess
    <2>2. PICK status \in {"MRU", "MFU"} :
            new = IF f \in DOMAIN am /\ am[f].page = p
                    THEN [am EXCEPT ![f].status = status]
                    ELSE Put(am, f, NewEntry(p, status))
      BY <2>1, RecordAccessDirectory
    <2> HIDE DEF new, am
    <2>3. Abs(new) = R!Accessed(Abs(am), f, p) BY <1>2, <2>2, AbsAccessed
    <2>4. ~R!CachedElsewhere(AbsReplacer, f, p) BY <1>3, <2>1 DEF R!CachedElsewhere, AliveElsewhere, am
    <2>5. QED BY <1>1, <2>1, <2>3, <2>4 DEF R!RecordAccess
  <1>5. ASSUME NEW f \in Frames, NEW b \in BOOLEAN, SetEvictable(f, b)
        PROVE  R!SetEvictable(f, b)
    <2>1. arc' = DoSetEvictable(arc, f, b) /\ ret' = <<"void">> BY <1>5 DEF SetEvictable
    <2>2. CASE f \in DOMAIN am /\ am[f].evictable # b
      <3>1. new = [am EXCEPT ![f].evictable = b] BY <2>1, <2>2, SetEvictableDirectory
      <3> HIDE DEF new, am
      <3>2. Abs(new) = R!WithEvictable(Abs(am), f, b) BY <1>2, <2>2, <3>1, AbsWithEvictable, Zenon
      <3>3. QED BY <1>1, <2>1, <3>2 DEF R!SetEvictable
    <2>3. CASE ~(f \in DOMAIN am /\ am[f].evictable # b)
      <3>1. new = am BY <2>1, <2>3 DEF DoSetEvictable
      <3> HIDE DEF new, am
      <3>2. Abs(am) = R!WithEvictable(Abs(am), f, b) BY <1>2, <2>3, AbsSame
      <3>3. QED BY <1>1, <2>1, <3>1, <3>2 DEF R!SetEvictable
    <2>4. QED BY <2>2, <2>3
  <1>6. ASSUME NEW f \in Frames, RemoveFrame(f)
        PROVE  R!Remove(f)
    <2>1. CASE f \notin DOMAIN am
      <3>1. ret' = <<"void">> /\ new = am BY <1>6, <2>1 DEF RemoveFrame
      <3>2. Erase(am, f) = am
        <4> HIDE DEF am
        <4> QED BY <1>2, <2>1 DEF Erase
      <3> HIDE DEF new, am
      <3>3. Abs(new) = R!Forgotten(Abs(am), f) BY <3>1, <3>2, AbsForgotten
      <3>4. QED BY <1>1, <1>3, <2>1, <3>1, <3>3 DEF R!Remove
    <2>2. CASE f \in DOMAIN am /\ ~am[f].evictable
      <3>1. ret' = <<"throw">> /\ new = am BY <1>6, <2>2 DEF RemoveFrame
      <3> HIDE DEF new, am
      <3>2. QED BY <1>1, <1>3, <2>2, <3>1 DEF R!Remove
    <2>3. CASE f \in DOMAIN am /\ am[f].evictable
      <3>1. ret' = <<"void">> /\ arc' = DropAlive(arc, f) BY <1>6, <2>3 DEF RemoveFrame
      <3>2. new = Erase(am, f) BY <2>3, <3>1, DropDirectory
      <3> HIDE DEF new, am
      <3>3. Abs(new) = R!Forgotten(Abs(am), f) BY <3>2, AbsForgotten
      <3>4. QED BY <1>1, <1>3, <2>3, <3>1, <3>3 DEF R!Remove
    <2>4. QED BY <2>1, <2>2, <2>3
  <1>7. ASSUME Evict PROVE R!Evict
    <2> DEFINE f == Victim(arc)
    <2>1. /\ f = None => Evictable(arc) = {}
          /\ f # None => f \in Evictable(arc)
      BY VictimEvictable
    <2>2. ret' = <<"frame", f>> /\ arc' = IF f = None THEN arc ELSE DoEvict(arc, f) BY <1>7 DEF Evict
    <2>3. Evictable(arc) = AbsReplacer.evictable BY <1>3 DEF Evictable
    <2> HIDE DEF f
    <2>4. CASE f = None
      <3>1. new = am BY <2>2, <2>4
      <3> HIDE DEF new, am
      <3>2. QED BY <1>1, <2>1, <2>2, <2>3, <2>4, <3>1 DEF R!Evict
    <2>5. CASE f # None
      <3>1. f \in DOMAIN am /\ am[f].evictable BY <2>1, <2>5 DEF Evictable
      <3>2. new = Erase(am, f) BY <2>2, <2>5, <3>1, EvictDirectory
      <3> HIDE DEF new, am
      <3>3. Abs(new) = R!Forgotten(Abs(am), f) BY <3>2, AbsForgotten
      <3>4. QED BY <1>1, <2>1, <2>2, <2>3, <2>5, <3>3 DEF R!Evict
    <2>6. QED BY <2>4, <2>5
  <1>8. ASSUME Size PROVE R!Size
    <2>1. arc.curr_size = Cardinality(AbsReplacer.evictable) BY <1>3, VictimEvictable DEF Evictable
    <2>2. new = am /\ ret' = <<"size", arc.curr_size>> BY <1>8 DEF Size
    <2> HIDE DEF new, am
    <2>3. R!Cardinality(AbsReplacer.evictable) = Cardinality(AbsReplacer.evictable)
      BY DEF R!Cardinality, Cardinality
    <2>4. QED BY <1>1, <2>1, <2>2, <2>3 DEF R!Size
  <1>9. QED BY <1>4, <1>5, <1>6, <1>7, <1>8 DEF Next, R!Next

\* ArcReplacer implements the abstract replacer for every pool and every page
\* set: Evict returns an evictable frame and fails only when there is none, Size
\* counts the evictable frames, Remove refuses a pinned frame, and no call
\* touches the entry of another frame.
THEOREM ArcImplementsReplacer == Spec => ImplementsReplacer
  <1> DEFINE Inv == Directory(arc)
  <1>1. Init => Inv /\ R!Init
    <2> SUFFICES ASSUME Init PROVE Inv /\ R!Init OBVIOUS
    <2>1. Inv BY InitDirectory
    <2>2. arc.alive_map = EmptyMap BY DEF Init, EmptyArc
    <2>3. AbsReplacer = R!EmptyReplacer
      BY <2>2 DEF AbsReplacer, Evictable, EmptyMap, R!EmptyReplacer, R!EmptyMap
    <2>4. QED BY <2>1, <2>3 DEF Init, R!Init
  <1>2. Inv /\ [Next]_vars => Inv' /\ [R!Next]_(R!vars)
    <2> SUFFICES ASSUME Inv, [Next]_vars PROVE Inv' /\ [R!Next]_(R!vars) OBVIOUS
    <2>1. CASE Next BY <2>1, StepDirectory, StepRefines
    <2>2. CASE UNCHANGED vars BY <2>2 DEF vars, R!vars, AbsReplacer, Evictable
    <2>3. QED BY <2>1, <2>2
  <1> HIDE DEF Inv
  <1>3. QED BY <1>1, <1>2, PTL DEF Spec, ImplementsReplacer, R!Spec

=============================================================================
