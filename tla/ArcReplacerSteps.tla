-------------------------- MODULE ArcReplacerSteps --------------------------
(***************************************************************************)
(* Every operation of ArcReplacer keeps its directory consistent.          *)
(*                                                                         *)
(* Directory(s) says that the members of the record s are Consistent.  A   *)
(* lemma per operation gives its result's directory, its alive_map_ and    *)
(* whether the bounds on the lists survive.                                *)
(***************************************************************************)
EXTENDS ArcReplacerLists

\* The provers' time limit, which includes the time tlapm needs on a long module.
USE SMTT(60)
USE FieldUpdate

-----------------------------------------------------------------------------
(* The same for the record of the members.                                 *)

ArcFields == {"mru", "mfu", "mru_ghost", "mfu_ghost", "alive_map", "ghost_map",
              "curr_size", "mru_target_size"}

Has(s, mru, mfu, g1, g2, am, gm, size, target) ==
    /\ DOMAIN s = ArcFields
    /\ s.mru = mru /\ s.mfu = mfu /\ s.mru_ghost = g1 /\ s.mfu_ghost = g2
    /\ s.alive_map = am /\ s.ghost_map = gm
    /\ s.curr_size = size /\ s.mru_target_size = target

Directory(s) ==
    /\ DOMAIN s = ArcFields
    /\ Consistent(s.mru, s.mfu, s.mru_ghost, s.mfu_ghost, s.alive_map, s.ghost_map,
                  s.curr_size, s.mru_target_size)

InBounds(s) == Bounded(s.mru, s.mfu, s.mru_ghost, s.mfu_ghost)

\* A record with the members of the class has its own values.
LEMMA HasFields ==
    ASSUME NEW s, DOMAIN s = ArcFields
    PROVE  Has(s, s.mru, s.mfu, s.mru_ghost, s.mfu_ghost, s.alive_map, s.ghost_map,
               s.curr_size, s.mru_target_size)
  BY DEF Has

\* UnlinkAlive and the two insertions, member by member.
LEMMA RecordHas ==
    ASSUME NEW s, NEW mru, NEW mfu, NEW g1, NEW g2, NEW am, NEW gm, NEW size, NEW target,
           Has(s, mru, mfu, g1, g2, am, gm, size, target), NEW f, NEW p
    PROVE  /\ Has(UnlinkAlive(s, f), MruWithout(mru, am, f), MfuWithout(mfu, am, f), g1, g2, am, gm, size, target)
           /\ Has(InsertToMru(s, f, p), Append(mru, f), mfu, g1, g2, Put(am, f, NewEntry(p, "MRU")), gm, size, target)
           /\ Has(InsertToMfu(s, f, p), mru, <<f>> \o mfu, g1, g2, Put(am, f, NewEntry(p, "MFU")), gm, size, target)
  <1>1. Has(UnlinkAlive(s, f), MruWithout(mru, am, f), MfuWithout(mfu, am, f), g1, g2, am, gm, size, target)
    BY DEF Has, UnlinkAlive, MruWithout, MfuWithout, ArcFields
  <1>2. Has(InsertToMru(s, f, p), Append(mru, f), mfu, g1, g2, Put(am, f, NewEntry(p, "MRU")), gm, size, target)
    BY DEF Has, InsertToMru, ArcFields
  <1>3. Has(InsertToMfu(s, f, p), mru, <<f>> \o mfu, g1, g2, Put(am, f, NewEntry(p, "MFU")), gm, size, target)
    BY DEF Has, InsertToMfu, ArcFields
  <1>4. QED BY <1>1, <1>2, <1>3

\* ForgetOtherPage and DropAlive, member by member; they differ only in how they
\* count a frame that is not evictable.
LEMMA DropHas ==
    ASSUME NEW s, NEW mru, NEW mfu, NEW g1, NEW g2, NEW am, NEW gm, NEW size, NEW target,
           Has(s, mru, mfu, g1, g2, am, gm, size, target), NEW f
    PROVE  /\ Has(ForgetOtherPage(s, f), MruWithout(mru, am, f), MfuWithout(mfu, am, f), g1, g2,
                  Erase(am, f), gm, IF am[f].evictable THEN size - 1 ELSE size, target)
           /\ am[f].evictable =>
                Has(DropAlive(s, f), MruWithout(mru, am, f), MfuWithout(mfu, am, f), g1, g2,
                    Erase(am, f), gm, IF am[f].evictable THEN size - 1 ELSE size, target)
  <1> DEFINE u == UnlinkAlive(s, f)
  <1>1. Has(u, MruWithout(mru, am, f), MfuWithout(mfu, am, f), g1, g2, am, gm, size, target)
    BY RecordHas, Zenon
  <1>2. /\ ForgetOtherPage(s, f) = [u EXCEPT !.alive_map = Erase(@, f),
                                             !.curr_size = IF s.alive_map[f].evictable THEN @ - 1 ELSE @]
        /\ DropAlive(s, f) = [u EXCEPT !.alive_map = Erase(@, f), !.curr_size = @ - 1]
    BY DEF ForgetOtherPage, DropAlive
  <1>3. s.alive_map = am BY DEF Has
  <1> HIDE DEF u
  <1>4. CASE am[f].evictable
    <2>1. ForgetOtherPage(s, f) = DropAlive(s, f) BY <1>2, <1>3, <1>4
    <2>2. Has(DropAlive(s, f), MruWithout(mru, am, f), MfuWithout(mfu, am, f), g1, g2,
              Erase(am, f), gm, size - 1, target)
      BY <1>1, <1>2 DEF Has, ArcFields
    <2>3. QED BY <1>4, <2>1, <2>2
  <1>5. CASE ~am[f].evictable
    <2>1. ForgetOtherPage(s, f) = [u EXCEPT !.alive_map = Erase(@, f), !.curr_size = @]
      BY <1>2, <1>3, <1>5
    <2>2. Has(ForgetOtherPage(s, f), MruWithout(mru, am, f), MfuWithout(mfu, am, f), g1, g2,
              Erase(am, f), gm, size, target)
      BY <1>1, <2>1 DEF Has, ArcFields
    <2>3. QED BY <1>5, <2>2
  <1>6. QED BY <1>4, <1>5, Zenon

\* MoveAliveToMfu and MoveAliveToMru, member by member.
LEMMA MoveHas ==
    ASSUME NEW s, NEW mru, NEW mfu, NEW g1, NEW g2, NEW am, NEW gm, NEW size, NEW target,
           Has(s, mru, mfu, g1, g2, am, gm, size, target), NEW f
    PROVE  /\ Has(MoveAliveToMfu(s, f), MruWithout(mru, am, f), <<f>> \o MfuWithout(mfu, am, f), g1, g2,
                  [am EXCEPT ![f].status = "MFU"], gm, size, target)
           /\ Has(MoveAliveToMru(s, f), Append(MruWithout(mru, am, f), f), MfuWithout(mfu, am, f), g1, g2,
                  [am EXCEPT ![f].status = "MRU"], gm, size, target)
  <1> DEFINE u == UnlinkAlive(s, f)
  <1>1. Has(u, MruWithout(mru, am, f), MfuWithout(mfu, am, f), g1, g2, am, gm, size, target)
    BY RecordHas, Zenon
  <1>2. /\ MoveAliveToMfu(s, f) = [u EXCEPT !.mfu = <<f>> \o @, !.alive_map[f].status = "MFU"]
        /\ MoveAliveToMru(s, f) = [u EXCEPT !.mru = Append(@, f), !.alive_map[f].status = "MRU"]
    BY DEF MoveAliveToMfu, MoveAliveToMru
  <1> DEFINE mru1 == MruWithout(mru, am, f)
             mfu1 == MfuWithout(mfu, am, f)
             front == <<f>> \o mfu1
             back == Append(mru1, f)
             m(status) == [am EXCEPT ![f].status = status]
  <1>3. /\ MoveAliveToMfu(s, f) = [u EXCEPT !.mfu = front, !.alive_map = m("MFU")]
        /\ MoveAliveToMru(s, f) = [u EXCEPT !.mru = back, !.alive_map = m("MRU")]
    <2> HIDE DEF u, mru1, mfu1
    <2>1. DOMAIN u = ArcFields /\ u.mru = mru1 /\ u.mfu = mfu1 /\ u.alive_map = am BY <1>1 DEF Has, mru1, mfu1
    <2>2. QED BY <1>2, <2>1, Zenon DEF ArcFields
  <1> HIDE DEF u, front, back, m, mru1, mfu1
  <1>4. Has(MoveAliveToMfu(s, f), mru1, front, g1, g2, m("MFU"), gm, size, target)
    BY <1>1, <1>3 DEF Has, ArcFields, mru1
  <1>5. Has(MoveAliveToMru(s, f), back, mfu1, g1, g2, m("MRU"), gm, size, target)
    BY <1>1, <1>3 DEF Has, ArcFields, mfu1
  <1>6. QED BY <1>4, <1>5 DEF front, back, m, mru1, mfu1

\* RemoveGhostEntry and the two ghost insertions, member by member.
LEMMA GhostHas ==
    ASSUME NEW s, NEW mru, NEW mfu, NEW g1, NEW g2, NEW am, NEW gm, NEW size, NEW target,
           Has(s, mru, mfu, g1, g2, am, gm, size, target), NEW p
    PROVE  /\ p \in DOMAIN gm =>
                Has(RemoveGhostEntry(s, p), mru, mfu, G1Without(g1, gm, p), G2Without(g2, gm, p), am,
                    Erase(gm, p), size, target)
           /\ p \notin DOMAIN gm =>
                /\ Has(InsertMruGhost(s, p), mru, mfu, Append(g1, p), g2, am, Put(gm, p, "MRU_GHOST"), size, target)
                /\ Has(InsertMfuGhost(s, p), mru, mfu, g1, <<p>> \o g2, am, Put(gm, p, "MFU_GHOST"), size, target)
  <1>1. p \in DOMAIN gm =>
          Has(RemoveGhostEntry(s, p), mru, mfu, G1Without(g1, gm, p), G2Without(g2, gm, p), am,
              Erase(gm, p), size, target)
    BY DEF Has, RemoveGhostEntry, G1Without, G2Without, ArcFields
  <1>2. p \notin DOMAIN gm => RemoveGhostEntry(s, p) = s BY DEF Has, RemoveGhostEntry
  <1>3. QED BY <1>1, <1>2 DEF Has, InsertMruGhost, InsertMfuGhost, ArcFields

-----------------------------------------------------------------------------
(* Each operation keeps the directory.                                     *)

\* Names for the members of a directory.
LEMMA DirectoryFields ==
    ASSUME NEW s, Directory(s)
    PROVE  \E mru, mfu, g1, g2, am, gm, size, target :
              /\ Has(s, mru, mfu, g1, g2, am, gm, size, target)
              /\ Consistent(mru, mfu, g1, g2, am, gm, size, target)
              /\ s.alive_map = am /\ s.ghost_map = gm
              /\ InBounds(s) <=> Bounded(mru, mfu, g1, g2)
  <1> WITNESS s.mru, s.mfu, s.mru_ghost, s.mfu_ghost, s.alive_map, s.ghost_map,
              s.curr_size, s.mru_target_size
  <1> QED BY HasFields, Zenon DEF Directory, InBounds

\* The converse: from consistent members back to the record.
LEMMA DirectoryKept ==
    ASSUME NEW s, NEW mru, NEW mfu, NEW g1, NEW g2, NEW am, NEW gm, NEW size, NEW target,
           Has(s, mru, mfu, g1, g2, am, gm, size, target),
           Consistent(mru, mfu, g1, g2, am, gm, size, target)
    PROVE  /\ Directory(s) /\ s.alive_map = am /\ s.ghost_map = gm
           /\ InBounds(s) <=> Bounded(mru, mfu, g1, g2)
  BY DEF Has, Directory, InBounds

\* A frame leaves the cache: RecordAccess forgets the frame's old page, Remove and
\* Evict drop an evictable frame.
LEMMA DropDirectory ==
    ASSUME NEW s, Directory(s), NEW f \in DOMAIN s.alive_map
    PROVE  LET u == ForgetOtherPage(s, f)
               v == DropAlive(s, f)
           IN  /\ Directory(u) /\ u.alive_map = Erase(s.alive_map, f) /\ u.ghost_map = s.ghost_map
               /\ InBounds(s) => InBounds(u)
               /\ s.alive_map[f].evictable =>
                    /\ Directory(v) /\ v.alive_map = Erase(s.alive_map, f) /\ v.ghost_map = s.ghost_map
                    /\ InBounds(s) => InBounds(v)
  <1> DEFINE u == ForgetOtherPage(s, f)
             v == DropAlive(s, f)
  <1>1. PICK mru, mfu, g1, g2, am, gm, size, target :
              /\ Has(s, mru, mfu, g1, g2, am, gm, size, target)
              /\ Consistent(mru, mfu, g1, g2, am, gm, size, target)
              /\ s.alive_map = am /\ s.ghost_map = gm
              /\ InBounds(s) <=> Bounded(mru, mfu, g1, g2)
    BY DirectoryFields, Zenon
  <1> DEFINE size1 == IF am[f].evictable THEN size - 1 ELSE size
             mru1 == MruWithout(mru, am, f)
             mfu1 == MfuWithout(mfu, am, f)
  <1>2. /\ Has(u, mru1, mfu1, g1, g2, Erase(am, f), gm, size1, target)
        /\ am[f].evictable => Has(v, mru1, mfu1, g1, g2, Erase(am, f), gm, size1, target)
    BY <1>1, DropHas, Zenon
  <1>3. f \in DOMAIN am BY <1>1
  <1>4. /\ Consistent(mru1, mfu1, g1, g2, Erase(am, f), gm, size1, target)
        /\ Bounded(mru, mfu, g1, g2) => Bounded(mru1, mfu1, g1, g2)
    BY <1>1, <1>3, DropConsistent, Zenon
  <1> HIDE DEF u, v, size1, mru1, mfu1
  <1>5. /\ Directory(u) /\ u.alive_map = Erase(am, f) /\ u.ghost_map = gm
        /\ InBounds(u) <=> Bounded(mru1, mfu1, g1, g2)
    BY <1>2, <1>4, DirectoryKept, Zenon
  <1>6. am[f].evictable =>
        /\ Directory(v) /\ v.alive_map = Erase(am, f) /\ v.ghost_map = gm
        /\ InBounds(v) <=> Bounded(mru1, mfu1, g1, g2)
    BY <1>2, <1>4, DirectoryKept, Zenon
  <1>7. QED BY <1>1, <1>4, <1>5, <1>6 DEF u, v

\* An access to a cached page moves it to the front of mfu_, or to the back of
\* mru_ for a scan.
LEMMA AliveHitDirectory ==
    ASSUME NEW s, Directory(s), NEW f \in DOMAIN s.alive_map, NEW t
    PROVE  LET u == AliveHit(s, f, t)
           IN  /\ Directory(u)
               /\ \E status \in {"MRU", "MFU"} : u.alive_map = [s.alive_map EXCEPT ![f].status = status]
               /\ InBounds(s) /\ t # "Scan" => InBounds(u)
  <1> DEFINE u == AliveHit(s, f, t)
  <1>1. PICK mru, mfu, g1, g2, am, gm, size, target :
              /\ Has(s, mru, mfu, g1, g2, am, gm, size, target)
              /\ Consistent(mru, mfu, g1, g2, am, gm, size, target)
              /\ s.alive_map = am /\ s.ghost_map = gm
              /\ InBounds(s) <=> Bounded(mru, mfu, g1, g2)
    BY DirectoryFields, Zenon
  <1> DEFINE mru1 == MruWithout(mru, am, f)
             mfu1 == MfuWithout(mfu, am, f)
             front == <<f>> \o mfu1
             back == Append(mru1, f)
             m1 == [am EXCEPT ![f].status = "MRU"]
             m2 == [am EXCEPT ![f].status = "MFU"]
  <1>2. f \in DOMAIN am BY <1>1
  <1>3. /\ Consistent(mru1, front, g1, g2, m2, gm, size, target)
        /\ Consistent(back, mfu1, g1, g2, m1, gm, size, target)
        /\ Bounded(mru, mfu, g1, g2) => Bounded(mru1, front, g1, g2)
    BY <1>1, <1>2, MoveConsistent, Zenon
  <1>4. /\ Has(MoveAliveToMfu(s, f), mru1, front, g1, g2, m2, gm, size, target)
        /\ Has(MoveAliveToMru(s, f), back, mfu1, g1, g2, m1, gm, size, target)
    BY <1>1, MoveHas, Zenon
  <1> HIDE DEF u, mru1, mfu1, front, back, m1, m2
  <1>5. CASE t = "Scan"
    <2>1. u = MoveAliveToMru(s, f) BY <1>5 DEF u, AliveHit
    <2> DEFINE v == MoveAliveToMru(s, f)
    <2>2. Directory(v) /\ v.alive_map = m1
      BY <1>3, <1>4, DirectoryKept, Zenon
    <2> HIDE DEF v
    <2>3. QED BY <1>1, <1>5, <2>1, <2>2 DEF u, v, m1
  <1>6. CASE t # "Scan"
    <2>1. u = MoveAliveToMfu(s, f) BY <1>6 DEF u, AliveHit
    <2> DEFINE v == MoveAliveToMfu(s, f)
    <2>2. /\ Directory(v) /\ v.alive_map = m2
          /\ InBounds(v) <=> Bounded(mru1, front, g1, g2)
      BY <1>3, <1>4, DirectoryKept, Zenon
    <2> HIDE DEF v
    <2>3. QED BY <1>1, <1>3, <1>6, <2>1, <2>2 DEF u, v, m2
  <1>7. QED BY <1>5, <1>6

\* SetEvictable of a frame whose flag changes.
LEMMA SetEvictableDirectory ==
    ASSUME NEW s, Directory(s), NEW f \in DOMAIN s.alive_map, NEW b \in BOOLEAN, s.alive_map[f].evictable # b
    PROVE  LET u == DoSetEvictable(s, f, b)
           IN  /\ Directory(u) /\ u.alive_map = [s.alive_map EXCEPT ![f].evictable = b]
               /\ InBounds(s) => InBounds(u)
  <1> DEFINE u == DoSetEvictable(s, f, b)
  <1>1. PICK mru, mfu, g1, g2, am, gm, size, target :
              /\ Has(s, mru, mfu, g1, g2, am, gm, size, target)
              /\ Consistent(mru, mfu, g1, g2, am, gm, size, target)
              /\ s.alive_map = am /\ s.ghost_map = gm
              /\ InBounds(s) <=> Bounded(mru, mfu, g1, g2)
    BY DirectoryFields, Zenon
  <1> DEFINE m == [am EXCEPT ![f].evictable = b]
             size1 == IF b THEN size + 1 ELSE size - 1
  <1>2. f \in DOMAIN am /\ am[f].evictable # b BY <1>1
  <1>3. u = [s EXCEPT !.alive_map[f].evictable = b, !.curr_size = IF b THEN @ + 1 ELSE @ - 1]
    BY DEF DoSetEvictable
  <1>4. Has(u, mru, mfu, g1, g2, m, gm, size1, target)
    <2> HIDE DEF u
    <2>1. CASE b BY <1>1, <1>3, <2>1 DEF Has, ArcFields
    <2>2. CASE ~b BY <1>1, <1>3, <2>2 DEF Has, ArcFields
    <2>3. QED BY <2>1, <2>2
  <1>5. Cached(mru, mfu, m, size1) BY <1>1, <1>2, CachedSetEvictable, Zenon DEF Consistent
  <1>6. \A g \in DOMAIN m : g \in DOMAIN am /\ m[g].page = am[g].page
    BY <1>1 DEF Consistent, Cached, IsMap, AliveEntry
  <1> HIDE DEF u, m, size1
  <1>7. Consistent(mru, mfu, g1, g2, m, gm, size1, target) BY <1>1, <1>5, <1>6 DEF Consistent
  <1>8. /\ Directory(u) /\ u.alive_map = m
        /\ InBounds(u) <=> Bounded(mru, mfu, g1, g2)
    BY <1>4, <1>7, DirectoryKept, Zenon
  <1>9. QED BY <1>1, <1>8 DEF u, m

\* A ghost hit: the target moves, the ghost goes and the page enters the cache.
LEMMA GhostHitDirectory ==
    ASSUME NEW s, Directory(s), NEW f \in Frames \ DOMAIN s.alive_map, NEW p \in DOMAIN s.ghost_map, NEW t
    PROVE  LET u == GhostHit(s, f, p, t)
           IN  /\ Directory(u)
               /\ \E status \in {"MRU", "MFU"} : u.alive_map = Put(s.alive_map, f, NewEntry(p, status))
               /\ InBounds(s) /\ t # "Scan" => InBounds(u)
  <1> DEFINE a == AdaptTarget(s, p)
             v == RemoveGhostEntry(a, p)
             u == GhostHit(s, f, p, t)
  <1>1. PICK mru, mfu, g1, g2, am, gm, size, target :
              /\ Has(s, mru, mfu, g1, g2, am, gm, size, target)
              /\ Consistent(mru, mfu, g1, g2, am, gm, size, target)
              /\ s.alive_map = am /\ s.ghost_map = gm
              /\ InBounds(s) <=> Bounded(mru, mfu, g1, g2)
    BY DirectoryFields, Zenon
  <1>2. PICK target1 \in 0 .. replacer_size : Has(a, mru, mfu, g1, g2, am, gm, size, target1)
    <2>1. /\ replacer_size \in Nat /\ target \in Nat /\ target <= replacer_size
          /\ Len(g1) \in Nat /\ Len(g2) \in Nat
      BY <1>1, ListSizes DEF Consistent
    <2> DEFINE up == target + AtLeastOne(Len(g2) \div AtLeastOne(Len(g1)))
               down == AtLeastOne(Len(g1) \div AtLeastOne(Len(g2)))
               more == IF up < replacer_size THEN up ELSE replacer_size
               less == IF target > down THEN target - down ELSE 0
    <2>2. up \in Nat /\ down \in Nat
      <3>1. /\ AtLeastOne(Len(g1)) \in Nat /\ AtLeastOne(Len(g1)) > 0
            /\ AtLeastOne(Len(g2)) \in Nat /\ AtLeastOne(Len(g2)) > 0
        BY <2>1 DEF AtLeastOne
      <3>2. Len(g2) \div AtLeastOne(Len(g1)) \in Nat /\ Len(g1) \div AtLeastOne(Len(g2)) \in Nat
        BY <2>1, <3>1
      <3>3. \A n \in Nat : AtLeastOne(n) \in Nat BY DEF AtLeastOne
      <3> DEFINE x == Len(g2) \div AtLeastOne(Len(g1))
                 y == Len(g1) \div AtLeastOne(Len(g2))
      <3>4. x \in Nat /\ y \in Nat BY <3>2
      <3> HIDE DEF x, y
      <3>5. AtLeastOne(x) \in Nat /\ AtLeastOne(y) \in Nat BY <3>3, <3>4
      <3>6. target + AtLeastOne(x) \in Nat BY <2>1, <3>5
      <3>7. QED BY <3>5, <3>6 DEF x, y
    <2>3. a = IF gm[p] = "MRU_GHOST" THEN [s EXCEPT !.mru_target_size = more]
                                     ELSE [s EXCEPT !.mru_target_size = less]
      BY <1>1 DEF AdaptTarget, Has, ArcFields
    <2> HIDE DEF up, down, a
    <2>4. more \in 0 .. replacer_size /\ less \in 0 .. replacer_size BY <2>1, <2>2
    <2> HIDE DEF more, less
    <2>5. CASE gm[p] = "MRU_GHOST"
      <3>1. Has(a, mru, mfu, g1, g2, am, gm, size, more) BY <1>1, <2>3, <2>5 DEF Has, ArcFields
      <3>2. QED BY <2>4, <3>1
    <2>6. CASE gm[p] # "MRU_GHOST"
      <3>1. Has(a, mru, mfu, g1, g2, am, gm, size, less) BY <1>1, <2>3, <2>6 DEF Has, ArcFields
      <3>2. QED BY <2>4, <3>1
    <2>7. QED BY <2>5, <2>6
  <1> HIDE DEF a
  <1>3. Consistent(mru, mfu, g1, g2, am, gm, size, target1) BY <1>1 DEF Consistent
  <1> DEFINE h1 == G1Without(g1, gm, p)
             h2 == G2Without(g2, gm, p)
             hm == Erase(gm, p)
  <1>4. p \in DOMAIN gm /\ f \in Frames \ DOMAIN am BY <1>1
  <1> DEFINE front == <<f>> \o mfu
             back == Append(mru, f)
             m1 == Put(am, f, NewEntry(p, "MRU"))
             m2 == Put(am, f, NewEntry(p, "MFU"))
  <1>5. /\ Consistent(mru, mfu, h1, h2, am, hm, size, target1)
        /\ Bounded(mru, mfu, g1, g2) => Bounded(mru, front, h1, h2)
    BY <1>3, <1>4, ForgetConsistent, Zenon
  <1>6. Has(v, mru, mfu, h1, h2, am, hm, size, target1)
    BY <1>2, <1>4, GhostHas, Zenon
  <1>7. p \in Pages \ DOMAIN hm /\ \A g \in DOMAIN am : am[g].page # p
    <2>1. DOMAIN hm = DOMAIN gm \ {p} BY EraseMap, Zenon
    <2>2. DOMAIN gm \subseteq Pages BY <1>1 DEF Consistent, Remembered, IsMap
    <2>3. QED BY <1>1, <1>4, <2>1, <2>2 DEF Consistent
  <1> HIDE DEF v, h1, h2, hm
  <1>8. /\ Consistent(back, mfu, h1, h2, m1, hm, size, target1)
        /\ Consistent(mru, front, h1, h2, m2, hm, size, target1)
    BY <1>4, <1>5, <1>7, InsertConsistent, Zenon
  <1> DEFINE w1 == InsertToMru(v, f, p)
             w2 == InsertToMfu(v, f, p)
  <1>9. /\ Has(w1, back, mfu, h1, h2, m1, hm, size, target1)
        /\ Has(w2, mru, front, h1, h2, m2, hm, size, target1)
    BY <1>6, RecordHas, Zenon
  <1>10. u = IF t = "Scan" THEN w1 ELSE w2 BY DEF GhostHit, u, v, a
  <1> HIDE DEF u, w1, w2, front, back, m1, m2
  <1>11. Directory(w1) /\ w1.alive_map = m1
    BY <1>8, <1>9, DirectoryKept, Zenon
  <1>12. /\ Directory(w2) /\ w2.alive_map = m2
         /\ InBounds(w2) <=> Bounded(mru, front, h1, h2)
    BY <1>8, <1>9, DirectoryKept, Zenon
  <1>13. CASE t = "Scan" BY <1>1, <1>10, <1>11, <1>13 DEF u, m1
  <1>14. CASE t # "Scan" BY <1>1, <1>5, <1>10, <1>12, <1>14 DEF u, m2
  <1>15. QED BY <1>13, <1>14

\* A miss: one ghost makes room and the page enters mru_.
LEMMA MissDirectory ==
    ASSUME NEW s, Directory(s), NEW f \in Frames \ DOMAIN s.alive_map,
           NEW p \in Pages \ DOMAIN s.ghost_map, ~AliveElsewhere(s, f, p)
    PROVE  LET u == Miss(s, f, p)
           IN  /\ Directory(u) /\ u.alive_map = Put(s.alive_map, f, NewEntry(p, "MRU"))
               /\ InBounds(s) => InBounds(u)
  <1> DEFINE v == TrimGhosts(s)
             u == Miss(s, f, p)
  <1>1. PICK mru, mfu, g1, g2, am, gm, size, target :
              /\ Has(s, mru, mfu, g1, g2, am, gm, size, target)
              /\ Consistent(mru, mfu, g1, g2, am, gm, size, target)
              /\ s.alive_map = am /\ s.ghost_map = gm
              /\ InBounds(s) <=> Bounded(mru, mfu, g1, g2)
    BY DirectoryFields, Zenon
  <1> DEFINE back == Append(mru, f)
             left == Len(mru) + Len(g1)
             total == left + Len(mfu) + Len(g2)
             one == left = replacer_size /\ Len(mru) < replacer_size /\ g1 # <<>>
             two == left < replacer_size /\ total = 2 * replacer_size /\ g2 # <<>>
             rest == SubSeq(g2, 1, Len(g2) - 1)
             first == Head(g1)
             last == g2[Len(g2)]
  <1>2. PICK h1, h2, hm :
          /\ Has(v, mru, mfu, h1, h2, am, hm, size, target)
          /\ Remembered(h1, h2, hm) /\ DOMAIN hm \subseteq DOMAIN gm
          /\ Bounded(mru, mfu, g1, g2) => Bounded(back, mfu, h1, h2)
    <2>1. v = IF one THEN [s EXCEPT !.mru_ghost = Tail(@), !.ghost_map = Erase(@, first)]
              ELSE IF two THEN [s EXCEPT !.mfu_ghost = rest, !.ghost_map = Erase(@, last)]
              ELSE s
      BY <1>1 DEF TrimGhosts, Has, ArcFields
    <2>2. f \in Frames \ DOMAIN am BY <1>1
    <2>3. Bounded(mru, mfu, g1, g2) =>
               /\ left = replacer_size => g1 # <<>> /\ Len(mru) < replacer_size
               /\ left < replacer_size /\ total = 2 * replacer_size => g2 # <<>>
               /\ left = replacer_size => Bounded(back, mfu, Tail(g1), g2)
               /\ left < replacer_size /\ total = 2 * replacer_size => Bounded(back, mfu, g1, rest)
               /\ left < replacer_size /\ total # 2 * replacer_size => Bounded(back, mfu, g1, g2)
      BY <1>1, <2>2, MissBounded, Zenon
    <2>4. Bounded(mru, mfu, g1, g2) => left = replacer_size \/ left < replacer_size
      <3>1. replacer_size \in Nat /\ Len(mru) \in Nat /\ Len(g1) \in Nat BY <1>1, ListSizes
      <3>2. QED BY <3>1 DEF Bounded
    <2>5. Remembered(g1, g2, gm) BY <1>1 DEF Consistent
    <2>6. /\ g1 # <<>> => Remembered(Tail(g1), g2, Erase(gm, first))
          /\ g2 # <<>> => Remembered(g1, rest, Erase(gm, last))
      BY <2>5, RememberedTrim, Zenon
    <2>7. \A k : DOMAIN Erase(gm, k) \subseteq DOMAIN gm BY EraseMap, Zenon
    <2> HIDE DEF v, back, left, total, rest, first, last
    <2>8. CASE one
      <3>1. v = [s EXCEPT !.mru_ghost = Tail(@), !.ghost_map = Erase(@, first)] BY <2>1, <2>8
      <3> HIDE DEF one, two
      <3>2. Has(v, mru, mfu, Tail(g1), g2, am, Erase(gm, first), size, target)
        BY <1>1, <3>1 DEF Has, ArcFields
      <3>3. Bounded(mru, mfu, g1, g2) => Bounded(back, mfu, Tail(g1), g2) BY <2>3, <2>8 DEF one
      <3>4. g1 # <<>> BY <2>8 DEF one
      <3>5. QED BY <2>6, <2>7, <3>2, <3>3, <3>4, Zenon
    <2>9. CASE ~one /\ two
      <3>1. v = [s EXCEPT !.mfu_ghost = rest, !.ghost_map = Erase(@, last)] BY <2>1, <2>9
      <3> HIDE DEF one, two
      <3>2. Has(v, mru, mfu, g1, rest, am, Erase(gm, last), size, target)
        BY <1>1, <3>1 DEF Has, ArcFields
      <3>3. Bounded(mru, mfu, g1, g2) => Bounded(back, mfu, g1, rest) BY <2>3, <2>9 DEF two
      <3>4. g2 # <<>> BY <2>9 DEF two
      <3>5. QED BY <2>6, <2>7, <3>2, <3>3, <3>4, Zenon
    <2>10. CASE ~one /\ ~two
      <3>1. v = s BY <2>1, <2>10
      <3>2. Bounded(mru, mfu, g1, g2) => Bounded(back, mfu, g1, g2) BY <2>3, <2>4, <2>10
      <3>3. QED BY <1>1, <2>5, <3>1, <3>2, Zenon
    <2>11. QED BY <2>8, <2>9, <2>10
  <1>3. Consistent(mru, mfu, h1, h2, am, hm, size, target) BY <1>1, <1>2 DEF Consistent
  <1>4. /\ f \in Frames \ DOMAIN am /\ p \in Pages \ DOMAIN hm
        /\ \A g \in DOMAIN am : am[g].page # p
    BY <1>1, <1>2 DEF AliveElsewhere
  <1> DEFINE m == Put(am, f, NewEntry(p, "MRU"))
  <1>5. Consistent(back, mfu, h1, h2, m, hm, size, target) BY <1>3, <1>4, InsertConsistent, Zenon
  <1> HIDE DEF v
  <1>6. u = InsertToMru(v, f, p) BY DEF u, v, Miss
  <1>7. Has(InsertToMru(v, f, p), back, mfu, h1, h2, m, hm, size, target) BY <1>2, RecordHas, Zenon
  <1> HIDE DEF u, m, back
  <1>8. Has(u, back, mfu, h1, h2, m, hm, size, target) BY <1>6, <1>7
  <1>9. Directory(u) /\ u.alive_map = m /\ (InBounds(u) <=> Bounded(back, mfu, h1, h2))
    BY <1>5, <1>8, DirectoryKept, Zenon
  <1>10. QED BY <1>1, <1>2, <1>9 DEF u, m

\* Evict of an evictable frame leaves its page as a ghost.
LEMMA EvictDirectory ==
    ASSUME NEW s, Directory(s), NEW f \in DOMAIN s.alive_map, s.alive_map[f].evictable
    PROVE  LET u == DoEvict(s, f)
           IN  /\ Directory(u) /\ u.alive_map = Erase(s.alive_map, f)
               /\ InBounds(s) => InBounds(u)
  <1> DEFINE v == DropAlive(s, f)
             p == s.alive_map[f].page
             u == DoEvict(s, f)
  <1>1. PICK mru, mfu, g1, g2, am, gm, size, target :
              /\ Has(s, mru, mfu, g1, g2, am, gm, size, target)
              /\ Consistent(mru, mfu, g1, g2, am, gm, size, target)
              /\ s.alive_map = am /\ s.ghost_map = gm
              /\ InBounds(s) <=> Bounded(mru, mfu, g1, g2)
    BY DirectoryFields, Zenon
  <1>2. u = IF am[f].status = "MRU" THEN InsertMruGhost(v, p) ELSE InsertMfuGhost(v, p)
    BY <1>1 DEF DoEvict
  <1>3. f \in DOMAIN am /\ am[f].evictable /\ am[f].page = p BY <1>1
  <1> DEFINE mru1 == MruWithout(mru, am, f)
             mfu1 == MfuWithout(mfu, am, f)
             rest == Erase(am, f)
             size1 == IF am[f].evictable THEN size - 1 ELSE size
  <1>4. Has(v, mru1, mfu1, g1, g2, rest, gm, size1, target) BY <1>1, <1>3, DropHas, Zenon
  <1>5. Consistent(mru1, mfu1, g1, g2, rest, gm, size1, target) BY <1>1, <1>3, DropConsistent, Zenon
  <1>6. p \in Pages \ DOMAIN gm /\ \A g \in DOMAIN rest : rest[g].page # p
    <2>1. Cached(mru, mfu, am, size) BY <1>1 DEF Consistent
    <2>2. p \in Pages BY <1>3, <2>1 DEF Cached, IsMap, AliveEntry
    <2>3. p \notin DOMAIN gm BY <1>1, <1>3 DEF Consistent
    <2>4. DOMAIN rest = DOMAIN am \ {f} /\ \A g \in DOMAIN am \ {f} : rest[g] = am[g]
      BY EraseMap, Zenon
    <2>5. \A g \in DOMAIN am : am[g].page = p => g = f BY <1>3, <2>1 DEF Cached
    <2>6. QED BY <2>2, <2>3, <2>4, <2>5
  <1> DEFINE back == Append(g1, p)
             front == <<p>> \o g2
             m1 == Put(gm, p, "MRU_GHOST")
             m2 == Put(gm, p, "MFU_GHOST")
             w1 == InsertMruGhost(v, p)
             w2 == InsertMfuGhost(v, p)
  <1>7. Bounded(mru, mfu, g1, g2) => IF am[f].status = "MRU" THEN Bounded(mru1, mfu1, back, g2)
                                                             ELSE Bounded(mru1, mfu1, g1, front)
    BY <1>1, <1>3, EvictBounded
  <1> HIDE DEF p, u, v, mru1, mfu1, rest, size1
  <1>8. /\ Consistent(mru1, mfu1, back, g2, rest, m1, size1, target)
        /\ Consistent(mru1, mfu1, g1, front, rest, m2, size1, target)
    BY <1>5, <1>6, RememberConsistent, Zenon
  <1>9. /\ Has(w1, mru1, mfu1, back, g2, rest, m1, size1, target)
        /\ Has(w2, mru1, mfu1, g1, front, rest, m2, size1, target)
    BY <1>4, <1>6, GhostHas, Zenon
  <1> HIDE DEF back, front, m1, m2, w1, w2
  <1>10. /\ Directory(w1) /\ w1.alive_map = rest /\ (InBounds(w1) <=> Bounded(mru1, mfu1, back, g2))
    BY <1>8, <1>9, DirectoryKept, Zenon
  <1>11. /\ Directory(w2) /\ w2.alive_map = rest /\ (InBounds(w2) <=> Bounded(mru1, mfu1, g1, front))
    BY <1>8, <1>9, DirectoryKept, Zenon
  <1>12. u = IF am[f].status = "MRU" THEN w1 ELSE w2 BY <1>2 DEF w1, w2
  <1>13. QED BY <1>1, <1>7, <1>10, <1>11, <1>12 DEF u, rest

=============================================================================
