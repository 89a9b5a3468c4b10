----------------------------- MODULE ArcReplacer ----------------------------
(***************************************************************************)
(* The ARC replacer of the buffer pool (src/src/buffer/arc_replacer.cpp).  *)
(*                                                                         *)
(* Every public method runs under latch_ from its first to its last line,  *)
(* so a method is one action.  The object is the record arc, whose fields  *)
(* are the members of the class; the private helpers are operators from a  *)
(* record to a record, called in the order the code calls them.  List      *)
(* iterators are left out: an entry is unlinked by its value, and          *)
(* ListsMatchMaps says that this finds the entry the iterator points to.   *)
(***************************************************************************)
EXTENDS Integers, Sequences, FiniteSets, Functions, Maps

CONSTANTS Frames,       \* frame ids 0 .. num_frames - 1
          Pages,        \* page ids
          AccessTypes,  \* the access types the clients use
          None          \* std::nullopt

ASSUME ArcAssumption ==
    /\ IsFiniteSet(Frames)
    /\ AccessTypes \subseteq {"Unknown", "Lookup", "Scan", "Index"}
    /\ None \notin Frames

VARIABLES arc,          \* the members of the class
          ret           \* what the last call returned

vars == <<arc, ret>>

\* c of the ARC paper
replacer_size == Cardinality(Frames)

AliveEntry == [page : Pages, evictable : BOOLEAN, status : {"MRU", "MFU"}]

EmptyArc ==
    [mru |-> <<>>, mfu |-> <<>>, mru_ghost |-> <<>>, mfu_ghost |-> <<>>,
     alive_map |-> EmptyMap, ghost_map |-> EmptyMap,
     curr_size |-> 0, mru_target_size |-> 0]

Init ==
    /\ arc = EmptyArc
    /\ ret = <<"void">>

-----------------------------------------------------------------------------
(* Private helpers.                                                        *)

\* list.erase: the list without its entry x
Unlinked(list, x) ==
    LET k == CHOOSE i \in DOMAIN list : list[i] = x
    IN  [i \in 1 .. Len(list) - 1 |-> list[IF i < k THEN i ELSE i + 1]]

\* Unlink the live entry of frame f from the list its status names.
UnlinkAlive(s, f) ==
    IF s.alive_map[f].status = "MRU"
      THEN [s EXCEPT !.mru = Unlinked(@, f)]
      ELSE [s EXCEPT !.mfu = Unlinked(@, f)]

RemoveGhostEntry(s, p) ==
    IF p \notin DOMAIN s.ghost_map THEN s
    ELSE IF s.ghost_map[p] = "MRU_GHOST"
      THEN [s EXCEPT !.mru_ghost = Unlinked(@, p), !.ghost_map = Erase(@, p)]
      ELSE [s EXCEPT !.mfu_ghost = Unlinked(@, p), !.ghost_map = Erase(@, p)]

InsertMruGhost(s, p) ==
    [RemoveGhostEntry(s, p) EXCEPT
        !.mru_ghost = Append(@, p), !.ghost_map = Put(@, p, "MRU_GHOST")]

InsertMfuGhost(s, p) ==
    [RemoveGhostEntry(s, p) EXCEPT
        !.mfu_ghost = <<p>> \o @, !.ghost_map = Put(@, p, "MFU_GHOST")]

NewEntry(p, status) == [page |-> p, evictable |-> FALSE, status |-> status]

\* Faulty variant: new entries enter at the least recent end.
InsertToMruAtFront(s, f, p) ==
    [s EXCEPT !.mru = <<f>> \o @, !.alive_map = Put(@, f, NewEntry(p, "MRU"))]

InsertToMru(s, f, p) ==
    [s EXCEPT !.mru = Append(@, f),
              !.alive_map = Put(@, f, NewEntry(p, "MRU"))]

InsertToMfu(s, f, p) ==
    [s EXCEPT !.mfu = <<f>> \o @,
              !.alive_map = Put(@, f, NewEntry(p, "MFU"))]

MoveAliveToMfu(s, f) ==
    [UnlinkAlive(s, f) EXCEPT !.mfu = <<f>> \o @,
                              !.alive_map[f].status = "MFU"]

\* The scan path of an alive hit: to the recent end of mru_.
MoveAliveToMru(s, f) ==
    [UnlinkAlive(s, f) EXCEPT !.mru = Append(@, f),
                              !.alive_map[f].status = "MRU"]

-----------------------------------------------------------------------------
(* RecordAccess.                                                           *)

\* The frame was alive for another page: forget that page, without a ghost.
ForgetOtherPage(s, f) ==
    [UnlinkAlive(s, f) EXCEPT
        !.alive_map = Erase(@, f),
        !.curr_size = IF s.alive_map[f].evictable THEN @ - 1 ELSE @]

AtLeastOne(n) == IF n > 1 THEN n ELSE 1

\* A ghost hit moves the target size towards the list whose ghost was hit.
\* mru_target_size_ is unsigned, hence the test before the subtraction.
AdaptTarget(s, p) ==
    LET b1 == Len(s.mru_ghost)
        b2 == Len(s.mfu_ghost)
        up == s.mru_target_size + AtLeastOne(b2 \div AtLeastOne(b1))
        down == AtLeastOne(b1 \div AtLeastOne(b2))
    IN  IF s.ghost_map[p] = "MRU_GHOST"
          THEN [s EXCEPT !.mru_target_size =
                    IF up < replacer_size THEN up ELSE replacer_size]
          ELSE [s EXCEPT !.mru_target_size = IF @ > down THEN @ - down ELSE 0]

\* Faulty variant: the mfu_ ghosts are never trimmed.
TrimMruGhostsOnly(s) ==
    IF Len(s.mru) + Len(s.mru_ghost) = replacer_size /\ s.mru_ghost # <<>>
      THEN [s EXCEPT !.mru_ghost = Tail(@),
                     !.ghost_map = Erase(@, Head(s.mru_ghost))]
      ELSE s

\* A miss first makes room in the ghost lists.
TrimGhosts(s) ==
    LET left  == Len(s.mru) + Len(s.mru_ghost)
        total == left + Len(s.mfu) + Len(s.mfu_ghost)
    IN  IF /\ left = replacer_size
           /\ Len(s.mru) < replacer_size
           /\ s.mru_ghost # <<>>
          THEN [s EXCEPT !.mru_ghost = Tail(@),
                         !.ghost_map = Erase(@, Head(s.mru_ghost))]
        ELSE IF /\ left < replacer_size
                /\ total = 2 * replacer_size
                /\ s.mfu_ghost # <<>>
          THEN LET last == s.mfu_ghost[Len(s.mfu_ghost)]
               IN  [s EXCEPT !.mfu_ghost = SubSeq(@, 1, Len(@) - 1),
                             !.ghost_map = Erase(@, last)]
        ELSE s

AliveHit(s, f, t) ==
    IF t = "Scan" THEN MoveAliveToMru(s, f) ELSE MoveAliveToMfu(s, f)

\* Faulty variant: the ghost entry survives the hit.
GhostHitKeepsGhost(s, f, p, t) ==
    IF t = "Scan" THEN InsertToMru(AdaptTarget(s, p), f, p)
                  ELSE InsertToMfu(AdaptTarget(s, p), f, p)

GhostHit(s, f, p, t) ==
    LET u == RemoveGhostEntry(AdaptTarget(s, p), p)
    IN  IF t = "Scan" THEN InsertToMru(u, f, p) ELSE InsertToMfu(u, f, p)

Miss(s, f, p) == InsertToMru(TrimGhosts(s), f, p)

NotAlive(s, f, p, t) ==
    IF p \in DOMAIN s.ghost_map THEN GhostHit(s, f, p, t) ELSE Miss(s, f, p)

DoRecordAccess(s, f, p, t) ==
    IF f \notin DOMAIN s.alive_map THEN NotAlive(s, f, p, t)
    ELSE IF s.alive_map[f].page # p
      THEN NotAlive(ForgetOtherPage(s, f), f, p, t)
      ELSE AliveHit(s, f, t)

-----------------------------------------------------------------------------
(* SetEvictable, Remove, Evict.                                            *)

DoSetEvictable(s, f, b) ==
    IF f \notin DOMAIN s.alive_map \/ s.alive_map[f].evictable = b THEN s
    ELSE [s EXCEPT !.alive_map[f].evictable = b,
                   !.curr_size = IF b THEN @ + 1 ELSE @ - 1]

\* The bookkeeping Remove and the two eviction scans share.
DropAlive(s, f) ==
    [UnlinkAlive(s, f) EXCEPT !.alive_map = Erase(@, f),
                              !.curr_size = @ - 1]

\* An entry the scans stop at.  The scans also unlink an entry that is not
\* alive in the list they walk; ListsMatchMaps shows there is never one.
Candidate(s, f, status) ==
    /\ f \in DOMAIN s.alive_map
    /\ s.alive_map[f].status = status
    /\ s.alive_map[f].evictable

\* Walks mru_ from its front, the least recent entry.
TryEvictFromMru(s) ==
    LET found == {i \in DOMAIN s.mru : Candidate(s, s.mru[i], "MRU")}
    IN  IF found = {} THEN 0 ELSE CHOOSE i \in found : \A j \in found : i <= j

\* Walks mfu_ from its back, the least recent entry.
TryEvictFromMfu(s) ==
    LET found == {i \in DOMAIN s.mfu : Candidate(s, s.mfu[i], "MFU")}
    IN  IF found = {} THEN 0 ELSE CHOOSE i \in found : \A j \in found : i >= j

\* Faulty variant: the other list is not tried when one has no candidate.
VictimOfPreferredList(s) ==
    LET i == TryEvictFromMru(s)
        j == TryEvictFromMfu(s)
    IN  IF Len(s.mru) >= s.mru_target_size
          THEN IF i = 0 THEN None ELSE s.mru[i]
          ELSE IF j = 0 THEN None ELSE s.mfu[j]

\* The frame Evict returns, or None.
Victim(s) ==
    LET i == TryEvictFromMru(s)
        j == TryEvictFromMfu(s)
    IN  IF s.curr_size = 0 \/ (i = 0 /\ j = 0) THEN None
        ELSE IF i # 0 /\ (j = 0 \/ Len(s.mru) >= s.mru_target_size)
          THEN s.mru[i]
          ELSE s.mfu[j]

DoEvict(s, f) ==
    LET e == s.alive_map[f]
    IN  IF e.status = "MRU" THEN InsertMruGhost(DropAlive(s, f), e.page)
                            ELSE InsertMfuGhost(DropAlive(s, f), e.page)

-----------------------------------------------------------------------------
(* The public methods.                                                     *)

\* A page is alive in at most one frame: the buffer pool's page table is a
\* map, so its calls never report a page through a second frame.
AliveElsewhere(s, f, p) ==
    \E g \in DOMAIN s.alive_map \ {f} : s.alive_map[g].page = p

RecordAccess(f, p, t) ==
    /\ ~AliveElsewhere(arc, f, p)
    /\ arc' = DoRecordAccess(arc, f, p, t)
    /\ ret' = <<"void">>

SetEvictable(f, b) ==
    /\ arc' = DoSetEvictable(arc, f, b)
    /\ ret' = <<"void">>

RemoveFrame(f) ==
    \/ /\ f \notin DOMAIN arc.alive_map
       /\ ret' = <<"void">>
       /\ UNCHANGED arc
    \/ /\ f \in DOMAIN arc.alive_map
       /\ ~arc.alive_map[f].evictable
       /\ ret' = <<"throw">>
       /\ UNCHANGED arc
    \/ /\ f \in DOMAIN arc.alive_map
       /\ arc.alive_map[f].evictable
       /\ arc' = DropAlive(arc, f)
       /\ ret' = <<"void">>

Evict ==
    /\ ret' = <<"frame", Victim(arc)>>
    /\ arc' = IF Victim(arc) = None THEN arc ELSE DoEvict(arc, Victim(arc))

Size ==
    /\ ret' = <<"size", arc.curr_size>>
    /\ UNCHANGED arc

Next ==
    \/ \E f \in Frames, p \in Pages, t \in AccessTypes : RecordAccess(f, p, t)
    \/ \E f \in Frames, b \in BOOLEAN : SetEvictable(f, b)
    \/ \E f \in Frames : RemoveFrame(f)
    \/ Evict
    \/ Size

Spec == Init /\ [][Next]_vars

-----------------------------------------------------------------------------
(* Properties.                                                             *)

Distinct(list) == IsInjective(list)

\* Type invariant of the replacer object and of its return values.
TypeOK ==
    /\ DOMAIN arc = DOMAIN EmptyArc
    /\ arc.mru \in Seq(Frames) /\ arc.mfu \in Seq(Frames)
    /\ arc.mru_ghost \in Seq(Pages) /\ arc.mfu_ghost \in Seq(Pages)
    /\ IsMap(arc.alive_map, Frames, AliveEntry)
    /\ IsMap(arc.ghost_map, Pages, {"MRU_GHOST", "MFU_GHOST"})
    /\ arc.curr_size \in Nat
    /\ arc.mru_target_size \in 0 .. replacer_size
    /\ ret \in {<<"void">>, <<"throw">>} \cup ({"size"} \X Nat)
                 \cup ({"frame"} \X (Frames \cup {None}))

\* Every map entry is linked exactly once, in the list its status names, and
\* the lists hold nothing else: the iterator an entry stores is the one
\* position of its key, and the eviction scans never meet a stale entry.
ListsMatchMaps ==
    /\ Distinct(arc.mru) /\ Distinct(arc.mfu)
    /\ Distinct(arc.mru_ghost) /\ Distinct(arc.mfu_ghost)
    /\ Range(arc.mru) =
          {f \in DOMAIN arc.alive_map : arc.alive_map[f].status = "MRU"}
    /\ Range(arc.mfu) =
          {f \in DOMAIN arc.alive_map : arc.alive_map[f].status = "MFU"}
    /\ Range(arc.mru_ghost) =
          {p \in DOMAIN arc.ghost_map : arc.ghost_map[p] = "MRU_GHOST"}
    /\ Range(arc.mfu_ghost) =
          {p \in DOMAIN arc.ghost_map : arc.ghost_map[p] = "MFU_GHOST"}

Evictable(s) == {f \in DOMAIN s.alive_map : s.alive_map[f].evictable}

\* curr_size_ is the number of alive evictable entries after any sequence of
\* calls: Evict's early return on zero neither hides a victim nor lets the
\* unsigned counter wrap.
SizeCountsEvictable == arc.curr_size = Cardinality(Evictable(arc))

AlivePages(s) == {s.alive_map[f].page : f \in DOMAIN s.alive_map}

\* A page is never remembered as evicted while it is cached, whatever mix of
\* evictions, removals, ghost hits and frame reuse led to the state.
AliveNotGhost == AlivePages(arc) \cap DOMAIN arc.ghost_map = {}

\* A page is alive in at most one frame, so a victim's page can become a ghost
\* without being cached elsewhere.
PageInOneFrame ==
    \A f, g \in DOMAIN arc.alive_map :
       arc.alive_map[f].page = arc.alive_map[g].page => f = g

\* The four lists, the two maps and curr_size_ describe one directory, after any
\* sequence of RecordAccess, SetEvictable, Remove and Evict.
DirectoryConsistent ==
    /\ TypeOK /\ ListsMatchMaps /\ SizeCountsEvictable
    /\ AliveNotGhost /\ PageInOneFrame

DirectorySize(s) ==
    Len(s.mru) + Len(s.mru_ghost) + Len(s.mfu) + Len(s.mfu_ghost)

\* mru_ and its ghosts together never outgrow the pool, so the two branches of
\* RecordAccess's miss case (left_size equal to c, left_size below c) cover
\* every state a miss can meet.  Holds for every access type but Scan.
RecencySideBound == Len(arc.mru) + Len(arc.mru_ghost) <= replacer_size

\* The whole ARC directory, cached pages and ghosts, stays within 2c entries,
\* the size ghost_map_ is reserved for.  Holds for every access type but Scan.
DirectoryBound == DirectorySize(arc) <= 2 * replacer_size

\* ARC's two bounds on its directory.
ArcBounds == RecencySideBound /\ DirectoryBound

\* The replacer as the buffer pool sees it.
AbsReplacer ==
    [tracked   |-> [f \in DOMAIN arc.alive_map |-> arc.alive_map[f].page],
     evictable |-> Evictable(arc)]

R == INSTANCE Replacer WITH rep <- AbsReplacer

\* ARC implements the abstract replacer: Evict returns some evictable frame
\* and fails only when none exists, Size counts the evictable frames, Remove
\* refuses pinned frames, and no call touches the entry of another frame.
ImplementsReplacer == R!Spec

=============================================================================
