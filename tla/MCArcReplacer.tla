---------------------------- MODULE MCArcReplacer ---------------------------
(***************************************************************************)
(* ArcReplacer for TLC: one of all the frames, with every access type, and *)
(* a small one that is never scanned, whose directory can fill up with the *)
(* pages there are.  A history variable, recency, lists the alive frames   *)
(* from the least to the most recently accessed.                           *)
(***************************************************************************)
EXTENDS ArcReplacer, SequencesExt

CONSTANT SmallFrames

VARIABLES recency, small

hvars == <<vars, recency, small>>

Small == INSTANCE ArcReplacer WITH Frames <- SmallFrames, AccessTypes <- {"Lookup"}

HInit == Init /\ recency = <<>> /\ small \in BOOLEAN

Touched(f) == recency' = Append(RemoveFirst(recency, f), f)

StillAlive ==
    recency' = SelectSeq(recency, LAMBDA f : f \in DOMAIN arc'.alive_map)

FullNext ==
    \/ \E f \in Frames, p \in Pages, t \in AccessTypes :
          RecordAccess(f, p, t) /\ Touched(f)
    \/ \E f \in Frames, b \in BOOLEAN : SetEvictable(f, b) /\ StillAlive
    \/ \E f \in Frames : RemoveFrame(f) /\ StillAlive
    \/ Evict /\ StillAlive
    \/ Size /\ StillAlive

SmallNext ==
    \/ \E f \in SmallFrames, p \in Pages : Small!RecordAccess(f, p, "Lookup") /\ Touched(f)
    \/ \E f \in SmallFrames, b \in BOOLEAN : Small!SetEvictable(f, b) /\ StillAlive
    \/ \E f \in SmallFrames : Small!RemoveFrame(f) /\ StillAlive
    \/ Small!Evict /\ StillAlive

HNext == (IF small THEN SmallNext ELSE FullNext) /\ UNCHANGED small

HSpec == HInit /\ [][HNext]_hvars

\* A frame Evict returns is the least recently accessed evictable frame of the
\* list it is taken from: the other evictable frames of that list were all
\* accessed later, although mru_ and mfu_ are kept in opposite orders.
EvictsLeastRecent ==
    [][\A f \in DOMAIN arc.alive_map \ DOMAIN arc'.alive_map :
          ret' = <<"frame", f>> =>
            \A g \in Evictable(arc) \ {f} :
               arc.alive_map[g].status = arc.alive_map[f].status =>
                 SelectInSeq(recency, LAMBDA x : x = f)
                   < SelectInSeq(recency, LAMBDA x : x = g)]_hvars

\* ARC's bounds on the recency side, c, and on the whole directory, 2c, hold in
\* a replacer that RecordAccess is never called on with a scan.
BoundsWithoutScans == small => Small!ArcBounds

Symmetry == Permutations(SmallFrames) \cup Permutations(Pages)

=============================================================================
