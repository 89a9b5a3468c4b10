---------------------------- MODULE ReplacerOps -----------------------------
(***************************************************************************)
(* What the buffer pool relies on from its replacement policy, as          *)
(* operators on a replacer r: r.tracked maps every frame the replacer      *)
(* knows to the page it was last accessed for, r.evictable is the set of   *)
(* frames it may evict.  Which evictable frame a policy picks is left      *)
(* open; ArcReplacer implements these operators.                           *)
(***************************************************************************)
EXTENDS Maps, FiniteSets

EmptyReplacer == [tracked |-> EmptyMap, evictable |-> {}]

\* RecordAccess: a frame accessed for a new page starts out not evictable.
Accessed(r, f, p) ==
    [tracked   |-> Put(r.tracked, f, p),
     evictable |-> IF f \in DOMAIN r.tracked /\ r.tracked[f] = p
                     THEN r.evictable
                     ELSE r.evictable \ {f}]

\* SetEvictable: ignored for a frame that is not tracked.
WithEvictable(r, f, b) ==
    IF f \notin DOMAIN r.tracked THEN r
    ELSE [r EXCEPT !.evictable = IF b THEN @ \cup {f} ELSE @ \ {f}]

\* Evict and Remove forget the frame.
Forgotten(r, f) ==
    [tracked |-> Erase(r.tracked, f), evictable |-> r.evictable \ {f}]

=============================================================================
