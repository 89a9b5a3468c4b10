------------------------------ MODULE Replacer ------------------------------
(***************************************************************************)
(* Abstract specification of a replacement policy: the promise of          *)
(* ArcReplacer's public interface to the buffer pool.  Evict hands out     *)
(* some evictable frame and fails only when there is none, Size is the     *)
(* number of evictable frames, Remove of a pinned frame is refused.        *)
(***************************************************************************)
EXTENDS ReplacerOps, Naturals

CONSTANTS Frames,   \* frame ids of the buffer pool
          Pages,    \* page ids
          None      \* std::nullopt

VARIABLES rep,      \* the replacer, a record as in ReplacerOps
          ret       \* what the last call returned

vars == <<rep, ret>>

Init ==
    /\ rep = EmptyReplacer
    /\ ret = <<"void">>

\* A page is cached in at most one frame, so a client never reports an access
\* to a page through a second frame.
CachedElsewhere(r, f, p) ==
    \E g \in DOMAIN r.tracked \ {f} : r.tracked[g] = p

RecordAccess(f, p) ==
    /\ ~CachedElsewhere(rep, f, p)
    /\ rep' = Accessed(rep, f, p)
    /\ ret' = <<"void">>

SetEvictable(f, b) ==
    /\ rep' = WithEvictable(rep, f, b)
    /\ ret' = <<"void">>

Remove(f) ==
    \/ /\ f \in DOMAIN rep.tracked \ rep.evictable
       /\ ret' = <<"throw">>
       /\ UNCHANGED rep
    \/ /\ f \notin DOMAIN rep.tracked \ rep.evictable
       /\ rep' = Forgotten(rep, f)
       /\ ret' = <<"void">>

Evict ==
    \/ /\ rep.evictable = {}
       /\ ret' = <<"frame", None>>
       /\ UNCHANGED rep
    \/ \E f \in rep.evictable :
          /\ rep' = Forgotten(rep, f)
          /\ ret' = <<"frame", f>>

Size ==
    /\ ret' = <<"size", Cardinality(rep.evictable)>>
    /\ UNCHANGED rep

Next ==
    \/ \E f \in Frames, p \in Pages : RecordAccess(f, p)
    \/ \E f \in Frames, b \in BOOLEAN : SetEvictable(f, b)
    \/ \E f \in Frames : Remove(f)
    \/ Evict
    \/ Size

Spec == Init /\ [][Next]_vars

=============================================================================
