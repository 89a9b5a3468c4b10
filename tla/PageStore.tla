----------------------------- MODULE PageStore ------------------------------
(***************************************************************************)
(* What the buffer pool promises its clients: a store of pages behind      *)
(* per-page reader/writer guards.  A page changes only through the one     *)
(* write guard on it, or when it is deleted while nobody uses it; caching, *)
(* eviction, write-back and flushing are invisible.                        *)
(***************************************************************************)
EXTENDS FiniteSets

CONSTANTS Threads, Pages, Values, Unspecified

VARIABLES content,    \* what a reader of the page would see
          held        \* the guards each thread holds: [page, kind]

vars == <<content, held>>

Kinds == {"R", "W"}

Init ==
    /\ content = [p \in Pages |-> Unspecified]
    /\ held = [t \in Threads |-> {}]

Holds(t, p, k) == [page |-> p, kind |-> k] \in held[t]

\* Readers share a page, a writer excludes every other guard on it.
Acquire(t, p, k) ==
    /\ \A u \in Threads : ~Holds(u, p, "W")
    /\ k = "W" => \A u \in Threads : ~Holds(u, p, "R")
    /\ held' = [held EXCEPT ![t] = @ \cup {[page |-> p, kind |-> k]}]
    /\ UNCHANGED content

Release(t, p, k) ==
    /\ Holds(t, p, k)
    /\ held' = [held EXCEPT ![t] = @ \ {[page |-> p, kind |-> k]}]
    /\ UNCHANGED content

Write(t, p, v) ==
    /\ Holds(t, p, "W")
    /\ content' = [content EXCEPT ![p] = v]
    /\ UNCHANGED held

\* The contents of a deleted page are unspecified.
Delete(p) ==
    /\ \A u \in Threads, k \in Kinds : ~Holds(u, p, k)
    /\ content' = [content EXCEPT ![p] = Unspecified]
    /\ UNCHANGED held

Next ==
    \/ \E t \in Threads, p \in Pages, k \in Kinds :
          Acquire(t, p, k) \/ Release(t, p, k)
    \/ \E t \in Threads, p \in Pages, v \in Values : Write(t, p, v)
    \/ \E p \in Pages : Delete(p)

Spec == Init /\ [][Next]_vars

=============================================================================
