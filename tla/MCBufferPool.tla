---------------------------- MODULE MCBufferPool ----------------------------
(***************************************************************************)
(* The buffer pool on small instances, with the fairness and the latch     *)
(* properties that only these instances are checked for.                   *)
(***************************************************************************)
EXTENDS BufferPool, TLC

Symmetry == Permutations(Threads) \cup Permutations(Frames)

\* Nobody waits in a circle: no thread that holds bpm_latch_ waits in a flush
\* for a page latch whose owner waits for bpm_latch_.
NoLatchCycle ==
    ~ \E t, u \in Threads :
         /\ At(t, "flush") /\ op[t].kind = "safe"
         /\ \E p \in op[t].todo : rwlatch[page_table[p]].writer = u
         /\ op[u].pc \in {"lookup", "unpin"}

\* The scheduler runs a thread that holds bpm_latch_ and can go on, and the
\* disk answers; a client does not keep a guard forever.
FairSpec ==
    /\ Spec
    /\ \A t \in Threads :
          /\ WF_vars(LatchHolderStep(t))
          /\ WF_vars(Store(t)) /\ WF_vars(GuardFlushClear(t))
          /\ WF_vars(LatchPage(t))
          /\ SF_vars(\E g \in guards[t] : Drop(t, g))

\* A thread that takes bpm_latch_ lets go of it again.
BpmLatchReleased == bpm_latch # None ~> bpm_latch = None

=============================================================================
