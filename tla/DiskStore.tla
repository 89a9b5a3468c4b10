----------------------------- MODULE DiskStore ------------------------------
(***************************************************************************)
(* What the disk layer promises: a page that has been written reads back   *)
(* as it was last written, until it is deleted.  A page that is not stored *)
(* reads as anything, and then keeps reading as that.  When a write has    *)
(* failed nothing is promised until the layer is opened anew.              *)
(***************************************************************************)
CONSTANTS Pages, Data, Unspecified

VARIABLES store,   \* page -> its contents, or Unspecified
          broken,  \* a write has failed
          ret      \* how the last call returned

vars == <<store, broken, ret>>

Gave(d) == [call |-> "read", data |-> d]

Init ==
    /\ store = [p \in Pages |-> Unspecified]
    /\ broken = FALSE
    /\ ret = [call |-> "none"]

Write(p, d) ==
    /\ store' = [store EXCEPT ![p] = d]
    /\ ret' = [call |-> "write"]

Read(p, d) ==
    /\ store[p] \in {d, Unspecified}
    /\ store' = [store EXCEPT ![p] = d]
    /\ ret' = Gave(d)

\* There is nothing to read: the caller's buffer is left as it was.
ReadNothing(p) ==
    /\ store[p] = Unspecified
    /\ ret' = Gave(Unspecified)
    /\ UNCHANGED store

\* A call that throws has no effect.
Throw ==
    /\ ret' = [call |-> "throw"]
    /\ UNCHANGED store

Delete(p) ==
    /\ store' = [store EXCEPT ![p] = Unspecified]
    /\ ret' = [call |-> "none"]

\* The layer is opened anew: what it stored is no longer addressable.
Reopen ==
    /\ store' = [p \in Pages |-> Unspecified]
    /\ broken' = FALSE
    /\ ret' = [call |-> "none"]

Call ==
    \/ \E p \in Pages, d \in Data : Write(p, d) \/ Read(p, d)
    \/ \E p \in Pages : ReadNothing(p) \/ Delete(p)
    \/ Throw

\* A write fails, or a call comes after one that failed.
Broken == broken' = TRUE

Next ==
    \/ ~broken /\ Call /\ UNCHANGED broken
    \/ Broken
    \/ Reopen

Spec == Init /\ [][Next]_vars

=============================================================================
