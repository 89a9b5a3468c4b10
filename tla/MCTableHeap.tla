---------------------------- MODULE MCTableHeap -----------------------------
(***************************************************************************)
(* The table heap with the walk along a tuple's undo logs, which is        *)
(* recursive.                                                              *)
(***************************************************************************)
EXTENDS TableHeap

FirstTuple == {RID(0, 0)}
FirstTwo == {RID(0, 0), RID(0, 1)}

RECURSIVE VersionChain(_)
VersionChain(link) ==
    IF link = None THEN <<>>
    ELSE Append(VersionChain(GetUndoLog(link).prev_version), GetUndoLog(link).base)

\* The undo logs reached from a tuple's undo link are the versions that were
\* replaced, all of them and in order: no concurrent update is lost, and no
\* log of an update that was refused gets in.
ChainIsHistory ==
    \A rid \in Rids : ~Latched(rid[1]) =>
       VersionChain(GetUndoLink(rid)) =
         IF rid \in DOMAIN history THEN history[rid] ELSE <<>>

\* What GetTupleAndUndoLink returns belongs together, and the chain behind it
\* is the history of the tuple.
VersionsSound == VersionPair /\ ChainIsHistory

=============================================================================
