---------------------------- MODULE TerrierBench ----------------------------
(***************************************************************************)
(* The transaction benchmark bustub-terrier-bench (tools/terrier_bench):   *)
(* threads move tokens between terriers, and main compares the sum of the  *)
(* tokens with what the threads say they added and removed.                *)
(*                                                                         *)
(* The multi-version engine is external: what the benchmark relies on.  A  *)
(* transaction reads the snapshot of its begin and its own writes; an      *)
(* update of a tuple that another open transaction has written, or that    *)
(* was committed after the snapshot, taints the transaction and            *)
(* ExecuteSqlTxn returns false; a commit under SERIALIZABLE fails when a   *)
(* tuple the transaction has read was committed after its snapshot.        *)
(***************************************************************************)
EXTENDS Integers, Sequences, SequencesExt, FiniteSetsExt, Maps

CONSTANTS TerrierNum,   \* --terriers
          Workers,      \* threads 0 .. Workers - 1
          Amounts,      \* the amounts transferred
          Rounds        \* bound on the rounds of all threads together

Terriers == 0 .. TerrierNum - 1
WorkerIds == 0 .. Workers - 1

initial_token == 100
sign_bonus == 10

VARIABLES bench,        \* 1 or 2, the benchmark selected
          terriers,     \* the committed rows: terrier -> [token, network, ts]
          last_ts,      \* the last commit timestamp
          worker,       \* thread -> its loop
          open,         \* thread -> its transactions of this round
          token_adjustment,
          verdict       \* "none", or how main ended

terrier_vars == <<bench, terriers, last_ts, worker, open, token_adjustment, verdict>>

-----------------------------------------------------------------------------
(* The engine.                                                             *)

BeginTxn == [snapshot |-> terriers, ts |-> last_ts, reads |-> {}, writes |-> EmptyMap]

\* What a transaction sees of a terrier
Row(txn, x) == IF x \in DOMAIN txn.writes THEN txn.writes[x] ELSE txn.snapshot[x]

OtherTxns(w) == UNION {ToSet(open[v]) : v \in WorkerIds \ {w}}

\* A write-write conflict of the k-th transaction of w
Conflict(w, k, x) ==
    \/ terriers[x].ts > open[w][k].ts
    \/ \E txn \in OtherTxns(w) \cup {open[w][j] : j \in DOMAIN open[w] \ {k}} :
          x \in DOMAIN txn.writes

\* The validation of a serializable transaction that has written
VerifyTxn(txn) ==
    bench = 1 \/ txn.writes = EmptyMap \/ \A x \in txn.reads : terriers[x].ts <= txn.ts

Committed(txn) ==
    [x \in Terriers |-> IF x \in DOMAIN txn.writes
                          THEN [txn.writes[x] EXCEPT !.ts = last_ts + 1] ELSE terriers[x]]

-----------------------------------------------------------------------------
(* The rounds.  A round has its parameters, the number of the next step    *)
(* and the cells that its selects returned.                                *)

Select(k, x) == [op |-> "select", txn |-> k, terrier |-> x]
Update(k, x, amount, network) ==
    [op |-> "update", txn |-> k, terrier |-> x, amount |-> amount, network |-> network]
Same == -1                    \* SET network is absent
Commit(k, adjustment) == [op |-> "commit", txn |-> k, adjustment |-> adjustment]
NoneAborted == [op |-> "terminate"]

Bench1Transfer(r) ==
    <<Update(1, r.a, r.amount, Same), Update(1, r.b, -r.amount, Same), Commit(1, 0)>>

\* 3% are lost between networks; the product is cut to an int.
Receive(r) == IF r.cells[1] = r.cells[2] THEN r.amount ELSE (97 * r.amount) \div 100

Bench2Transfer(r) ==
    <<Select(1, r.a), Select(1, r.b)>> \o
    IF Len(r.cells) < 2 THEN <<>>
    ELSE <<Update(1, r.a, Receive(r), Same), Update(1, r.b, -r.amount, Same),
           Commit(1, Receive(r) - r.amount)>>

\* Join the network of terrier b.
JoinNetwork(r) ==
    <<Select(1, r.b)>> \o
    IF r.cells = <<>> THEN <<>>
    ELSE <<Update(1, r.a, sign_bonus, r.cells[1]), Commit(1, sign_bonus)>>

CreateNetwork(r) == <<Update(1, r.a, -sign_bonus, r.b), Commit(1, -sign_bonus)>>

\* Two transactions join each other's network; one should abort.
JoinEachOther(r) ==
    <<Select(1, r.b), Select(2, r.a)>> \o
    IF Len(r.cells) < 2 THEN <<>>
    ELSE <<Update(1, r.a, sign_bonus, r.cells[1]), Update(2, r.b, sign_bonus, r.cells[2]),
           Commit(1, sign_bonus), Commit(2, 0), NoneAborted>>

\* The statements of a round, as far as its cells determine them
Steps(r) ==
    CASE r.task = "bench1" -> Bench1Transfer(r)
      [] r.task = "transfer" -> Bench2Transfer(r)
      [] r.task = "join" -> JoinNetwork(r)
      [] r.task = "create" -> CreateNetwork(r)
      [] r.task = "each other" -> JoinEachOther(r)

\* The tasks of a thread: the threads with an even number join networks.
Tasks(w) ==
    CASE bench = 1 -> {"bench1"}
      [] bench = 2 /\ w % 2 = 0 -> {"join", "create", "each other"}
      [] OTHER -> {"transfer"}

Looping(w) == verdict = "none" /\ worker[w].pc = "loop"
InRound(w) == verdict = "none" /\ worker[w].pc = "round"

\* The next statement of the round
Step(w) ==
    LET steps == Steps(worker[w].round)
        k == worker[w].round.step
    IN  IF k > Len(steps) THEN [op |-> "end"] ELSE steps[k]

\* A round begins with its random choices and its transactions.
BeginRound(w) ==
    /\ Looping(w)
    /\ FoldSet(LAMBDA v, sum : sum + worker[v].rounds, 0, WorkerIds) < Rounds
    /\ \E a, b \in Terriers, amount \in Amounts, task \in Tasks(w) :
          /\ a # b
          /\ task \notin {"bench1", "transfer"} => amount = Min(Amounts)
          /\ worker' = [worker EXCEPT
                ![w].pc = "round", ![w].rounds = @ + 1,
                ![w].round = [task |-> task, a |-> a, b |-> b, amount |-> amount,
                              step |-> 1, cells |-> <<>>]]
          /\ open' = [open EXCEPT ![w] = IF task = "each other" THEN <<BeginTxn, BeginTxn>>
                                         ELSE <<BeginTxn>>]
    /\ UNCHANGED <<bench, terriers, last_ts, token_adjustment, verdict>>

\* Abort of every open transaction, and the next round
Continue(w) ==
    /\ worker' = [worker EXCEPT ![w].pc = "loop"]
    /\ open' = [open EXCEPT ![w] = <<>>]

Advance(w) == worker' = [worker EXCEPT ![w].round.step = @ + 1]

ExecuteSelect(w) ==
    LET s == Step(w)
    IN  /\ InRound(w) /\ s.op = "select"
        /\ worker' = [worker EXCEPT ![w].round.step = @ + 1,
              ![w].round.cells = Append(@, Row(open[w][s.txn], s.terrier).network)]
        /\ open' = [open EXCEPT ![w][s.txn].reads = @ \cup {s.terrier}]
        /\ UNCHANGED <<bench, terriers, last_ts, token_adjustment, verdict>>

\* A failed update ends the round; both transactions of a pair are aborted.
ExecuteUpdate(w) ==
    LET s == Step(w)
        row == Row(open[w][s.txn], s.terrier)
        updated == [row EXCEPT !.token = @ + s.amount,
                               !.network = IF s.network = Same THEN @ ELSE s.network]
    IN  /\ InRound(w) /\ s.op = "update"
        /\ IF Conflict(w, s.txn, s.terrier) THEN Continue(w)
           ELSE /\ open' = [open EXCEPT ![w][s.txn].reads = @ \cup {s.terrier},
                                        ![w][s.txn].writes = Put(@, s.terrier, updated)]
                /\ Advance(w)
        /\ UNCHANGED <<bench, terriers, last_ts, token_adjustment, verdict>>


\* A commit that succeeds counts towards the adjustment; one that fails has
\* aborted its transaction, and the loop goes on after aborting the other.
ExecuteCommit(w) ==
    LET s == Step(w)
        txn == open[w][s.txn]
    IN  /\ InRound(w) /\ s.op = "commit"
        /\ IF VerifyTxn(txn)
             THEN /\ terriers' = Committed(txn)
                  /\ last_ts' = last_ts + 1
                  /\ open' = [open EXCEPT ![w][s.txn].writes = EmptyMap]
                  /\ worker' = [worker EXCEPT ![w].adjustment = @ + s.adjustment,
                                              ![w].round.step = @ + 1]
             ELSE Continue(w) /\ UNCHANGED <<terriers, last_ts>>
        /\ UNCHANGED <<bench, token_adjustment, verdict>>

\* All statements of the round are done.  When both transactions of a pair
\* have committed, the benchmark terminates.
EndRound(w) ==
    LET both == Step(w).op = "terminate"
    IN  /\ InRound(w)
        /\ both \/ Step(w).op = "end"
        /\ verdict' = IF both THEN "one of the txns should be aborted!" ELSE verdict
        /\ Continue(w)
        /\ UNCHANGED <<bench, terriers, last_ts, token_adjustment>>

\* ShouldFinish: the thread reports its adjustment once.
Finish(w) ==
    /\ Looping(w)
    /\ worker' = [worker EXCEPT ![w].pc = "done"]
    /\ token_adjustment' = token_adjustment + worker[w].adjustment
    /\ UNCHANGED <<bench, terriers, last_ts, open, verdict>>

SumOfTokens == FoldSet(LAMBDA x, sum : sum + terriers[x].token, 0, Terriers)

\* main, after the threads were joined
CheckTotal ==
    /\ verdict = "none" /\ \A w \in WorkerIds : worker[w].pc = "done"
    /\ verdict' = IF SumOfTokens = TerrierNum * initial_token + token_adjustment THEN "passed"
                  ELSE "inconsistent total tokens"
    /\ UNCHANGED <<bench, terriers, last_ts, worker, open, token_adjustment>>

NoRound == [task |-> "none", a |-> 0, b |-> 0, amount |-> 0, step |-> 1, cells |-> <<>>]

TerrierInit ==
    /\ bench \in {1, 2}
    /\ terriers = [x \in Terriers |-> [token |-> initial_token, network |-> x, ts |-> 1]]
    /\ last_ts = 1
    /\ worker = [w \in WorkerIds |-> [pc |-> "loop", rounds |-> 0, adjustment |-> 0, round |-> NoRound]]
    /\ open = [w \in WorkerIds |-> <<>>]
    /\ token_adjustment = 0
    /\ verdict = "none"

TerrierNext ==
    \/ \E w \in WorkerIds : \/ BeginRound(w) \/ ExecuteSelect(w) \/ ExecuteUpdate(w)
                            \/ ExecuteCommit(w) \/ EndRound(w) \/ Finish(w)
    \/ CheckTotal

-----------------------------------------------------------------------------

\* The benchmark never raises a false alarm: whatever transactions conflict,
\* taint each other or fail validation, in whichever order, the sum of the
\* tokens is what the threads account for, and of two transactions that join
\* each other at least one aborts.
TokensAccounted == verdict \in {"none", "passed"}

=============================================================================
