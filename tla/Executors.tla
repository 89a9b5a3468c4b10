----------------------------- MODULE Executors ------------------------------
(***************************************************************************)
(* The executors: each node of the plan becomes an executor that yields    *)
(* its rows in batches (execution/).  Values, MockScan, Filter and         *)
(* Projection are implemented; every other executor throws when it is      *)
(* constructed, or, Window, when it is initialised.                        *)
(*                                                                         *)
(* An executor is a record of its plan, its children and its members.      *)
(* Next maps it to its new state with the batch and the value returned.    *)
(***************************************************************************)
EXTENDS Optimizer

CONSTANTS BUSTUB_BATCH_SIZE,
          RowBound       \* rows of a mock table beyond this many are left out

ASSUME BatchAssumption == BUSTUB_BATCH_SIZE \in Nat \ {0} /\ RowBound \in Nat

Mock == INSTANCE MockTables

MockSize(table) == Min({Mock!GetSizeOf(table), RowBound})

\* The orders in which a mock scan may read its table.
Shuffles(table) ==
    LET n == MockSize(table)
    IN IF Mock!GetShuffled(table)
       THEN {f \in [1 .. n -> 0 .. n - 1] : \A i, j \in 1 .. n :
                                              f[i] = f[j] => i = j}
       ELSE {[i \in 1 .. n |-> i - 1]}

\* The orders for the one leaf an executable plan has.
RECURSIVE Orders(_)
Orders(plan) ==
    CASE plan.type = "MockScan" -> Shuffles(plan.table)
      [] plan.children = <<>> -> {<<>>}
      [] OTHER -> Orders(plan.children[1])

-----------------------------------------------------------------------------

AbstractExecutor(plan, children) ==
    [type |-> plan.type, plan |-> plan, children |-> children]

ValuesExecutor(plan) == [cursor |-> 0] @@ AbstractExecutor(plan, <<>>)

\* shuffled is the order in which the rows are read.
MockScanExecutor(plan, shuffled) ==
    [cursor |-> 0, shuffled |-> shuffled] @@ AbstractExecutor(plan, <<>>)

\* Both keep the child's last batch and where its unread rows begin.
FilterExecutor(plan, children) ==
    [child_offset |-> 0, child_tuples |-> <<>>] @@ AbstractExecutor(plan, children)

ProjectionExecutor(plan, children) ==
    [child_offset |-> 0, child_tuples |-> <<>>] @@ AbstractExecutor(plan, children)

WindowFunctionExecutor(plan, children) == AbstractExecutor(plan, children)

\* The children are created first.
RECURSIVE CreateExecutor(_, _)
CreateExecutor(plan, shuffled) ==
    LET children == [i \in DOMAIN plan.children |->
                       CreateExecutor(plan.children[i], shuffled)]
        unsupported == /\ plan.type \in {"NestedLoopJoin", "NestedIndexJoin"}
                       /\ plan.join_type \notin {"LEFT", "INNER"}
    IN Checked(children,
         CASE plan.type = "Values" -> ValuesExecutor(plan)
           [] plan.type = "MockScan" -> MockScanExecutor(plan, shuffled)
           [] plan.type = "Filter" -> FilterExecutor(plan, children)
           [] plan.type = "Projection" -> ProjectionExecutor(plan, children)
           [] plan.type = "Window" -> WindowFunctionExecutor(plan, children)
           [] unsupported -> Refuse("exception")
           [] OTHER -> Refuse("logic_error"))

\* Filter and projection only initialise their child.
RECURSIVE InitExecutor(_)
InitExecutor(ex) ==
    CASE ex.type = "Window" -> Refuse("exception")
      [] ex.type \in {"Values", "MockScan"} -> [ex EXCEPT !.cursor = 0]
      [] OTHER -> LET child == InitExecutor(ex.children[1])
                  IN Checked(<<child>>, [ex EXCEPT !.children = <<child>>])

-----------------------------------------------------------------------------
(* Next returns true or false, or an expression throws. *)

Result(status, batch, ex) == [status |-> status, batch |-> batch, ex |-> ex]

Returned(batch) == IF batch = <<>> THEN "false" ELSE "true"

EvaluateRow(exprs, tuple) == [c \in DOMAIN exprs |-> Evaluate(exprs[c], tuple)]

RowThrown(row) == \E c \in DOMAIN row : Thrown(row[c])

\* The rows from the cursor on, a batch at most.
Scan(ex, size, row) ==
    LET n == Min({BUSTUB_BATCH_SIZE, size - ex.cursor})
        batch == [i \in 1 .. n |-> row[ex.cursor + i]]
    IN Result(IF \E i \in 1 .. n : RowThrown(batch[i]) THEN "throw"
              ELSE Returned(batch),
              batch, [ex EXCEPT !.cursor = @ + n])

ValuesNext(ex) ==
    LET row == [i \in DOMAIN ex.plan.values |-> EvaluateRow(ex.plan.values[i], <<>>)]
    IN Scan(ex, Len(ex.plan.values), row)

MockScanNext(ex) ==
    LET row == [i \in DOMAIN ex.shuffled |-> Mock!GetFunctionOf(ex.plan.table, ex.shuffled[i])]
    IN Scan(ex, MockSize(ex.plan.table), row)

\* What a filter or a projection makes of a row: the rows to put out, none or
\* one; a row that could not be evaluated holds the exception.
Processed(ex, tuple) ==
    LET row == IF ex.type = "Filter"
               THEN <<Evaluate(ex.plan.predicate, tuple)>>
               ELSE EvaluateRow(ex.plan.exprs, tuple)
    IN CASE RowThrown(row) \/ ex.type = "Projection" -> <<row>>
         [] OTHER -> IF IsTrue(row[1]) THEN <<tuple>> ELSE <<>>

ProcessedThrown(out) ==
    \E i \in DOMAIN out : out[i] # <<>> /\ RowThrown(out[i][1])

\* The rows left of the child's last batch, from child_offset on.
Leftover(ex) ==
    [i \in 1 .. IF ex.child_offset = 0 THEN 0
                ELSE Len(ex.child_tuples) - ex.child_offset |->
       Processed(ex, ex.child_tuples[ex.child_offset + i])]

\* Faulty variant: the rows behind the one that fills the batch are dropped.
FillDropping(ex, batch) ==
    LET out == [i \in DOMAIN ex.child_tuples |-> Processed(ex, ex.child_tuples[i])]
        Length(n) == Len(batch) + Len(FlattenSeq(SubSeq(out, 1, n)))
        fill == {n \in DOMAIN out :
                   out[n] # <<>> /\ Length(n) >= BUSTUB_BATCH_SIZE}
        read == IF fill = {} THEN out ELSE SubSeq(out, 1, Min(fill))
    IN [threw |-> ProcessedThrown(read), full |-> fill # {},
        batch |-> batch \o FlattenSeq(read),
        ex |-> [ex EXCEPT !.child_offset = 0]]

\* Faulty variant: the whole batch of the child is put out.
FillWhole(ex, batch) ==
    LET out == [i \in DOMAIN ex.child_tuples |-> Processed(ex, ex.child_tuples[i])]
        all == batch \o FlattenSeq(out)
    IN [threw |-> ProcessedThrown(out), full |-> Len(all) >= BUSTUB_BATCH_SIZE,
        batch |-> all, ex |-> [ex EXCEPT !.child_offset = 0]]

\* The child's batch processed up to the row that fills the output; the rows
\* behind it wait at child_offset.
Fill(ex, batch) ==
    LET out == [i \in DOMAIN ex.child_tuples |-> Processed(ex, ex.child_tuples[i])]
        Length(n) == Len(batch) + Len(FlattenSeq(SubSeq(out, 1, n)))
        fill == {n \in DOMAIN out :
                   out[n] # <<>> /\ Length(n) >= BUSTUB_BATCH_SIZE}
        read == IF fill = {} THEN out ELSE SubSeq(out, 1, Min(fill))
    IN [threw |-> ProcessedThrown(read), full |-> fill # {},
        batch |-> batch \o FlattenSeq(read),
        ex |-> [ex EXCEPT !.child_offset =
                  IF fill # {} /\ Min(fill) < Len(out) THEN Min(fill) ELSE 0]]

RECURSIVE ExecutorNext(_)

\* A filter fetches batches until the output is full or the child exhausted; a
\* projection fetches one.
RECURSIVE Fetch(_, _)
Fetch(ex, batch) ==
    LET left == Leftover(ex)
        start == batch \o FlattenSeq(left)
        child == ExecutorNext(ex.children[1])
        fetched == [ex EXCEPT !.child_offset = 0, !.children = <<child.ex>>,
                              !.child_tuples = child.batch]
        f == Fill(fetched, start)
    IN CASE ProcessedThrown(left) -> Result("throw", <<>>, ex)
         [] child.status = "throw" -> Result("throw", <<>>, ex)
         [] child.status = "false" -> Result(Returned(start), start, fetched)
         [] f.threw -> Result("throw", <<>>, ex)
         [] f.full -> Result("true", f.batch, f.ex)
         [] ex.type = "Projection" -> Result(Returned(f.batch), f.batch, f.ex)
         [] OTHER -> Fetch(f.ex, f.batch)

ExecutorNext(ex) ==
    CASE ex.type = "Values" -> ValuesNext(ex)
      [] ex.type = "MockScan" -> MockScanNext(ex)
      [] OTHER -> Fetch(ex, <<>>)

=============================================================================
