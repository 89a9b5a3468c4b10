---------------------------- MODULE QueryEngine -----------------------------
(***************************************************************************)
(* A statement on its way through BustubInstance::ExecuteSqlTxn: bound,    *)
(* planned, optimized one rule at a time, turned into executors and polled *)
(* batch by batch (common/bustub_instance.cpp lines 309 to 391,            *)
(* include/execution/execution_engine.h).  Every statement of Statements   *)
(* is followed from the parse tree to its result or its exception.         *)
(***************************************************************************)
EXTENDS QuerySemantics

CONSTANT Statements      \* the parse trees

\* The components a statement passes through, as parameters: the engine only
\* puts them together.
CONSTANTS TheBinder(_),                \* of a parse tree
          ThePlanner(_),               \* of a bound statement
          TheOptimizer(_, _),          \* of a rule and a plan
          TheExecutorFactory(_, _),    \* of a plan and the order of its scan
          TheExecutor(_)               \* Next, of an executor

VARIABLES stmt,          \* the parse tree
          starter,       \* IsForceStarterRule()
          phase,         \* what comes next, or how it ended
          bound,         \* the bound statement
          plan,          \* planner.plan_
          optimized_plan,
          rules,         \* the optimizer rules still to be applied
          executor,
          tuples,        \* the batch of the last Next
          result_set

vars == <<stmt, starter, phase, bound, plan, optimized_plan, rules, executor,
          tuples, result_set>>

Init == /\ stmt \in Statements
        /\ starter \in BOOLEAN
        /\ phase = "bind"
        /\ bound = NullPtr
        /\ plan = NullPtr
        /\ optimized_plan = NullPtr
        /\ rules = <<>>
        /\ executor = NullPtr
        /\ tuples = <<>>
        /\ result_set = <<>>

\* The next phase, or the end when node is an exception.
Continue(node, next) == phase' = IF IsThrow(node) THEN "threw" ELSE next

Bind == /\ phase = "bind"
        /\ bound' = TheBinder(stmt)
        /\ Continue(bound', "plan")
        /\ UNCHANGED <<stmt, starter, plan, optimized_plan, rules, executor,
                       tuples, result_set>>

Plan == /\ phase = "plan"
        /\ plan' = ThePlanner(bound)
        /\ optimized_plan' = plan'
        /\ rules' = OptimizerRules(starter)
        /\ Continue(plan', "optimize")
        /\ UNCHANGED <<stmt, starter, bound, executor, tuples, result_set>>

Optimize == /\ phase = "optimize"
            /\ rules # <<>>
            /\ optimized_plan' = TheOptimizer(Head(rules), optimized_plan)
            /\ rules' = Tail(rules)
            /\ Continue(optimized_plan', "optimize")
            /\ UNCHANGED <<stmt, starter, bound, plan, executor, tuples,
                           result_set>>

\* The executors are created, then initialised.
Execute == /\ phase = "optimize"
           /\ rules = <<>>
           /\ \E shuffled \in Orders(optimized_plan) :
                executor' = TheExecutorFactory(optimized_plan, shuffled)
           /\ Continue(executor', "poll")
           /\ UNCHANGED <<stmt, starter, bound, plan, optimized_plan, rules,
                          tuples, result_set>>

\* One turn of PollExecutor's loop.
Poll == /\ phase = "poll"
        /\ LET next == TheExecutor(executor)
           IN /\ executor' = next.ex
              /\ tuples' = next.batch
              /\ CASE next.status = "true" ->
                        /\ result_set' = result_set \o next.batch
                        /\ UNCHANGED phase
                   [] next.status = "false" ->
                        /\ phase' = "done"
                        /\ UNCHANGED result_set
                   [] next.status = "throw" ->
                        /\ phase' = "threw"
                        /\ UNCHANGED result_set
        /\ UNCHANGED <<stmt, starter, bound, plan, optimized_plan, rules>>

Next == Bind \/ Plan \/ Optimize \/ Execute \/ Poll

Spec == Init /\ [][Next]_vars

-----------------------------------------------------------------------------
(* Properties. *)

\* The phases of ExecuteSqlTxn; a filter or a projection that puts rows back
\* does so inside a batch.
TypeOK ==
    /\ phase \in {"bind", "plan", "optimize", "poll", "done", "threw"}
    /\ rules = <<>> \/ IsSuffix(rules, OptimizerRules(starter))
    /\ phase \in {"poll", "done"} =>
         IF executor.type \in {"Values", "MockScan"} THEN executor.cursor \in Nat
         ELSE executor.child_offset \in 0 .. BUSTUB_BATCH_SIZE - 1

Modifies(node) == node.type \in {"Insert", "Delete", "Update"}

SameBag(s, t) ==
    /\ Len(s) = Len(t)
    /\ \A i \in DOMAIN s : Cardinality({j \in DOMAIN s : s[j] = s[i]})
                             = Cardinality({j \in DOMAIN t : t[j] = s[i]})

\* The plan, before any rule has been applied.
Planned == phase = "optimize" /\ rules = OptimizerRules(starter)

\* What is planned is what the statement says.  Every name in it stands for
\* exactly one column of its FROM clause and, outside an aggregate, for a
\* column it groups by: what Binder::ResolveColumn and PlanColumnRef let
\* through.  The rows of the planner's tree are SQL's rows, in the same order.
PlanAnswersStatement ==
    [][Planned => LET answer == Answer(stmt, <<>>)
                  IN answer.ok /\ Rows(plan) = answer.rows]_vars



\* An execution that returns true has every row of the answer once, however
\* the batches of the executors fell and in whatever order a scan was read.
ExecutionAnswersStatement ==
    [][phase' = "done" => SameBag(result_set, Answer(stmt, <<>>).rows)]_vars

\* The rows an executor has yet to put out or to discard.
RECURSIVE RowsLeft(_)
RowsLeft(ex) ==
    CASE ex.type = "Values" -> Len(ex.plan.values) - ex.cursor
      [] ex.type = "MockScan" -> MockSize(ex.plan.table) - ex.cursor
      [] OTHER -> Len(Leftover(ex)) + RowsLeft(ex.children[1])

\* PollExecutor's loop comes to an end: no Next puts out more than a batch,
\* leftovers of the last one included, and each that returns true leaves fewer
\* rows to read than there were.
PollProgresses ==
    [][/\ TypeOK'
       /\ phase = "poll" /\ phase' # "threw" => Len(tuples') <= BUSTUB_BATCH_SIZE
       /\ phase = "poll" /\ phase' = "poll" =>
            RowsLeft(executor') < RowsLeft(executor)]_vars

=============================================================================
