----------------------------- MODULE Optimizer ------------------------------
(***************************************************************************)
(* The optimizer: a list of rules, each of which rewrites the whole plan   *)
(* from the leaves up (optimizer/).  SeqScanAsIndexScan, NLJAsHashJoin and *)
(* SortLimitAsTopN are stubs that return the plan they are given.          *)
(***************************************************************************)
EXTENDS Planner

CONSTANT Indexes      \* table name -> set of key attributes, sequences

-----------------------------------------------------------------------------

ColumnTypes(schema) == [i \in DOMAIN schema |-> schema[i].type]

\* A projection that only renames: its child takes over the names.
MergeProjection(plan) ==
    IF /\ plan.type = "Projection"
       /\ ColumnTypes(plan.schema) = ColumnTypes(plan.children[1].schema)
       /\ \A i \in DOMAIN plan.exprs :
            /\ plan.exprs[i].type = "ColumnValue"
            /\ plan.exprs[i].tuple = 0
            /\ plan.exprs[i].col = i
    THEN [plan.children[1] EXCEPT !.schema = plan.schema]
    ELSE plan

-----------------------------------------------------------------------------

RECURSIVE RewriteExpressionForJoin(_, _)
RewriteExpressionForJoin(e, left) ==
    CASE e.type # "ColumnValue" ->
           [e EXCEPT !.children = [i \in DOMAIN @ |->
                                     RewriteExpressionForJoin(@[i], left)]]
      [] e.col <= left -> e
      [] OTHER -> [e EXCEPT !.tuple = 1, !.col = @ - left]

\* A constant that is no boolean does not always convert to one.
IsPredicateTrue(e) ==
    LET b == CastAs(e.val, "BOOLEAN")
    IN CASE e.type # "ConstantValue" -> "false"
         [] Thrown(b) -> "throw"
         [] OTHER -> IF b.val # 0 THEN "true" ELSE "false"

\* A filter above a join that is always true becomes its condition.
MergeFilterNLJ(plan) ==
    LET join == plan.children[1]
        left == Len(join.children[1].schema)
    IN CASE \E i \in DOMAIN plan.children : IsThrow(plan.children[i]) ->
              Checked(plan.children, plan)
         [] plan.type # "Filter" \/ join.type # "NestedLoopJoin" -> plan
         [] IsPredicateTrue(join.predicate) = "throw" -> Refuse("exception")
         [] IsPredicateTrue(join.predicate) = "true" ->
              [join EXCEPT !.schema = plan.schema,
                 !.predicate = RewriteExpressionForJoin(plan.predicate, left)]
         [] OTHER -> plan

-----------------------------------------------------------------------------

MatchIndex(table, col) == <<col>> \in Indexes[table]

\* left = right, in either order, with an index on the column of the right.
NLJAsIndexJoin(plan) ==
    LET e == plan.predicate
        right == plan.children[2]
        Side(tuple) == CHOOSE i \in 1 .. 2 : e.children[i].tuple = tuple
        key == e.children[Side(0)]
        inner == e.children[Side(1)]
    IN IF /\ plan.type = "NestedLoopJoin"
          /\ e.type = "Comparison"
          /\ e.op = "="
          /\ \A i \in 1 .. 2 : e.children[i].type = "ColumnValue"
          /\ right.type = "SeqScan"
          /\ {e.children[1].tuple, e.children[2].tuple} = {0, 1}
          /\ MatchIndex(right.table, inner.col)
       THEN NestedIndexJoinPlanNode(plan.schema, plan.children[1], key,
                                    right.table, inner.col, right.schema,
                                    plan.join_type)
       ELSE plan

-----------------------------------------------------------------------------

\* Sorting a whole table by the key of an index reads the index.
OrderByAsIndexScan(plan) ==
    LET order == plan.order_bys
        child == plan.children[1]
    IN IF /\ plan.type = "Sort"
          /\ \A i \in DOMAIN order : /\ order[i].dir \in {"ASC", "DEFAULT"}
                                     /\ order[i].expr.type = "ColumnValue"
          /\ child.type = "SeqScan"
          /\ [i \in DOMAIN order |-> order[i].expr.col] \in Indexes[child.table]
       THEN IndexScanPlanNode(plan.schema, child.table,
                              [i \in DOMAIN order |-> order[i].expr.col])
       ELSE plan

-----------------------------------------------------------------------------

\* A scan takes over one filter.
MergeFilterScan(plan) ==
    LET scan == plan.children[1]
    IN IF /\ plan.type = "Filter"
          /\ scan.type = "SeqScan"
          /\ scan.filter_predicate = NullPtr
       THEN [scan EXCEPT !.schema = plan.schema,
                         !.filter_predicate = plan.predicate]
       ELSE plan

-----------------------------------------------------------------------------


\* The rules in their order: the starter's with force_starter_rule_, or else
\* OptimizeCustom's, in which a stub stands for the index join.
OptimizerRules(starter) ==
    <<"MergeProjection", "MergeFilterNLJ">>
      \o (IF starter THEN <<"NLJAsIndexJoin">> ELSE <<>>)
      \o <<"OrderByAsIndexScan", "MergeFilterScan">>

Rewrite(rule, node) ==
    CASE rule = "MergeProjection" -> MergeProjection(node)
      [] rule = "MergeFilterNLJ" -> MergeFilterNLJ(node)
      [] rule = "NLJAsIndexJoin" -> NLJAsIndexJoin(node)
      [] rule = "OrderByAsIndexScan" -> OrderByAsIndexScan(node)
      [] rule = "MergeFilterScan" -> MergeFilterScan(node)

\* A rule is applied to the children first, then to the node.
RECURSIVE OptimizeBy(_, _)
OptimizeBy(rule, plan) ==
    Rewrite(rule, [plan EXCEPT !.children = [i \in DOMAIN @ |->
                                               OptimizeBy(rule, @[i])]])

=============================================================================
