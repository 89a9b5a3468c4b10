------------------------------ MODULE Planner -------------------------------
(***************************************************************************)
(* The planner: it turns a bound statement into a tree of plan nodes       *)
(* (planner/).                                                             *)
(*                                                                         *)
(* ctx_.cte_list_ is the argument ctes; ctx_.expr_in_agg_ and              *)
(* ctx_.next_aggregation_ are aggs and next, the latter returned with      *)
(* every planned expression.  construct_array, the one function that is    *)
(* implemented, makes a VECTOR and is left out with that type.             *)
(***************************************************************************)
EXTENDS Binder

CONSTANT MockTables       \* the tables whose names start with "__mock"

ASSUME MockTablesAreInternal == MockTables \subseteq InternalTables

-----------------------------------------------------------------------------
(* The plan nodes (include/execution/plans/, execution/plan_node.cpp): a   *)
(* node records its class, its output schema, a sequence of [name, type],  *)
(* its children and its own members.                                       *)

UNNAMED_COLUMN == <<"<unnamed>">>

AbstractPlanNode(type, schema, children) ==
    [type |-> type, schema |-> schema, children |-> children]

-----------------------------------------------------------------------------
(* Output schemas. *)

InferScanSchema(ref) ==
    [i \in DOMAIN ref.schema |->
       [name |-> <<GetBoundTableName(ref), ref.schema[i].name>>,
        type |-> ref.schema[i].type]]

InferJoinSchema(left, right) == left.schema \o right.schema

InferProjectionSchema(exprs) ==
    [i \in DOMAIN exprs |-> [name |-> UNNAMED_COLUMN, type |-> exprs[i].ret]]

\* Every aggregate is an INTEGER.
InferAggSchema(group_bys, aggregates) ==
    InferProjectionSchema(group_bys)
      \o [i \in DOMAIN aggregates |->
            [name |-> UNNAMED_COLUMN, type |-> "INTEGER"]]

InferWindowSchema(columns) == InferProjectionSchema(columns)

RenameSchema(schema, names) ==
    [i \in DOMAIN schema |-> [name |-> names[i], type |-> schema[i].type]]

-----------------------------------------------------------------------------
(* Leaves.  A scan without a predicate has a null one. *)

SeqScanPlanNode(schema, table) ==
    [table |-> table, filter_predicate |-> NullPtr]
      @@ AbstractPlanNode("SeqScan", schema, <<>>)

MockScanPlanNode(schema, table) ==
    [table |-> table] @@ AbstractPlanNode("MockScan", schema, <<>>)

\* An index by its key attributes; the planner gives it no predicate.
IndexScanPlanNode(schema, table, key) ==
    [table |-> table, key |-> key] @@ AbstractPlanNode("IndexScan", schema, <<>>)

ValuesPlanNode(schema, values) ==
    [values |-> values] @@ AbstractPlanNode("Values", schema, <<>>)

-----------------------------------------------------------------------------
(* Nodes with children. *)

FilterPlanNode(schema, predicate, child) ==
    [predicate |-> predicate] @@ AbstractPlanNode("Filter", schema, <<child>>)

ProjectionPlanNode(schema, exprs, child) ==
    [exprs |-> exprs] @@ AbstractPlanNode("Projection", schema, <<child>>)

\* An aggregate is a function with its argument.
AggregationPlanNode(schema, child, group_bys, aggregates) ==
    [group_bys |-> group_bys, aggregates |-> aggregates]
      @@ AbstractPlanNode("Aggregation", schema, <<child>>)

\* A function records the index of its column among columns.
WindowFunctionPlanNode(schema, child, columns, functions) ==
    [columns |-> columns, functions |-> functions]
      @@ AbstractPlanNode("Window", schema, <<child>>)

NestedLoopJoinPlanNode(schema, left, right, predicate, join_type) ==
    [predicate |-> predicate, join_type |-> join_type]
      @@ AbstractPlanNode("NestedLoopJoin", schema, <<left, right>>)

\* The index on column col of the inner table.
NestedIndexJoinPlanNode(schema, child, key, table, col, inner_schema, join_type) ==
    [key |-> key, table |-> table, col |-> col, inner_schema |-> inner_schema,
     join_type |-> join_type]
      @@ AbstractPlanNode("NestedIndexJoin", schema, <<child>>)

SortPlanNode(schema, child, order_bys) ==
    [order_bys |-> order_bys] @@ AbstractPlanNode("Sort", schema, <<child>>)

LimitPlanNode(schema, child, limit) ==
    [limit |-> limit] @@ AbstractPlanNode("Limit", schema, <<child>>)

InsertPlanNode(schema, child, table) ==
    [table |-> table] @@ AbstractPlanNode("Insert", schema, <<child>>)

DeletePlanNode(schema, child, table) ==
    [table |-> table] @@ AbstractPlanNode("Delete", schema, <<child>>)

UpdatePlanNode(schema, child, table, target_exprs) ==
    [table |-> table, target_exprs |-> target_exprs]
      @@ AbstractPlanNode("Update", schema, <<child>>)

-----------------------------------------------------------------------------
(* Names. *)

TryGetColIdx(schema, name) ==
    SelectInSeq(schema, LAMBDA column : column.name = name)

-----------------------------------------------------------------------------
(* Expressions. *)

GetBinaryExpressionFromFactory(op, l, r) ==
    CASE op \in {"=", "=="} -> ComparisonExpression("=", l, r)
      [] op \in {"!=", "<>"} -> ComparisonExpression("!=", l, r)
      [] op \in {"<", "<=", ">", ">="} -> ComparisonExpression(op, l, r)
      [] op \in {"+", "-"} -> ArithmeticExpression(op, l, r)
      [] op \in {"and", "or"} -> LogicExpression(op, l, r)
      [] OTHER -> Refuse("exception")

PlanColumnRef(name, children) ==
    LET schema == [c \in DOMAIN children |-> children[c].schema]
        idx == [c \in DOMAIN children |-> TryGetColIdx(schema[c], name)]
        Column(c) == ColumnValueExpression(c - 1, idx[c], schema[c][idx[c]].type)
        repeated == \E i, j \in DOMAIN schema[1] :
                      /\ i # j
                      /\ schema[1][i].name = name
                      /\ schema[1][j].name = name
    IN CASE Len(children) = 0 -> Refuse("exception")
         [] Len(children) = 1 ->
              CASE repeated -> Refuse("exception")
                [] idx[1] = 0 -> Refuse("logic_error")     \* GetColIdx
                [] OTHER -> Column(1)
         [] Len(children) = 2 ->
              CASE idx[1] # 0 /\ idx[2] # 0 -> Refuse("exception")
                [] idx[1] # 0 -> Column(1)
                [] idx[2] # 0 -> Column(2)
                [] OTHER -> Refuse("exception")

RECURSIVE PlanExpression(_, _, _, _)

\* The list planned from left to right: the expressions, their names, the
\* next aggregate.
PlanExpressions(list, children, aggs, next) ==
    LET Step(acc, e) ==
          LET p == PlanExpression(e, children, aggs, acc.next)
          IN [exprs |-> Append(acc.exprs, p.expr),
              names |-> Append(acc.names, p.name), next |-> p.next]
    IN FoldLeft(Step, [exprs |-> <<>>, names |-> <<>>, next |-> next], list)

\* An aggregate call stands for the next column of the aggregation.
PlanExpression(e, children, aggs, next) ==
    LET args == PlanExpressions(e.args, children, aggs, next)
        Planned(name, expr, n) == [name |-> name, expr |-> expr, next |-> n]
    IN CASE e.type = "AGG_CALL" ->
              IF next > Len(aggs)
              THEN Planned(UNNAMED_COLUMN, Refuse("exception"), next)
              ELSE Planned(UNNAMED_COLUMN, aggs[next], next + 1)
         [] e.type = "COLUMN_REF" ->
              Planned(e.name, PlanColumnRef(e.name, children), next)
         [] e.type = "BINARY_OP" ->
              Planned(UNNAMED_COLUMN,
                      Checked(args.exprs, GetBinaryExpressionFromFactory(
                                e.op, args.exprs[1], args.exprs[2])),
                      args.next)
         [] e.type = "FUNC_CALL" ->
              Planned(UNNAMED_COLUMN, Checked(args.exprs, Refuse("exception")),
                      args.next)
         [] e.type = "CONSTANT" ->
              Planned(UNNAMED_COLUMN, ConstantValueExpression(e.val), next)
         [] e.type = "ALIAS" -> Planned(<<e.alias>>, args.exprs[1], args.next)
         [] OTHER -> Planned(UNNAMED_COLUMN, Refuse("exception"), next)

\* Outside an aggregation.
PlanPlain(list, children) == PlanExpressions(list, children, <<>>, 1)

PlanOrderBys(sort, children) ==
    [i \in DOMAIN sort |->
       LET expr == PlanPlain(<<sort[i].expr>>, children).exprs[1]
       IN Checked(<<expr>>, [type |-> "OrderBy", dir |-> sort[i].dir,
                             nulls |-> sort[i].nulls, expr |-> expr])]

\* An unnamed item of a select list gets a fresh name.
Fresh(names) ==
    [i \in DOMAIN names |-> IF names[i] = UNNAMED_COLUMN
                            THEN <<"__unnamed#" \o ToString(i)>> ELSE names[i]]

-----------------------------------------------------------------------------
(* Aggregation. *)

\* The aggregate calls of an expression, in the order they are met.
RECURSIVE AggCalls(_)
AggCalls(e) ==
    CASE e.type = "AGG_CALL" -> <<e>>
      [] e.type \in {"COLUMN_REF", "CONSTANT", "BINARY_OP", "FUNC_CALL",
                     "ALIAS"} ->
           FlattenSeq([i \in DOMAIN e.args |-> AggCalls(e.args[i])])
      [] OTHER -> <<Refuse("exception")>>

\* The call leaves a pseudo call without arguments behind.
RECURSIVE AddAggCallToContext(_)
AddAggCallToContext(e) ==
    CASE e.type = "AGG_CALL" -> [e EXCEPT !.func = "__pseudo_agg", !.args = <<>>]
      [] e.type \in {"BINARY_OP", "FUNC_CALL", "ALIAS"} ->
           [e EXCEPT !.args = [i \in DOMAIN e.args |->
                                 AddAggCallToContext(e.args[i])]]
      [] OTHER -> e

CountOne == ConstantValueExpression(IntegerValue("INTEGER", 1))

\* count(*) becomes count(1).
GetAggCallFromFactory(func, args) ==
    CASE Len(args) = 0 /\ func = "count_star" ->
           [type |-> "Aggregate", func |-> func, arg |-> CountOne]
      [] Len(args) = 1 /\ func \in {"min", "max", "sum", "count"} ->
           [type |-> "Aggregate", func |-> func, arg |-> args[1]]
      [] OTHER -> Refuse("exception")

PlanAggCall(call, children) ==
    LET args == PlanPlain(call.args, children).exprs
    IN IF call.distinct THEN Refuse("exception")
       ELSE Checked(args, GetAggCallFromFactory(call.func, args))

Projection(exprs, names, child) ==
    Checked(exprs,
            ProjectionPlanNode(RenameSchema(InferProjectionSchema(exprs), names),
                               exprs, child))

Filter(predicate, child) ==
    Checked(<<predicate>>, FilterPlanNode(child.schema, predicate, child))

\* Faulty variant: the calls of the select list come before those of HAVING.
AggOrderSwapped(stmt) ==
    FlattenSeq([i \in DOMAIN stmt.select_list |-> AggCalls(stmt.select_list[i])])
      \o (IF stmt.having = Invalid THEN <<>> ELSE AggCalls(stmt.having))

AggOrder(stmt) ==
    (IF stmt.having = Invalid THEN <<>> ELSE AggCalls(stmt.having))
      \o FlattenSeq([i \in DOMAIN stmt.select_list |->
                       AggCalls(stmt.select_list[i])])

\* First an aggregation with all calls, then HAVING and the select list over
\* its columns: HAVING takes the first of them.
PlanSelectAgg(stmt, child) ==
    LET group == PlanPlain(stmt.group_by, <<child>>)
        calls == AggOrder(stmt)
        aggregates == [i \in DOMAIN calls |-> PlanAggCall(calls[i], <<child>>)]
        names == group.names
                   \o [i \in DOMAIN calls |-> <<"agg#" \o ToString(i)>>]
        aggs == [i \in DOMAIN calls |->
                   ColumnValueExpression(0, Len(group.exprs) + i, "INTEGER")]
        agg == AggregationPlanNode(
                 RenameSchema(InferAggSchema(group.exprs, aggregates), names),
                 child, group.exprs, aggregates)
        having == PlanExpression(stmt.having, <<agg>>, aggs, 1)
        plan == IF stmt.having = Invalid THEN agg ELSE Filter(having.expr, agg)
        next == IF stmt.having = Invalid THEN 1 ELSE having.next
        list == PlanExpressions(stmt.select_list, <<plan>>, aggs, next)
    IN Checked(group.exprs, Checked(calls, Checked(aggregates,
         Checked(<<plan>>, Projection(list.exprs, list.names, plan)))))

-----------------------------------------------------------------------------
(* Window functions. *)

GetWindowAggCallFromFactory(func, args) ==
    IF Len(args) = 0 /\ func = "rank"
    THEN [type |-> "Aggregate", func |-> func, arg |-> CountOne]
    ELSE GetAggCallFromFactory(func, args)

PlanWindow(window, i, child) ==
    LET partition == PlanPlain(window.partition_by, <<child>>).exprs
        order == PlanOrderBys(window.order_bys, <<child>>)
        args == PlanPlain(window.args, <<child>>).exprs
        call == GetWindowAggCallFromFactory(window.func, args)
    IN IF \/ window.start # "UNBOUNDED_PRECEDING"
          \/ window.end \notin {"CURRENT_ROW_ROWS", "CURRENT_ROW_RANGE"}
       THEN Refuse("exception")
       ELSE Checked(partition,
              IF window.func = "rank" /\ window.order_bys = <<>>
              THEN Refuse("exception")
              ELSE Checked(order \o args, Checked(<<call>>,
                     [type |-> "WindowFunction", idx |-> i, func |-> call.func,
                      arg |-> call.arg, partition_by |-> partition,
                      order_by |-> order])))

CheckOrderByCompatible(functions) ==
    \A i \in DOMAIN functions : functions[i].order_by = functions[1].order_by

\* A window function is an INTEGER column, the placeholder of its result.
PlanSelectWindow(stmt, child) ==
    LET list == stmt.select_list
        IsWindow(i) == HasWindowFunction(list[i])
        item == [i \in DOMAIN list |->
                   IF IsWindow(i)
                   THEN [name |-> IF list[i].type = "ALIAS" THEN <<list[i].alias>>
                                  ELSE UNNAMED_COLUMN,
                         expr |-> ColumnValueExpression(0, 0, "INTEGER"),
                         func |-> PlanWindow(IF list[i].type = "ALIAS"
                                             THEN list[i].args[1] ELSE list[i],
                                             i, child)]
                   ELSE LET p == PlanExpression(list[i], <<child>>, <<>>, 1)
                        IN [name |-> p.name, expr |-> p.expr, func |-> p.expr]]
        functions == SelectSeq([i \in DOMAIN list |-> item[i].func],
                               LAMBDA f : f.type = "WindowFunction")
        columns == [i \in DOMAIN list |-> item[i].expr]
    IN Checked([i \in DOMAIN list |-> item[i].func],
         IF ~CheckOrderByCompatible(functions) THEN Refuse("exception")
         ELSE WindowFunctionPlanNode(
                RenameSchema(InferWindowSchema(columns),
                             Fresh([i \in DOMAIN list |-> item[i].name])),
                child, columns, functions))

-----------------------------------------------------------------------------
(* Table references and statements. *)

NestedLoopJoin(predicate, join_type, left, right) ==
    NestedLoopJoinPlanNode(InferJoinSchema(left, right), left, right, predicate,
                           join_type)

True == ConstantValueExpression(IntegerValue("BOOLEAN", 1))

PlanBaseTableRef(ref) ==
    CASE ref.table \in MockTables ->
           MockScanPlanNode(InferScanSchema(ref), ref.table)
      [] ref.table \in InternalTables \ MockTables -> Refuse("exception")
      [] OTHER -> SeqScanPlanNode(InferScanSchema(ref), ref.table)

\* The first row gives the schema.
PlanExpressionListRef(ref) ==
    LET rows == [i \in DOMAIN ref.values |-> PlanPlain(ref.values[i], <<>>).exprs]
    IN Checked(FlattenSeq(rows),
               ValuesPlanNode([c \in DOMAIN rows[1] |->
                                 [name |-> <<ref.identifier, ToString(c)>>,
                                  type |-> rows[1][c].ret]], rows))

\* The CTEs a table reference reaches.
RECURSIVE CTENames(_)
CTENames(ref) ==
    CASE ref.type = "CTE" -> {ref.cte_name}
      [] ref.type \in {"CROSS_PRODUCT", "JOIN"} ->
           CTENames(ref.left) \cup CTENames(ref.right)
      [] ref.type = "SUBQUERY" -> CTENames(ref.subquery.table)
      [] OTHER -> {}

\* The bound CTEs once ref is planned: their aggregate calls were moved out.
AfterPlanning(ref, ctes) ==
    LET Moved(stmt) ==
          [stmt EXCEPT !.select_list = [i \in DOMAIN @ |->
                                          AddAggCallToContext(@[i])],
                       !.having = AddAggCallToContext(@)]
    IN [i \in DOMAIN ctes |->
          IF ctes[i].alias \in CTENames(ref)
          THEN [ctes[i] EXCEPT !.subquery = Moved(@)] ELSE ctes[i]]

RECURSIVE PlanSelect(_, _)

\* A projection that renames the columns of the subquery.
PlanSubquery(ref, alias, ctes) ==
    LET plan == PlanSelect(ref.subquery, ctes)
        columns == [i \in DOMAIN plan.schema |->
                      ColumnValueExpression(0, i, plan.schema[i].type)]
    IN Checked(<<plan>>,
               Projection(columns,
                          [i \in DOMAIN columns |->
                             <<alias>> \o ref.select_list_name[i]], plan))

RECURSIVE PlanTableRef(_, _)
PlanTableRef(ref, ctes) ==
    CASE ref.type = "BASE_TABLE" -> PlanBaseTableRef(ref)
      [] ref.type = "EXPRESSION_LIST" -> PlanExpressionListRef(ref)
      [] ref.type = "SUBQUERY" -> PlanSubquery(ref, ref.alias, ctes)
      [] ref.type = "CTE" ->
           LET i == FindCTE(ctes, ref.cte_name)
           IN IF i = 0 THEN Refuse("logic_error")
              ELSE PlanSubquery(ctes[i], ref.alias, ctes)
      [] OTHER ->
           LET left == PlanTableRef(ref.left, ctes)
               right == PlanTableRef(ref.right, AfterPlanning(ref.left, ctes))
               condition == PlanPlain(<<ref.condition>>, <<left, right>>).exprs[1]
           IN Checked(<<left, right>>,
                IF ref.type = "CROSS_PRODUCT"
                THEN NestedLoopJoin(True, "INNER", left, right)
                ELSE Checked(<<condition>>,
                       NestedLoopJoin(condition, ref.join_type, left, right)))

\* LIMIT and OFFSET take an INTEGER constant; an offset is never accepted.
LimitCount(clause) ==
    CASE clause = Invalid -> clause
      [] clause.type # "CONSTANT" -> Refuse("exception")
      [] CastAs(clause.val, "INTEGER") = StdThrow -> Refuse("logic_error")
      [] clause.val.type # "INTEGER" -> Refuse("exception")
      [] OTHER -> clause

PlanLimit(stmt, plan) ==
    LET count == LimitCount(stmt.limit_count)
        offset == LimitCount(stmt.limit_offset)
    IN Checked(<<count, offset>>,
         CASE offset # Invalid -> Refuse("exception")
           [] count = Invalid -> plan
           [] OTHER -> LimitPlanNode(plan.schema, plan, count.val.val))

PlanSort(sort, plan) ==
    LET order == PlanOrderBys(sort, <<plan>>)
    IN IF sort = <<>> THEN plan
       ELSE Checked(order, SortPlanNode(plan.schema, plan, order))

\* DISTINCT groups by every column.
PlanDistinct(stmt, plan) ==
    IF stmt.is_distinct
    THEN AggregationPlanNode(plan.schema, plan,
                             [i \in DOMAIN plan.schema |->
                                ColumnValueExpression(0, i, plan.schema[i].type)],
                             <<>>)
    ELSE plan

PlanSelectList(stmt, plan) ==
    LET list == PlanPlain(stmt.select_list, <<plan>>)
        items == Range(stmt.select_list)
    IN CASE \E e \in items : HasWindowFunction(e) ->
              IF stmt.having # Invalid \/ stmt.group_by # <<>>
              THEN Refuse("exception") ELSE PlanSelectWindow(stmt, plan)
         [] \/ stmt.having # Invalid
            \/ stmt.group_by # <<>>
            \/ \E e \in items : HasAggregation(e) -> PlanSelectAgg(stmt, plan)
         [] OTHER -> Projection(list.exprs, Fresh(list.names), plan)

\* FROM, WHERE, the select list, DISTINCT, ORDER BY over its columns, LIMIT.
PlanSelect(stmt, outer) ==
    LET ctes == IF stmt.ctes = <<>> THEN outer ELSE stmt.ctes
        from == IF stmt.table.type = "EMPTY"
                THEN ValuesPlanNode(<<>>, << <<>> >>)
                ELSE PlanTableRef(stmt.table, ctes)
        where == IF stmt.where = Invalid THEN from
                 ELSE Filter(PlanPlain(<<stmt.where>>, <<from>>).exprs[1], from)
        list == PlanSelectList(stmt, where)
        sorted == PlanSort(stmt.sort, PlanDistinct(stmt, list))
    IN Checked(<<from>>, Checked(<<where>>, Checked(<<list>>,
         Checked(<<sorted>>, PlanLimit(stmt, sorted)))))

RowCount(op) == <<[name |-> <<"__bustub_internal", op>>, type |-> "INTEGER"]>>

PlanInsert(stmt) ==
    LET select == PlanSelect(stmt.select, <<>>)
        Types(schema) == [i \in DOMAIN schema |-> schema[i].type]
    IN Checked(<<select>>,
         IF Types(stmt.table.schema) # Types(select.schema)
         THEN Refuse("exception")
         ELSE InsertPlanNode(RowCount("insert_rows"), select, stmt.table.table))

PlanDelete(stmt) ==
    LET table == PlanTableRef(stmt.table, <<>>)
        filter == Filter(PlanPlain(<<stmt.expr>>, <<table>>).exprs[1], table)
    IN Checked(<<table>>, Checked(<<filter>>,
         DeletePlanNode(RowCount("delete_rows"), filter, stmt.table.table)))

\* A column set twice takes the later expression; one that is not set keeps
\* its value; a null reference to an unknown one is dereferenced.
PlanUpdate(stmt) ==
    LET table == PlanTableRef(stmt.table, <<>>)
        filter == Filter(PlanPlain(<<stmt.filter_expr>>, <<table>>).exprs[1],
                         table)
        targets == PlanPlain(stmt.exprs, <<filter>>).exprs
        columns == [i \in DOMAIN stmt.columns |->
                      IF stmt.columns[i] = NullPtr THEN Refuse("abort")
                      ELSE PlanColumnRef(stmt.columns[i].name, <<filter>>)]
        Target(c) ==
          LET set == {i \in DOMAIN columns : columns[i].col = c}
          IN IF set = {} THEN ColumnValueExpression(0, c, filter.schema[c].type)
             ELSE targets[Max(set)]
    IN Checked(<<table>>, Checked(<<filter>>,
         Checked(FlattenSeq([i \in DOMAIN columns |-> <<targets[i], columns[i]>>]),
           UpdatePlanNode(RowCount("update_rows"), filter, stmt.table.table,
                          [c \in DOMAIN filter.schema |-> Target(c)]))))

PlanQuery(stmt) ==
    CASE stmt.type = "SELECT" -> PlanSelect(stmt, <<>>)
      [] stmt.type = "INSERT" -> PlanInsert(stmt)
      [] stmt.type = "DELETE" -> PlanDelete(stmt)
      [] stmt.type = "UPDATE" -> PlanUpdate(stmt)
      [] OTHER -> Refuse("exception")

=============================================================================
