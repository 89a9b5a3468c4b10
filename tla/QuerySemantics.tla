--------------------------- MODULE QuerySemantics ---------------------------
(***************************************************************************)
(* What a query means, twice: Rows gives the rows of a plan, node by node, *)
(* with the relational meaning of the executors that are still stubs;      *)
(* Answer gives the rows of a parse tree by SQL's own rules, with its own  *)
(* resolution of names, knowing nothing of the binder or the planner.      *)
(* The properties of QueryEngine compare the two.                          *)
(*                                                                         *)
(* Joins go through the left side first, groups come in the order of their *)
(* first row, sorting is stable, and a null sorts below every number.      *)
(***************************************************************************)
EXTENDS Executors

CONSTANT Database        \* table name -> sequence of rows

-----------------------------------------------------------------------------
(* Relational operators. *)

NullRow(types) == [i \in DOMAIN types |-> GetNullValueByType(types[i])]

JoinRows(left, right, ltypes, rtypes, join_type, Matches(_, _)) ==
    LET matching(l) == SelectSeq(right, LAMBDA r : Matches(l, r))
        Pairs(l) == LET m == matching(l)
                    IN IF m = <<>> /\ join_type \in {"LEFT", "OUTER"}
                       THEN <<l \o NullRow(rtypes)>>
                       ELSE [i \in DOMAIN m |-> l \o m[i]]
        alone == SelectSeq(right, LAMBDA r :
                             \A i \in DOMAIN left : ~Matches(left[i], r))
    IN FlattenSeq([i \in DOMAIN left |-> Pairs(left[i])])
         \o (IF join_type \in {"RIGHT", "OUTER"}
             THEN [i \in DOMAIN alone |-> NullRow(ltypes) \o alone[i]] ELSE <<>>)

\* The rows grouped by keys[i], the key of row i.
GroupRows(rows, keys) ==
    LET first == SelectSeq([i \in DOMAIN rows |-> i],
                           LAMBDA i : \A j \in 1 .. i - 1 : keys[j] # keys[i])
        Members(i) == SelectSeq([j \in DOMAIN rows |-> j],
                                LAMBDA j : keys[j] = keys[i])
    IN [g \in DOMAIN first |->
          [k \in DOMAIN Members(first[g]) |-> rows[Members(first[g])[k]]]]

Aggregate(func, values) ==
    LET known == SelectSeq(values, LAMBDA v : ~v.null)
        numbers == {known[i].val : i \in DOMAIN known}
        Integer(n) == IntegerValue("INTEGER", n)
    IN CASE func = "count_star" -> Integer(Len(values))
         [] func = "count" -> Integer(Len(known))
         [] known = <<>> -> GetNullValueByType("INTEGER")
         [] func = "sum" -> Integer(FoldLeft(LAMBDA n, v : n + v.val, 0, known))
         [] func = "min" -> Integer(Min(numbers))
         [] func = "max" -> Integer(Max(numbers))

\* k precedes l, both sequences of values, by the directions dirs.
Precedes(dirs, k, l) ==
    \E i \in DOMAIN dirs :
      /\ \A j \in 1 .. i - 1 : k[j].val = l[j].val
      /\ IF dirs[i] = "DESC" THEN k[i].val > l[i].val ELSE k[i].val < l[i].val

\* The rows in the order of their keys.
SortRows(rows, keys, dirs) ==
    LET Before(i, j) == \/ Precedes(dirs, keys[i], keys[j])
                        \/ ~Precedes(dirs, keys[j], keys[i]) /\ i < j
        order == SortSeq([i \in DOMAIN rows |-> i], Before)
    IN [i \in DOMAIN rows |-> rows[order[i]]]

\* A window function at row i, over the frame from the first row of the
\* partition to the last peer of row i.
WindowValue(func, values, partition, keys, dirs, i) ==
    LET same == {j \in DOMAIN values : partition[j] = partition[i]}
        frame == SelectSeq([j \in DOMAIN values |-> j],
                           LAMBDA j : j \in same /\ ~Precedes(dirs, keys[i], keys[j]))
    IN IF func = "rank"
       THEN IntegerValue("INTEGER",
              1 + Cardinality({j \in same : Precedes(dirs, keys[j], keys[i])}))
       ELSE Aggregate(func, [k \in DOMAIN frame |-> values[frame[k]]])

\* size_t limit: a negative count is larger than any number of rows.
TakeRows(rows, n) ==
    IF n < 0 THEN rows ELSE SubSeq(rows, 1, Min({n, Len(rows)}))

MockRows(table) ==
    [c \in 1 .. MockSize(table) |-> Mock!GetFunctionOf(table, c - 1)]

TableRows(table) ==
    IF table \in MockTables THEN MockRows(table) ELSE Database[table]

-----------------------------------------------------------------------------
(* The rows of a plan.  A plan that modifies a table yields the rows it puts *)
(* into the table or removes from it.                                       *)

EvaluateRows(exprs, rows) == [i \in DOMAIN rows |-> EvaluateRow(exprs, rows[i])]

Filtered(predicate, rows) ==
    SelectSeq(rows, LAMBDA r : IsTrue(Evaluate(predicate, r)))

OrderExprs(order) == [i \in DOMAIN order |-> order[i].expr]
OrderDirs(order) == [i \in DOMAIN order |-> order[i].dir]

AggregationRows(plan, rows) ==
    LET groups == IF plan.group_bys = <<>> THEN <<rows>>
                  ELSE GroupRows(rows, EvaluateRows(plan.group_bys, rows))
        Call(a, group) ==
          Aggregate(a.func, [i \in DOMAIN group |-> Evaluate(a.arg, group[i])])
    IN [g \in DOMAIN groups |->
          [k \in DOMAIN plan.group_bys |->
             Evaluate(plan.group_bys[k], groups[g][1])]
            \o [a \in DOMAIN plan.aggregates |->
                  Call(plan.aggregates[a], groups[g])]]

WindowRows(plan, rows) ==
    LET Function(c) == SelectSeq(plan.functions, LAMBDA f : f.idx = c)
        Value(f, i) == WindowValue(
                         f.func, [j \in DOMAIN rows |-> Evaluate(f.arg, rows[j])],
                         EvaluateRows(f.partition_by, rows),
                         EvaluateRows(OrderExprs(f.order_by), rows),
                         OrderDirs(f.order_by), i)
    IN [i \in DOMAIN rows |->
          [c \in DOMAIN plan.columns |->
             IF Function(c) = <<>> THEN Evaluate(plan.columns[c], rows[i])
             ELSE Value(Function(c)[1], i)]]

RECURSIVE Rows(_)
Rows(plan) ==
    LET child == Rows(plan.children[1])
    IN CASE plan.type = "SeqScan" ->
              IF plan.filter_predicate # NullPtr
              THEN Filtered(plan.filter_predicate, Database[plan.table])
              ELSE Database[plan.table]
         [] plan.type = "MockScan" -> MockRows(plan.table)
         [] plan.type = "IndexScan" ->
              LET rows == Database[plan.table]
                  Key(r) == [k \in DOMAIN plan.key |-> r[plan.key[k]]]
              IN SortRows(rows, [i \in DOMAIN rows |-> Key(rows[i])],
                          [k \in DOMAIN plan.key |-> "ASC"])
         [] plan.type = "Values" ->
              [i \in DOMAIN plan.values |-> EvaluateRow(plan.values[i], <<>>)]
         [] plan.type = "Filter" -> Filtered(plan.predicate, child)
         [] plan.type = "Projection" -> EvaluateRows(plan.exprs, child)
         [] plan.type = "NestedLoopJoin" ->
              JoinRows(child, Rows(plan.children[2]),
                       ColumnTypes(plan.children[1].schema),
                       ColumnTypes(plan.children[2].schema), plan.join_type,
                       LAMBDA l, r : IsTrue(EvaluateJoin(plan.predicate, l, r)))
         [] plan.type = "NestedIndexJoin" ->
              JoinRows(child, Database[plan.table],
                       ColumnTypes(plan.children[1].schema),
                       ColumnTypes(plan.inner_schema), plan.join_type,
                       LAMBDA l, r : Compare("=", Evaluate(plan.key, l),
                                             r[plan.col]) = "CmpTrue")
         [] plan.type = "Aggregation" -> AggregationRows(plan, child)
         [] plan.type = "Window" -> WindowRows(plan, child)
         [] plan.type = "Sort" ->
              SortRows(child, EvaluateRows(OrderExprs(plan.order_bys), child),
                       OrderDirs(plan.order_bys))
         [] plan.type = "Limit" -> TakeRows(child, plan.limit)
         [] plan.type = "Update" -> EvaluateRows(plan.target_exprs, child)
         [] plan.type \in {"Insert", "Delete"} -> child

-----------------------------------------------------------------------------
(* The answer of a parse tree.  A relation has columns, each with the alias *)
(* of the table it comes from, the path of its name below and its type, and *)
(* rows; it is ok when every name in its query stood for one column.        *)

Relation(columns, rows, ok) == [columns |-> columns, rows |-> rows, ok |-> ok]

Named(name, column) ==
    LET path == [i \in DOMAIN column.path |-> Lower(column.path[i])]
    IN \/ IsSuffix(name, path)
       \/ Len(name) > 1 /\ name[1] = column.alias /\ IsSuffix(Tail(name), path)

Meaning(name, columns) == {i \in DOMAIN columns : Named(name, columns[i])}

Position(name, columns) == CHOOSE i \in Meaning(name, columns) : TRUE

Resolved(name, columns) == Cardinality(Meaning(name, columns)) = 1

\* The subtrees of an expression.
Operands(e) ==
    CASE e.node = "ResTarget" -> <<e.val>>
      [] e.node = "FuncCall" ->
           e.args \o FlattenSeq([i \in DOMAIN e.over |->
                                   e.over[i].partition
                                     \o [j \in DOMAIN e.over[i].order |->
                                           e.over[i].order[j].expr]])
      [] e.node \in {"AExpr", "BoolExpr"} -> e.args
      [] OTHER -> <<>>

RECURSIVE AllResolved(_, _)
AllResolved(e, columns) ==
    /\ e.node = "ColumnRef" => Resolved(e.fields, columns)
    /\ \A i \in DOMAIN Operands(e) : AllResolved(Operands(e)[i], columns)

IsAggregate(e) == e.node = "FuncCall" /\ e.over = <<>>
IsWindowCall(e) == e.node = "FuncCall" /\ e.over # <<>>

RECURSIVE Aggregates(_)
Aggregates(e) ==
    IsAggregate(e) \/ \E i \in DOMAIN Operands(e) : Aggregates(Operands(e)[i])

\* A name outside an aggregate is one of the grouping columns.
RECURSIVE GroupedBy(_, _, _)
GroupedBy(e, group, columns) ==
    \/ e \in Range(group)
    \/ IsAggregate(e)
    \/ IF e.node \in {"ColumnRef", "Position"}
       THEN \E g \in Range(group) :
              /\ g.node = "ColumnRef"
              /\ Position(g.fields, columns) =
                   IF e.node = "Position" THEN e.pos
                   ELSE Position(e.fields, columns)
       ELSE \A i \in DOMAIN Operands(e) :
              GroupedBy(Operands(e)[i], group, columns)

\* and, or: the least, the greatest of false < unknown < true.
Truth(v) == IF v.null THEN 1 ELSE IF v.val = 0 THEN 0 ELSE 2
TruthValue(n) ==
    IntegerValue("BOOLEAN", IF n = 1 THEN NullOf("BOOLEAN") ELSE n \div 2)

Operator(op, l, r) ==
    CASE op \in {"+", "-"} ->
           IF l.null \/ r.null THEN GetNullValueByType("INTEGER")
           ELSE IntegerValue("INTEGER", IF op = "+" THEN l.val + r.val
                                        ELSE l.val - r.val)
      [] op = "and" -> TruthValue(Min({Truth(l), Truth(r)}))
      [] op = "or" -> TruthValue(Max({Truth(l), Truth(r)}))
      [] OTHER -> LET c == Compare(op, l, r)
                  IN CASE c = "throw" -> Throw
                       [] c = "CmpNull" -> TruthValue(1)
                       [] OTHER -> TruthValue(IF c = "CmpTrue" THEN 2 ELSE 0)

\* The value of e at a row; an aggregate is over the rows of the row's group.
RECURSIVE ValueOf(_, _, _, _)
ValueOf(e, columns, row, group) ==
    LET Arg(i) == ValueOf(e.args[i], columns, row, group)
    IN CASE e.node = "ColumnRef" -> row[Position(e.fields, columns)]
         [] e.node = "AConst" -> BindConstant(e).val
         [] e.node = "ResTarget" -> ValueOf(e.val, columns, row, group)
         [] e.node = "FuncCall" ->
              Aggregate(IF e.args = <<>> THEN "count_star" ELSE e.name,
                        [i \in DOMAIN group |->
                           IF e.args = <<>> THEN row
                           ELSE ValueOf(e.args[1], columns, group[i], <<>>)])
         [] e.node = "AExpr" -> Operator(e.name, Arg(1), Arg(2))
         [] e.node = "BoolExpr" ->
              FoldLeft(LAMBDA v, i : Operator(e.name, v, Arg(i)), Arg(1),
                       [i \in 1 .. Len(e.args) - 1 |-> i + 1])

\* Every row with its group, for a query without and with aggregation.
Contexts(stmt, columns, rows) ==
    LET Key(r) == [g \in DOMAIN stmt.group |->
                     ValueOf(stmt.group[g], columns, r, <<>>)]
        groups == IF stmt.group = <<>> THEN <<rows>>
                  ELSE GroupRows(rows, [i \in DOMAIN rows |-> Key(rows[i])])
        Leading(group) == IF group = <<>> THEN <<>> ELSE group[1]
    IN IF \/ stmt.group # <<>>
          \/ stmt.having # <<>>
          \/ \E i \in DOMAIN stmt.targets : Aggregates(stmt.targets[i])
       THEN [g \in DOMAIN groups |->
               [row |-> Leading(groups[g]), group |-> groups[g]]]
       ELSE [i \in DOMAIN rows |-> [row |-> rows[i], group |-> <<>>]]

\* A select list with * written out, by column positions.
StarColumns(columns) ==
    [i \in DOMAIN columns |-> [node |-> "Position", pos |-> i]]

WindowAnswer(call, columns, rows, i) ==
    LET over == call.over[1]
        At(exprs) == [j \in DOMAIN rows |->
                        [k \in DOMAIN exprs |->
                           ValueOf(exprs[k], columns, rows[j], <<>>)]]
        func == IF call.args = <<>> /\ call.name # "rank" THEN "count_star"
                ELSE call.name
        values == [j \in DOMAIN rows |->
                     IF call.args = <<>> THEN IntegerValue("INTEGER", 1)
                     ELSE ValueOf(call.args[1], columns, rows[j], <<>>)]
    IN WindowValue(func, values, At(over.partition),
                   At([k \in DOMAIN over.order |-> over.order[k].expr]),
                   [k \in DOMAIN over.order |-> over.order[k].dir], i)

Item(e) == IF e.node = "ResTarget" THEN e.val ELSE e

ItemValue(e, columns, contexts, i) ==
    CASE e.node = "Position" -> contexts[i].row[e.pos]
      [] IsWindowCall(Item(e)) ->
           WindowAnswer(Item(e), columns,
                        [j \in DOMAIN contexts |-> contexts[j].row], i)
      [] OTHER -> ValueOf(e, columns, contexts[i].row, contexts[i].group)

\* The column an item becomes; an item without a name gets one no query has.
ItemColumn(e, columns) ==
    LET source == IF e.node = "Position" THEN e.pos
                  ELSE Position(Item(e).fields, columns)
        copies == e.node = "Position" \/ Item(e).node = "ColumnRef"
    IN [alias |-> "",
        path |-> CASE e.node = "ResTarget" /\ e.name # "" -> <<e.name>>
                   [] copies -> <<columns[source].alias>> \o columns[source].path
                   [] OTHER -> <<"">>,
        type |-> IF copies THEN columns[source].type ELSE "INTEGER"]

Aliased(relation, alias) ==
    [relation EXCEPT !.columns = [i \in DOMAIN @ |->
                                    [@[i] EXCEPT !.alias = alias]]]

RECURSIVE Answer(_, _)

RECURSIVE AnswerFrom(_, _)
AnswerFrom(ref, ctes) ==
    CASE ref.node = "RangeVar" ->
           LET alias == IF ref.alias = "" THEN ref.name ELSE ref.alias
               schema == Schemas[ref.name]
           IN CASE ref.name \in DOMAIN ctes -> Aliased(ctes[ref.name], alias)
                [] ref.name \in DOMAIN Schemas ->
                     Relation([i \in DOMAIN schema |->
                                 [alias |-> alias, path |-> <<schema[i].name>>,
                                  type |-> schema[i].type]],
                              TableRows(ref.name), TRUE)
                [] OTHER -> Relation(<<>>, <<>>, FALSE)
      [] ref.node = "RangeSubselect" -> Aliased(Answer(ref.query, ctes), ref.alias)
      [] ref.node = "JoinExpr" ->
           LET left == AnswerFrom(ref.left, ctes)
               right == AnswerFrom(ref.right, ctes)
               columns == left.columns \o right.columns
               ok == \A i \in DOMAIN ref.quals : AllResolved(ref.quals[i], columns)
               Matches(l, r) ==
                 \A i \in DOMAIN ref.quals :
                   IsTrue(ValueOf(ref.quals[i], columns, l \o r, <<>>))
           IN Relation(columns,
                       IF ok THEN JoinRows(left.rows, right.rows,
                                           ColumnTypes(left.columns),
                                           ColumnTypes(right.columns),
                                           ref.join_type, Matches)
                       ELSE <<>>,
                       left.ok /\ right.ok /\ ok)

\* FROM a, b, c is the product of the three.
Product(list, ctes) ==
    LET Cross(l, ref) == [node |-> "JoinExpr", join_type |-> "INNER",
                          left |-> l, right |-> ref, quals |-> <<>>]
    IN IF list = <<>> THEN Relation(<<>>, << <<>> >>, TRUE)
       ELSE AnswerFrom(FoldLeft(Cross, list[1], Tail(list)), ctes)

AnswerValues(rows) ==
    Relation([c \in DOMAIN rows[1] |->
                [alias |-> "", path |-> <<"">>, type |-> "INTEGER"]],
             [i \in DOMAIN rows |-> [c \in DOMAIN rows[i] |->
                                       ValueOf(rows[i][c], <<>>, <<>>, <<>>)]],
             \A i \in DOMAIN rows : \A c \in DOMAIN rows[i] :
               AllResolved(rows[i][c], <<>>))

\* The expressions of a query that see the columns of its FROM clause.
Expressions(stmt) ==
    stmt.targets \o stmt.where \o stmt.group \o stmt.having
      \o [i \in DOMAIN stmt.sort |-> stmt.sort[i].expr]

AnswerSelect(stmt, ctes) ==
    LET from == Product(stmt.from, ctes)
        columns == from.columns
        items == IF stmt.targets[1].node = "AStar" THEN StarColumns(columns)
                 ELSE stmt.targets
        ok == /\ from.ok
              /\ \A i \in DOMAIN Expressions(stmt) :
                   AllResolved(Expressions(stmt)[i], columns)
              /\ stmt.group # <<>> \/ stmt.having # <<>>
                   \/ (\E i \in DOMAIN stmt.targets : Aggregates(stmt.targets[i]))
                 => \A e \in Range(items \o stmt.having) :
                      GroupedBy(e, stmt.group, columns)
        Holding(clause, list) ==
          SelectSeq(list, LAMBDA c : \A i \in DOMAIN clause :
                      IsTrue(ValueOf(clause[i], columns, c.row, c.group)))
        rows == Holding(stmt.where, [i \in DOMAIN from.rows |->
                          [row |-> from.rows[i], group |-> <<>>]])
        contexts == Holding(stmt.having,
                      Contexts(stmt, columns, [i \in DOMAIN rows |-> rows[i].row]))
        out == [i \in DOMAIN contexts |->
                  [k \in DOMAIN items |->
                     ItemValue(items[k], columns, contexts, i)]]
        kept == SelectSeq([i \in DOMAIN out |-> i], LAMBDA i :
                  stmt.distinct = "" \/ \A j \in 1 .. i - 1 : out[j] # out[i])
        keys == [i \in DOMAIN kept |->
                   [k \in DOMAIN stmt.sort |->
                      ValueOf(stmt.sort[k].expr, columns, contexts[kept[i]].row,
                              contexts[kept[i]].group)]]
        sorted == SortRows([i \in DOMAIN kept |-> out[kept[i]]], keys,
                           [k \in DOMAIN stmt.sort |-> stmt.sort[k].dir])
    IN IF ~ok THEN Relation(<<>>, <<>>, FALSE)
       ELSE Relation([k \in DOMAIN items |-> ItemColumn(items[k], columns)],
                     IF stmt.limit = <<>> THEN sorted
                     ELSE TakeRows(sorted, BindConstant(stmt.limit[1]).val.val),
                     TRUE)

\* The rows a statement reads, puts into its table or removes from it.
Answer(stmt, ctes) ==
    CASE stmt.node = "SelectStmt" ->
           LET with == [name \in {stmt.with[i].name : i \in DOMAIN stmt.with} |->
                          LET i == CHOOSE i \in DOMAIN stmt.with :
                                     stmt.with[i].name = name
                          IN Answer(stmt.with[i].query, ctes)]
           IN CASE stmt.values # <<>> -> AnswerValues(stmt.values)
                [] stmt.with # <<>> -> AnswerSelect(stmt, with)
                [] OTHER -> AnswerSelect(stmt, ctes)
      [] stmt.node = "InsertStmt" -> Answer(stmt.query, ctes)
      [] stmt.node \in {"DeleteStmt", "UpdateStmt"} ->
           LET from == AnswerFrom([node |-> "RangeVar", name |-> stmt.table,
                                   alias |-> ""], ctes)
               columns == from.columns
               matching == SelectSeq(from.rows, LAMBDA r :
                             \A i \in DOMAIN stmt.where :
                               IsTrue(ValueOf(stmt.where[i], columns, r, <<>>)))
               Setting(c) == {i \in DOMAIN stmt.set :
                                Position(<<stmt.set[i].name>>, columns) = c}
               Updated(r) ==
                 [c \in DOMAIN columns |->
                    IF Setting(c) = {} THEN r[c]
                    ELSE ValueOf(stmt.set[Max(Setting(c))].val, columns, r, <<>>)]
           IN Relation(columns,
                       IF stmt.node = "DeleteStmt" THEN matching
                       ELSE [i \in DOMAIN matching |-> Updated(matching[i])],
                       /\ from.ok
                       /\ \A i \in DOMAIN stmt.where :
                            AllResolved(stmt.where[i], columns)
                       /\ stmt.node = "UpdateStmt" =>
                            \A i \in DOMAIN stmt.set :
                              /\ Resolved(<<stmt.set[i].name>>, columns)
                              /\ AllResolved(stmt.set[i].val, columns))

=============================================================================
