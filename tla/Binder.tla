------------------------------- MODULE Binder -------------------------------
(***************************************************************************)
(* The binder: it turns a parse tree into a bound statement, resolving     *)
(* every table and column name against the catalog and the FROM clause     *)
(* (binder/).                                                              *)
(*                                                                         *)
(* A parse tree is a record with its tag in node; an optional clause is a  *)
(* sequence of at most one tree.  A qualified name is the sequence of its  *)
(* identifiers: an identifier holds no dot, so the joined text the code    *)
(* compares is as distinct.  The names made from universal_id_ carry       *)
(* instead the position (pos, or the index in the select list) of what     *)
(* they name.  cte_scope_ and scope_ are the arguments ctes and scope.     *)
(***************************************************************************)
EXTENDS Expressions

CONSTANTS Schemas,          \* table name -> sequence of [name, type]
          InternalTables,   \* the tables whose names start with "__"
          LowerCase         \* StringUtil::Lower on the names it changes

ASSUME InternalTablesExist == InternalTables \subseteq DOMAIN Schemas

Lower(name) == IF name \in DOMAIN LowerCase THEN LowerCase[name] ELSE name

-----------------------------------------------------------------------------
(* The nodes (include/binder/): every one has its class in type; args are  *)
(* its operands, whatever the class calls them.  An optional name that is  *)
(* absent is "".  Oids are left out: a table is known by its name.         *)

\* A unique_ptr without an object, and the invalid node of an absent clause.
NullPtr == [type |-> "NULLPTR"]
Invalid == [type |-> "INVALID"]

-----------------------------------------------------------------------------
(* Bound expressions. *)

BoundColumnRef(name) == [type |-> "COLUMN_REF", name |-> name, args |-> <<>>]

Prepend(ref, prefix) ==
    IF ref.type = "COLUMN_REF" THEN BoundColumnRef(<<prefix>> \o ref.name)
    ELSE ref

BoundConstant(val) == [type |-> "CONSTANT", val |-> val, args |-> <<>>]

BoundStar == [type |-> "STAR"]

BoundUnaryOp(op, arg) == [type |-> "UNARY_OP", op |-> op, args |-> <<arg>>]

BoundBinaryOp(op, l, r) == [type |-> "BINARY_OP", op |-> op, args |-> <<l, r>>]

BoundFuncCall(func, args) == [type |-> "FUNC_CALL", func |-> func, args |-> args]

BoundAggCall(func, distinct, args) ==
    [type |-> "AGG_CALL", func |-> func, distinct |-> distinct, args |-> args]

\* The frame is set afterwards; the offsets of its ends are bound and dropped.
BoundWindow(func, args, partition_by, order_bys) ==
    [type |-> "WINDOW", func |-> func, args |-> args,
     partition_by |-> partition_by, order_bys |-> order_bys,
     start |-> "INVALID", end |-> "INVALID"]

BoundAlias(alias, child) ==
    [type |-> "ALIAS", alias |-> alias, args |-> <<child>>]

BoundOrderBy(dir, nulls, expr) ==
    [type |-> "ORDER_BY", dir |-> dir, nulls |-> nulls, expr |-> expr]

\* A call below a function call or a window does not count.
RECURSIVE HasAggregation(_)
HasAggregation(e) ==
    \/ e.type = "AGG_CALL"
    \/ /\ e.type \in {"BINARY_OP", "UNARY_OP", "ALIAS"}
       /\ \E i \in DOMAIN e.args : HasAggregation(e.args[i])

RECURSIVE HasWindowFunction(_)
HasWindowFunction(e) ==
    e.type = "WINDOW" \/ (e.type = "ALIAS" /\ HasWindowFunction(e.args[1]))

-----------------------------------------------------------------------------
(* Table references. *)

EmptyTableRef == [type |-> "EMPTY"]

BoundBaseTableRef(table, alias, schema) ==
    [type |-> "BASE_TABLE", table |-> table, alias |-> alias, schema |-> schema]

GetBoundTableName(ref) == IF ref.alias = "" THEN ref.table ELSE ref.alias

BoundCrossProductRef(left, right) ==
    [type |-> "CROSS_PRODUCT", left |-> left, right |-> right]

BoundJoinRef(join_type, left, right, condition) ==
    [type |-> "JOIN", join_type |-> join_type, left |-> left, right |-> right,
     condition |-> condition]

BoundCTERef(cte_name, alias) ==
    [type |-> "CTE", cte_name |-> cte_name, alias |-> alias]

BoundSubqueryRef(subquery, select_list_name, alias) ==
    [type |-> "SUBQUERY", subquery |-> subquery,
     select_list_name |-> select_list_name, alias |-> alias]

BoundExpressionListRef(values, identifier) ==
    [type |-> "EXPRESSION_LIST", values |-> values, identifier |-> identifier]

-----------------------------------------------------------------------------
(* Statements. *)

SelectStatement(table, list, where, group, having, count, offset, sort, ctes, distinct) ==
    [type |-> "SELECT", table |-> table, select_list |-> list, where |-> where,
     group_by |-> group, having |-> having, limit_count |-> count,
     limit_offset |-> offset, sort |-> sort, ctes |-> ctes, is_distinct |-> distinct]

InsertStatement(table, select) ==
    [type |-> "INSERT", table |-> table, select |-> select]

DeleteStatement(table, expr) ==
    [type |-> "DELETE", table |-> table, expr |-> expr]

\* The target expressions are pairs of a column and an expression.
UpdateStatement(table, filter_expr, columns, exprs) ==
    [type |-> "UPDATE", table |-> table, filter_expr |-> filter_expr,
     columns |-> columns, exprs |-> exprs]

-----------------------------------------------------------------------------
(* Column names. *)

\* The one candidate, nullptr without any, an exception with several.
OnlyOne(names) ==
    CASE Len(names) = 0 -> NullPtr
      [] Len(names) = 1 -> BoundColumnRef(names[1])
      [] OTHER -> Refuse("exception")

\* Two ways to resolve one name: both is ambiguous.
Unique(a, b) ==
    Checked(<<a, b>>,
            CASE a # NullPtr /\ b # NullPtr -> Refuse("exception")
              [] a # NullPtr -> a
              [] OTHER -> b)

ResolveColumnRefFromSchema(schema, name) ==
    LET Same(column) == Lower(column.name) = name[1]
        found == SelectSeq(schema, Same)
    IN IF Len(name) # 1 THEN NullPtr
       ELSE OnlyOne([i \in DOMAIN found |-> <<found[i].name>>])

ResolveColumnRefFromBaseTableRef(ref, name) ==
    LET table == GetBoundTableName(ref)
        Resolved(n) == Prepend(ResolveColumnRefFromSchema(ref.schema, n), table)
    IN Unique(Resolved(name),
              IF Len(name) > 1 /\ name[1] = table THEN Resolved(Tail(name))
              ELSE NullPtr)

MatchSuffix(suffix, full_name) ==
    IsSuffix(suffix, [i \in DOMAIN full_name |-> Lower(full_name[i])])

ResolveColumnRefFromSelectList(select_list, name) ==
    OnlyOne(SelectSeq(select_list, LAMBDA full : MatchSuffix(name, full)))

\* What is found is named after the subquery's own alias, a CTE's name.
ResolveColumnRefFromSubqueryRef(subquery, alias, name) ==
    LET Resolved(n) ==
          Prepend(ResolveColumnRefFromSelectList(subquery.select_list_name, n),
                  subquery.alias)
    IN Unique(Resolved(name),
              IF Len(name) > 1 /\ name[1] = alias THEN Resolved(Tail(name))
              ELSE NullPtr)

\* The first CTE of that name; a later one of the same name is hidden.
FindCTE(ctes, name) == SelectInSeq(ctes, LAMBDA cte : cte.alias = name)

RECURSIVE ResolveColumnInternal(_, _, _)
ResolveColumnInternal(ref, name, ctes) ==
    CASE ref.type = "BASE_TABLE" -> ResolveColumnRefFromBaseTableRef(ref, name)
      [] ref.type \in {"CROSS_PRODUCT", "JOIN"} ->
           Unique(ResolveColumnInternal(ref.left, name, ctes),
                  ResolveColumnInternal(ref.right, name, ctes))
      [] ref.type = "SUBQUERY" ->
           ResolveColumnRefFromSubqueryRef(ref, ref.alias, name)
      [] ref.type = "CTE" ->
           LET i == FindCTE(ctes, ref.cte_name)
           IN IF i = 0 THEN Refuse("logic_error")
              ELSE ResolveColumnRefFromSubqueryRef(ctes[i], ref.alias, name)
      [] OTHER -> Refuse("exception")

ResolveColumn(scope, name, ctes) ==
    LET found == ResolveColumnInternal(scope, name, ctes)
    IN CASE scope = NullPtr -> Refuse("abort")
         [] found = NullPtr -> Refuse("exception")
         [] OTHER -> found

RECURSIVE GetAllColumns(_, _)
GetAllColumns(ref, ctes) ==
    CASE ref.type = "BASE_TABLE" ->
           [i \in DOMAIN ref.schema |->
              BoundColumnRef(<<GetBoundTableName(ref), ref.schema[i].name>>)]
      [] ref.type \in {"CROSS_PRODUCT", "JOIN"} ->
           GetAllColumns(ref.left, ctes) \o GetAllColumns(ref.right, ctes)
      [] ref.type = "SUBQUERY" ->
           [i \in DOMAIN ref.select_list_name |->
              BoundColumnRef(<<ref.alias>> \o ref.select_list_name[i])]
      [] ref.type = "CTE" ->
           LET i == FindCTE(ctes, ref.cte_name)
               columns == GetAllColumns(ctes[i], ctes)
           IN IF i = 0 THEN <<Refuse("logic_error")>>
              ELSE [k \in DOMAIN columns |->
                      [columns[k] EXCEPT !.name[1] = ref.alias]]
      [] OTHER -> <<Refuse("exception")>>

-----------------------------------------------------------------------------
(* Expressions. *)

RECURSIVE BindExpression(_, _, _)

BindExpressions(list, scope, ctes) ==
    [i \in DOMAIN list |-> BindExpression(list[i], scope, ctes)]

\* The bound list, or <<the exception>>.
BindExpressionList(list, scope, ctes) ==
    LET bound == BindExpressions(list, scope, ctes)
        star == SelectInSeq(bound, LAMBDA e : e.type = "STAR")
        first == SelectInSeq(bound, LAMBDA e : e.type \in {"STAR", "THROW"})
    IN CASE first = 0 -> bound
         [] first = star -> <<Refuse("exception")>>
         [] OTHER -> <<bound[first]>>

\* An integer literal is not beyond INTEGER, or BUSTUB_ENSURE aborts; a null
\* is an INTEGER.
BindConstant(lit) ==
    CASE lit.kind = "Integer" ->
           IF lit.val > MaxOf("INTEGER") THEN Refuse("abort")
           ELSE BoundConstant(IntegerValue("INTEGER", lit.val))
      [] lit.kind = "Float" -> BoundConstant(DecimalValue(lit.val))
      [] lit.kind = "String" -> BoundConstant(VarcharValue(lit.text))
      [] lit.kind = "Null" -> BoundConstant(GetNullValueByType("INTEGER"))
      [] OTHER -> Refuse("exception")

BindSort(list, scope, ctes) ==
    [i \in DOMAIN list |->
       LET expr == BindExpression(list[i].expr, scope, ctes)
       IN Checked(<<expr>>, BoundOrderBy(list[i].dir, list[i].nulls, expr))]

\* One end of a window frame, from the frame options set for that end.
WindowBoundary(options, end) ==
    LET mode == IF "RANGE" \in options THEN "_RANGE" ELSE "_ROWS"
    IN CASE end = "START" /\ "START_UNBOUNDED_PRECEDING" \in options ->
              "UNBOUNDED_PRECEDING"
         [] end = "END" /\ "END_UNBOUNDED_FOLLOWING" \in options ->
              "UNBOUNDED_FOLLOWING"
         [] end \o "_VALUE_PRECEDING" \in options -> "EXPR_PRECEDING" \o mode
         [] end \o "_VALUE_FOLLOWING" \in options -> "EXPR_FOLLOWING" \o mode
         [] end \o "_CURRENT_ROW" \in options -> "CURRENT_ROW" \o mode
         [] OTHER -> "INVALID"

BindWindowFrame(options, window) ==
    IF {"END_UNBOUNDED_PRECEDING", "START_UNBOUNDED_FOLLOWING"} \cap options # {}
    THEN Refuse("exception")
    ELSE [window EXCEPT !.start = WindowBoundary(options, "START"),
                        !.end = WindowBoundary(options, "END")]

BindWindowExpression(func, args, over, scope, ctes) ==
    LET partition == BindExpressionList(over.partition, scope, ctes)
        sort == BindSort(over.order, scope, ctes)
        offsets == BindExpressions(over.offsets, scope, ctes)
    IN Checked(partition \o sort \o offsets,
               BindWindowFrame(over.options,
                               BoundWindow(func, args, partition, sort)))

AggregateNames ==
    {"min", "max", "first", "last", "sum", "count", "rank", "row_number"}

BindFuncCall(call, scope, ctes) ==
    LET name == Lower(call.name)
        args == BindExpressions(call.args, scope, ctes)
        func == IF (name = "count" /\ args = <<>>) \/ name = "row_number"
                THEN "count_star" ELSE name
    IN Checked(args,
         CASE name \notin AggregateNames ->
                BoundFuncCall(name, args)
           [] call.over = <<>> ->
                BoundAggCall(func, call.distinct, args)
           [] call.distinct -> Refuse("exception")
           [] OTHER -> BindWindowExpression(func, args, call.over[1], scope, ctes))

\* The operator of an AExpr with both operands, or with the right one alone.
BindAExpr(expr, scope, ctes) ==
    LET args == BindExpressions(expr.args, scope, ctes)
    IN IF expr.kind # "OP" THEN Refuse("exception")
       ELSE Checked(args, IF Len(args) = 1 THEN BoundUnaryOp(expr.name, args[1])
                          ELSE BoundBinaryOp(expr.name, args[1], args[2]))

\* a AND b AND c is bound as (a and b) and c.
BindBoolExpr(expr, scope, ctes) ==
    LET args == BindExpressionList(expr.args, scope, ctes)
    IN Checked(args,
         CASE expr.name = "not" -> IF Len(args) # 1 THEN Refuse("exception")
                                   ELSE BoundUnaryOp("not", args[1])
           [] Len(args) <= 1 -> Refuse("exception")
           [] OTHER -> FoldLeft(LAMBDA l, r : BoundBinaryOp(expr.name, l, r),
                                args[1], Tail(args)))

BindResTarget(target, scope, ctes) ==
    LET expr == BindExpression(target.val, scope, ctes)
    IN IF target.name = "" THEN expr
       ELSE Checked(<<expr>>, BoundAlias(target.name, expr))

BindStar == BoundStar

BindColumnRef(ref, scope, ctes) ==
    IF ref.fields[1] = "*" THEN BindStar ELSE ResolveColumn(scope, ref.fields, ctes)

BindExpression(tree, scope, ctes) ==
    CASE tree.node = "ColumnRef" -> BindColumnRef(tree, scope, ctes)
      [] tree.node = "AStar" -> BindStar
      [] tree.node = "AConst" -> BindConstant(tree)
      [] tree.node = "ResTarget" -> BindResTarget(tree, scope, ctes)
      [] tree.node = "FuncCall" -> BindFuncCall(tree, scope, ctes)
      [] tree.node = "AExpr" -> BindAExpr(tree, scope, ctes)
      [] tree.node = "BoolExpr" -> BindBoolExpr(tree, scope, ctes)
      [] OTHER -> Refuse("exception")

BindOptional(clause, scope, ctes) ==
    IF clause = <<>> THEN Invalid ELSE BindExpression(clause[1], scope, ctes)

\* A star stands alone; normal and window aggregates do not mix.
BindSelectList(list, scope, ctes) ==
    LET bound == BindExpressions(list, scope, ctes)
    IN CASE \E i \in DOMAIN bound : IsThrow(bound[i]) ->
              <<Checked(bound, NullPtr)>>
         [] \E i \in DOMAIN bound : bound[i].type = "STAR" ->
              IF Len(bound) > 1 THEN <<Refuse("exception")>>
              ELSE GetAllColumns(scope, ctes)
         [] /\ \E i \in DOMAIN bound : HasAggregation(bound[i])
            /\ \E i \in DOMAIN bound : HasWindowFunction(bound[i]) ->
              <<Refuse("exception")>>
         [] OTHER -> bound

-----------------------------------------------------------------------------
(* Table references and statements. *)

RECURSIVE BindSelect(_, _)

\* The names a subquery shows: an unnamed item gets a fresh one.
SelectListName(select_list) ==
    [i \in DOMAIN select_list |->
       CASE select_list[i].type = "COLUMN_REF" -> select_list[i].name
         [] select_list[i].type = "ALIAS" -> <<select_list[i].alias>>
         [] OTHER -> <<"__item#" \o ToString(i)>>]

BindSubquery(query, alias, ctes) ==
    LET subquery == BindSelect(query, ctes)
    IN Checked(<<subquery>>,
               BoundSubqueryRef(subquery, SelectListName(subquery.select_list),
                                alias))

BindRangeSubselect(ref, ctes) ==
    IF ref.lateral THEN Refuse("exception")
    ELSE BindSubquery(ref.query,
                      IF ref.alias = "" THEN "__subquery#" \o ToString(ref.pos)
                      ELSE ref.alias, ctes)

BindBaseTableRef(table, alias) ==
    IF table \notin DOMAIN Schemas THEN Refuse("exception")
    ELSE BoundBaseTableRef(table, alias, Schemas[table])

BindRangeVar(ref, ctes) ==
    IF FindCTE(ctes, ref.name) = 0 THEN BindBaseTableRef(ref.name, ref.alias)
    ELSE BoundCTERef(ref.name, IF ref.alias = "" THEN ref.name ELSE ref.alias)

RECURSIVE BindTableRef(_, _)

\* BindExpression asserts that there is a condition.
BindJoin(ref, ctes) ==
    LET left == BindTableRef(ref.left, ctes)
        right == BindTableRef(ref.right, ctes)
        join == BoundJoinRef(ref.join_type, left, right, NullPtr)
        condition == BindExpression(ref.quals[1], join, ctes)
    IN CASE ref.join_type \notin {"INNER", "LEFT", "OUTER", "RIGHT"} ->
              Refuse("exception")
         [] OTHER ->
              Checked(<<left, right>>,
                IF ref.quals = <<>> THEN Refuse("abort")
                ELSE Checked(<<condition>>,
                             [join EXCEPT !.condition = condition]))

BindTableRef(ref, ctes) ==
    CASE ref.node = "RangeVar" -> BindRangeVar(ref, ctes)
      [] ref.node = "JoinExpr" -> BindJoin(ref, ctes)
      [] ref.node = "RangeSubselect" -> BindRangeSubselect(ref, ctes)
      [] OTHER -> Refuse("exception")

\* FROM a, b, c is ((a x b) x c).
BindFrom(list, ctes) ==
    LET refs == [i \in DOMAIN list |-> BindTableRef(list[i], ctes)]
    IN IF list = <<>> THEN EmptyTableRef
       ELSE Checked(refs, FoldLeft(BoundCrossProductRef, refs[1], Tail(refs)))

\* A CTE sees the CTEs of the enclosing statement, not its siblings.
BindCTE(with, ctes) ==
    [i \in DOMAIN with |->
       IF with[i].recursive THEN Refuse("exception")
       ELSE BindSubquery(with[i].query, with[i].name, ctes)]

BindValuesList(rows, name, ctes) ==
    LET bound == [i \in DOMAIN rows |->
                    BindExpressionList(rows[i], NullPtr, ctes)]
    IN Checked(FlattenSeq(bound),
               IF \E i \in DOMAIN bound : Len(bound[i]) # Len(bound[1])
               THEN Refuse("exception")
               ELSE BoundExpressionListRef(bound, name))

BindValues(stmt, ctes) ==
    LET name == "__values#" \o ToString(stmt.pos)
        list == BindValuesList(stmt.values, name, ctes)
    IN Checked(<<list>>,
         SelectStatement(list, [i \in DOMAIN list.values[1] |->
                                  BoundColumnRef(<<name, ToString(i)>>)],
                         Invalid, <<>>, Invalid, Invalid, Invalid, <<>>, <<>>,
                         FALSE))

BindSelect(stmt, outer) ==
    LET with == BindCTE(stmt.with, outer)
        ctes == IF stmt.with = <<>> THEN outer ELSE with
        table == BindFrom(stmt.from, ctes)
        list == BindSelectList(stmt.targets, table, ctes)
        where == BindOptional(stmt.where, table, ctes)
        group == BindExpressionList(stmt.group, table, ctes)
        having == BindOptional(stmt.having, table, ctes)
        limit == BindOptional(stmt.limit, table, ctes)
        offset == BindOptional(stmt.offset, table, ctes)
        sort == BindSort(stmt.sort, table, ctes)
    IN IF stmt.values # <<>> THEN BindValues(stmt, outer)
       ELSE Checked(with, Checked(<<table>>,
         IF stmt.distinct = "ON" \/ stmt.targets = <<>> THEN Refuse("exception")
         ELSE Checked(list \o <<where>> \o group \o <<having, limit, offset>>
                        \o sort,
                SelectStatement(table, list, where, group, having, limit, offset,
                                sort, with, stmt.distinct = "ALL"))))

BindInsert(stmt) ==
    LET table == BindBaseTableRef(stmt.table, "")
        select == BindSelect(stmt.query, <<>>)
    IN IF stmt.cols # <<>> THEN Refuse("exception")
       ELSE Checked(<<table>>,
              IF stmt.table \in InternalTables THEN Refuse("exception")
              ELSE Checked(<<select>>, InsertStatement(table, select)))

\* Without WHERE the condition is the constant true.
BindCondition(where, table) ==
    IF where = <<>> THEN BoundConstant(IntegerValue("BOOLEAN", 1))
    ELSE BindExpression(where[1], table, <<>>)

BindDelete(stmt) ==
    LET table == BindBaseTableRef(stmt.table, "")
        expr == BindCondition(stmt.where, table)
    IN Checked(<<table>>, Checked(<<expr>>, DeleteStatement(table, expr)))

\* An unknown column of SET is bound as a null reference.
BindUpdate(stmt) ==
    LET table == BindBaseTableRef(stmt.table, "")
        filter == BindCondition(stmt.where, table)
        columns == [i \in DOMAIN stmt.set |->
                      ResolveColumnRefFromBaseTableRef(table,
                                                       <<stmt.set[i].name>>)]
        exprs == [i \in DOMAIN stmt.set |->
                    BindExpression(stmt.set[i].val, table, <<>>)]
    IN IF stmt.with # <<>> \/ stmt.from # <<>> THEN Refuse("exception")
       ELSE Checked(<<table>>, Checked(<<filter>> \o columns \o exprs,
              UpdateStatement(table, filter, columns, exprs)))

BindStatement(stmt) ==
    CASE stmt.node = "SelectStmt" -> BindSelect(stmt, <<>>)
      [] stmt.node = "InsertStmt" -> BindInsert(stmt)
      [] stmt.node = "DeleteStmt" -> BindDelete(stmt)
      [] stmt.node = "UpdateStmt" -> BindUpdate(stmt)

=============================================================================
