------------------------------ MODULE MCQuery -------------------------------
(***************************************************************************)
(* The statements that are followed: two tables with nulls, duplicates and *)
(* a column name in common, every way to put two of them into a FROM       *)
(* clause, select lists with names, aliases, aggregates and window         *)
(* functions, and every clause; the statements that modify a table; and a  *)
(* scan, a filter and a projection of every mock table.                    *)
(***************************************************************************)
EXTENDS QueryEngine

MCBits == [TINYINT |-> 4, SMALLINT |-> 8, INTEGER |-> 23, BIGINT |-> 24]

MCMockTables == Mock!mock_table_list
MCInternalTables == MCMockTables \cup {"__hidden"}

Integers2(x, y) == <<[name |-> x, type |-> "INTEGER"],
                     [name |-> y, type |-> "INTEGER"]>>

MCSchemas ==
    [table \in MCInternalTables \cup {"s", "t"} |->
       CASE table = "s" -> Integers2("a", "b")
         [] table = "t" -> Integers2("b", "c")
         [] table = "__hidden" -> Integers2("a", "h")
         [] OTHER -> Mock!GetMockTableSchemaOf(table)]

MCLowerCase == [colA |-> "cola", colB |-> "colb", colC |-> "colc",
                colD |-> "cold", colE |-> "cole", colF |-> "colf",
                colG |-> "colg", colH |-> "colh"]

N(n) == IntegerValue("INTEGER", n)
Null == GetNullValueByType("INTEGER")

MCDatabase == [s |-> << <<N(3), N(2)>>, <<N(1), N(2)>>, <<N(2), Null>> >>,
               t |-> << <<N(2), N(1)>>, <<N(2), N(3)>>, <<Null, N(2)>> >>]

\* A key column has neither nulls nor duplicates.
MCIndexes == [s |-> {<<1>>}, t |-> {<<2>>}]

-----------------------------------------------------------------------------
(* Parse trees. *)

Column(fields) == [node |-> "ColumnRef", fields |-> fields]
Literal(n) == [node |-> "AConst", kind |-> "Integer", val |-> n, text |-> <<>>]
NullLiteral == [Literal(0) EXCEPT !.kind = "Null"]
String(s) == [Literal(0) EXCEPT !.kind = "String", !.text = s]
Op(name, l, r) ==
    [node |-> "AExpr", kind |-> "OP", name |-> name, args |-> <<l, r>>]
Logic(name, l, r) == [node |-> "BoolExpr", name |-> name, args |-> <<l, r>>]
As(e, name) == [node |-> "ResTarget", name |-> name, val |-> e]
Call(name, args) == [node |-> "FuncCall", name |-> name, args |-> args,
                     distinct |-> FALSE, over |-> <<>>]
Sort(e, dir) == [expr |-> e, dir |-> dir, nulls |-> "DEFAULT"]
Over(call, partition, order) ==
    [call EXCEPT !.over = <<[partition |-> partition, order |-> order,
                             offsets |-> <<>>,
                             options |-> {"START_UNBOUNDED_PRECEDING",
                                          "END_CURRENT_ROW", "RANGE"}]>>]

Table(name, alias) == [node |-> "RangeVar", name |-> name, alias |-> alias]
Join(type, l, r, qual) == [node |-> "JoinExpr", join_type |-> type, left |-> l,
                           right |-> r, quals |-> <<qual>>]
Sub(query, alias) == [node |-> "RangeSubselect", query |-> query,
                      alias |-> alias, lateral |-> FALSE, pos |-> 1]

Select(targets, from) ==
    [node |-> "SelectStmt", values |-> <<>>, pos |-> 0, with |-> <<>>,
     from |-> from, distinct |-> "", targets |-> targets, where |-> <<>>,
     group |-> <<>>, having |-> <<>>, limit |-> <<>>, offset |-> <<>>,
     sort |-> <<>>]
Star == <<[node |-> "AStar"]>>
Values(rows) == [Select(<<>>, <<>>) EXCEPT !.values = rows, !.pos = 1]

a == Column(<<"a">>)
b == Column(<<"b">>)
c == Column(<<"c">>)
sb == Column(<<"s", "b">>)
Count == Call("count", <<>>)
Sum(e) == Call("sum", <<e>>)

-----------------------------------------------------------------------------
(* The clauses. *)

Lists == {
    Star,
    <<a>>,
    <<As(b, "a"), As(a, "x")>>,
    <<Column(<<"x", "a">>), sb>>,
    <<Column(<<"q", "b">>), Op("+", b, Literal(1))>>,
    <<Sum(a), As(Count, "n")>>,
    <<b, Op("-", Call("max", <<a>>), Call("min", <<a>>))>>,
    <<sb, Call("count", <<b>>)>>,
    <<a, As(Over(Sum(a), <<b>>, <<Sort(a, "ASC")>>), "w")>>,
    <<Over(Call("rank", <<>>), <<>>, <<Sort(b, "DESC")>>),
      Over(Call("row_number", <<>>), <<a>>, <<Sort(b, "DESC")>>)>>}

Inner == Select(<<a, As(Sum(b), "b")>>, <<Table("s", "")>>)
Grouped == [Inner EXCEPT !.group = <<a>>]

Froms == {
    <<Table("s", "")>>,
    <<Table("s", "x")>>,
    <<Table("s", ""), Table("t", "")>>,
    <<Table("s", "x"), Table("s", "q")>>,
    <<Join("INNER", Table("s", ""), Table("t", ""), Op("=", a, c))>>,
    <<Join("LEFT", Table("s", ""), Table("t", ""),
           Op("=", Column(<<"t", "b">>), sb))>>,
    <<Join("OUTER", Table("s", ""), Table("t", "q"),
           Op("<", Column(<<"q", "b">>), a))>>,
    <<Join("RIGHT", Sub(Select(<<a>>, <<Table("s", "")>>), ""), Table("t", "q"),
           Op("=", c, a))>>,
    <<Sub(Select(Star, <<Table("s", "")>>), "q")>>,
    <<Sub(Grouped, "q")>>,
    <<Table("w", "")>>,
    <<Table("w", "x"), Table("w", "q")>>,
    <<>>,
    <<Table("u", "")>>}

With == <<[name |-> "w", query |-> Select(<<a, As(b, "b")>>, <<Table("s", "")>>),
           recursive |-> FALSE]>>

Wheres == {<<>>,
           <<Op("=", b, Literal(2))>>,
           <<Logic("or", Op("=", sb, NullLiteral), Op("<", a, Literal(3)))>>,
           <<Logic("and", Op("!=", b, Literal(0)), Op(">", a, Literal(1)))>>,
           <<Op("=", sb, c)>>}

Groupings == {<< <<>>, <<>> >>, << <<b>>, <<>> >>,
              << <<sb>>, <<Op(">", Count, Literal(1))>> >>,
              << <<a, b>>, <<>> >>,
              << <<>>, <<Op("<", Call("min", <<a>>), Sum(a))>> >>}

Sorts == {<<Sort(a, "ASC")>>, <<Sort(sb, "DESC"), Sort(a, "DEFAULT")>>,
          <<Sort(Op("+", b, a), "DEFAULT")>>}

Queries ==
    {[Select(list, from) EXCEPT !.with = With, !.where = where,
                                !.group = g[1], !.having = g[2]] :
       list \in Lists, from \in Froms, where \in Wheres, g \in Groupings}

Ordered ==
    {[Select(list, from) EXCEPT !.with = With, !.where = where, !.sort = sort,
                                !.distinct = distinct, !.limit = limit] :
       list \in Lists, from \in Froms, where \in {<<>>, <<Op("=", b, Literal(2))>>},
       sort \in Sorts \cup {<<>>}, distinct \in {"", "ALL"},
       limit \in {<<>>, <<Literal(1)>>, <<NullLiteral>>}}

-----------------------------------------------------------------------------

Modifications ==
    {[node |-> "InsertStmt", table |-> table, cols |-> <<>>, query |-> query] :
       table \in {"s", "__hidden", "u"},
       query \in {Select(Star, <<Table("t", "")>>), Select(<<a>>, <<Table("s", "")>>),
                  Values(<< <<Literal(1), NullLiteral>>, <<Literal(2), Literal(3)>> >>),
                  Values(<< <<Literal(1), String(<<1>>)>> >>),
                  Values(<< <<Literal(1)>>, <<Literal(2), Literal(3)>> >>)}}
      \cup {[node |-> "DeleteStmt", table |-> "s", where |-> where] :
              where \in Wheres}
      \cup {[node |-> "UpdateStmt", table |-> "s", where |-> where, set |-> set,
             with |-> <<>>, from |-> <<>>] :
              where \in Wheres,
              set \in {<<[name |-> "b", val |-> a], [name |-> "a", val |-> b]>>,
                       <<[name |-> "a", val |-> Literal(1)],
                         [name |-> "a", val |-> Op("+", a, b)]>>,
                       <<[name |-> "c", val |-> a]>>,
                       <<[name |-> "a", val |-> c]>>}}

\* The first and the last column of a mock table, by their lower-case names.
MockColumn(table, i) == Column(<<Lower(MCSchemas[table][i].name)>>)

MockQueries ==
    LET Whole(table) == Select(Star, <<Table(table, "")>>)
        First(table) == MockColumn(table, 1)
        Final(table) == MockColumn(table, Len(MCSchemas[table]))
        Integral2 == {table \in MCMockTables : MCSchemas[table][1].type = "INTEGER"}
    IN {Whole(table) : table \in MCMockTables}
         \cup {[Whole(table) EXCEPT !.targets = <<Final(table), First(table)>>,
                                   !.where = <<Op("!=", Final(table), First(table))>>] :
                 table \in MCMockTables \ Mock!ScheduleTables}
         \cup {[Whole(table) EXCEPT !.where = <<Op(op, First(table), Literal(2))>>] :
                 table \in Integral2, op \in {"<", ">", ">="}}
         \cup {[Whole(table) EXCEPT !.where = <<Op("=", Final(table), String(<<1>>))>>] :
                 table \in Mock!ScheduleTables}
         \cup {Select(<<Op("+", First("__mock_table_3"), Literal(1))>>,
                      <<Sub([Whole("__mock_table_3") EXCEPT
                               !.where = <<Op(">=", First("__mock_table_3"),
                                              Literal(n))>>], "q")>>) : n \in 0 .. 4}
         \cup {Values([i \in 1 .. n |-> <<Literal(i), Op("-", Literal(0), Literal(i))>>]) :
                 n \in 1 .. 5}

MCStatements == Queries \cup Ordered \cup Modifications \cup MockQueries

-----------------------------------------------------------------------------
(* The components. *)

MCBinder(parsed) == LET bound_stmt == BindStatement(parsed) IN bound_stmt

MCPlanner(bound_stmt) == LET planned == PlanQuery(bound_stmt) IN planned

MCOptimizer(rule, node) == LET optimized == OptimizeBy(rule, node) IN optimized

\* The executors are created, then initialised.
MCExecutorFactory(node, order) ==
    LET created == CreateExecutor(node, order)
    IN Checked(<<created>>, InitExecutor(created))

MCExecutor(ex) == LET next == ExecutorNext(ex) IN next

=============================================================================
