----------------------------- MODULE MockTables -----------------------------
(***************************************************************************)
(* The built-in tables a mock scan reads (execution/mock_scan_executor.cpp *)
(* lines 83 to 714): for each its schema, its size and the function from   *)
(* the cursor to a row.  The characters of a text are left out: a name is  *)
(* the number of its owner, a weekday its place in the week, and a run of  *)
(* n pictures is n equal characters.  The random rows of an environment    *)
(* variable are not modelled.                                              *)
(***************************************************************************)
EXTENDS TypeSystem

GRAPH_NODE_CNT == 10

\* Monday to Sunday; "Randomly", "Yesterday" and "Never" follow.
course_on_date == <<1, 2, 3, 4, 5, 6, 7>>
Randomly == 8
Yesterday == 9
Never == 10

\* The office hours ta_oh_* of each list of assistants ta_list_*, which is as
\* long.
ta_oh ==
    [__mock_table_tas_2022 |-> <<2, 3, 1, 3, 4, 5, 3, Randomly, 2, 1, 2>>,
     __mock_table_tas_2023 |-> <<5, 4, 2, 1, 2, 2, Randomly, 3, 4>>,
     __mock_table_tas_2023_fall |->
       <<Randomly, 2, 3, 2, 4, 2, 5, Yesterday, 5, 5, Never>>,
     __mock_table_tas_2024 |-> <<5, 4, 5, 3, 4, Yesterday, 1, 2, 2, 1>>,
     __mock_table_tas_2024_fall |-> <<3, 4, 2, 1, 5, 4, 2, 5>>,
     __mock_table_tas_2025_spring |-> <<5, 1, 3, 2, 5, 4, 1, 2>>,
     __mock_table_tas_2025_fall |-> <<2, 1, 4, 5, 2, 2, 5, 3>>]

Ints(names) ==
    [i \in DOMAIN names |-> [name |-> names[i], type |-> "INTEGER"]]
Chars(names) ==
    [i \in DOMAIN names |-> [name |-> names[i], type |-> "VARCHAR"]]

PairTables == {"__mock_t4_1m", "__mock_t5_1m", "__mock_t6_1m", "__mock_t9",
               "__mock_t10", "__mock_t11"}
ScheduleTables == {"__mock_table_schedule_2022", "__mock_table_schedule"}
AggTables == {"__mock_agg_input_small", "__mock_agg_input_big"}

mock_table_list ==
    {"__mock_table_1", "__mock_table_2", "__mock_table_3", "__mock_table_4",
     "__mock_external_merge_sort_input", "__mock_table_123", "__mock_graph",
     "__mock_t1", "__mock_t7", "__mock_t8"}
      \cup PairTables \cup ScheduleTables \cup AggTables \cup DOMAIN ta_oh

GetMockTableSchemaOf(table) ==
    CASE table = "__mock_table_1" -> Ints(<<"colA", "colB">>)
      [] table = "__mock_table_2" -> Chars(<<"colC", "colD">>)
      [] table = "__mock_table_3" -> Ints(<<"colE">>) \o Chars(<<"colF">>)
      [] table = "__mock_table_4" -> Ints(<<"colG">>) \o Chars(<<"colH">>)
      [] table \in DOMAIN ta_oh -> Chars(<<"github_id", "office_hour">>)
      [] table \in ScheduleTables ->
           Chars(<<"day_of_week">>) \o Ints(<<"has_lecture">>)
      [] table \in AggTables ->
           Ints(<<"v1", "v2", "v3", "v4", "v5">>) \o Chars(<<"v6">>)
      [] table = "__mock_external_merge_sort_input" ->
           Ints(<<"v1", "v2", "v3">>)
      [] table = "__mock_graph" ->
           Ints(<<"src", "dst", "src_label", "dst_label", "distance">>)
      [] table = "__mock_table_123" -> Ints(<<"number">>)
      [] table = "__mock_t1" -> Ints(<<"x", "y", "z">>)
      [] table = "__mock_t7" -> Ints(<<"v", "v1", "v2">>)
      [] table = "__mock_t8" -> Ints(<<"v4">>)
      [] table \in PairTables -> Ints(<<"x", "y">>)

GetSizeOf(table) ==
    CASE table \in {"__mock_table_1", "__mock_table_2", "__mock_table_3",
                    "__mock_table_4"} -> 100
      [] table \in DOMAIN ta_oh -> Len(ta_oh[table])
      [] table \in ScheduleTables -> Len(course_on_date)
      [] table = "__mock_agg_input_small" -> 1000
      [] table = "__mock_agg_input_big" -> 10000
      [] table = "__mock_external_merge_sort_input" -> 100000
      [] table = "__mock_graph" -> GRAPH_NODE_CNT * GRAPH_NODE_CNT
      [] table = "__mock_table_123" -> 3
      [] table \in {"__mock_t1", "__mock_t4_1m", "__mock_t5_1m", "__mock_t6_1m",
                    "__mock_t7", "__mock_t11"} -> 1000000
      [] table = "__mock_t8" -> 10
      [] table = "__mock_t9" -> 10000000
      [] table = "__mock_t10" -> 10000
      [] OTHER -> 0

GetShuffled(table) == table = "__mock_t1"

Number(n) == IntegerValue("INTEGER", n)
NullInt == GetNullValueByType("INTEGER")
Text(s) == VarcharValue(s)
Repeat(n) == Text([i \in 1 .. n |-> 1])

AggInput(c, per, period) ==
    <<Number((c + 2) % 10), Number(c), Number((c + 50) % 100),
      Number(c \div per), Number(233), Repeat((c % period) + 1)>>

Pair(n) == <<Number(n), Number(n * 10)>>

GraphEdge(src, dst) ==
    <<Number(src), Number(dst), Number(src * 100), Number(dst * 100),
      IF src = dst THEN NullInt ELSE Number(1)>>

\* The assistants' office hours, and which days have a lecture.
CourseTables == DOMAIN ta_oh \cup ScheduleTables

CourseRow(table, c) ==
    IF table \in DOMAIN ta_oh
    THEN <<Text(<<c>>), Text(<<ta_oh[table][c + 1]>>)>>
    ELSE LET lectures == IF table = "__mock_table_schedule" THEN {0, 2} ELSE {1, 3}
         IN <<Text(<<course_on_date[c + 1]>>),
              Number(IF c \in lectures THEN 1 ELSE 0)>>

\* The tables made for the leaderboard.
LeaderboardTables == PairTables \cup {"__mock_t1", "__mock_t7", "__mock_t8"}

LeaderboardRow(table, c) ==
    CASE table = "__mock_t1" ->
           <<Number(c \div 10000), Number(c % 10000), Number(c)>>
      [] table = "__mock_t8" -> <<Number(c)>>
      [] table = "__mock_t4_1m" -> Pair(c % 500000)
      [] table = "__mock_t5_1m" -> Pair((c + 30000) % 500000)
      [] table = "__mock_t6_1m" -> Pair((c + 60000) % 500000)
      [] table = "__mock_t7" -> <<Number(c % 20), Number(c), Number(c)>>
      [] table = "__mock_t9" ->
           LET half == c \div 2
               block == c \div 10000
           IN <<Number(block),
                Number(10000000 - (half + (block % 2) * (half % 2)))>>
      [] table = "__mock_t10" -> Pair(c)
      [] table = "__mock_t11" -> <<Number(-(c % 1000) - 1), Number(c * 10)>>

InputRow(table, c) ==
    CASE table = "__mock_table_1" -> <<Number(c), Number(c * 100)>>
      [] table = "__mock_table_2" -> <<Text(<<c, 0>>), Repeat(c % 8)>>
      [] table = "__mock_table_3" ->
           <<IF c % 2 = 0 THEN Number(c) ELSE NullInt, Text(<<c, 0>>)>>
      [] table = "__mock_table_4" ->
           <<IF c % 5 # 0 THEN Number(c % 5) ELSE NullInt,
             IF c % 10 # 0 THEN Repeat((c % 3) + 1) ELSE NullVarchar>>
      [] table = "__mock_agg_input_small" -> AggInput(c, 100, 8)
      [] table = "__mock_agg_input_big" -> AggInput(c, 1000, 16)
      [] table = "__mock_external_merge_sort_input" ->
           <<Number(c), Number((c + 1777) % 15000), Number((c + 3) % 111)>>
      [] table = "__mock_table_123" -> <<Number(c + 1)>>
      [] table = "__mock_graph" ->
           GraphEdge(c % GRAPH_NODE_CNT, c \div GRAPH_NODE_CNT)


\* The row at cursor c.
GetFunctionOf(table, c) ==
    CASE table \in CourseTables -> CourseRow(table, c)
      [] table \in LeaderboardTables -> LeaderboardRow(table, c)
      [] OTHER -> InputRow(table, c)

=============================================================================
