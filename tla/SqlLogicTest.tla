---------------------------- MODULE SqlLogicTest ----------------------------
(***************************************************************************)
(* The test runner bustub-sqllogictest (tools/sqllogictest): it parses a   *)
(* script into records, executes them against an instance and tells by its *)
(* exit status whether the script passed.                                  *)
(*                                                                         *)
(* A line of a script is a sequence of words; a blank is the word " ", so  *)
(* that a line of blanks is not empty, and a comment starts with the word  *)
(* "#".  A statement is the words of its lines.  The instance is what the  *)
(* runner sees of it: one table that "insert x" appends to and "select"    *)
(* prints; "fail" throws a bustub::Exception and "crash" a                 *)
(* std::logic_error, which nothing catches.                                *)
(***************************************************************************)
EXTENDS Integers, Sequences, SequencesExt, FiniteSets, Bags

CONSTANTS Scripts,
          Options,     \* the words that begin with "+"
          Plan(_),     \* the optimised plan of a statement, a sequence of
                       \* nodes [name, cols]
          MinWrites,   \* --check-min-disk-write, or 0
          MaxWrites    \* --check-max-disk-write

VARIABLES script,
          rest,        \* the lines from line_iter on
          records,     \* parsed, then the ones left to run
          options,     \* the extra options left to process
          rows,        \* the instance's table
          num_writes,  \* GetNumWrites
          run_log,     \* how each statement ended; a history variable
          exit         \* "parse", "run", or how the program ended

slt_vars == <<script, rest, records, options, rows, num_writes, run_log, exit>>

-----------------------------------------------------------------------------
(* The parser.                                                             *)

EmptyLine == <<>>
Separator == <<"----">>

Tokenize(line) == SelectSeq(line, LAMBDA w : w # " ")

StartsWith(line, word) == line # <<>> /\ line[1] = word

RTrim(words) ==
    SubSeq(words, 1, SelectLastInSeq(words, LAMBDA w : w # " "))

\* The position of the first line that is empty, or one past the end
LineEnd(lines) ==
    LET empty == SelectInSeq(lines, LAMBDA l : l = EmptyLine)
    IN  IF empty = 0 THEN Len(lines) + 1 ELSE empty

Before(lines, n) == SubSeq(lines, 1, n - 1)
After(lines, n) == SubSeq(lines, n + 1, Len(lines))

ExtraOptions(tokens, from) ==
    SelectSeq(SubSeq(tokens, from, Len(tokens)), LAMBDA w : w \in Options)

HaltRecord == [type |-> "HALT"]
SleepRecord == [type |-> "SLEEP"]
IncludeRecord == [type |-> "INCLUDE"]

StatementRecord(is_error, lines, opts) ==
    [type |-> "STATEMENT", is_error |-> is_error, sql |-> RTrim(FlattenSeq(lines)),
     extra_options |-> opts]

QueryRecord(sort_mode, lines, expected, opts) ==
    [type |-> "QUERY", sort_mode |-> sort_mode, sql |-> RTrim(FlattenSeq(lines)),
     expected_result |-> [i \in DOMAIN expected |-> RTrim(expected[i])],
     extra_options |-> opts]

SingleLine(word) ==
    CASE word = "halt" -> HaltRecord
      [] word = "sleep" -> SleepRecord
      [] word = "include" -> IncludeRecord

\* The flag is not initialised when the second word is neither "ok" nor
\* "error".
IsError(tokens) ==
    CASE tokens[2] = "ok" -> {FALSE}
      [] tokens[2] = "error" -> {TRUE}
      [] OTHER -> BOOLEAN

SortMode(tokens) ==
    IF Len(tokens) >= 2 /\ tokens[2] = "rowsort" THEN "ROWSORT" ELSE "NOSORT"

Parsing == exit = "parse" /\ rest # <<>>

ParsedTo(lines, record) ==
    /\ rest' = lines
    /\ records' = Append(records, record)
    /\ UNCHANGED <<script, options, rows, num_writes, run_log, exit>>

ParseThrows ==
    /\ exit' = "terminated"
    /\ UNCHANGED <<script, rest, records, options, rows, num_writes, run_log>>

\* An empty line, a comment, a line of blanks, or one that begins with none of
\* the words below
SkipLine ==
    LET tokens == Tokenize(Head(rest))
    IN  /\ Parsing
        /\ tokens # <<>> /\ ~StartsWith(Head(rest), "#") =>
              tokens[1] \notin {"include", "halt", "sleep", "statement", "query", "no"}
        /\ rest' = Tail(rest)
        /\ UNCHANGED <<script, records, options, rows, num_writes, run_log, exit>>

\* "no test" ends the script.
NoTest ==
    /\ Parsing /\ Tokenize(Head(rest)) = <<"no", "test">>
    /\ rest' = <<>>
    /\ UNCHANGED <<script, records, options, rows, num_writes, run_log, exit>>

\* These take exactly one argument, "halt" included.
ParseSingleLine ==
    LET tokens == Tokenize(Head(rest))
    IN  /\ Parsing /\ tokens # <<>>
        /\ tokens[1] \in {"include", "halt", "sleep"}
        /\ IF Len(tokens) = 2 THEN ParsedTo(Tail(rest), SingleLine(tokens[1]))
           ELSE ParseThrows

\* The lines up to an empty one are the statement.
ParseStatement ==
    LET tokens == Tokenize(Head(rest))
        body == Tail(rest)
        end == LineEnd(body)
    IN  /\ Parsing /\ tokens # <<>> /\ tokens[1] = "statement"
        /\ \E is_error \in IsError(tokens) :
              ParsedTo(After(body, end),
                       StatementRecord(is_error, Before(body, end), ExtraOptions(tokens, 3)))

\* The statement ends at "----", the expected result at an empty line.  "no
\* result" and "unexpected end" are exceptions.
ParseQuery ==
    LET tokens == Tokenize(Head(rest))
        body == Before(Tail(rest), LineEnd(Tail(rest)))
        dashes == SelectInSeq(body, LAMBDA l : l = Separator)
    IN  /\ Parsing /\ tokens # <<>> /\ tokens[1] = "query"
        /\ IF dashes = 0 THEN ParseThrows
           ELSE ParsedTo(After(Tail(rest), LineEnd(Tail(rest))),
                         QueryRecord(SortMode(tokens), Before(body, dashes), After(body, dashes),
                                     ExtraOptions(tokens, 2)))

-----------------------------------------------------------------------------
(* The instance, as far as the runner can tell.                            *)

\* How ExecuteSql ends
ExecuteEnd(sql) ==
    CASE sql # <<>> /\ sql[1] = "fail" -> "exception"
      [] sql # <<>> /\ sql[1] = "crash" -> "logic_error"
      [] OTHER -> "ok"

\* The table after ExecuteSql, and what it wrote: the lines of the result
ExecuteRows(sql, table) ==
    IF sql # <<>> /\ sql[1] = "insert" THEN Append(table, Tail(sql)) ELSE table

ExecuteResult(sql) == IF sql = <<"select">> THEN rows ELSE <<>>

-----------------------------------------------------------------------------
(* The runner.                                                             *)

SplitLines(lines) ==
    SelectSeq([i \in DOMAIN lines |-> RTrim(lines[i])], LAMBDA l : l # EmptyLine)

SeqToBag(s) == [x \in ToSet(s) |-> Cardinality({i \in DOMAIN s : s[i] = x})]

\* Sorted sequences are equal when they are equal as bags.
ResultCompare(produced, expected, sort_mode) ==
    IF sort_mode = "ROWSORT"
      THEN SeqToBag(SplitLines(produced)) = SeqToBag(SplitLines(expected))
      ELSE SplitLines(produced) = SplitLines(expected)

\* How many nodes of that name the plan has, and whether it has one.  Split
\* on a name that occurs n times returns n + 1 pieces.
Count(plan, name) == Cardinality({i \in DOMAIN plan : plan[i].name = name})
HasNode(plan, name) == Count(plan, name) > 0

\* The nodes up to the first aggregation, where the loop ends, have at most
\* that many columns; the group-bys and aggregates of it are counted each.
ColumnPruned(plan, proj, agg) ==
    LET first == SelectInSeq(plan, LAMBDA n : n.name = "Agg")
        last == IF first = 0 THEN Len(plan) ELSE first
    IN  \A i \in 1 .. last :
           /\ plan[i].name = "Agg" => plan[i].cols <= agg
           /\ plan[i].name = "Projection" => plan[i].cols <= proj

\* Whether the plan of "explain (o)" passes an "ensure:" option
Ensured(opt, plan) ==
    CASE opt = "+ensure:index_scan" -> HasNode(plan, "IndexScan")
      [] opt = "+ensure:seq_scan" -> ~HasNode(plan, "IndexScan") /\ ~HasNode(plan, "Filter")
      [] opt = "+ensure:hash_join" -> Count(plan, "HashJoin") = 1 \/ HasNode(plan, "Filter")
      [] opt = "+ensure:hash_join_no_filter" ->
           Count(plan, "HashJoin") = 1 /\ ~HasNode(plan, "Filter")
      [] opt = "+ensure:hash_join*2" -> Count(plan, "HashJoin") = 2 \/ HasNode(plan, "Filter")
      [] opt = "+ensure:hash_join*3" -> Count(plan, "HashJoin") = 3 \/ HasNode(plan, "Filter")
      [] opt = "+ensure:topn" -> HasNode(plan, "TopN")
      [] opt = "+ensure:topn*2" -> Count(plan, "TopN") = 2
      [] opt = "+ensure:index_join" -> HasNode(plan, "NestedIndexJoin")
      [] opt = "+ensure:nlj_init_check" -> HasNode(plan, "NestedLoopJoin")
      [] opt = "+ensure:column-pruned:1:1" -> ColumnPruned(plan, 1, 1)

Ensures == {"+ensure:index_scan", "+ensure:seq_scan", "+ensure:hash_join",
            "+ensure:hash_join_no_filter", "+ensure:hash_join*2", "+ensure:hash_join*3",
            "+ensure:topn", "+ensure:topn*2", "+ensure:index_join",
            "+ensure:nlj_init_check", "+ensure:column-pruned:1:1"}

Running == exit = "run" /\ records # <<>>
Runs(type) == Running /\ Head(records).type = type
Sql == Head(records).sql

\* The next record; its options are still to be processed.
OptionsOf(r) == IF r.type \in {"STATEMENT", "QUERY"} THEN r.extra_options ELSE <<>>
NextRecord ==
    /\ records' = Tail(records)
    /\ options' = IF Tail(records) = <<>> THEN <<>> ELSE OptionsOf(records[2])

Log(end, result) ==
    run_log' = Append(run_log, [sql |-> Sql, end |-> end, result |-> result])

\* A bustub::Exception, from an option as from the statement itself, is what
\* "statement error" expects; a logic_error leaves main.
Caught(end) ==
    /\ Log(end, <<>>)
    /\ IF end = "logic_error" THEN exit' = "terminated" /\ UNCHANGED <<records, options>>
       ELSE IF Head(records).type = "STATEMENT" /\ Head(records).is_error
       THEN NextRecord /\ UNCHANGED exit
       ELSE exit' = "1" /\ UNCHANGED <<records, options>>

\* "ensure:" runs EXPLAIN; planning fails as executing would, and an unknown
\* option throws.
ProcessEnsure ==
    LET opt == Head(options)
    IN  /\ Running /\ options # <<>> /\ opt \in Ensures \cup {"+ensure:unknown"}
        /\ IF ExecuteEnd(Sql) # "ok" THEN Caught(ExecuteEnd(Sql))
           ELSE IF opt = "+ensure:unknown" THEN Caught("exception")
           ELSE IF Ensured(opt, Plan(Sql))
           THEN options' = Tail(options) /\ UNCHANGED <<records, run_log, exit>>
           ELSE exit' = "1" /\ UNCHANGED <<options, records, run_log>>
        /\ UNCHANGED <<script, rest, rows, num_writes>>

\* "timing:x2" executes the statement twice, whatever it does to the table.
ProcessTiming ==
    /\ Running /\ options # <<>> /\ Head(options) = "+timing:x2"
    /\ IF ExecuteEnd(Sql) # "ok" THEN Caught(ExecuteEnd(Sql)) /\ UNCHANGED rows
       ELSE /\ rows' = ExecuteRows(Sql, ExecuteRows(Sql, rows))
            /\ options' = Tail(options)
            /\ UNCHANGED <<records, run_log, exit>>
    /\ UNCHANGED <<script, rest, num_writes>>

ProcessExplain ==
    /\ Running /\ options # <<>> /\ Head(options) = "+explain"
    /\ IF ExecuteEnd(Sql) # "ok" THEN Caught(ExecuteEnd(Sql))
       ELSE options' = Tail(options) /\ UNCHANGED <<records, run_log, exit>>
    /\ UNCHANGED <<script, rest, rows, num_writes>>

ProcessUnknown ==
    /\ Running /\ options # <<>>
    /\ Head(options) \notin Ensures \cup {"+ensure:unknown", "+timing:x2", "+explain"}
    /\ Caught("exception")
    /\ UNCHANGED <<script, rest, rows, num_writes>>

\* The instance may write pages to disk while it executes.
Execute ==
    /\ rows' = ExecuteRows(Sql, rows)
    /\ num_writes' \in num_writes .. Len(rows')
    /\ UNCHANGED <<script, rest>>


RunStatement ==
    /\ Runs("STATEMENT") /\ options = <<>> /\ Execute
    /\ IF ExecuteEnd(Sql) # "ok" THEN Caught(ExecuteEnd(Sql))
       ELSE /\ Log("ok", ExecuteResult(Sql))
            /\ IF Head(records).is_error
                 THEN exit' = "1" /\ UNCHANGED <<records, options>>
                 ELSE NextRecord /\ UNCHANGED exit

RunQuery ==
    LET query == Head(records)
    IN  /\ Runs("QUERY") /\ options = <<>> /\ Execute
        /\ IF ExecuteEnd(Sql) # "ok" THEN Caught(ExecuteEnd(Sql))
           ELSE /\ Log("ok", ExecuteResult(Sql))
                /\ IF ResultCompare(ExecuteResult(Sql), query.expected_result, query.sort_mode)
                     THEN NextRecord /\ UNCHANGED exit
                     ELSE exit' = "1" /\ UNCHANGED <<records, options>>

Sleep ==
    /\ Runs("SLEEP")
    /\ NextRecord
    /\ UNCHANGED <<script, rest, rows, num_writes, run_log, exit>>

\* A halt ends the program well; an include is an "unsupported record".
Halt ==
    /\ Runs("HALT") \/ Runs("INCLUDE")
    /\ exit' = IF Head(records).type = "HALT" THEN "0" ELSE "terminated"
    /\ UNCHANGED <<script, rest, records, options, rows, num_writes, run_log>>

\* A script without records is "not tested".
StartRunning ==
    /\ exit = "parse" /\ rest = <<>>
    /\ exit' = IF records = <<>> THEN "0" ELSE "run"
    /\ options' = IF records = <<>> THEN <<>> ELSE OptionsOf(Head(records))
    /\ UNCHANGED <<script, rest, records, rows, num_writes, run_log>>

CheckDiskWrites ==
    /\ exit = "run" /\ records = <<>>
    /\ exit' = IF num_writes \notin MinWrites .. MaxWrites THEN "1" ELSE "0"
    /\ UNCHANGED <<script, rest, records, options, rows, num_writes, run_log>>

SltInit ==
    /\ script \in Scripts
    /\ rest = script
    /\ records = <<>> /\ options = <<>> /\ rows = <<>> /\ run_log = <<>>
    /\ num_writes = 0
    /\ exit = "parse"

SltNext ==
    \/ SkipLine \/ NoTest \/ ParseSingleLine \/ ParseStatement \/ ParseQuery
    \/ StartRunning \/ ProcessEnsure \/ ProcessTiming \/ ProcessExplain \/ ProcessUnknown
    \/ RunStatement \/ RunQuery \/ Sleep \/ Halt \/ CheckDiskWrites

-----------------------------------------------------------------------------
(* What a script says, read off the positions of its lines.                *)

Paragraph(i) ==
    {j \in DOMAIN script : \A k \in {n \in DOMAIN script : (i <= n /\ n <= j) \/ (j <= n /\ n <= i)} :
                              script[k] # EmptyLine}

FirstWord(i) ==
    IF Tokenize(script[i]) = <<>> \/ script[i][1] = "#" THEN "" ELSE Tokenize(script[i])[1]

\* The headers: the first line of its paragraph that begins with one of the
\* two words
IsHeader(i) ==
    /\ FirstWord(i) \in {"statement", "query"}
    /\ \A j \in Paragraph(i) : j < i => FirstWord(j) \notin {"statement", "query"}

\* A one-line command stands before the header of its paragraph.
IsCommand(i, word) ==
    /\ FirstWord(i) = word
    /\ \A j \in Paragraph(i) : j < i => FirstWord(j) \notin {"statement", "query"}

\* What the script asks for: its headers up to the first halt or "no test"
Asked ==
    {i \in DOMAIN script :
        IsHeader(i) /\ \A j \in 1 .. i : ~IsCommand(j, "halt") /\ ~IsCommand(j, "no")}

\* The words of the statement under header i, and the lines of its result
Dashes(i) == {j \in Paragraph(i) : j > i /\ script[j] = Separator /\ FirstWord(i) = "query"}
LinesIn(S) == LET p == SetToSortSeq(S, <) IN [k \in DOMAIN p |-> script[p[k]]]
StatementOf(i) == RTrim(FlattenSeq(LinesIn({j \in Paragraph(i) : j > i /\ \A d \in Dashes(i) : j < d})))
ResultOf(i) == LinesIn({j \in Paragraph(i) : \E d \in Dashes(i) : j > d /\ \A e \in Dashes(i) : d <= e})

OptionsAt(i) == ToSet(Tokenize(script[i])) \cap Options

\* An entry of the log is what the header asks for.  An exception of an option
\* counts as one of the statement.
Meets(entry, i) ==
    LET tokens == Tokenize(script[i])
        IsRow(l) == Tokenize(l) # <<>>
        wanted == SelectSeq(ResultOf(i), IsRow)
        got == SelectSeq(entry.result, IsRow)
    IN  /\ entry.sql = StatementOf(i)
        /\ tokens[1] = "statement" /\ tokens[2] = "ok" => entry.end = "ok"
        /\ tokens[1] = "statement" /\ tokens[2] = "error" => entry.end = "exception"
        /\ tokens[1] = "query" =>
             /\ entry.end = "ok"
             /\ Len(got) = Len(wanted)
             /\ \A x \in ToSet(got) \cup ToSet(wanted) :
                   Cardinality({n \in DOMAIN got : RTrim(got[n]) = RTrim(x)})
                     = Cardinality({n \in DOMAIN wanted : RTrim(wanted[n]) = RTrim(x)})
             /\ (Len(tokens) < 2 \/ tokens[2] # "rowsort") =>
                   \A n \in DOMAIN got : RTrim(got[n]) = RTrim(wanted[n])


=============================================================================
