------------------------------ MODULE MCTools -------------------------------
(***************************************************************************)
(* The tools that test the system, one of them at a time: the script       *)
(* runner on scripts of two paragraphs, the transaction benchmark and the  *)
(* buffer pool benchmark.                                                  *)
(***************************************************************************)
EXTENDS Integers, Sequences, FiniteSets

CONSTANT Unspecified

VARIABLES tool,
          script, rest, records, options, rows, num_writes, run_log, exit,
          bench, terriers, last_ts, worker, open, token_adjustment, verdict,
          content, held, created, at, records_, alarm

MCOptions == {"+ensure:index_scan", "+ensure:seq_scan", "+ensure:hash_join",
              "+ensure:hash_join_no_filter", "+ensure:hash_join*2", "+ensure:hash_join*3",
              "+ensure:topn", "+ensure:topn*2", "+ensure:index_join",
              "+ensure:nlj_init_check", "+ensure:column-pruned:1:1",
              "+ensure:unknown", "+timing:x2", "+explain", "+unknown"}

Node(name, cols) == [name |-> name, cols |-> cols]

\* A plan that passes some of the options and not the others
MCPlan(sql) ==
    IF sql = <<"select">>
      THEN <<Node("Projection", 1), Node("TopN", 0), Node("HashJoin", 0), Node("IndexScan", 0)>>
      ELSE <<Node("Agg", 2), Node("Projection", 3)>>

\* Paragraphs, each with the empty line that ends it
Insert(x) == <<<<"statement", "ok">>, <<"insert", x>>, <<>>>>
Query(header, result) == <<header, <<"select">>, <<"----">>>> \o result \o <<<<>>>>

Paragraphs ==
    {Insert("1"), Insert("2") \o Insert("1"),
     <<<<"#", "statement", "ok">>, <<" ">>, <<"statement", "ok">>, <<"insert", "1">>, <<>>>>,
     <<<<"statement", "ok">>, <<"insert">>, <<" ">>, <<"2", " ">>, <<>>>>,
     <<<<"statement", "error">>, <<"fail">>, <<>>>>,
     <<<<"statement", "error">>, <<"insert", "1">>, <<>>, <<"fail">>, <<>>>>,
     <<<<"statement", "ok">>, <<"crash">>, <<>>>>,
     <<<<"statement", "ok">>, <<"fail">>, <<>>>>,
     <<<<"statement", "?">>, <<"insert", "1">>, <<>>>>,
     Query(<<"query">>, <<<<"1">>>>), Query(<<"query", "rowsort">>, <<<<"1", " ">>, <<"2">>>>),
     Query(<<"query">>, <<<<"2">>, <<"1">>>>), Query(<<"query">>, <<>>),
     <<<<"query">>, <<"select">>, <<>>>>,
     <<<<"sleep", "1">>, <<"statement", "ok">>, <<"insert", "1">>, <<"sleep", "1">>, <<>>>>,
     <<<<"halt">>, <<>>>>, <<<<"halt", "now">>, <<"statement", "error">>, <<>>>>,
     <<<<"no", "test">>, <<>>>>, <<<<"include", "file">>, <<>>>>, <<<<"unknown">>, <<>>>>}
      \cup {<<<<"statement", "error", o>>, <<"select">>, <<>>>> : o \in {"+ensure:unknown", "+timing:x2", "+unknown"}}
      \cup {<<<<"statement", "ok", o, o>>, <<"insert", "1">>, <<>>>> : o \in MCOptions}
      \cup {<<<<"query", o>>, <<"select">>, <<"----">>, <<>>>> : o \in MCOptions}
      \cup {<<<<"query", "nosort", o>>, <<"fail">>, <<"----">>, <<>>>> : o \in {"+explain", "+timing:x2"}}

MCScripts == {p \o q : p, q \in Paragraphs}

SLT == INSTANCE SqlLogicTest WITH Scripts <- MCScripts, Options <- MCOptions,
                                  Plan <- MCPlan, MinWrites <- 1, MaxWrites <- 2
Terrier == INSTANCE TerrierBench WITH TerrierNum <- 3, Workers <- 2, Amounts <- {5}, Rounds <- 3
Bpm == INSTANCE BpmBench WITH
          Threads <- ({"get"} \X (0 .. 1)) \cup ({"scan"} \X (0 .. 1)), Pages <- 0 .. 3, Values <- {},
          PageCnt <- 4, ScanThreads <- 0 .. 1, GetThreads <- 0 .. 1,
          Slots <- 2, Bytes <- 3, MaxSeed <- 2

slt_vars == <<script, rest, records, options, rows, num_writes, run_log, exit>>
terrier_vars == <<bench, terriers, last_ts, worker, open, token_adjustment, verdict>>
bpm_vars == <<content, held, created, at, records_, alarm>>
vars == <<tool, slt_vars, terrier_vars, bpm_vars>>

Init ==
    /\ tool \in {"sqllogictest", "terrier", "bpm"}
    /\ SLT!SltInit /\ Terrier!TerrierInit /\ Bpm!BenchInit
    /\ tool # "sqllogictest" => script = Insert("1") \o Insert("1")
    /\ tool # "terrier" => bench = 1

Next ==
    \/ tool = "sqllogictest" /\ SLT!SltNext /\ UNCHANGED <<tool, terrier_vars, bpm_vars>>
    \/ tool = "terrier" /\ Terrier!TerrierNext /\ UNCHANGED <<tool, slt_vars, bpm_vars>>
    \/ tool = "bpm" /\ Bpm!BenchNext /\ UNCHANGED <<tool, slt_vars, terrier_vars>>

Spec == Init /\ [][Next]_vars

-----------------------------------------------------------------------------



=============================================================================
