--------------------------- MODULE BustubInstance ---------------------------
(***************************************************************************)
(* A database instance: SQL calls, sessions and transactions               *)
(* (src/src/common/bustub_instance.cpp, bustub_ddl.cpp,                    *)
(*  src/src/concurrency/transaction_manager.cpp).                          *)
(*                                                                         *)
(* The shell makes the mock tables and the test tables, then calls         *)
(* ExecuteSql and owns the session (current_txn_ and the session           *)
(* variables); the workers call ExecuteSqlTxn with transactions of their   *)
(* own, as the concurrent tests do.  A call parses its text into           *)
(* statements, then binds and runs them one by one; binding takes no lock, *)
(* so it is a step of its own.  CREATE TABLE and CREATE INDEX are bound    *)
(* and run in full; of the other statements, parsing, planning and         *)
(* executing are their outcomes: a result, a bustub::Exception, or a       *)
(* std::logic_error, which UNIMPLEMENTED and UNREACHABLE throw and         *)
(* ExecuteSql does not catch.                                              *)
(***************************************************************************)
EXTENDS Catalog

CONSTANTS Shell, Workers,
          Scripts,       \* the texts the shell executes: sequences of statements
          WorkerScripts, \* the texts the workers execute
          MaxTxns,       \* bound on the transactions begun
          mock_table_list, \* the tables without a heap: [name, schema]
          None

Clients == {Shell} \cup Workers

VARIABLES catalog,
          txns,                    \* the states of the transactions, by id
          current_txn,
          global_isolation_level,  \* the session variable
          call,                    \* client -> its call in progress
          crashed                  \* a null dereference or std::terminate

vars == <<catalog, txns, current_txn, global_isolation_level, call, crashed>>
session == <<current_txn, global_isolation_level>>

-----------------------------------------------------------------------------
(* Binding of CREATE TABLE and CREATE INDEX                                *)
(* (src/src/binder/bind_create.cpp).  A statement is the parser's tree: an *)
(* element of a CREATE TABLE is a column definition, a table constraint or *)
(* something else; an index parameter is the name of a column, or          *)
(* Expression.  The binder returns a bound statement or throws a           *)
(* bustub::Exception.                                                      *)

Expression == "(expression)"

Refused == [type |-> "exception"]

CreateStatement(table, columns, primary_key) ==
    [type |-> "create", table |-> table, columns |-> columns, primary_key |-> primary_key]

IndexStatement(index, table, schema, cols, index_type) ==
    [type |-> "index", index |-> index, table |-> table.name, oid |-> table.oid,
     schema |-> schema, cols |-> cols, index_type |-> index_type]

\* The types the binder knows, by their names in the parser
FixedTypes == [int4 |-> "INTEGER", double |-> "DECIMAL", bool |-> "BOOLEAN"]
SizedTypes == [varchar |-> "VARCHAR", vector |-> "VECTOR"]

\* A sized type takes one modifier, its length.
Understood(cdef) ==
    /\ ~cdef.collate
    /\ \/ cdef.type \in DOMAIN FixedTypes
       \/ cdef.type \in DOMAIN SizedTypes /\ Len(cdef.typmods) = 1

BindColumnDefinition(cdef) ==
    IF cdef.type \in DOMAIN FixedTypes THEN Column(cdef.name, FixedTypes[cdef.type], 0)
    ELSE Column(cdef.name, SizedTypes[cdef.type], cdef.typmods[1])

\* The switch on the kind of an element.  Only PRIMARY KEY constraints are
\* known, and only one of them in a statement.
AcceptsElement(elt) ==
    CASE elt.node = "ColumnDef" -> /\ Understood(elt)
                                   /\ \A i \in DOMAIN elt.constraints : elt.constraints[i] = "PRIMARY"
      [] elt.node = "Constraint" -> elt.contype = "PRIMARY"
      [] OTHER -> FALSE

\* The primary keys an element declares
KeysOf(elt) ==
    IF elt.node = "ColumnDef" THEN [i \in DOMAIN elt.constraints |-> <<elt.name>>] ELSE <<elt.keys>>

\* The loop over a table constraint goes on to the end of the list and takes
\* what follows for constraints too; a column definition there has a zero for
\* the kind of constraint, which is none the binder knows.
ConstraintsLast(elts) ==
    \A i, j \in DOMAIN elts : i < j /\ elts[i].node = "Constraint" => elts[j].node = "Constraint"

BindCreate(stmt) ==
    LET columns == SelectSeq(stmt.elts, LAMBDA elt : elt.node = "ColumnDef")
        keys == FoldLeft(LAMBDA ks, elt : ks \o KeysOf(elt), <<>>, stmt.elts)
    IN  IF \/ \E i \in DOMAIN stmt.elts : ~AcceptsElement(stmt.elts[i])
           \/ ~ConstraintsLast(stmt.elts)
           \/ Len(keys) > 1
           \/ columns = <<>>
          THEN Refused
          ELSE CreateStatement(stmt.table, [i \in DOMAIN columns |-> BindColumnDefinition(columns[i])],
                               IF keys = <<>> THEN <<>> ELSE keys[1])

\* ResolveColumn on a base table: exactly one column of the name
Resolves(schema, name) == Cardinality({i \in DOMAIN schema : schema[i].name = name}) = 1

\* The access method a CREATE INDEX without USING has in the parser is "art".
IndexType(access_method) == IF access_method = "art" THEN "" ELSE access_method

BindIndex(cat, stmt) ==
    IF ~HasTable(cat, stmt.table) THEN Refused
    ELSE LET table == GetTable(cat, stmt.table)
         IN  IF \E i \in DOMAIN stmt.params :
                   stmt.params[i] = Expression \/ ~Resolves(table.schema, stmt.params[i])
               THEN Refused
               ELSE IndexStatement(stmt.index, table, table.schema, stmt.params,
                                   IndexType(stmt.access_method))

-----------------------------------------------------------------------------
(* Sessions and transactions                                               *)

RUNNING == "RUNNING"
TAINTED == "TAINTED"
COMMITTED == "COMMITTED"
ABORTED == "ABORTED"

\* How the last call ended, and on which transaction it ran
Idle == [pc |-> "idle", end |-> "none", txn |-> None, own |-> FALSE]

Init ==
    /\ catalog = EmptyCatalog
    /\ txns = <<>>
    /\ current_txn = None
    /\ global_isolation_level = ""
    /\ call = [c \in Clients |-> [Idle EXCEPT !.pc = IF c = Shell THEN "mock" ELSE "idle"]]
    /\ crashed = FALSE

-----------------------------------------------------------------------------
(* TransactionManager                                                      *)

\* The transactions after Begin; the new one is the last
Begin(ts) == Append(ts, RUNNING)


\* Commit throws "txn not in running state" for any other transaction.
CanCommit(ts, t) == ts[t] = RUNNING

\* Abort throws "txn not in running / tainted state" for any other transaction.
CanAbort(ts, t) == ts[t] \in {RUNNING, TAINTED}

\* Commit, whose VerifyTxn accepts every transaction
Commit(ts, t) == [ts EXCEPT ![t] = COMMITTED]

Abort(ts, t) == [ts EXCEPT ![t] = ABORTED]

\* SetTainted, which calls std::terminate for any other transaction
SetTainted(ts, t) == IF ts[t] = RUNNING THEN [ts EXCEPT ![t] = TAINTED] ELSE ts

-----------------------------------------------------------------------------

At(c, pc) == ~crashed /\ call[c].pc = pc
Goto(c, state) == call' = [call EXCEPT ![c] = state]

\* The call goes on with its next statement, or leaves ExecuteSqlTxn.
Continue(c) == Goto(c, [call[c] EXCEPT !.pc = "statement"])
Throw(c, kind) == Goto(c, [call[c] EXCEPT !.pc = "return", !.end = kind])

\* GenerateMockTable, the first thing the shell does: tables without a heap
GenerateMockTable ==
    /\ At(Shell, "mock")
    /\ catalog' = FoldLeft(LAMBDA cat, mock : CreateTable(cat, mock.name, mock.schema, FALSE),
                           catalog, mock_table_list)
    /\ txns' = Commit(Begin(txns), Len(txns) + 1)
    /\ Goto(Shell, [call[Shell] EXCEPT !.pc = "generate"])
    /\ UNCHANGED <<session, crashed>>

\* GenerateTestTable, before EnableManagedTxn and the first statement
GenerateTestTable ==
    /\ At(Shell, "generate")
    /\ catalog' = GenerateTestTables(catalog)
    /\ crashed' = ~CanGenerate(catalog)
    /\ txns' = Commit(Begin(txns), Len(txns) + 1)
    /\ Goto(Shell, [call[Shell] EXCEPT !.pc = "idle"])
    /\ UNCHANGED session

\* ExecuteSql: the session's transaction, or a new one for this call
ExecuteSql(script) ==
    /\ At(Shell, "idle") /\ Len(txns) < MaxTxns
    /\ LET is_local_txn == current_txn # None
       IN  /\ txns' = IF is_local_txn THEN txns ELSE Begin(txns)
           /\ Goto(Shell, [pc |-> "parse", script |-> script, end |-> "ok", own |-> ~is_local_txn,
                           txn |-> IF is_local_txn THEN current_txn ELSE Len(txns')])
    /\ UNCHANGED <<catalog, session, crashed>>

\* A worker begins a transaction and calls ExecuteSqlTxn, once the tables are
\* made; each runs one text.
ExecuteSqlTxn(w, script) ==
    /\ At(w, "idle") /\ call[w].txn = None /\ Len(txns) < MaxTxns
    /\ call[Shell].pc \notin {"mock", "generate"}
    /\ txns' = Begin(txns)
    /\ Goto(w, [pc |-> "parse", script |-> script, end |-> "ok", own |-> TRUE,
                txn |-> Len(txns')])
    /\ UNCHANGED <<catalog, session, crashed>>

Stmt(c) == Head(call[c].script)

\* Internal commands, which start with a backslash
Commands == {"\\txn", "\\dt", "\\di", "\\dbgmvcc", "\\unknown"}

\* ParseAndSave, under the catalog lock
Parse(c) ==
    /\ At(c, "parse") /\ Stmt(c).type \notin Commands
    /\ IF Stmt(c).type = "syntax error" THEN Throw(c, "exception") ELSE Continue(c)
    /\ UNCHANGED <<catalog, txns, session, crashed>>

\* BindSelect, of which only the table matters here
BindSelect(stmt) ==
    IF ~HasTable(catalog, stmt.table) THEN Refused
    ELSE [type |-> "select", table |-> stmt.table,
          oid |-> GetTable(catalog, stmt.table).oid,
          schema |-> GetTable(catalog, stmt.table).schema]

\* The parts of its output an EXPLAIN asks for; all of them without a list,
\* and a name that is not known asks for none.
ExplainOptions(options) ==
    LET known == [planner |-> "planner", binder |-> "binder", optimizer |-> "optimizer",
                  schema |-> "schema",
                  p |-> "planner", b |-> "binder", o |-> "optimizer", s |-> "schema"]
    IN IF options = None THEN Range(known)
       ELSE {known[name] : name \in options \cap DOMAIN known}

VariableSetStatement(value) == [type |-> "set", value |-> value]

\* SET of a variable to exactly one constant
BindVariableSet(stmt) ==
    IF Len(stmt.args) = 1 /\ stmt.args[1].type = "CONSTANT"
      THEN VariableSetStatement(stmt.args[1].val) ELSE Refused

BindTransaction(stmt) ==
    CASE stmt.kind = "COMMIT" -> [type |-> "commit"]
      [] stmt.kind = "ROLLBACK" -> [type |-> "abort"]
      [] stmt.kind = "BEGIN" -> [type |-> "begin"]
      [] OTHER -> Refused

\* BindStatement: the bound statement, or Refused.  An unknown table, or a
\* statement the binder does not know, is refused.  EXPLAIN binds the statement
\* it explains.
BindPlain(stmt) ==
    CASE stmt.type = "create" -> BindCreate(stmt)
      [] stmt.type = "index" -> BindIndex(catalog, stmt)
      [] stmt.type = "select" -> BindSelect(stmt)
      [] stmt.type = "set" -> BindVariableSet(stmt)
      [] stmt.type = "transaction" -> BindTransaction(stmt)
      [] stmt.type = "other" -> Refused
      [] OTHER -> stmt

BindExplain(stmt) ==
    LET bound == BindPlain(stmt.statement)
    IN IF bound = Refused THEN Refused
       ELSE [type |-> "explain", statement |-> bound, options |-> ExplainOptions(stmt.options)]

BindStatement(stmt) == IF stmt.type = "explain" THEN BindExplain(stmt) ELSE BindPlain(stmt)

\* Binding takes no lock.
Bind(c) ==
    LET bound == BindStatement(Stmt(c))
    IN  /\ At(c, "statement") /\ call[c].script # <<>>
        /\ IF bound = Refused THEN Throw(c, "exception")
           ELSE Goto(c, [pc |-> "bound", script |-> Tail(call[c].script), end |-> "ok",
                         own |-> call[c].own, txn |-> call[c].txn, stmt |-> bound])
        /\ UNCHANGED <<catalog, txns, session, crashed>>

Bound(c, type) == At(c, "bound") /\ call[c].stmt.type = type

\* The exception that refuses an index on these columns, or "none": the first
\* column that is unknown, or not an INTEGER, or else their number
KeyError(schema, cols) ==
    LET Idx(col) == TryGetColIdx(schema, col)
        bad == SelectInSeq(cols, LAMBDA col : Idx(col) = 0 \/ schema[Idx(col)].type # "INTEGER")
    IN  IF bad # 0 THEN IF Idx(cols[bad]) = 0 THEN "logic_error" ELSE "exception"
        ELSE IF Len(cols) \in 1 .. 2 THEN "none" ELSE "exception"

ColIds(schema, cols) == [i \in DOMAIN cols |-> TryGetColIdx(schema, cols[i])]

\* HandleCreateStatement, under the catalog lock.  The table that was created
\* stays when its primary key is refused.  When CreateTable returned null, a
\* statement with a primary key dereferences it before the check for null.
HandleCreateStatement(c) ==
    LET table == call[c].stmt.table
        schema == call[c].stmt.columns
        pk == call[c].stmt.primary_key
        created == CreateTable(catalog, table, schema, TRUE)
        keyed == CreateIndex(created, table \o "_pk", table, schema, ColIds(schema, pk), TRUE,
                             "BPlusTreeIndex")
    IN  /\ Bound(c, "create")
        /\ IF created = catalog
             THEN /\ crashed' = (pk # <<>>)
                  /\ Throw(c, "exception")
                  /\ UNCHANGED catalog
             ELSE IF pk # <<>> /\ KeyError(schema, pk) # "none"
             THEN /\ catalog' = created
                  /\ Throw(c, KeyError(schema, pk))
                  /\ UNCHANGED crashed
             ELSE /\ catalog' = IF pk = <<>> THEN created ELSE keyed.catalog
                  /\ Continue(c)
                  /\ UNCHANGED crashed
        /\ UNCHANGED <<txns, session>>

\* The names USING knows
IndexTypes == [bplustree |-> "BPlusTreeIndex", hash |-> "HashTableIndex",
               stl_ordered |-> "STLOrderedIndex", stl_unordered |-> "STLUnorderedIndex"]

\* HandleIndexStatement; the columns are looked at before the lock is taken.
HandleIndexStatement(c) ==
    LET stmt == call[c].stmt
        type == IF stmt.index_type = "" THEN "bplustree" ELSE stmt.index_type
        made == CreateIndex(catalog, stmt.index, stmt.table, stmt.schema,
                            ColIds(stmt.schema, stmt.cols), FALSE, IndexTypes[type])
    IN  /\ Bound(c, "index")
        /\ IF KeyError(stmt.schema, stmt.cols) # "none"
             THEN Throw(c, KeyError(stmt.schema, stmt.cols)) /\ UNCHANGED <<catalog, crashed>>
             ELSE IF type \notin DOMAIN IndexTypes
             THEN Throw(c, "logic_error") /\ UNCHANGED <<catalog, crashed>>
             ELSE /\ catalog' = made.catalog
                  /\ crashed' = (made.end = "crash")
                  /\ IF made.end = "ok" THEN Continue(c)
                     ELSE Throw(c, IF made.end = "null" THEN "exception" ELSE made.end)
        /\ UNCHANGED <<txns, session>>

\* HandleExplainStatement plans and optimises, under the catalog lock, whatever
\* parts it was asked for; the planner knows queries only.
HandleExplainStatement(c) ==
    /\ Bound(c, "explain")
    /\ \/ call[c].stmt.statement.type = "select" /\ Continue(c)
       \/ call[c].stmt.statement.type = "select" /\ Throw(c, "logic_error")
       \/ Throw(c, "exception")
    /\ UNCHANGED <<catalog, txns, session, crashed>>

\* Planning and optimising, under the catalog lock, then executing.  An
\* ExecutionException ends in the engine; the executor that throws it has
\* tainted the transaction.
RunQuery(c) ==
    LET t == call[c].txn
    IN  /\ Bound(c, "select")
        /\ \/ (Continue(c) \/ \E kind \in {"exception", "logic_error"} : Throw(c, kind))
              /\ UNCHANGED <<txns, crashed>>
           \/ /\ txns' = SetTainted(txns, t)
              /\ crashed' = (txns[t] # RUNNING)
              /\ Continue(c)
        /\ UNCHANGED <<catalog, session>>

HandleVariableSetStatement(c) ==
    /\ Bound(c, "set")
    /\ global_isolation_level' = call[c].stmt.value
    /\ Continue(c)
    /\ UNCHANGED <<catalog, txns, current_txn, crashed>>

HandleVariableShowStatement(c) ==
    /\ Bound(c, "show")
    /\ Continue(c)
    /\ UNCHANGED <<catalog, txns, session, crashed>>

\* HandleTxnStatement in managed mode, in a build without assertions
BeginStatement(c) ==
    /\ Bound(c, "begin")
    /\ IF global_isolation_level \in {"", "serializable", "snapshot_isolation"}
         THEN /\ txns' = Begin(txns)
              /\ current_txn' = Len(txns')
              /\ Continue(c)
         ELSE Throw(c, "exception") /\ UNCHANGED <<txns, current_txn>>
    /\ UNCHANGED <<catalog, global_isolation_level, crashed>>

\* COMMIT and ROLLBACK end the transaction the call runs on.
EndStatement(c) ==
    LET t == call[c].txn
        commit == call[c].stmt.type = "commit"
    IN  /\ Bound(c, "commit") \/ Bound(c, "abort")
        /\ IF IF commit THEN CanCommit(txns, t) ELSE CanAbort(txns, t)
             THEN /\ txns' = IF commit THEN Commit(txns, t) ELSE Abort(txns, t)
                  /\ current_txn' = None
                  /\ Continue(c)
             ELSE Throw(c, "exception") /\ UNCHANGED <<txns, current_txn>>
        /\ UNCHANGED <<catalog, global_isolation_level, crashed>>

\* A command is the whole of its text.
AnswerCommand(c) == Goto(c, [call[c] EXCEPT !.pc = "statement", !.script = <<>>])

\* CmdTxn: \txn -1 leaves the session's transaction, \txn <id> switches to any
\* transaction of txn_map_; garbage collection is not implemented.
CmdTxn(c) ==
    LET id == Stmt(c).id
    IN  /\ At(c, "parse") /\ Stmt(c).type = "\\txn"
        /\ crashed' = (id = -1 /\ current_txn = None)
        /\ current_txn' = IF id = -1 THEN None
                          ELSE IF id \in DOMAIN txns THEN id ELSE current_txn
        /\ IF Stmt(c).gc THEN Throw(c, "logic_error")
           ELSE AnswerCommand(c)
        /\ UNCHANGED <<catalog, txns, global_isolation_level>>

\* \dt: reads the catalog without its lock; a name without its table would be
\* a null pointer.
CmdDisplayTables(c) ==
    /\ At(c, "parse") /\ Stmt(c).type = "\\dt"
    /\ crashed' = \E name \in GetTableNames(catalog) : ~HasTable(catalog, name)
    /\ AnswerCommand(c)
    /\ UNCHANGED <<catalog, txns, session>>

\* \di, likewise
CmdDisplayIndices(c) ==
    /\ At(c, "parse") /\ Stmt(c).type = "\\di"
    /\ crashed' = \E name \in GetTableNames(catalog) :
                    ~(GetTableIndexes(catalog, name) \subseteq DOMAIN catalog.indexes)
    /\ AnswerCommand(c)
    /\ UNCHANGED <<catalog, txns, session>>

\* \dbgmvcc <table>, under the lock; an unknown table is a message.
CmdDbgMvcc(c) ==
    /\ At(c, "parse") /\ Stmt(c).type = "\\dbgmvcc"
    /\ AnswerCommand(c)
    /\ UNCHANGED <<catalog, txns, session, crashed>>

\* Any other command is refused.
UnsupportedCommand(c) ==
    /\ At(c, "parse") /\ Stmt(c).type = "\\unknown"
    /\ Throw(c, "exception")
    /\ UNCHANGED <<catalog, txns, session, crashed>>

\* Leave(c, end): the call is over.
Leave(c, end) == Goto(c, [pc |-> "idle", end |-> end, txn |-> call[c].txn, own |-> call[c].own])

\* The statements are done, or one has thrown.
Done(c) == \/ At(c, "return")
           \/ At(c, "statement") /\ call[c].script = <<>>

\* Faulty variant: the catch clause only leaves the session's transaction.
OutcomeNoAbort(end, own, t) ==
    IF end = "exception" \/ (end = "ok" /\ own /\ ~CanCommit(txns, t))
      THEN [end |-> "exception", aborted |-> TRUE, txns |-> txns]
      ELSE [end |-> end, aborted |-> FALSE,
            txns |-> IF end = "ok" /\ own THEN Commit(txns, t) ELSE txns]

\* How ExecuteSql ends.  A transaction of the call's own is committed; a
\* bustub::Exception, which Commit may throw as well, aborts the transaction,
\* unless Abort throws in turn.
Outcome(end, own, t) ==
    IF end = "exception" \/ (end = "ok" /\ own /\ ~CanCommit(txns, t))
      THEN [end |-> "exception", aborted |-> CanAbort(txns, t),
            txns |-> IF CanAbort(txns, t) THEN Abort(txns, t) ELSE txns]
      ELSE [end |-> end, aborted |-> FALSE,
            txns |-> IF end = "ok" /\ own THEN Commit(txns, t) ELSE txns]

\* An abort that went through also ends the session's transaction.
ReturnFromExecuteSql ==
    LET out == Outcome(call[Shell].end, call[Shell].own, call[Shell].txn)
    IN  /\ Done(Shell)
        /\ txns' = out.txns
        /\ current_txn' = IF out.aborted THEN None ELSE current_txn
        /\ Leave(Shell, out.end)
        /\ UNCHANGED <<catalog, global_isolation_level, crashed>>

\* A worker commits its transaction, or aborts it after an exception.
ReturnToWorker(w) ==
    LET t == call[w].txn
    IN  /\ Done(w)
        /\ txns' = IF call[w].end = "ok" /\ CanCommit(txns, t) THEN Commit(txns, t)
                   ELSE IF CanAbort(txns, t) THEN Abort(txns, t)
                   ELSE txns
        /\ Leave(w, call[w].end)
        /\ UNCHANGED <<catalog, session, crashed>>

-----------------------------------------------------------------------------

Step(c) ==
    \/ Parse(c) \/ Bind(c)
    \/ CmdTxn(c) \/ CmdDisplayTables(c) \/ CmdDisplayIndices(c) \/ CmdDbgMvcc(c)
    \/ UnsupportedCommand(c)
    \/ HandleCreateStatement(c) \/ HandleIndexStatement(c) \/ RunQuery(c)
    \/ HandleExplainStatement(c)
    \/ HandleVariableSetStatement(c) \/ HandleVariableShowStatement(c)
    \/ BeginStatement(c) \/ EndStatement(c)

Next ==
    \/ GenerateMockTable \/ GenerateTestTable
    \/ \E s \in Scripts : ExecuteSql(s)
    \/ ReturnFromExecuteSql
    \/ \E w \in Workers : ReturnToWorker(w) \/ \E s \in WorkerScripts : ExecuteSqlTxn(w, s)
    \/ \E c \in Clients : Step(c)

Spec == Init /\ [][Next]_vars

-----------------------------------------------------------------------------

\* Type correctness.
TypeOK ==
    /\ txns \in Seq({RUNNING, TAINTED, COMMITTED, ABORTED})
    /\ current_txn \in DOMAIN txns \cup {None}
    /\ DOMAIN call = Clients
    /\ \A c \in Clients : call[c].txn \in DOMAIN txns \cup {None}
    /\ crashed \in BOOLEAN

\* Whatever statements run side by side, and whichever of them fail half way,
\* the four maps of the catalog agree with each other (the assertions "Broken
\* Invariant" of GetTable, CreateIndex, GetIndex and GetTableIndexes).
CatalogConsistent == Consistent(catalog)

\* The table a statement was bound to, without a lock, is still the catalog's
\* table of that name, with the schema the binder saw, when the statement is
\* planned or its index is made.
BoundTableCurrent ==
    \A c \in Clients :
       LET stmt == IF Bound(c, "explain") THEN call[c].stmt.statement ELSE call[c].stmt
       IN At(c, "bound") /\ stmt.type \in {"index", "select"} =>
          /\ HasTable(catalog, stmt.table)
          /\ GetTable(catalog, stmt.table).oid = stmt.oid
          /\ GetTable(catalog, stmt.table).schema = stmt.schema

\* The catalog agrees with itself, with the tables' contents and with what
\* statements in progress know of it.
CatalogSound ==
    /\ TypeOK /\ CatalogConsistent /\ BoundTableCurrent
    /\ IndexesMatchTables(catalog) /\ GeneratedAsConfigured(catalog)


\* A call that ended well on a transaction of its own has committed it, also
\* when a statement failed inside the execution engine or ended that
\* transaction itself.
ReturnedMeansCommitted ==
    At(Shell, "idle") /\ call[Shell].own /\ call[Shell].end = "ok" =>
       txns[call[Shell].txn] = COMMITTED

\* A bustub::Exception ends the transaction of its call: nothing is left
\* running (the catch clause of ExecuteSql).
ThrownMeansFinished ==
    \A c \in Clients : At(c, "idle") /\ call[c].end = "exception" =>
       txns[call[c].txn] \in {COMMITTED, ABORTED}

\* How ExecuteSql ends, and how its transaction ended, are the same.
CallEndsTransaction == ReturnedMeansCommitted /\ ThrownMeansFinished

=============================================================================
