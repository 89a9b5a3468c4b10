-------------------------- MODULE MCBustubInstance --------------------------
(***************************************************************************)
(* Texts for the instance: one statement of every kind, the CREATE         *)
(* statements each check of the binder and of the handlers tells apart,    *)
(* and the pairs that put transaction control and other statements into    *)
(* one text.  The generated table g has five rows in batches of two.       *)
(***************************************************************************)
EXTENDS BustubInstance

One(type) == <<[type |-> type]>>
Txn(kind) == <<[type |-> "transaction", kind |-> kind]>>
SetTo(args) == <<[type |-> "set", args |-> args]>>
Constant(value) == [type |-> "CONSTANT", val |-> value]
Set(value) == SetTo(<<Constant(value)>>)
Select(table) == <<[type |-> "select", table |-> table]>>
Explain(text, options) == <<[type |-> "explain", statement |-> text[1], options |-> options]>>
Switch(id) == <<[type |-> "\\txn", id |-> id, gc |-> FALSE]>>
GC == <<[type |-> "\\txn", id |-> 0, gc |-> TRUE]>>

Sized(name, type, typmods) ==
    [node |-> "ColumnDef", name |-> name, type |-> type, typmods |-> typmods,
     collate |-> FALSE, constraints |-> <<>>]
Col(name, type) == Sized(name, type, <<>>)
With(cdef, constraints) == [cdef EXCEPT !.constraints = constraints]
PrimaryKey(keys) == [node |-> "Constraint", contype |-> "PRIMARY", keys |-> keys]

A == Col("a", "int4")
B == Col("b", "int4")
Text == Sized("c", "varchar", <<300>>)

Create(elts) == <<[type |-> "create", table |-> "t", elts |-> elts]>>
Index(table, params, method) ==
    <<[type |-> "index", table |-> table, index |-> "i", params |-> params, access_method |-> method]>>

\* What BindCreate refuses
Rejected ==
    {Create(<<Col("a", "varchar")>>), Create(<<With(A, <<"NOTNULL">>)>>),
     Create(<<With(A, <<"PRIMARY">>), PrimaryKey(<<"a">>)>>), Create(<<PrimaryKey(<<"a">>)>>),
     Create(<<PrimaryKey(<<"a">>), A>>), Create(<<[node |-> "Like"]>>)}

Creates ==
    {Create(<<A, Text, Sized("v", "vector", <<3>>)>>), Create(<<Col("a", "bool"), PrimaryKey(<<"a">>)>>),
     Create(<<A, B, PrimaryKey(<<"a", "b", "a">>)>>), Create(<<A, A, PrimaryKey(<<"z">>)>>)}

\* Indexes on a table the same text has made, and on the others
IndexesOnNew ==
    {Create(<<Text, B, A, PrimaryKey(<<"a", "b">>)>>) \o Index("t", params, method) :
       params \in {<<"c">>, <<"b", "a">>}, method \in {"art", "stl_ordered"}}

Indexes ==
    {Index("g", <<"u">>, "stl_ordered"), Index("g", <<"u", "k">>, "stl_unordered"),
     Index("g", <<"k">>, "stl_unordered") \o Index("g", <<"s">>, "stl_ordered"),
     Index("g", <<"s">>, "bplustree"), Index("g", <<"s">>, "hash"), Index("g", <<"s">>, "gin"),
     Index("g", <<Expression>>, "art"), Index("mock", <<"a">>, "art"), Index("t", <<"a">>, "art")}

Control == {Txn("BEGIN"), Txn("COMMIT"), Txn("ROLLBACK"), Select("g"),
            Set("read_uncommitted"),
            Txn("BEGIN") \o Select("t"), Txn("BEGIN") \o Txn("COMMIT"),
            Switch(-1), GC, Switch(3), One("syntax error")}

\* Statements that only read
Reads == {One("show"), Txn("SAVEPOINT"), SetTo(<<>>), SetTo(<<[type |-> "COLUMN_REF"]>>),
          One("other"), One("\\dt"), One("\\di"), One("\\dbgmvcc"), One("\\unknown"),
          Explain(Select("t"), None), Explain(Select("g"), {"p", "schema", "z"}),
          Explain(Create(<<A>>), None)}

ShellScripts == Control \cup {Create(<<With(A, <<"PRIMARY">>)>>)}
DDLScripts == Rejected \cup Creates \cup IndexesOnNew \cup Indexes \cup Reads

MockTables == <<[name |-> "mock", schema |-> <<Column("a", "INTEGER", 0)>>]>>

Generated(name, dist, min, max) ==
    [name |-> name, type |-> "INTEGER", dist |-> dist, min |-> min, max |-> max]
TestTables ==
    <<[name |-> "empty_table", num_rows |-> 0, col_meta |-> <<Generated("s", "Serial", 0, 0)>>],
      [name |-> "g", num_rows |-> 5,
       col_meta |-> <<Generated("s", "Serial", 1, 9), Generated("u", "Uniform", 0, 2),
                      Generated("k", "Cyclic", 0, 1)>>]>>

\* Some fixed sequence of numbers between min and max
MCDraw(min, max, i) == min + ((i * 2) % (max - min + 1))

=============================================================================
