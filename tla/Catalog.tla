------------------------------ MODULE Catalog -------------------------------
(***************************************************************************)
(* The catalog (src/src/include/catalog/catalog.h): four maps in a record. *)
(* A table is its schema and the rows of its heap in the order of a scan,  *)
(* the RID of a row being its position; an index is its key columns and,   *)
(* for the in-memory kinds, its entries.  The two OID counters are the     *)
(* numbers of tables and of indexes, as nothing is ever dropped.           *)
(***************************************************************************)
EXTENDS Integers, FiniteSets, Sequences, SequencesExt, Maps

CONSTANTS insert_meta,     \* the tables: [name, num_rows, col_meta]
          batch_size,
          Draw(_, _, _)    \* Draw(min, max, i): the i-th number of a new engine

EmptyCatalog == [tables |-> EmptyMap, table_names |-> EmptyMap,
                 indexes |-> EmptyMap, index_names |-> EmptyMap]

-----------------------------------------------------------------------------
(* Columns and schemas                                                     *)

\* Column::TypeSize returns a uint8_t.
TypeSize(type, length) ==
    CASE type = "BOOLEAN" -> 1
      [] type = "INTEGER" -> 4
      [] type = "DECIMAL" -> 8
      [] type = "VARCHAR" -> length % 256
      [] type = "VECTOR" -> (length * 8) % 256

Column(name, type, length) == [name |-> name, type |-> type, length |-> TypeSize(type, length)]

\* The index of the first column of that name, 0 when there is none
TryGetColIdx(schema, name) == SelectInSeq(schema, LAMBDA column : column.name = name)

CopySchema(schema, attrs) == [i \in DOMAIN attrs |-> schema[attrs[i]]]

-----------------------------------------------------------------------------
(* Tables                                                                  *)

TableInfo(schema, name, heap, oid) ==
    [schema |-> schema, name |-> name, heap |-> heap, rows |-> <<>>, oid |-> oid]

\* Faulty variant: a new table takes over a name that is taken.
CreateTableReplaces(cat, name, schema, create_table_heap) ==
    LET oid == Cardinality(DOMAIN cat.tables)
    IN  [cat EXCEPT !.tables = Put(@, oid, TableInfo(schema, name, create_table_heap, oid)),
                    !.table_names = Put(@, name, oid),
                    !.index_names = Put(@, name, EmptyMap)]

\* The catalog after CreateTable; unchanged when it returns NULL_TABLE_INFO
CreateTable(cat, name, schema, create_table_heap) ==
    LET oid == Cardinality(DOMAIN cat.tables)
    IN  IF name \in DOMAIN cat.table_names THEN cat
        ELSE [cat EXCEPT !.tables = Put(@, oid, TableInfo(schema, name, create_table_heap, oid)),
                         !.table_names = Put(@, name, oid),
                         !.index_names = Put(@, name, EmptyMap)]

\* GetTable(name) returns a table, not NULL_TABLE_INFO
HasTable(cat, name) == name \in DOMAIN cat.table_names

GetTable(cat, name) == cat.tables[cat.table_names[name]]

GetTableNames(cat) == DOMAIN cat.table_names

-----------------------------------------------------------------------------
(* Indexes                                                                 *)

\* The comparator on keys of integers that are not null: the first column in
\* which they differ decides.
CompareKeys(lhs, rhs) ==
    LET differ == {i \in DOMAIN lhs : lhs[i] # rhs[i]}
    IN  IF differ = {} THEN 0 ELSE lhs[Min(differ)] - rhs[Min(differ)]

\* Any function of the bytes of a key
HashKey(key) == FoldLeft(LAMBDA h, v : (h + v) % 2, 0, key)

INSTANCE STLIndex WITH Compare <- CompareKeys, Hash <- HashKey

\* Tuple::KeyFromTuple
KeyFromTuple(row, key_attrs) == [i \in DOMAIN key_attrs |-> row[key_attrs[i]]]

IndexMetadata(name, table, schema, key_attrs, is_primary_key) ==
    [name |-> name, table |-> table, key_attrs |-> key_attrs,
     key_schema |-> CopySchema(schema, key_attrs), is_primary_key |-> is_primary_key]

IndexInfo(metadata, data, oid, index_type) ==
    [metadata |-> metadata, name |-> metadata.name, table |-> metadata.table,
     data |-> data, oid |-> oid, index_type |-> index_type]

\* Every row of the heap, in the order of the iterator; what InsertEntry
\* returns is ignored.
Populate(index_type, rows, key_attrs) ==
    FoldLeft(LAMBDA data, rid : InsertEntry(index_type, data, KeyFromTuple(rows[rid], key_attrs), rid),
             {}, [rid \in DOMAIN rows |-> rid])

\* CreateIndex returns NULL_INDEX_INFO.
RefusesIndex(cat, index, table) ==
    ~HasTable(cat, table) \/ index \in DOMAIN cat.index_names[table]

\* CreateIndex: how it ends and the catalog it leaves.  The hash index is not
\* implemented, nor is the insertion into a B+ tree; a table without a heap
\* has no buffer pool to iterate with.
CreateIndex(cat, index, table, schema, key_attrs, is_primary_key, index_type) ==
    LET oid == Cardinality(DOMAIN cat.indexes)
        info == GetTable(cat, table)
        Ends(how) == [end |-> how, catalog |-> cat]
        metadata == IndexMetadata(index, table, schema, key_attrs, is_primary_key)
        data == Populate(index_type, info.rows, key_attrs)
    IN  IF RefusesIndex(cat, index, table) THEN Ends("null")
        ELSE IF index_type = "HashTableIndex" THEN Ends("exception")
        ELSE IF ~info.heap THEN Ends("crash")
        ELSE IF index_type = "BPlusTreeIndex" /\ info.rows # <<>> THEN Ends("logic_error")
        ELSE [end |-> "ok",
              catalog |-> [cat EXCEPT
                !.indexes = Put(@, oid, IndexInfo(metadata, data, oid, index_type)),
                !.index_names[table] = Put(@, index, oid)]]

GetIndex(cat, index, table) == cat.indexes[cat.index_names[table][index]]

\* The OIDs of GetTableIndexes
GetTableIndexes(cat, table) ==
    IF ~HasTable(cat, table) THEN {}
    ELSE {cat.index_names[table][i] : i \in DOMAIN cat.index_names[table]}

-----------------------------------------------------------------------------

\* What the assertions "Broken Invariant" rely on: names and OIDs of tables
\* correspond one to one, and so do index names per table and index OIDs.
Consistent(cat) ==
    /\ DOMAIN cat.table_names = DOMAIN cat.index_names
    /\ \A n \in GetTableNames(cat) :
          cat.table_names[n] \in DOMAIN cat.tables /\ GetTable(cat, n).name = n
    /\ \A o \in DOMAIN cat.tables :
          /\ HasTable(cat, cat.tables[o].name)
          /\ GetTable(cat, cat.tables[o].name).oid = o
    /\ \A n \in DOMAIN cat.index_names :
          GetTableIndexes(cat, n) = {o \in DOMAIN cat.indexes : cat.indexes[o].table = n}
    /\ \A o \in DOMAIN cat.indexes :
          GetIndex(cat, cat.indexes[o].name, cat.indexes[o].table).oid = o

\* Every index belongs to its table as the table is: its key is one or two
\* INTEGER columns of the table's schema, and an in-memory index holds exactly
\* the keys of the table's rows, each with the first row that has it.
IndexesMatchTables(cat) ==
    \A o \in DOMAIN cat.indexes :
       LET index == cat.indexes[o]
           meta == index.metadata
           table == GetTable(cat, index.table)
           KeyOf(rid) == KeyFromTuple(table.rows[rid], meta.key_attrs)
       IN /\ Len(meta.key_attrs) \in 1 .. 2
          /\ \A i \in DOMAIN meta.key_attrs :
                /\ meta.key_attrs[i] \in DOMAIN table.schema
                /\ meta.key_schema[i] = table.schema[meta.key_attrs[i]]
                /\ meta.key_schema[i].type = "INTEGER"
          /\ index.data = {[key |-> KeyOf(rid), rid |-> rid] : rid \in
                             {r \in DOMAIN table.rows : \A q \in 1 .. r - 1 : KeyOf(q) # KeyOf(r)}}

-----------------------------------------------------------------------------
(* The generated test tables (catalog/table_generator.cpp).  A column's    *)
(* metadata is its name, type, distribution and bounds; the counter of a   *)
(* serial or cyclic column lasts from batch to batch, the random engine of *)
(* a uniform one is new in each.                                           *)

\* The values of the next count rows, and the counter after them.  A cyclic
\* column wraps to zero, whatever its minimum.
GenNumericValues(col, counter, count) ==
    CASE col.dist = "Serial" ->
           [values |-> [i \in 1 .. count |-> counter + i - 1 + col.min], counter |-> counter + count]
      [] col.dist = "Cyclic" ->
           FoldLeft(LAMBDA acc, i : [values |-> Append(acc.values, acc.counter),
                                     counter |-> IF acc.counter + 1 > col.max THEN 0
                                                 ELSE acc.counter + 1],
                    [values |-> <<>>, counter |-> counter], [i \in 1 .. count |-> i])
      [] col.dist = "Uniform" ->
           [values |-> [i \in 1 .. count |-> Draw(col.min, col.max, i)], counter |-> counter]

\* The rows of a table, batch by batch; MakeValues accepts numeric types.
FillTable(meta) ==
    LET cols == meta.col_meta
        Batch(acc, b) ==
          LET n == Min({batch_size, meta.num_rows - Len(acc.rows)})
              made == [c \in DOMAIN cols |-> GenNumericValues(cols[c], acc.counters[c], n)]
          IN  [rows |-> acc.rows \o [i \in 1 .. n |-> [c \in DOMAIN cols |-> made[c].values[i]]],
               counters |-> [c \in DOMAIN cols |-> made[c].counter]]
    IN  FoldLeft(Batch, [rows |-> <<>>, counters |-> [c \in DOMAIN cols |-> 0]],
                 [b \in 1 .. meta.num_rows |-> b]).rows

SchemaOf(meta) ==
    [c \in DOMAIN meta.col_meta |-> Column(meta.col_meta[c].name, meta.col_meta[c].type, 0)]

\* A null table is dereferenced as soon as there is a row to insert.
CanGenerate(cat) ==
    \A i \in DOMAIN insert_meta :
       insert_meta[i].num_rows > 0 => ~HasTable(cat, insert_meta[i].name)

GenerateTestTables(cat) ==
    LET Generate(c, meta) ==
          LET created == CreateTable(c, meta.name, SchemaOf(meta), TRUE)
          IN  IF created = c THEN c
              ELSE [created EXCEPT !.tables[created.table_names[meta.name]].rows = FillTable(meta)]
    IN  FoldLeft(Generate, cat, insert_meta)

\* The generated tables hold what their metadata asks for, however the rows
\* fall into batches: a serial column counts on from its minimum, a cyclic one
\* goes round, a uniform one stays within its bounds.
GeneratedAsConfigured(cat) ==
    \A m \in DOMAIN insert_meta : HasTable(cat, insert_meta[m].name) =>
       LET meta == insert_meta[m]
           rows == GetTable(cat, meta.name).rows
       IN /\ Len(rows) = meta.num_rows
          /\ \A r \in DOMAIN rows, c \in DOMAIN meta.col_meta :
                LET col == meta.col_meta[c]
                IN CASE col.dist = "Serial" -> rows[r][c] = col.min + r - 1
                     [] col.dist = "Cyclic" -> rows[r][c] = (r - 1) % (col.max + 1)
                     [] col.dist = "Uniform" -> rows[r][c] \in col.min .. col.max

=============================================================================
