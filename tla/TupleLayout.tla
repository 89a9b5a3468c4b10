---------------------------- MODULE TupleLayout -----------------------------
(***************************************************************************)
(* How a tuple is laid out in bytes (catalog/schema.cpp, table/tuple.cpp)  *)
(* and read back.  A byte of data_ is a pair: the datum that was serialized*)
(* there and the index of the byte in it.  A read returns the datum only   *)
(* when every byte it covers is the right byte of the same datum.          *)
(***************************************************************************)
EXTENDS TypeSystem, TLC

GetTypeSize(t) ==
    CASE t \in {"BOOLEAN", "TINYINT"} -> 1
      [] t = "SMALLINT" -> 2
      [] t = "INTEGER" -> 4
      [] t \in {"BIGINT", "DECIMAL"} -> 8
      [] t = "VARCHAR" -> 0

SIZE_DOUBLE == 8

SIZE_UINT32 == 4

IsInlined(t) == t \notin {"VARCHAR", "VECTOR"}

\* The bytes a column takes in the fixed part: itself, or the offset of its
\* text in the variable part.
FixedSize(t) == IF IsInlined(t) THEN GetTypeSize(t) ELSE SIZE_UINT32

\* A schema is the sequence of the column types.
OffsetOf(schema, i) ==
    LET before[k \in Nat] == IF k = 0 THEN 0 ELSE before[k - 1] + FixedSize(schema[k])
    IN before[i - 1]

GetInlinedStorageSize(schema) == OffsetOf(schema, Len(schema) + 1)

\* The value of a list of doubles; the doubles stand in for the text.
VectorValue(data) ==
    [type |-> "VECTOR", null |-> FALSE, val |-> 0, text |-> data]

NullVector == [VectorValue(<<>>) EXCEPT !.null = TRUE]

\* len_ of a VARCHAR counts the terminating zero, that of a VECTOR its bytes.
GetStorageSize(v) ==
    IF v.type = "VECTOR" THEN SIZE_DOUBLE * Len(v.text) ELSE Len(v.text) + 1

\* Tuple() counts a null as 0.
VarlenSize(v) == IF v.null THEN 0 ELSE GetStorageSize(v)

Datum(kind, n) == [type |-> kind, null |-> FALSE, val |-> n, text |-> <<>>]

Zero == Datum("zero", 0)

Write(data, at, n, d) ==
    [b \in (at .. at + n - 1) \cap DOMAIN data |-> [datum |-> d, byte |-> b - at]] @@ data

Read(data, at, n) ==
    IF \A b \in at .. at + n - 1 :
          b \in DOMAIN data /\ data[b] = [data[at] EXCEPT !.byte = b - at]
    THEN data[at].datum ELSE Zero

\* SerializeTo of a VARCHAR or a VECTOR: its length, or the null mark, and its
\* bytes.
SerializeVarlen(data, at, v) ==
    LET len == [Datum("length", VarlenSize(v)) EXCEPT !.null = v.null]
    IN Write(Write(data, at, SIZE_UINT32, len), at + SIZE_UINT32,
             VarlenSize(v), v)

TupleSize(values, schema) ==
    LET varlen[k \in Nat] ==
          CASE k = 0 -> 0
            [] OTHER -> varlen[k - 1] + IF IsInlined(schema[k]) THEN 0
                                        ELSE SIZE_UINT32 + VarlenSize(values[k])
    IN GetInlinedStorageSize(schema) + varlen[Len(schema)]

\* Faulty variant: a null string is given no room for its length.
TupleNoNullLength(values, schema) ==
    LET Put(acc, i) ==
          IF IsInlined(schema[i])
          THEN [acc EXCEPT !.data = Write(@, OffsetOf(schema, i),
                                          GetTypeSize(schema[i]), values[i])]
          ELSE [data |-> SerializeVarlen(
                           Write(acc.data, OffsetOf(schema, i), SIZE_UINT32,
                                 Datum("offset", acc.offset)),
                           acc.offset, values[i]),
                offset |-> IF values[i].null THEN acc.offset
                           ELSE acc.offset + SIZE_UINT32 + VarlenSize(values[i])]
        empty == [b \in 0 .. TupleSize(values, schema) - 1 |->
                    [datum |-> Zero, byte |-> 0]]
    IN FoldLeft(Put, [data |-> empty, offset |-> GetInlinedStorageSize(schema)],
                [i \in 1 .. Len(schema) |-> i]).data

\* Tuple(values, schema): the data_ of the tuple.
TupleData(values, schema) ==
    LET Put(acc, i) ==
          IF IsInlined(schema[i])
          THEN [acc EXCEPT !.data = Write(@, OffsetOf(schema, i),
                                          GetTypeSize(schema[i]), values[i])]
          ELSE [data |-> SerializeVarlen(
                           Write(acc.data, OffsetOf(schema, i), SIZE_UINT32,
                                 Datum("offset", acc.offset)),
                           acc.offset, values[i]),
                offset |-> acc.offset + SIZE_UINT32 + VarlenSize(values[i])]
        empty == [b \in 0 .. TupleSize(values, schema) - 1 |->
                    [datum |-> Zero, byte |-> 0]]
    IN FoldLeft(Put, [data |-> empty, offset |-> GetInlinedStorageSize(schema)],
                [i \in 1 .. Len(schema) |-> i]).data

GetDataPtr(data, schema, i) ==
    IF IsInlined(schema[i]) THEN OffsetOf(schema, i)
    ELSE Read(data, OffsetOf(schema, i), SIZE_UINT32).val

\* An empty vector has no bytes to read.
DeserializeVector(data, at, len) ==
    CASE len.null -> NullVector
      [] len.val = 0 -> VectorValue(<<>>)
      [] OTHER -> VectorValue(SubSeq(Read(data, at + SIZE_UINT32, len.val).text,
                                     1, len.val \div SIZE_DOUBLE))

\* DeserializeFrom of the column's type.
DeserializeFrom(data, at, t) ==
    LET len == Read(data, at, SIZE_UINT32)
        raw == Read(data, at, GetTypeSize(t))
    IN CASE t = "VARCHAR" ->
              IF len.null THEN NullVarchar
              ELSE VarcharValue(Read(data, at + SIZE_UINT32, len.val).text)
         [] t = "VECTOR" -> DeserializeVector(data, at, len)
         [] t = "DECIMAL" -> DecimalValue(raw.val)
         [] OTHER -> IntegerValue(t, raw.val)

GetValue(data, schema, i) ==
    DeserializeFrom(data, GetDataPtr(data, schema, i), schema[i])

\* Schema::CopySchema and Tuple::KeyFromTuple.
CopySchema(schema, attrs) == [k \in 1 .. Len(attrs) |-> schema[attrs[k]]]

KeyFromTuple(data, schema, attrs) ==
    TupleData([k \in 1 .. Len(attrs) |-> GetValue(data, schema, attrs[k])],
              CopySchema(schema, attrs))

-----------------------------------------------------------------------------
(* Index keys of a fixed size (storage/index/generic_key.h). *)

TWO_INTEGER_SIZE == 8

\* The bytes of the key tuple, and zeros after them.
SetFromKey(data) ==
    [b \in 0 .. TWO_INTEGER_SIZE - 1 |->
       IF b \in DOMAIN data THEN data[b] ELSE [datum |-> Zero, byte |-> 0]]

ToValue(key, key_schema, i) == GetValue(key, key_schema, i)

\* The first column in which one key is less than the other decides; a null is
\* neither less nor greater.
GenericComparator(key_schema, lhs, rhs) ==
    LET Is(op, i) == Compare(op, ToValue(lhs, key_schema, i), ToValue(rhs, key_schema, i)) = "CmpTrue"
        decisive == {i \in 1 .. Len(key_schema) : Is("<", i) \/ Is(">", i)}
    IN CASE decisive = {} -> 0
         [] OTHER -> IF Is("<", Min(decisive)) THEN -1 ELSE 1

=============================================================================
