------------------------------ MODULE MCTypes -------------------------------
(***************************************************************************)
(* Runs of operations on SQL values, as an aggregate or a chain of casts   *)
(* makes them: the left operand is replaced by each result, the right one  *)
(* is fixed.  The widths are scaled down; the samples hold the nulls, the  *)
(* bounds of every type and of the narrower ones, and texts that are       *)
(* numerals of one, two and three digits, words and the empty text.  Apart *)
(* from them a text is read as a timestamp and printed again.              *)
(***************************************************************************)
EXTENDS TupleLayout, Timestamps, TLC

\* Bound: a DECIMAL beyond it is computed but not carried on.
CONSTANT DecimalBound

\* The comparator of an index
CONSTANT CompareKeys(_, _)

VARIABLES left, right, moment

vars == <<left, right, moment>>

KeySchema == <<"INTEGER", "INTEGER">>

\* The keys of an index on two INTEGER columns, and a hash of their bytes
MCCompareKeys(lhs, rhs) ==
    LET key_schema == KeySchema IN GenericComparator(key_schema, lhs, rhs)
HashKey(key) == ToValue(key, KeySchema, 1)

Index == INSTANCE STLIndex WITH Compare <- CompareKeys, Hash <- HashKey

MCBits == [TINYINT |-> 3, SMALLINT |-> 4, INTEGER |-> 8, BIGINT |-> 9]

Samples ==
    {IntegerValue("TINYINT", i) : i \in {-4, -3, -1, 0, 2, 3}}
      \cup {IntegerValue("SMALLINT", i) : i \in {-8, -7, -4, 1, 3, 4, 7}}
      \cup {IntegerValue("INTEGER", i) : i \in {-128, -127, -8, 0, 10, 127}}
      \cup {IntegerValue("BIGINT", i) : i \in {-256, -255, -128, 9, 128, 255}}
      \cup {DecimalValue(q) : q \in {NullOf("DECIMAL"), -510, -2, 0, 6, 40, 1024}}
      \cup {IntegerValue("BOOLEAN", i) : i \in {-4, 0, 1}}
      \cup {NullVarchar, VarcharValue(<<>>), VarcharValue(TrueText)}
      \cup {VarcharValue(IntegerText(n)) : n \in {-4, 0, 1, 9, 10, 12, 300}}

\* Those that stand on the right
RightSamples ==
    {v \in Samples : \/ v.type \in {"TINYINT", "SMALLINT", "VARCHAR"} /\ v.text # TrueText
                     \/ v.null
                     \/ v.type \in {"INTEGER", "BIGINT"} /\ v.val \in {MinOf(v.type), 9, 10, MaxOf(v.type)}
                     \/ v.type = "DECIMAL" /\ v.val \in {-2, 0, 6}
                     \/ v.type = "BOOLEAN" /\ v.val = 1}

Vectors == {VectorValue(<<>>), VectorValue(<<1, 2>>), NullVector}

ArithmeticOps == {"+", "-", "*", "/", "%"}
ComparisonOps == {"=", "!=", "<", "<=", ">", ">="}

\* Dates around the ends of the months and of the calendar's rules, and zones
\* around the ends of their range
Moments ==
    {StampText([form |-> f, year |-> y, month |-> m, day |-> d, hour |-> h,
                min |-> 1, sec |-> 1 - h, micro |-> 2, tz |-> z]) :
       f \in {"long", "short", "other"}, y \in {3, 4, 100, 400},
       m \in {0, 1, 2, 4, 12, 13}, d \in {0, 1, 28, 29, 30, 31, 32},
       h \in {1, 2}, z \in {-13, -12, 0, 14, 26, 27}}

Init ==
    \/ left \in Samples /\ right \in RightSamples /\ moment = NullStamp
    \/ left = NullVarchar /\ right = NullVarchar /\ moment \in Moments

Kept(v) ==
    /\ ~Thrown(v)
    /\ v.type = "DECIMAL" => v.null \/ v.val \in -DecimalBound .. DecimalBound

Becomes(v) ==
    /\ Kept(v)
    /\ left' = v
    /\ UNCHANGED <<right, moment>>

\* assert(left.CheckComparable(right)) in every operator.
Compute(op) ==
    /\ left.type \in Numeric
    /\ CheckComparable(left, right)
    /\ Becomes(Arithmetic(op, left, right))

Cast(t) == Becomes(CastAs(left, t))

Factory(t) == Becomes(FactoryCast(left, t))

\* Min or Max, the step of a MIN or MAX aggregate.
Extreme(result) ==
    /\ left.type # "BOOLEAN"
    /\ CheckComparable(left, right)
    /\ Compare("<", left, right) # "throw"
    /\ Becomes(result)

\* A text is read, a timestamp printed.
ConvertMoment ==
    /\ left.type = "VARCHAR" /\ left.null
    /\ moment' = IF moment.type = "VARCHAR" THEN CastAsTimestamp(moment)
                 ELSE TimestampCastAs(moment, "VARCHAR")
    /\ moment'.type # "exception"
    /\ UNCHANGED <<left, right>>

Next ==
    \/ ConvertMoment
    \/ \E op \in ArithmeticOps : Compute(op)
    \/ \E t \in TypeId : Cast(t) \/ Factory(t)
    \/ Extreme(ValueMin(left, right))
    \/ Extreme(ValueMax(left, right))

Spec == Init /\ [][Next]_vars

-----------------------------------------------------------------------------

\* Every value that is computed or cast is a value of its type: a null holds
\* the sentinel of its type, so that it is still null when it is read back.
TypeOK ==
    /\ left.type \in TypeId
    /\ left.type \in Integral => left.val \in NullOf(left.type) .. MaxOf(left.type)
    /\ left.type # "VARCHAR" => (left.null <=> left.val = NullOf(left.type))

\* The exact result of an operator on numbers, in quarters.
ExactResult(op, x, y) ==
    CASE op = "+" -> x + y
      [] op = "-" -> x - y
      [] op = "*" -> (x * y) \div 4

\* Integer arithmetic never wraps: AddValue, SubtractValue and MultiplyValue
\* throw or return the exact result in the wider type, although they compute
\* it in a type that may overflow.  The one exception is a result equal to
\* the sentinel of that type, which becomes null.
ArithmeticExact ==
    \A op \in {"+", "-", "*"} :
       LET out == Arithmetic(op, left, right)
           exact == ExactResult(op, 4 * left.val, 4 * right.val) \div 4
       IN /\ {left.type, right.type} \subseteq Integral
          /\ ~left.null /\ ~right.null
          /\ ~Thrown(out)
          => /\ out.type = WiderType(left, right)
             /\ out.val = exact
             /\ out.null <=> exact = NullOf(out.type)

\* A result that fits is never refused: the overflow tests of the integer
\* templates throw only for a result the wider type cannot hold.
NoSpuriousOverflow ==
    \A op \in {"+", "-", "*"} :
       LET exact == ExactResult(op, 4 * left.val, 4 * right.val) \div 4
       IN /\ {left.type, right.type} \subseteq Integral
          /\ ~left.null /\ ~right.null
          /\ exact \in MinOf(WiderType(left, right)) .. MaxOf(WiderType(left, right))
          => ~Thrown(Arithmetic(op, left, right))

\* A null operand gives the null of the type the result would have had: the
\* OperateNull of each type agrees with its arithmetic, whichever side is
\* null, so that the schema of an expression does not depend on its data.
NullKeepsResultType ==
    LET bare(v) == IF v.type = "DECIMAL" THEN DecimalValue(4) ELSE IntegerValue(v.type, 1)
    IN {left.type, right.type} \subseteq Numeric /\ (left.null \/ right.null) =>
         \A op \in ArithmeticOps :
            LET out == Arithmetic(op, left, right)
            IN /\ out.null
               /\ out.type = Arithmetic(op, bare(left), bare(right)).type

\* The six comparisons agree with each other as the comment in type.h derives
\* them from CompareLessThan, from both sides; a comparison with a null is
\* CmpNull.  Comparisons of a text with a value of another type are left out:
\* the left operand chooses between the order of numbers and of texts.
ComparisonsCoherent ==
    /\ CheckComparable(left, right) /\ CheckComparable(right, left)
    /\ left.type = "VARCHAR" <=> right.type = "VARCHAR"
    => LET Coherent(is, swapped) == /\ "=" \in is <=> {"<", ">"} \cap is = {}
                                    /\ "!=" \in is <=> "=" \notin is
                                    /\ "<=" \in is <=> {"<", "="} \cap is # {}
                                    /\ ">" \in is <=> "<=" \notin is
                                    /\ ">=" \in is <=> "<=" \in swapped
                                    /\ "<" \in is <=> ">" \in swapped
       IN IF left.null \/ right.null
          THEN \A op \in ComparisonOps : Compare(op, left, right) = "CmpNull"
          ELSE Coherent({op \in ComparisonOps : Compare(op, left, right) = "CmpTrue"},
                        {op \in ComparisonOps : Compare(op, right, left) = "CmpTrue"})

\* The two implementations of a conversion, Value::CastAs and the value
\* factory, agree on every value that is not null: both refuse it or both
\* return the same value.  The double 2^63 is left out, which the factory
\* lets through.
CastsAgree ==
    \A t \in TypeId :
       LET a == CastAs(left, t)
           b == FactoryCast(left, t)
       IN \/ left.null
          \/ left.type = "DECIMAL" /\ left.val = DoubleMax("BIGINT")
          \/ a = b
          \/ Thrown(a) /\ Thrown(b)

\* A conversion keeps the number: a cast between numeric types that does not
\* throw returns the same number, rounded towards zero when an integer type is
\* the target, and null for null; in particular a value cast to a wider type
\* and back is unchanged.
CastKeepsNumber ==
    \A t \in Numeric :
       LET out == CastAs(left, t)
       IN left.type \in Numeric /\ ~Thrown(out) =>
            /\ out.null <=> left.null
            /\ ~left.null =>
                 IF t = "DECIMAL" THEN out.val = Quarters(left)
                 ELSE out.val = Truncated(Quarters(left), 4)

\* A tuple gives back the values it was made of, nulls, texts and vectors of
\* every length included, in whatever order inlined and uninlined columns stand,
\* and a key taken from it (KeyFromTuple) the key columns' values.
TupleRoundTrip ==
    \A last \in {VarcharValue(TrueText)} \cup IF left = right THEN Vectors ELSE {} :
    \A values \in {<<left, right, last>>, <<last, left, right>>} :
       LET schema == [i \in 1 .. 3 |-> values[i].type]
           data == TupleData(values, schema)
           key == KeyFromTuple(data, schema, <<3, 2>>)
       IN /\ \A i \in 1 .. 3 : GetValue(data, schema, i) = values[i]
          /\ \A i \in 1 .. 2 :
                GetValue(key, CopySchema(schema, <<3, 2>>), i) = values[4 - i]

\* The minimum and the maximum are the two operands, in order, unless these
\* are equal: Min and Max of a type use different comparisons (< and >= for the
\* integer types), on values of different types.
MinMaxBound ==
    LET Bound(low, high) ==
          /\ {low, high} \subseteq {left, right}
          /\ Compare("<=", low, high) = "CmpTrue"
          /\ Compare("=", left, right) = "CmpFalse" => low # high
    IN /\ {left.type, right.type} \subseteq Numeric
          \/ {left.type, right.type} = {"VARCHAR"}
       /\ ~left.null /\ ~right.null
       => Bound(ValueMin(left, right), ValueMax(left, right))

\* An index on two INTEGER columns is a map in the order of the key columns,
\* whichever container holds it: the comparator reads the columns back from the
\* bytes of a GenericKey, the first row of a key is the one that is found, to
\* delete a key leaves the others, and an iterator of the ordered index yields
\* the keys in ascending order.  Keys with a null are left out: the comparator
\* takes them to be equal to every key.
IndexFollowsKeys ==
    LET pairs == <<<<left, right>>, <<right, left>>, <<left, left>>, <<right, left>>>>
        key(i) == SetFromKey(TupleData(pairs[i], KeySchema))
        data(type) == FoldLeft(LAMBDA d, i : Index!InsertEntry(type, d, key(i), i),
                               {}, [i \in 1 .. 4 |-> i])
        Row(p) == Min({i \in 1 .. 4 : pairs[i] = p})
        Below(p, q) == \/ p[1].val < q[1].val
                       \/ p[1].val = q[1].val /\ p[2].val < q[2].val
        all == Index!GetBeginIterator(data("STLOrderedIndex"))
        from == Index!GetBeginIteratorAt(data("STLOrderedIndex"), key(1))
    IN {left.type, right.type} = {"INTEGER"} /\ ~left.null /\ ~right.null =>
         /\ \A type \in {"STLOrderedIndex", "STLUnorderedIndex"}, i \in 1 .. 4 :
               /\ Index!ScanKey(type, data(type), key(i)) = {Row(pairs[i])}
               /\ LET rest == Index!DeleteEntry(type, data(type), key(i))
                  IN {e.rid : e \in rest} = {Row(p) : p \in Range(pairs) \ {pairs[i]}}
         /\ \A k \in 1 .. Len(all) - 1 : Below(pairs[all[k].rid], pairs[all[k + 1].rid])
         /\ {e.rid : e \in Range(from)}
              = {Row(p) : p \in {q \in Range(pairs) : ~Below(q, pairs[1])}}

\* Type::GetMinValue and GetMaxValue of a type lie around its values, so that
\* a search may start from them; there is no greatest VARCHAR.
ExtremesBound ==
    ~left.null =>
      /\ Compare("<=", GetMinValue(left.type), left) = "CmpTrue"
      /\ left.type # "VARCHAR" => Compare(">=", GetMaxValue(left.type), left) = "CmpTrue"

\* The zero value of a type is neutral: to add it or to subtract it gives the
\* number back, in its type.
ZeroNeutral ==
    left.type \in Numeric =>
      \A op \in {"+", "-"} : Arithmetic(op, left, GetZeroValueByType(left.type)) = left

\* Integer arithmetic returns the exact result or, only when the wider type
\* cannot hold it, throws; what it returns is a value of its type, whose type
\* does not depend on whether an operand is null.
ArithmeticSound ==
    TypeOK /\ ArithmeticExact /\ NoSpuriousOverflow /\ NullKeepsResultType /\ ZeroNeutral



=============================================================================
