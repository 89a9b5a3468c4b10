----------------------------- MODULE TypeSystem -----------------------------
(***************************************************************************)
(* The SQL types: the values a column holds, their arithmetic, comparison  *)
(* and conversion (type/, include/type/).                                  *)
(*                                                                         *)
(* A value records its type, size_.len_ = BUSTUB_VALUE_NULL as null, the   *)
(* number in val and the characters of a VARCHAR in text.  The integer     *)
(* types keep their widths, Bits of them, with two's complement wrapping:  *)
(* the build compiles with -O0, so a signed overflow wraps.  A DECIMAL     *)
(* lies on a grid of quarters, val counting them.                          *)
(***************************************************************************)
EXTENDS Integers, Sequences, SequencesExt, FiniteSetsExt

CONSTANT Bits      \* the width of every integer type

ASSUME BitsAssumption ==
    /\ DOMAIN Bits = {"TINYINT", "SMALLINT", "INTEGER", "BIGINT"}
    /\ Bits["TINYINT"] < Bits["SMALLINT"]
    /\ 2 * Bits["SMALLINT"] <= Bits["INTEGER"]
    /\ Bits["INTEGER"] < Bits["BIGINT"]

Integral == DOMAIN Bits
Numeric == Integral \cup {"DECIMAL"}
TypeId == Numeric \cup {"BOOLEAN", "VARCHAR"}

-----------------------------------------------------------------------------
(* Limits and representations. *)

\* The null of a type is its least number, BUSTUB_*_NULL; DECIMAL_NULL is a
\* double below every other.
NullOf(t) ==
    CASE t \in Integral -> -(2 ^ (Bits[t] - 1))
      [] t = "BOOLEAN" -> -(2 ^ (Bits["TINYINT"] - 1))
      [] OTHER -> -(2 ^ (Bits["BIGINT"] + 6))

MinOf(t) == NullOf(t) + 1

MaxOf(t) == 2 ^ (Bits[t] - 1) - 1

Wrap(t, n) ==
    LET m == 2 ^ Bits[t] IN ((n + m \div 2) % m) - m \div 2

\* The value constructors of a number: the argument is stored in the member of
\* the type, and the value is null when that member holds the sentinel.
IntegerValue(t, i) ==
    LET stored == IF t = "BOOLEAN" THEN Wrap("TINYINT", i) ELSE Wrap(t, i)
    IN [type |-> t, null |-> stored = NullOf(t), val |-> stored, text |-> <<>>]

DecimalValue(q) ==
    [type |-> "DECIMAL", null |-> q = NullOf("DECIMAL"), val |-> q,
     text |-> <<>>]

VarcharValue(s) ==
    [type |-> "VARCHAR", null |-> FALSE, val |-> 0, text |-> s]

NullVarchar == [VarcharValue(<<>>) EXCEPT !.null = TRUE]

\* A bustub::Exception, and a C++ exception that is not one.
Throw == [type |-> "exception", null |-> FALSE, val |-> 0, text |-> <<>>]
StdThrow == [Throw EXCEPT !.type = "std::exception"]
Thrown(v) == v.type \notin TypeId

\* NotImplementedException, what a method of the base class Type does that a
\* type does not override
NotImplemented == Throw

GetNullValueByType(t) ==
    CASE t = "VARCHAR" -> NullVarchar
      [] t = "DECIMAL" -> DecimalValue(NullOf(t))
      [] OTHER -> IntegerValue(t, NullOf(t))

GetZeroValueByType(t) ==
    CASE t = "VARCHAR" -> VarcharValue(<<48>>)
      [] t = "DECIMAL" -> DecimalValue(0)
      [] OTHER -> IntegerValue(t, 0)

\* FLT_LOWEST and DBL_MAX lie around every double that is sampled.
GetMinValue(t) ==
    CASE t = "VARCHAR" -> VarcharValue(<<>>)
      [] t = "DECIMAL" -> DecimalValue(MinOf(t))
      [] t = "BOOLEAN" -> IntegerValue(t, 0)
      [] OTHER -> IntegerValue(t, MinOf(t))

\* There is no longest text: a null pointer makes the value null.
GetMaxValue(t) ==
    CASE t = "VARCHAR" -> NullVarchar
      [] t = "DECIMAL" -> DecimalValue(-NullOf(t))
      [] t = "BOOLEAN" -> IntegerValue(t, 1)
      [] OTHER -> IntegerValue(t, MaxOf(t))

CheckInteger(v) == v.type \in Integral

CheckComparable(v, o) ==
    CASE v.type = "BOOLEAN" -> o.type \in {"BOOLEAN", "VARCHAR"}
      [] v.type \in Numeric -> o.type \in Numeric \cup {"VARCHAR"}
      [] v.type = "VARCHAR" -> TRUE

IsCoercableFrom(t, from) ==
    CASE t = "BOOLEAN" -> TRUE
      [] t \in Numeric -> from \in Numeric \cup {"VARCHAR"}
      [] t = "VARCHAR" -> from \in TypeId

\* A number on the grid of quarters, for comparisons across types.
Quarters(v) == IF v.type = "DECIMAL" THEN v.val ELSE 4 * v.val

Abs(n) == IF n < 0 THEN -n ELSE n

\* C++ division rounds towards zero.
Truncated(x, y) ==
    LET q == Abs(x) \div Abs(y) IN IF (x < 0) = (y < 0) THEN q ELSE -q

-----------------------------------------------------------------------------
(* Texts are sequences of character codes. *)

Minus == 45
Point == 46
Digit == 48 .. 57
TrueText == <<116>>
FalseText == <<102>>

\* std::to_string of an integer of at most three digits.
IntegerText(n) ==
    LET a == Abs(n)
        digits == <<48 + (a \div 100), 48 + ((a \div 10) % 10), 48 + (a % 10)>>
        shown == CASE a >= 100 -> digits
                   [] a \in 10 .. 99 -> Tail(digits)
                   [] OTHER -> <<digits[3]>>
    IN IF n < 0 THEN <<Minus>> \o shown ELSE shown

\* std::to_string of a double, up to its first decimal digit, which tells the
\* halves apart (the sampled doubles are halves).
DecimalText(q) ==
    LET whole == IntegerText(Truncated(q, 4))
        signed == IF q \in -3 .. -1 THEN <<Minus>> \o whole ELSE whole
    IN signed \o <<Point, IF q % 4 = 0 THEN 48 ELSE 53>>

BooleanText(n) == CASE n = 1 -> TrueText [] n = 0 -> FalseText [] OTHER -> <<98>>

VarcharText(v) == IF v.null THEN <<118>> ELSE v.text

\* ToString of the numeric types; NullText stands for "tinyint_null" and so on.
NullText == <<110>>

TinyintToString(v) == IF v.null THEN NullText ELSE IntegerText(v.val)

SmallintToString(v) == IF v.null THEN NullText ELSE IntegerText(v.val)

IntegerToString(v) == IF v.null THEN NullText ELSE IntegerText(v.val)

BigintToString(v) == IF v.null THEN NullText ELSE IntegerText(v.val)

DecimalToString(v) == IF v.null THEN NullText ELSE DecimalText(v.val)

ValueToString(v) ==
    CASE v.type = "VARCHAR" -> VarcharText(v)
      [] v.type = "BOOLEAN" -> BooleanText(v.val)
      [] v.type = "DECIMAL" -> DecimalToString(v)
      [] v.type = "TINYINT" -> TinyintToString(v)
      [] v.type = "SMALLINT" -> SmallintToString(v)
      [] v.type = "INTEGER" -> IntegerToString(v)
      [] v.type = "BIGINT" -> BigintToString(v)

\* The memcmp order, a prefix first.
CompareStrings(s, t) ==
    LET differ == {i \in 1 .. Min({Len(s), Len(t)}) : s[i] # t[i]}
    IN IF differ # {} THEN s[Min(differ)] - t[Min(differ)] ELSE Len(s) - Len(t)

\* stoi, stoll and stod read the longest prefix that is a number; they throw
\* std::invalid_argument when it is empty.
Unsigned(s) == IF s # <<>> /\ s[1] = Minus THEN Tail(s) ELSE s

DigitsOf(s) ==
    LET u == Unsigned(s)
        n == Max({k \in 0 .. Len(u) : \A i \in 1 .. k : u[i] \in Digit})
    IN SubSeq(u, 1, n)

IsNumeral(s) == DigitsOf(s) # <<>>

Sign(s) == IF Unsigned(s) # s THEN -1 ELSE 1

Stoi(s) == Sign(s) * FoldLeft(LAMBDA n, c : 10 * n + c - 48, 0, DigitsOf(s))

Stod(s) ==
    LET rest == SubSeq(Unsigned(s), Len(DigitsOf(s)) + 1, Len(Unsigned(s)))
        half == Len(rest) >= 2 /\ rest[1] = Point /\ rest[2] = 53
    IN 4 * Stoi(s) + IF half THEN Sign(s) * 2 ELSE 0

-----------------------------------------------------------------------------
(* Integer arithmetic, the templates of integer_parent_type.h. *)

\* The operands are promoted before the operator is applied: to int, or to
\* int64_t when one of them is.
Promoted(l, r, n) ==
    Wrap(IF "BIGINT" \in {l.type, r.type} THEN "BIGINT" ELSE "INTEGER", n)

WiderType(l, r) == IF Bits[l.type] >= Bits[r.type] THEN l.type ELSE r.type

\* The narrowing checks the first three templates begin with.
FitsNeither(l, r, n) == n # Wrap(l.type, n) /\ n # Wrap(r.type, n)

\* Faulty variant: the sign check that detects the overflow of the wider type
\* is missing.
AddValueUnchecked(l, r) ==
    LET sum == Promoted(l, r, l.val + r.val)
    IN IF FitsNeither(l, r, sum) THEN Throw
       ELSE IntegerValue(WiderType(l, r), sum)

AddValue(l, r) ==
    LET x == l.val
        y == r.val
        sum == Promoted(l, r, x + y)
        kept == Wrap(WiderType(l, r), sum)
    IN IF \/ FitsNeither(l, r, sum)
          \/ x > 0 /\ y > 0 /\ kept < 0
          \/ x < 0 /\ y < 0 /\ kept > 0
       THEN Throw
       ELSE IntegerValue(WiderType(l, r), kept)

SubtractValue(l, r) ==
    LET x == l.val
        y == r.val
        diff == Promoted(l, r, x - y)
        kept == Wrap(WiderType(l, r), diff)
    IN IF \/ FitsNeither(l, r, diff)
          \/ x > 0 /\ y < 0 /\ kept < 0
          \/ x < 0 /\ y > 0 /\ kept > 0
       THEN Throw
       ELSE IntegerValue(WiderType(l, r), kept)

MultiplyValue(l, r) ==
    LET prod == Promoted(l, r, l.val * r.val)
        kept == Wrap(WiderType(l, r), prod)
    IN IF \/ FitsNeither(l, r, prod)
          \/ r.val # 0 /\ Truncated(kept, r.val) # l.val
       THEN Throw
       ELSE IntegerValue(WiderType(l, r), kept)

DivideValue(l, r) ==
    IF r.val = 0 THEN Throw
    ELSE IntegerValue(WiderType(l, r), Truncated(l.val, r.val))

ModuloValue(l, r) ==
    IF r.val = 0 THEN Throw
    ELSE IntegerValue(WiderType(l, r), l.val - Truncated(l.val, r.val) * r.val)

IntegerMethod(op, l, r) ==
    CASE op = "+" -> AddValue(l, r)
      [] op = "-" -> SubtractValue(l, r)
      [] op = "*" -> MultiplyValue(l, r)
      [] op = "/" -> DivideValue(l, r)
      [] op = "%" -> ModuloValue(l, r)

\* The same operators on doubles; x and y are quarters.
DoubleMethod(op, x, y) ==
    DecimalValue(CASE op = "+" -> x + y
                   [] op = "-" -> x - y
                   [] op = "*" -> Truncated(x * y, 4)
                   [] op = "/" -> Truncated(4 * x, y)
                   [] op = "%" -> x - Truncated(x, y) * y)

-----------------------------------------------------------------------------
(* Conversions by CastAs, one operator per type. *)

\* The upper bound a double is compared with: INT64_MAX itself is not a double,
\* and rounds up.
DoubleMax(t) == IF t = "BIGINT" THEN 4 * (MaxOf(t) + 1) ELSE 4 * MaxOf(t)

OutOfRange(v, t) == v.val > MaxOf(t) \/ v.val < MinOf(t)

\* A cast of a number; `checked' holds the targets whose range is tested.
CastNumber(v, t, checked) ==
    CASE t \notin Numeric \cup {"VARCHAR"} -> Throw
      [] v.null -> GetNullValueByType(t)
      [] t \in Integral ->
           IF t \in checked /\ OutOfRange(v, t) THEN Throw
           ELSE IntegerValue(t, v.val)
      [] t = "DECIMAL" -> DecimalValue(4 * v.val)
      [] t = "VARCHAR" -> VarcharValue(IntegerText(v.val))

TinyintCastAs(v, t) == CastNumber(v, t, {})

SmallintCastAs(v, t) == CastNumber(v, t, {"TINYINT"})

IntegerCastAs(v, t) == CastNumber(v, t, {"TINYINT", "SMALLINT"})

BigintCastAs(v, t) == CastNumber(v, t, {"TINYINT", "SMALLINT", "INTEGER"})

DecimalCastAs(v, t) ==
    CASE t = "DECIMAL" -> v
      [] t = "BOOLEAN" -> Throw
      [] v.null -> GetNullValueByType(t)
      [] t = "VARCHAR" -> VarcharValue(DecimalText(v.val))
      [] t = "BIGINT" ->
           IF v.val >= DoubleMax(t) \/ v.val < 4 * MinOf(t) THEN Throw
           ELSE IntegerValue(t, Truncated(v.val, 4))
      [] OTHER ->
           IF v.val > DoubleMax(t) \/ v.val < 4 * MinOf(t) THEN Throw
           ELSE IntegerValue(t, Truncated(v.val, 4))

BooleanCastAs(v, t) ==
    CASE t = "BOOLEAN" -> v
      [] t = "VARCHAR" -> IF v.null THEN NullVarchar
                          ELSE VarcharValue(BooleanText(v.val))
      [] OTHER -> Throw

\* stoi reads an int whatever the target: the casts to TINYINT and SMALLINT
\* then drop the high bits, and only the sentinel is refused.
StoredInteger(n, t) ==
    LET parser == IF t = "BIGINT" THEN "BIGINT" ELSE "INTEGER"
    IN IF n > MaxOf(parser) \/ n < NullOf(parser) \/ Wrap(t, n) < MinOf(t)
       THEN Throw ELSE IntegerValue(t, Wrap(t, n))

ParseInteger(s, t, invalid) ==
    IF IsNumeral(s) THEN StoredInteger(Stoi(s), t) ELSE invalid

ParseBoolean(s) ==
    CASE s \in {TrueText, IntegerText(1)} -> IntegerValue("BOOLEAN", 1)
      [] s \in {FalseText, IntegerText(0)} -> IntegerValue("BOOLEAN", 0)
      [] OTHER -> Throw

\* The text of a null is converted like any other; std::invalid_argument is
\* not caught.
VarlenCastAs(v, t) ==
    CASE t = "VARCHAR" -> v
      [] t = "BOOLEAN" -> ParseBoolean(VarcharText(v))
      [] t = "DECIMAL" -> IF IsNumeral(VarcharText(v))
                          THEN DecimalValue(Stod(VarcharText(v))) ELSE StdThrow
      [] OTHER -> ParseInteger(VarcharText(v), t, StdThrow)

CastAs(v, t) ==
    CASE v.type = "TINYINT" -> TinyintCastAs(v, t)
      [] v.type = "SMALLINT" -> SmallintCastAs(v, t)
      [] v.type = "INTEGER" -> IntegerCastAs(v, t)
      [] v.type = "BIGINT" -> BigintCastAs(v, t)
      [] v.type = "DECIMAL" -> DecimalCastAs(v, t)
      [] v.type = "BOOLEAN" -> BooleanCastAs(v, t)
      [] v.type = "VARCHAR" -> VarlenCastAs(v, t)

-----------------------------------------------------------------------------
(* Conversions by the value factory, one operator per target. *)

\* `checked' holds the source types whose range is tested.  The one double
\* that passes the test of CastAsBigInt and does not fit in an int64_t, 2^63,
\* becomes INT64_MIN by the conversion of the hardware.
FactoryInteger(v, t, checked) ==
    CASE ~IsCoercableFrom(t, v.type) -> Throw
      [] v.null -> GetNullValueByType(t)
      [] v.type = "VARCHAR" -> ParseInteger(v.text, t, Throw)
      [] v.type = "DECIMAL" ->
           IF v.val > DoubleMax(t) \/ v.val < 4 * MinOf(t) THEN Throw
           ELSE IntegerValue(t, Truncated(v.val, 4))
      [] OTHER -> IF v.type \in checked /\ OutOfRange(v, t) THEN Throw
                  ELSE IntegerValue(t, v.val)

CastAsTinyInt(v) ==
    FactoryInteger(v, "TINYINT", {"SMALLINT", "INTEGER", "BIGINT"})

CastAsSmallInt(v) == FactoryInteger(v, "SMALLINT", {"INTEGER", "BIGINT"})


CastAsInteger(v) == FactoryInteger(v, "INTEGER", {"BIGINT"})

CastAsBigInt(v) == FactoryInteger(v, "BIGINT", {})

CastAsDecimal(v) ==
    CASE ~IsCoercableFrom("DECIMAL", v.type) -> Throw
      [] v.null -> GetNullValueByType("DECIMAL")
      [] v.type # "VARCHAR" -> DecimalValue(Quarters(v))
      [] OTHER -> IF IsNumeral(v.text) THEN DecimalValue(Stod(v.text))
                  ELSE Throw

CastAsVarchar(v) ==
    IF v.null THEN NullVarchar ELSE VarcharValue(ValueToString(v))

CastAsBoolean(v) ==
    CASE v.null -> GetNullValueByType("BOOLEAN")
      [] v.type = "BOOLEAN" -> v
      [] v.type = "VARCHAR" -> ParseBoolean(v.text)
      [] OTHER -> Throw

FactoryCast(v, t) ==
    CASE t = "TINYINT" -> CastAsTinyInt(v)
      [] t = "SMALLINT" -> CastAsSmallInt(v)
      [] t = "INTEGER" -> CastAsInteger(v)
      [] t = "BIGINT" -> CastAsBigInt(v)
      [] t = "DECIMAL" -> CastAsDecimal(v)
      [] t = "VARCHAR" -> CastAsVarchar(v)
      [] t = "BOOLEAN" -> CastAsBoolean(v)

-----------------------------------------------------------------------------
(* The arithmetic of each type. *)

\* OperateNull: the null of the type the operation would have had.
TinyintOperateNull(r) ==
    IF r.type \in Numeric THEN GetNullValueByType(r.type) ELSE Throw

SmallintOperateNull(r) ==
    CASE r.type \in {"TINYINT", "SMALLINT"} -> GetNullValueByType("SMALLINT")
      [] r.type \in {"INTEGER", "BIGINT", "DECIMAL"} -> GetNullValueByType(r.type)
      [] OTHER -> Throw

IntegerOperateNull(r) ==
    CASE r.type \in Integral \ {"BIGINT"} -> GetNullValueByType("INTEGER")
      [] r.type \in {"BIGINT", "DECIMAL"} -> GetNullValueByType(r.type)
      [] OTHER -> Throw

BigintOperateNull(r) ==
    CASE r.type \in Integral -> GetNullValueByType("BIGINT")
      [] r.type = "DECIMAL" -> GetNullValueByType("DECIMAL")
      [] OTHER -> Throw

DecimalOperateNull(r) == GetNullValueByType("DECIMAL")

OperateNull(l, r) ==
    CASE l.type = "TINYINT" -> TinyintOperateNull(r)
      [] l.type = "SMALLINT" -> SmallintOperateNull(r)
      [] l.type = "INTEGER" -> IntegerOperateNull(r)
      [] l.type = "BIGINT" -> BigintOperateNull(r)
      [] l.type = "DECIMAL" -> DecimalOperateNull(r)
      [] OTHER -> NotImplemented

\* Divide and Modulo test right.IsZero() first, which a VARCHAR does not have.
ZeroTest(op, r) ==
    op \in {"/", "%"} /\ (r.type = "VARCHAR" \/ r.val = 0)

\* A VARCHAR on the right is first cast to the type of the left operand.
RightOperand(l, r) == IF r.type = "VARCHAR" THEN VarlenCastAs(r, l.type) ELSE r

\* *_MODIFY_FUNC of the integer types.
Modified(op, l, r) ==
    CASE Thrown(r) -> r
      [] r.type \in Integral -> IntegerMethod(op, l, r)
      [] r.type = "DECIMAL" -> DoubleMethod(op, Quarters(l), r.val)

ModifyFunc(op, l, r) == Modified(op, l, RightOperand(l, r))

TinyintArithmetic(op, l, r) ==
    CASE l.null \/ r.null -> TinyintOperateNull(r)
      [] ZeroTest(op, r) -> Throw
      [] OTHER -> ModifyFunc(op, l, r)

SmallintArithmetic(op, l, r) ==
    CASE l.null \/ r.null -> SmallintOperateNull(r)
      [] ZeroTest(op, r) -> Throw
      [] OTHER -> ModifyFunc(op, l, r)

IntegerArithmetic(op, l, r) ==
    CASE l.null \/ r.null -> IntegerOperateNull(r)
      [] ZeroTest(op, r) -> Throw
      [] OTHER -> ModifyFunc(op, l, r)

BigintArithmetic(op, l, r) ==
    CASE l.null \/ r.null -> BigintOperateNull(r)
      [] ZeroTest(op, r) -> Throw
      [] OTHER -> ModifyFunc(op, l, r)

DecimalModified(op, l, r) ==
    IF Thrown(r) THEN r ELSE DoubleMethod(op, l.val, Quarters(r))

DecimalArithmetic(op, l, r) ==
    CASE l.null \/ r.null -> DecimalOperateNull(r)
      [] ZeroTest(op, r) -> Throw
      [] OTHER -> DecimalModified(op, l, RightOperand(l, r))

Arithmetic(op, l, r) ==
    CASE l.type = "TINYINT" -> TinyintArithmetic(op, l, r)
      [] l.type = "SMALLINT" -> SmallintArithmetic(op, l, r)
      [] l.type = "INTEGER" -> IntegerArithmetic(op, l, r)
      [] l.type = "BIGINT" -> BigintArithmetic(op, l, r)
      [] l.type = "DECIMAL" -> DecimalArithmetic(op, l, r)
      [] OTHER -> NotImplemented

-----------------------------------------------------------------------------
(* Comparison. *)

Holds(op, x, y) ==
    CASE op = "=" -> x = y
      [] op = "!=" -> x # y
      [] op = "<" -> x < y
      [] op = "<=" -> x <= y
      [] op = ">" -> x > y
      [] op = ">=" -> x >= y

GetCmpBool(b) == IF b THEN "CmpTrue" ELSE "CmpFalse"

\* *_COMPARE_FUNC of a numeric type.
Compared(op, l, r) ==
    IF Thrown(r) THEN "throw" ELSE GetCmpBool(Holds(op, Quarters(l), Quarters(r)))

CompareNumber(op, l, r) ==
    IF l.null \/ r.null THEN "CmpNull" ELSE Compared(op, l, RightOperand(l, r))

TinyintCompare(op, l, r) == CompareNumber(op, l, r)

SmallintCompare(op, l, r) == CompareNumber(op, l, r)


IntegerCompare(op, l, r) == CompareNumber(op, l, r)

BigintCompare(op, l, r) == CompareNumber(op, l, r)

DecimalCompare(op, l, r) == CompareNumber(op, l, r)

BooleanCompare(op, l, r) ==
    IF l.null \/ r.null THEN "CmpNull" ELSE Compared(op, l, CastAs(r, "BOOLEAN"))

VarlenCompare(op, l, r) ==
    IF l.null \/ r.null THEN "CmpNull"
    ELSE GetCmpBool(Holds(op, CompareStrings(l.text, CastAs(r, "VARCHAR").text), 0))

Compare(op, l, r) ==
    CASE l.type = "TINYINT" -> TinyintCompare(op, l, r)
      [] l.type = "SMALLINT" -> SmallintCompare(op, l, r)
      [] l.type = "INTEGER" -> IntegerCompare(op, l, r)
      [] l.type = "BIGINT" -> BigintCompare(op, l, r)
      [] l.type = "DECIMAL" -> DecimalCompare(op, l, r)
      [] l.type = "BOOLEAN" -> BooleanCompare(op, l, r)
      [] l.type = "VARCHAR" -> VarlenCompare(op, l, r)

\* Min and Max of the integer types, then of DECIMAL and VARCHAR; they differ
\* in which operand a tie returns.
Chosen(take, l, r) == IF take = "CmpTrue" THEN l ELSE r

IntegerMin(l, r) ==
    IF l.null \/ r.null THEN OperateNull(l, r)
    ELSE Chosen(Compare("<", l, r), l, r)

IntegerMax(l, r) ==
    IF l.null \/ r.null THEN OperateNull(l, r)
    ELSE Chosen(Compare(">=", l, r), l, r)

DecimalMin(l, r) ==
    IF l.null \/ r.null THEN OperateNull(l, r)
    ELSE Chosen(Compare("<=", l, r), l, r)

DecimalMax(l, r) ==
    IF l.null \/ r.null THEN OperateNull(l, r)
    ELSE Chosen(Compare(">=", l, r), l, r)

VarlenMin(l, r) ==
    IF l.null \/ r.null THEN OperateNull(l, r)
    ELSE Chosen(Compare("<", l, r), l, r)

VarlenMax(l, r) ==
    IF l.null \/ r.null THEN OperateNull(l, r)
    ELSE Chosen(Compare(">", l, r), l, r)

ValueMin(l, r) ==
    CASE l.type \in Integral -> IntegerMin(l, r)
      [] l.type = "DECIMAL" -> DecimalMin(l, r)
      [] l.type = "VARCHAR" -> VarlenMin(l, r)

ValueMax(l, r) ==
    CASE l.type \in Integral -> IntegerMax(l, r)
      [] l.type = "DECIMAL" -> DecimalMax(l, r)
      [] l.type = "VARCHAR" -> VarlenMax(l, r)

=============================================================================
