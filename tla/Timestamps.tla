----------------------------- MODULE Timestamps -----------------------------
(***************************************************************************)
(* The TIMESTAMP type: its text and the mixed-radix number it is stored as *)
(* (ValueFactory::CastAsTimestamp in include/type/value_factory.h,         *)
(* type/timestamp_type.cpp).  A text is its form and its eight numbers;    *)
(* the short form has no microseconds.  The radices are those of the code, *)
(* scaled by the constants.                                                *)
(***************************************************************************)
EXTENDS Integers

CONSTANTS YearRadix, SecondRadix, MicroRadix,   \* 10000, 100000, 1000000
          Hours, Minutes, Seconds,              \* 24, 60, 60
          Word                                  \* 2^32, of the uint32_t timezone

ASSUME RadixAssumption == Hours * Minutes * Seconds <= SecondRadix

LeapYear(year) == (year % 4 = 0 /\ year % 100 # 0) \/ year % 400 = 0

max_day(year) == [month \in 1 .. 12 |->
    CASE month = 2 -> IF LeapYear(year) THEN 29 ELSE 28
      [] month \in {4, 6, 9, 11} -> 30
      [] OTHER -> 31]

\* The range checks; sscanf has read unsigned numbers.
InRange(t) ==
    /\ t.month \in 1 .. 12
    /\ t.day \in 1 .. max_day(t.year)[t.month]
    /\ t.hour < Hours /\ t.min < Minutes /\ t.sec < Seconds

\* The number of a text
Encoded(t) ==
    LET micro == IF t.form = "short" THEN 0 ELSE t.micro
        timezone == (t.tz + 12) % Word
        date == (((t.month * 32 + t.day) * 27 + timezone) * YearRadix) + t.year
    IN  (date * SecondRadix + t.hour * Minutes * Seconds + t.min * Seconds + t.sec) * MicroRadix + micro

\* Timestamps and their texts as values
Stamp(n) == [type |-> "TIMESTAMP", null |-> FALSE, val |-> n]
NullStamp == [Stamp(0) EXCEPT !.null = TRUE]
StampText(t) == [type |-> "VARCHAR", null |-> FALSE, val |-> t]
NullStampText == [type |-> "VARCHAR", null |-> TRUE, val |-> [form |-> "none"]]
StampThrow == [Stamp(0) EXCEPT !.type = "exception"]

\* CastAsTimestamp accepts the text.  The zone is tested before twelve is
\* added.
Accepts(t) == t.form \in {"long", "short"} /\ InRange(t) /\ t.tz <= 26

CastAsTimestamp(v) ==
    CASE v.type \notin {"VARCHAR", "TIMESTAMP"} -> StampThrow
      [] v.null -> NullStamp
      [] v.type = "TIMESTAMP" -> v
      [] OTHER -> IF Accepts(v.val) THEN Stamp(Encoded(v.val)) ELSE StampThrow

\* TimestampType::ToString
Decoded(n) ==
    LET second == (n \div MicroRadix) % SecondRadix
        date == n \div (MicroRadix * SecondRadix)
        zoned == date \div YearRadix
    IN  [form |-> "long", micro |-> n % MicroRadix,
         sec |-> second % Seconds, min |-> (second \div Seconds) % Minutes,
         hour |-> (second \div (Seconds * Minutes)) % Hours,
         year |-> date % YearRadix, tz |-> (zoned % 27) - 12,
         day |-> (zoned \div 27) % 32, month |-> zoned \div (27 * 32)]

TimestampCastAs(v, t) ==
    CASE t = "TIMESTAMP" -> v
      [] t # "VARCHAR" -> StampThrow
      [] v.null -> NullStampText
      [] OTHER -> StampText(Decoded(v.val))

\* A text that becomes a timestamp is printed as it was read, the
\* microseconds it leaves out as zero, for the zones that have a place in the
\* number: ToString takes apart what CastAsTimestamp puts together, and a null
\* stays one.
PrintsWhatItRead(v) ==
    LET stamp == CastAsTimestamp(v)
        read == v.val
    IN IF v.null THEN TimestampCastAs(stamp, v.type) = v
       ELSE v.type = "VARCHAR" /\ stamp.type = "TIMESTAMP" /\ read.tz \in -12 .. 14 =>
              TimestampCastAs(stamp, "VARCHAR")
                = StampText([read EXCEPT !.form = "long",
                                         !.micro = IF read.form = "short" THEN 0 ELSE @])

=============================================================================
