---------------------------- MODULE Expressions -----------------------------
(***************************************************************************)
(* The expressions of a query plan and their evaluation                    *)
(* (include/execution/expressions/).  A tuple is the sequence of its       *)
(* values; columns count from 1.  A constructor that throws yields a node  *)
(* of type "THROW", as do the binder and the planner: what is thrown is a  *)
(* bustub::Exception, the std::logic_error of UNREACHABLE, or the          *)
(* dereference of a null pointer.                                          *)
(***************************************************************************)
EXTENDS TypeSystem

Refuse(what) == [type |-> "THROW", what |-> what]

IsThrow(node) == node.type = "THROW"

\* The first of the parts that threw, or else the node made of them.
Checked(parts, node) ==
    LET i == SelectInSeq(parts, IsThrow)
    IN IF i = 0 THEN node ELSE parts[i]

ColumnValueExpression(tuple, col, ret) ==
    [type |-> "ColumnValue", tuple |-> tuple, col |-> col, ret |-> ret,
     children |-> <<>>]

ConstantValueExpression(val) ==
    [type |-> "ConstantValue", val |-> val, ret |-> val.type, children |-> <<>>]

ComparisonExpression(op, l, r) ==
    [type |-> "Comparison", op |-> op, ret |-> "BOOLEAN", children |-> <<l, r>>]

ArithmeticExpression(op, l, r) ==
    IF l.ret # "INTEGER" \/ r.ret # "INTEGER" THEN Refuse("exception")
    ELSE [type |-> "Arithmetic", op |-> op, ret |-> "INTEGER",
          children |-> <<l, r>>]

LogicExpression(op, l, r) ==
    IF l.ret # "BOOLEAN" \/ r.ret # "BOOLEAN" THEN Refuse("exception")
    ELSE [type |-> "Logic", op |-> op, ret |-> "BOOLEAN", children |-> <<l, r>>]

-----------------------------------------------------------------------------

\* The comparison itself may have thrown.
GetBooleanValue(cmp) ==
    CASE cmp = "throw" -> Throw
      [] cmp = "CmpNull" -> IntegerValue("BOOLEAN", NullOf("BOOLEAN"))
      [] OTHER -> IntegerValue("BOOLEAN", IF cmp = "CmpTrue" THEN 1 ELSE 0)

GetBoolAsCmpBool(v) == IF v.null THEN "CmpNull" ELSE GetCmpBool(v.val # 0)

PerformComparison(op, l, r) == Compare(op, l, r)

PerformArithmetic(op, l, r) ==
    IF l.null \/ r.null THEN GetNullValueByType("INTEGER")
    ELSE IntegerValue("INTEGER",
                      IF op = "+" THEN l.val + r.val ELSE l.val - r.val)

PerformLogic(op, l, r) ==
    LET cmp == {GetBoolAsCmpBool(l), GetBoolAsCmpBool(r)}
        decides == IF op = "and" THEN "CmpFalse" ELSE "CmpTrue"
    IN CASE decides \in cmp -> decides
         [] "CmpNull" \in cmp -> "CmpNull"
         [] OTHER -> IF op = "and" THEN "CmpTrue" ELSE "CmpFalse"

\* The operands are evaluated from left to right.
Perform(e, l, r) ==
    CASE Thrown(l) -> l
      [] Thrown(r) -> r
      [] e.type = "Comparison" ->
           GetBooleanValue(PerformComparison(e.op, l, r))
      [] e.type = "Arithmetic" -> PerformArithmetic(e.op, l, r)
      [] e.type = "Logic" -> GetBooleanValue(PerformLogic(e.op, l, r))

RECURSIVE Evaluate(_, _)
Evaluate(e, tuple) ==
    CASE e.type = "ColumnValue" -> tuple[e.col]
      [] e.type = "ConstantValue" -> e.val
      [] OTHER -> Perform(e, Evaluate(e.children[1], tuple),
                          Evaluate(e.children[2], tuple))

RECURSIVE EvaluateJoin(_, _, _)
EvaluateJoin(e, left, right) ==
    CASE e.type = "ColumnValue" ->
           IF e.tuple = 0 THEN left[e.col] ELSE right[e.col]
      [] e.type = "ConstantValue" -> e.val
      [] OTHER -> Perform(e, EvaluateJoin(e.children[1], left, right),
                          EvaluateJoin(e.children[2], left, right))

\* !value.IsNull() && value.GetAs<bool>(), the test of filters and joins.
IsTrue(v) == ~v.null /\ v.val # 0

=============================================================================
