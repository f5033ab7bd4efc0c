----------------------------- MODULE SqlValues -----------------------------
(***************************************************************************)
(* Scalar values and SQL's three-valued logic (core/src/evaluator.ts,      *)
(* expr.ts, timestamp.ts).                                                 *)
(*                                                                         *)
(* A value is a record: its JavaScript type, a key that orders the values  *)
(* of the type, and the instant the value denotes where it denotes one (a  *)
(* timestamp, or a text in ISO form).  Text whose order and whose instants *)
(* disagree ("...00.5Z" sorts before "...00Z") is in the model.  NaN has a *)
(* type of its own that counts as a number.  A thrown LakeqlError is a     *)
(* value of type "error" whose key is its code.                            *)
(***************************************************************************)
EXTENDS Integers, Sequences, FiniteSets

CONSTANT NoInstant   \* the instant of a value that denotes none; not a time

ASSUME NoInstantAssumption == NoInstant \in Int

Value(type, key, instant) == [type |-> type, key |-> key, instant |-> instant]
Null == Value("null", 0, NoInstant)
True == Value("boolean", 1, NoInstant)
False == Value("boolean", 0, NoInstant)
Number(n) == Value("number", n, NoInstant)
BigInt(n) == Value("bigint", n, NoInstant)
NaN == Value("nan", 0, NoInstant)
Text(k, instant) == Value("string", k, instant)
Binary == Value("binary", 0, NoInstant)
Timestamp(ticks) == Value("timestamp", ticks, ticks)

Error(code) == Value("error", code, NoInstant)
TypeError == Error(1)
Unsupported == Error(2)
UnknownColumn == Error(3)
IsError(v) == v.type = "error"

Bool(b) == IF b THEN True ELSE False

IsNumberLike(v) == v.type \in {"number", "nan", "bigint"}
JsType(v) == IF v.type = "nan" THEN "number" ELSE v.type

\* timestampEvalValue: a timestamp, or a text that parses as one.
HasInstant(v) == v.type \in {"timestamp", "string"} /\ v.instant # NoInstant

CompareOps == {"eq", "ne", "lt", "lte", "gt", "gte"}

CompareOrder(op, order) ==
  \/ op = "eq" /\ order = 0
  \/ op = "ne" /\ order # 0
  \/ op = "lt" /\ order < 0
  \/ op = "lte" /\ order <= 0
  \/ op = "gt" /\ order > 0
  \/ op = "gte" /\ order >= 0

Order(a, b) == IF a < b THEN -1 ELSE IF a > b THEN 1 ELSE 0

\* left < right ? -1 : left > right ? 1 : 0, which is 0 for NaN.
ValueOrder(l, r) ==
  IF "nan" \in {l.type, r.type} THEN 0 ELSE Order(l.key, r.key)

Comparable(l, r) ==
  IF "timestamp" \in {l.type, r.type}
  THEN HasInstant(l) /\ HasInstant(r)
  ELSE /\ "binary" \notin {l.type, r.type}
       /\ JsType(l) = JsType(r) \/ (IsNumberLike(l) /\ IsNumberLike(r))

Compare(op, l, r) ==
  IF Null \in {l, r} THEN Null
  ELSE IF ~Comparable(l, r) THEN TypeError
  ELSE IF "timestamp" \in {l.type, r.type}
       THEN Bool(CompareOrder(op, Order(l.instant, r.instant)))
       ELSE Bool(CompareOrder(op, ValueOrder(l, r)))

\* sqlAnd and sqlOr over the operands of a conjunction or a disjunction.
AllOf(values) == IF False \in values THEN False ELSE IF Null \in values THEN Null ELSE True
AnyOf(values) == IF True \in values THEN True ELSE IF Null \in values THEN Null ELSE False

LogicalResult(op, values) == IF op = "and" THEN AllOf(values) ELSE AnyOf(values)

SqlAnd(l, r) == AllOf({l, r})
SqlOr(l, r) == AnyOf({l, r})

SqlNot(v) == IF v = Null THEN Null ELSE Bool(v = False)

\* toSqlBoolean: what is neither NULL nor boolean is refused.
ToSqlBoolean(v) ==
  IF v.type \in {"null", "boolean", "error"} THEN v ELSE TypeError

\* The values are compared in order; the loop ends at the first hit, and a
\* refused comparison ends it too.
InResult(results) ==
  LET ends == {i \in DOMAIN results : results[i] = True \/ IsError(results[i])}
  IN  IF ends # {} THEN results[CHOOSE i \in ends : \A j \in ends : i <= j]
      ELSE IF \E i \in DOMAIN results : results[i] = Null THEN Null ELSE False

InList(target, values) ==
  IF target = Null THEN Null
  ELSE InResult([i \in DOMAIN values |-> Compare("eq", target, values[i])])

\* The remainder of JavaScript, whose sign is the dividend's.
Remainder(a, b) ==
  LET m(x) == IF x < 0 THEN -x ELSE x
      r == m(a) % m(b)
  IN  IF a < 0 THEN -r ELSE r

\* Division, whose results are not integers, is left to the other operations'
\* control, which it shares.
Arithmetic(op, l, r) ==
  IF Null \in {l, r} THEN Null
  ELSE IF ~(JsType(l) = "number" /\ JsType(r) = "number") THEN TypeError
  ELSE IF "nan" \in {l.type, r.type} THEN NaN
  ELSE CASE op = "add" -> Number(l.key + r.key)
         [] op = "sub" -> Number(l.key - r.key)
         [] op = "mul" -> Number(l.key * r.key)
         [] op = "mod" -> IF r.key = 0 THEN NaN ELSE Number(Remainder(l.key, r.key))

\* jsonSafeValue, and JSON itself: a bigint becomes a number, a timestamp its text,
\* and what is not a finite number null.
JsonScalar(v) ==
  CASE v.type = "bigint" -> Number(v.key)
    [] v.type = "timestamp" -> Text(v.key, v.instant)
    [] v = NaN -> Null
    [] OTHER -> v
=============================================================================
