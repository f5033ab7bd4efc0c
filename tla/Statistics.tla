----------------------------- MODULE Statistics -----------------------------
(***************************************************************************)
(* What the statistics of a row group say of a simple predicate on a       *)
(* column, and of a connective of such: it may hold for a row of the       *)
(* group, it must hold for every row (parquet/src/row-group-pruning.ts).   *)
(* The filters in full, and the groups a file is read by, are in Pruning.  *)
(***************************************************************************)
EXTENDS SqlValues

CONSTANT NoStats   \* the statistics of a column that has none

\* Statistics of a column chunk: its bounds, and whether the null count is
\* known to be zero.
Stats(min, max, hasNoNulls) == [min |-> min, max |-> max, hasNoNulls |-> hasNoNulls]

\* isStatsValue: finite numbers, text, bigints, booleans and timestamps.
IsStatsValue(v) == v.type \in {"string", "number", "bigint", "boolean", "timestamp"}

SameComparableType(l, r) ==
  IF "timestamp" \in {l.type, r.type}
  THEN HasInstant(l) /\ HasInstant(r)
  ELSE l.type = r.type \/ {l.type, r.type} = {"number", "bigint"}

\* compareValues: instants whenever both sides denote one, text included.
CompareValues(l, r) ==
  IF HasInstant(l) /\ HasInstant(r)
  THEN Order(l.instant, r.instant) ELSE Order(l.key, r.key)

InvertOp(op) ==
  CASE op = "lt" -> "gt" [] op = "lte" -> "gte"
    [] op = "gt" -> "lt" [] op = "gte" -> "lte" [] OTHER -> op

Usable(stats, v) ==
  /\ stats # NoStats
  /\ IsStatsValue(v)
  /\ SameComparableType(stats.min, v) /\ SameComparableType(stats.max, v)

CompareMayMatch(stats, op, v) ==
  Usable(stats, v) =>
    LET low == CompareValues(stats.min, v)
        high == CompareValues(stats.max, v)
    IN  CASE op = "eq" -> low <= 0 /\ high >= 0
          [] op = "ne" -> ~(low = 0 /\ high = 0)
          [] op = "lt" -> low < 0
          [] op = "lte" -> low <= 0
          [] op = "gt" -> high > 0
          [] op = "gte" -> high >= 0

CompareMustMatch(stats, op, v) ==
  /\ Usable(stats, v)
  /\ stats.hasNoNulls
  /\ LET low == CompareValues(stats.min, v)
         high == CompareValues(stats.max, v)
     IN  CASE op = "eq" -> low = 0 /\ high = 0
           [] op = "ne" -> low > 0 \/ high < 0
           [] op = "lt" -> high < 0
           [] op = "lte" -> high <= 0
           [] op = "gt" -> low > 0
           [] op = "gte" -> low >= 0

\* A NULL in the list, or a value the statistics do not speak of, keeps the group.
InMayMatch(stats, negated, values) ==
  \/ negated \/ stats = NoStats
  \/ \E v \in values : Usable(stats, v) =>
       CompareValues(v, stats.min) >= 0 /\ CompareValues(v, stats.max) <= 0

\* between: min is compared with the low bound's type, max with the high one's.
BetweenUsable(stats, low, high) ==
  /\ IsStatsValue(low) /\ IsStatsValue(high) /\ stats # NoStats
  /\ SameComparableType(stats.min, low) /\ SameComparableType(stats.max, high)

BetweenMayMatch(stats, low, high) ==
  BetweenUsable(stats, low, high) =>
    CompareValues(stats.max, low) >= 0 /\ CompareValues(stats.min, high) <= 0

BetweenMustMatch(stats, low, high) ==
  /\ BetweenUsable(stats, low, high)
  /\ stats.hasNoNulls
  /\ CompareValues(stats.min, low) >= 0 /\ CompareValues(stats.max, high) <= 0

\* A connective asks its operands, in both directions alike.
Connected(op, answers) ==
  IF op = "and" THEN \A i \in DOMAIN answers : answers[i]
  ELSE \E i \in DOMAIN answers : answers[i]
-----------------------------------------------------------------------------
\* What the answers rest on.  A writer's bounds are those of the column's values,
\* which are of one type; a null count of zero is true.
Recorded(stats, cell) ==
  /\ stats.min.type = stats.max.type /\ IsStatsValue(stats.min)
  /\ IF cell = Null THEN ~stats.hasNoNulls
     ELSE /\ cell.type = stats.min.type
          /\ stats.min.key <= cell.key /\ cell.key <= stats.max.key

\* Values of one type and one key are one value, and those that denote instants
\* are ordered as these are.  Texts in ISO form are if their fractions have one
\* length, and are not otherwise.
InTimeOrder(values) ==
  \A v, w \in values : v.type = w.type =>
    /\ v.key = w.key => v = w
    /\ HasInstant(v) /\ HasInstant(w) => Order(v.key, w.key) = Order(v.instant, w.instant)
=============================================================================
