--------------------------- MODULE Statistics_proofs ---------------------------
(***************************************************************************)
(* What is proved of the answers of row-group statistics, for every value, *)
(* every literal and every bound: a group they drop holds no row that      *)
(* passes, and a group they satisfy holds no row that does not.            *)
(***************************************************************************)
EXTENDS Statistics, WellFoundedInduction, TLAPS

(* The values of a row and of a literal.                                    *)
Scalars ==
    {Null, True, False, NaN, Binary}
        \cup {Number(n) : n \in Int} \cup {BigInt(n) : n \in Int}
        \cup {Text(k, i) : k \in Int, i \in Int}
        \cup {Timestamp(t) : t \in Int \ {NoInstant}}

(* Bounds as a writer leaves them, whatever it knows of NULLs.              *)
ColumnBounds == {Stats(low, high, noNulls) : low \in Scalars, high \in Scalars, noNulls \in BOOLEAN}

(* A value is its type, key and instant.                                    *)
LEMMA ScalarIs ==
    ASSUME NEW v \in Scalars
    PROVE  /\ v.key \in Int /\ v.instant \in Int
           /\ v.type \in {"null", "boolean", "nan", "binary", "number", "bigint", "string", "timestamp"}
           /\ v.type = "null" => v = Null
           /\ v.type = "timestamp" => v.instant = v.key /\ v.instant # NoInstant
BY NoInstantAssumption
   DEF Scalars, Null, True, False, NaN, Binary, Number, BigInt, Text, Timestamp, Value

LEMMA BoundsAre ==
    ASSUME NEW stats \in ColumnBounds
    PROVE  /\ stats.min \in Scalars /\ stats.max \in Scalars /\ stats.hasNoNulls \in BOOLEAN
           /\ stats = Stats(stats.min, stats.max, stats.hasNoNulls)
BY DEF ColumnBounds, Stats

(* Comparisons are three-valued and agree with the order of what they       *)
(* compare.                                                                 *)
OrderOf(v, w) ==
    IF "timestamp" \in {v.type, w.type}
    THEN Order(v.instant, w.instant) ELSE ValueOrder(v, w)

LEMMA TruthValues ==
    /\ Null # True /\ False # True /\ Null # False
    /\ TypeError # True /\ TypeError # Null /\ TypeError # False
    /\ \A b \in BOOLEAN : (Bool(b) = True <=> b) /\ Bool(b) # Null
BY DEF Null, True, False, TypeError, Error, Value, Bool

LEMMA CompareIs ==
    ASSUME NEW op \in CompareOps, NEW v \in Scalars, NEW w \in Scalars
    PROVE  Compare(op, v, w) = True
             <=> /\ v # Null /\ w # Null /\ Comparable(v, w)
                 /\ CompareOrder(op, OrderOf(v, w))
<1>1. CompareOrder(op, OrderOf(v, w)) \in BOOLEAN
  BY DEF CompareOrder
<1>2. Compare(op, v, w) = IF Null \in {v, w} THEN Null
                          ELSE IF ~Comparable(v, w) THEN TypeError
                          ELSE Bool(CompareOrder(op, OrderOf(v, w)))
  BY DEF Compare, OrderOf
<1> HIDE DEF OrderOf
<1> QED
  BY <1>1, <1>2, TruthValues
--------------------------------------------------------------------------------
(* A cell lies between its bounds however a literal is compared with them:  *)
(* as text, as a number, or as the instants both denote.                    *)
LEMMA CellBetweenBounds ==
    ASSUME NEW stats \in ColumnBounds, NEW cell \in Scalars, NEW v \in Scalars,
           Recorded(stats, cell), cell # Null, IsStatsValue(v),
           InTimeOrder({stats.min, stats.max, cell, v}),
           v.type = "timestamp" => HasInstant(cell)
    PROVE  /\ SameComparableType(stats.min, v) =>
                CompareValues(stats.min, v) <= OrderOf(cell, v) /\ Comparable(cell, v)
           /\ SameComparableType(stats.max, v) =>
                OrderOf(cell, v) <= CompareValues(stats.max, v) /\ Comparable(cell, v)
<1>1. PICK low, high \in Scalars : low = stats.min /\ high = stats.max
  BY BoundsAre
<1>2. /\ low.type = cell.type /\ high.type = cell.type /\ IsStatsValue(low)
      /\ low.key <= cell.key /\ cell.key <= high.key
  BY <1>1 DEF Recorded
<1>3. \A a, b \in {low, high, cell, v} :
        a.type = b.type /\ HasInstant(a) /\ HasInstant(b)
          => Order(a.key, b.key) = Order(a.instant, b.instant)
  BY <1>1 DEF InTimeOrder
<1>4. /\ low.key \in Int /\ high.key \in Int /\ cell.key \in Int /\ v.key \in Int
      /\ low.instant \in Int /\ high.instant \in Int /\ cell.instant \in Int /\ v.instant \in Int
  BY ScalarIs
<1>5. \A a, b, c \in Int :
        /\ Order(a, b) <= 0 <=> a <= b
        /\ a <= b => Order(a, c) <= Order(b, c)
  BY DEF Order
<1>6. /\ HasInstant(low) /\ HasInstant(cell) => low.instant <= cell.instant
      /\ HasInstant(cell) /\ HasInstant(high) => cell.instant <= high.instant
  BY <1>2, <1>3, <1>4, <1>5
<1>7. CASE "timestamp" \in {cell.type, v.type}
  <2>1. HasInstant(cell)
    BY <1>7, ScalarIs DEF HasInstant
  <2>2. ASSUME NEW b \in {low, high}, SameComparableType(b, v)
        PROVE  /\ HasInstant(b) /\ HasInstant(v)
               /\ CompareValues(b, v) = Order(b.instant, v.instant)
    BY <1>2, <1>7, <2>2 DEF SameComparableType, CompareValues
  <2>3. OrderOf(cell, v) = Order(cell.instant, v.instant)
    BY <1>7 DEF OrderOf
  <2>4. HasInstant(v) => Comparable(cell, v)
    BY <1>7, <2>1 DEF Comparable
  <2> QED
    BY <1>1, <1>4, <1>5, <1>6, <2>1, <2>2, <2>3, <2>4
<1>8. CASE "timestamp" \notin {cell.type, v.type}
  <2>1. ASSUME NEW b \in {low, high}, SameComparableType(b, v)
        PROVE  CompareValues(b, v) = Order(b.key, v.key) /\ Comparable(cell, v)
    <3>1. b.type = v.type \/ {b.type, v.type} = {"number", "bigint"}
      BY <1>2, <1>8, <2>1 DEF SameComparableType
    <3>2. CompareValues(b, v) = Order(b.key, v.key)
      <4>1. CASE HasInstant(b) /\ HasInstant(v)
        <5>1. b.type = v.type
          BY <3>1, <4>1 DEF HasInstant
        <5> QED
          BY <1>3, <4>1, <5>1 DEF CompareValues
      <4>2. CASE ~(HasInstant(b) /\ HasInstant(v))
        BY <4>2 DEF CompareValues
      <4> QED
        BY <4>1, <4>2
    <3>3. Comparable(cell, v)
      BY <1>2, <1>8, <3>1 DEF Comparable, IsStatsValue, IsNumberLike, JsType
    <3> QED
      BY <3>2, <3>3
  <2>2. OrderOf(cell, v) = Order(cell.key, v.key)
    BY <1>2, <1>8 DEF OrderOf, ValueOrder, IsStatsValue
  <2> QED
    BY <1>1, <1>2, <1>4, <1>5, <2>1, <2>2
<1> QED
  BY <1>7, <1>8
--------------------------------------------------------------------------------
(* A row group that the statistics drop for a comparison holds no row for   *)
(* which it is true (compareMayMatch).                                      *)
THEOREM DroppedGroupsHoldNoMatch ==
    ASSUME NEW stats \in ColumnBounds, NEW cell \in Scalars, NEW v \in Scalars,
           NEW op \in CompareOps, Recorded(stats, cell),
           InTimeOrder({stats.min, stats.max, cell, v}),
           ~CompareMayMatch(stats, op, v)
    PROVE  Compare(op, cell, v) # True
<1> SUFFICES ASSUME Compare(op, cell, v) = True PROVE FALSE
  OBVIOUS
<1> DEFINE low == CompareValues(stats.min, v)
           high == CompareValues(stats.max, v)
           order == OrderOf(cell, v)
<1>1. /\ IsStatsValue(v) /\ SameComparableType(stats.min, v) /\ SameComparableType(stats.max, v)
      /\ op = "eq" => ~(low <= 0 /\ high >= 0)
      /\ op = "ne" => low = 0 /\ high = 0
      /\ op = "lt" => ~(low < 0)
      /\ op = "lte" => ~(low <= 0)
      /\ op = "gt" => ~(high > 0)
      /\ op = "gte" => ~(high >= 0)
  BY DEF CompareMayMatch, Usable
<1>2. cell # Null /\ Comparable(cell, v) /\ CompareOrder(op, order)
  BY CompareIs
<1>3. v.type = "timestamp" => HasInstant(cell)
  BY <1>2 DEF Comparable
<1>4. low <= order /\ order <= high
  BY <1>1, <1>2, <1>3, CellBetweenBounds
<1>5. low \in -1 .. 1 /\ high \in -1 .. 1 /\ order \in -1 .. 1
  BY DEF CompareValues, OrderOf, ValueOrder, Order
<1> HIDE DEF low, high, order
<1> QED
  BY <1>1, <1>2, <1>4, <1>5 DEF CompareOps, CompareOrder

(* A row group that the statistics satisfy for a comparison holds only rows *)
(* for which it is true; a text that is no instant, compared with a         *)
(* timestamp, is let through where the evaluator refuses it                 *)
(* (compareMustMatch).                                                      *)
THEOREM SatisfiedGroupsMatch ==
    ASSUME NEW stats \in ColumnBounds, NEW cell \in Scalars, NEW v \in Scalars,
           NEW op \in CompareOps, Recorded(stats, cell),
           InTimeOrder({stats.min, stats.max, cell, v}),
           v.type = "timestamp" => HasInstant(cell) \/ cell = Null,
           CompareMustMatch(stats, op, v)
    PROVE  Compare(op, cell, v) = True
<1> DEFINE low == CompareValues(stats.min, v)
           high == CompareValues(stats.max, v)
           order == OrderOf(cell, v)
<1>1. /\ IsStatsValue(v) /\ SameComparableType(stats.min, v) /\ SameComparableType(stats.max, v)
      /\ stats.hasNoNulls
      /\ op = "eq" => low = 0 /\ high = 0
      /\ op = "ne" => low > 0 \/ high < 0
      /\ op = "lt" => high < 0
      /\ op = "lte" => high <= 0
      /\ op = "gt" => low > 0
      /\ op = "gte" => low >= 0
  BY DEF CompareMustMatch, Usable
<1>2. cell # Null /\ v # Null
  BY <1>1 DEF Recorded, IsStatsValue, Null, Value
<1>3. low <= order /\ order <= high /\ Comparable(cell, v)
  BY <1>1, <1>2, CellBetweenBounds
<1>4. low \in -1 .. 1 /\ high \in -1 .. 1 /\ order \in -1 .. 1
  BY DEF CompareValues, OrderOf, ValueOrder, Order
<1>5. CompareOrder(op, order)
  <2> HIDE DEF low, high, order
  <2> QED
    BY <1>1, <1>3, <1>4 DEF CompareOps, CompareOrder
<1> QED
  BY <1>2, <1>3, <1>5, CompareIs

(* A row group dropped for BETWEEN holds no row between its ends, and one   *)
(* that is satisfied no other row.  The low end is compared with the        *)
(* maximum and the high one with the minimum, without a test that they can  *)
(* be: the bounds both read as instants or neither does (betweenMayMatch,   *)
(* betweenMustMatch).                                                       *)
THEOREM RangesDropNoMatch ==
    ASSUME NEW stats \in ColumnBounds, NEW cell \in Scalars,
           NEW low \in Scalars, NEW high \in Scalars, Recorded(stats, cell),
           InTimeOrder({stats.min, stats.max, cell, low, high}),
           HasInstant(stats.min) <=> HasInstant(stats.max)
    PROVE  /\ ~BetweenMayMatch(stats, low, high) =>
                ~(Compare("gte", cell, low) = True /\ Compare("lte", cell, high) = True)
           /\ BetweenMustMatch(stats, low, high)
                /\ ("timestamp" \in {low.type, high.type} => HasInstant(cell) \/ cell = Null) =>
                Compare("gte", cell, low) = True /\ Compare("lte", cell, high) = True
<1>1. PICK min, max \in Scalars : min = stats.min /\ max = stats.max
  BY BoundsAre
<1>2. /\ IsStatsValue(min) /\ min.type = max.type
      /\ HasInstant(min) <=> HasInstant(max)
  BY <1>1 DEF Recorded
<1>3. \A v \in {low, high} : SameComparableType(min, v) <=> SameComparableType(max, v)
  BY <1>2 DEF SameComparableType
<1>4. InTimeOrder({stats.min, stats.max, cell, low}) /\ InTimeOrder({stats.min, stats.max, cell, high})
  BY DEF InTimeOrder
<1>5. ASSUME NEW v \in {low, high}, IsStatsValue(v), SameComparableType(min, v), cell # Null,
             v.type = "timestamp" => HasInstant(cell)
      PROVE  /\ CompareValues(min, v) <= OrderOf(cell, v) /\ OrderOf(cell, v) <= CompareValues(max, v)
             /\ Comparable(cell, v) /\ v # Null
  <2>1. SameComparableType(max, v) /\ v # Null
    BY <1>3, <1>5 DEF IsStatsValue, Null, Value
  <2>2. v \in Scalars /\ InTimeOrder({stats.min, stats.max, cell, v})
    BY <1>4
  <2> QED
    BY <1>1, <1>5, <2>1, <2>2, CellBetweenBounds
<1>6. \A v \in {low, high} : /\ CompareValues(min, v) \in -1 .. 1 /\ CompareValues(max, v) \in -1 .. 1
                             /\ OrderOf(cell, v) \in -1 .. 1
  BY DEF CompareValues, OrderOf, ValueOrder, Order
<1>7. ASSUME ~BetweenMayMatch(stats, low, high),
             Compare("gte", cell, low) = True, Compare("lte", cell, high) = True
      PROVE  FALSE
  <2>1. /\ IsStatsValue(low) /\ IsStatsValue(high)
        /\ SameComparableType(min, low) /\ SameComparableType(max, high)
        /\ ~(CompareValues(max, low) >= 0 /\ CompareValues(min, high) <= 0)
    BY <1>1, <1>7 DEF BetweenMayMatch, BetweenUsable
  <2>2. "gte" \in CompareOps /\ "lte" \in CompareOps
    BY DEF CompareOps
  <2>3. /\ cell # Null /\ Comparable(cell, low) /\ Comparable(cell, high)
        /\ OrderOf(cell, low) >= 0 /\ OrderOf(cell, high) <= 0
    <3>1. CompareOrder("gte", OrderOf(cell, low)) /\ CompareOrder("lte", OrderOf(cell, high))
      BY <1>7, <2>2, CompareIs
    <3> QED
      BY <1>7, <2>2, <3>1, CompareIs DEF CompareOrder
  <2>4. \A v \in {low, high} : v.type = "timestamp" => HasInstant(cell)
    BY <2>3 DEF Comparable
  <2>5. OrderOf(cell, low) <= CompareValues(max, low) /\ CompareValues(min, high) <= OrderOf(cell, high)
    BY <1>3, <1>5, <2>1, <2>3, <2>4
  <2> QED
    BY <1>6, <2>1, <2>3, <2>5
<1>8. ASSUME BetweenMustMatch(stats, low, high),
             "timestamp" \in {low.type, high.type} => HasInstant(cell) \/ cell = Null
      PROVE  Compare("gte", cell, low) = True /\ Compare("lte", cell, high) = True
  <2>1. /\ IsStatsValue(low) /\ IsStatsValue(high) /\ stats.hasNoNulls
        /\ SameComparableType(min, low) /\ SameComparableType(max, high)
        /\ CompareValues(min, low) >= 0 /\ CompareValues(max, high) <= 0
    BY <1>1, <1>8 DEF BetweenMustMatch, BetweenUsable
  <2>2. cell # Null
    BY <2>1 DEF Recorded
  <2>3. /\ CompareValues(min, low) <= OrderOf(cell, low) /\ Comparable(cell, low) /\ low # Null
        /\ OrderOf(cell, high) <= CompareValues(max, high) /\ Comparable(cell, high) /\ high # Null
    BY <1>3, <1>5, <1>8, <2>1, <2>2
  <2>4. CompareOrder("gte", OrderOf(cell, low)) /\ CompareOrder("lte", OrderOf(cell, high))
    BY <1>6, <2>1, <2>3 DEF CompareOrder
  <2>5. "gte" \in CompareOps /\ "lte" \in CompareOps
    BY DEF CompareOps
  <2> QED
    BY <2>2, <2>3, <2>4, <2>5, CompareIs
<1> QED
  BY <1>7, <1>8
--------------------------------------------------------------------------------
(* A list has a first position among any that are picked.                   *)
LEMMA FirstPosition ==
    ASSUME NEW S \in SUBSET Nat, S # {}
    PROVE  \E i \in S : \A j \in S : i <= j
<1>1. PICK i \in S : \A j \in S : ~(<<j, i>> \in OpToRel(<, Nat))
  <2>1. IsWellFoundedOn(OpToRel(<, Nat), Nat)
    BY NatLessThanWellFounded
  <2> QED
    BY <2>1, WFMin
<1>2. \A j \in S : ~(j < i)
  BY <1>1 DEF OpToRel
<1> QED
  BY <1>2

(* A value is found in a list only if it equals one of it.                  *)
LEMMA FoundIs ==
    ASSUME NEW cell \in Scalars, NEW values \in Seq(Scalars), InList(cell, values) = True
    PROVE  \E i \in 1 .. Len(values) : Compare("eq", cell, values[i]) = True
<1> DEFINE results == [i \in DOMAIN values |-> Compare("eq", cell, values[i])]
           ends == {i \in DOMAIN results : results[i] = True \/ IsError(results[i])}
           first == CHOOSE i \in ends : \A j \in ends : i <= j
<1>1. InResult(results) = True
  BY TruthValues DEF InList
<1>2. ends # {} /\ results[first] = True
  BY <1>1, TruthValues DEF InResult
<1>3. ends \in SUBSET Nat /\ DOMAIN results = 1 .. Len(values)
  OBVIOUS
<1>4. \E i \in ends : \A j \in ends : i <= j
  <2> HIDE DEF ends
  <2> QED
    BY <1>2, <1>3, FirstPosition
<1>5. first \in ends
  <2> HIDE DEF ends
  <2> QED
    BY <1>4
<1> QED
  BY <1>2, <1>3, <1>5

(* A row group that the statistics drop for a list holds no row whose value *)
(* is in the list (inMayMatch).                                             *)
THEOREM ListsDropNoMatch ==
    ASSUME NEW stats \in ColumnBounds, NEW cell \in Scalars, NEW values \in Seq(Scalars),
           Recorded(stats, cell),
           \A i \in DOMAIN values : InTimeOrder({stats.min, stats.max, cell, values[i]}),
           ~InMayMatch(stats, FALSE, {values[i] : i \in DOMAIN values})
    PROVE  InList(cell, values) # True
<1> SUFFICES ASSUME InList(cell, values) = True PROVE FALSE
  OBVIOUS
<1>1. PICK i \in 1 .. Len(values) : Compare("eq", cell, values[i]) = True
  BY FoundIs
<1>2. PICK v \in Scalars : v = values[i] /\ InTimeOrder({stats.min, stats.max, cell, v})
  BY <1>1
<1>3. "eq" \in CompareOps
  BY DEF CompareOps
<1>4. CompareMayMatch(stats, "eq", v)
  BY <1>1, <1>2, <1>3, DroppedGroupsHoldNoMatch
<1>5. /\ Usable(stats, v)
      /\ ~(CompareValues(v, stats.min) >= 0 /\ CompareValues(v, stats.max) <= 0)
  BY <1>2 DEF InMayMatch
<1>6. CompareValues(stats.min, v) <= 0 /\ CompareValues(stats.max, v) >= 0
  BY <1>4, <1>5 DEF CompareMayMatch
<1>7. \A b \in {stats.min, stats.max} : CompareValues(v, b) = -CompareValues(b, v)
  BY BoundsAre, ScalarIs DEF CompareValues, Order
<1> QED
  BY <1>5, <1>6, <1>7 DEF CompareValues, Order

(* A comparison may be turned round with the literal on its left, as        *)
(* columnLiteralCompare does: NULL, NaN and refusals included.              *)
THEOREM ComparisonsTurnRound ==
    ASSUME NEW op \in CompareOps, NEW v \in Scalars, NEW w \in Scalars
    PROVE  Compare(op, v, w) = Compare(InvertOp(op), w, v)
<1>1. Comparable(v, w) <=> Comparable(w, v)
  BY DEF Comparable
<1>2. /\ Order(v.key, w.key) = -Order(w.key, v.key)
      /\ Order(v.instant, w.instant) = -Order(w.instant, v.instant)
      /\ Order(w.key, v.key) \in Int /\ Order(w.instant, v.instant) \in Int
  BY ScalarIs DEF Order
<1>3. ValueOrder(v, w) = -ValueOrder(w, v) /\ ValueOrder(w, v) \in Int
  BY <1>2 DEF ValueOrder
<1>4. \A n \in Int : CompareOrder(op, -n) <=> CompareOrder(InvertOp(op), n)
  BY DEF CompareOps, CompareOrder, InvertOp
<1>5. /\ CompareOrder(op, ValueOrder(v, w)) <=> CompareOrder(InvertOp(op), ValueOrder(w, v))
      /\ CompareOrder(op, Order(v.instant, w.instant))
           <=> CompareOrder(InvertOp(op), Order(w.instant, v.instant))
  BY <1>2, <1>3, <1>4
<1>6. \A a, b : (a <=> b) => Bool(a) = Bool(b)
  BY DEF Bool
<1> QED
  BY <1>1, <1>5, <1>6 DEF Compare
--------------------------------------------------------------------------------
(* A filter of comparisons under connectives of two levels, one within the  *)
(* other: an OR of ANDs, an AND of ORs.  A comparison is what               *)
(* columnLiteralCompare makes of it.                                        *)
Comparisons(Columns) == [column : Columns, op : CompareOps, value : Scalars]
Connectives == {"and", "or"}

MayMatchOne(group, t) == CompareMayMatch(group[t.column], t.op, t.value)
MustMatchOne(group, t) == CompareMustMatch(group[t.column], t.op, t.value)
ResultOne(row, t) == Compare(t.op, row[t.column], t.value)

(* A filter is a sequence of sequences of comparisons: the answers of its   *)
(* operands, and its result.                                                *)
MayMatchFilter(outer, inner, filter, group) ==
    Connected(outer, [i \in DOMAIN filter |->
        Connected(inner, [j \in DOMAIN filter[i] |-> MayMatchOne(group, filter[i][j])])])
MustMatchFilter(outer, inner, filter, group) ==
    Connected(outer, [i \in DOMAIN filter |->
        Connected(inner, [j \in DOMAIN filter[i] |-> MustMatchOne(group, filter[i][j])])])
FilterResult(outer, inner, filter, row) ==
    LogicalResult(outer, {
        LogicalResult(inner, {ResultOne(row, filter[i][j]) : j \in DOMAIN filter[i]})
        : i \in DOMAIN filter})

(* What the group's statistics say of the row's cells is true.              *)
Described(group, row, t) ==
    group[t.column] # NoStats =>
        /\ Recorded(group[t.column], row[t.column])
        /\ InTimeOrder({group[t.column].min, group[t.column].max, row[t.column], t.value})

(* What one comparison's statistics say of its result.                      *)
LEMMA OneComparison ==
    ASSUME NEW Columns, NEW group \in [Columns -> ColumnBounds \cup {NoStats}],
           NEW row \in [Columns -> Scalars], NEW t \in Comparisons(Columns),
           Described(group, row, t), ResultOne(row, t) # TypeError
    PROVE  /\ ResultOne(row, t) \in {True, False, Null}
           /\ MayMatchOne(group, t) \in BOOLEAN /\ MustMatchOne(group, t) \in BOOLEAN
           /\ ResultOne(row, t) = True => MayMatchOne(group, t)
           /\ MustMatchOne(group, t) => ResultOne(row, t) = True
<1> DEFINE stats == group[t.column]
           cell == row[t.column]
<1>1. /\ t.column \in Columns /\ t.op \in CompareOps /\ t.value \in Scalars
      /\ cell \in Scalars /\ stats \in ColumnBounds \cup {NoStats}
  BY DEF Comparisons
<1>2. /\ ResultOne(row, t) \in {True, False, Null}
      /\ t.value.type = "timestamp" => HasInstant(cell) \/ cell = Null
  <2>1. Null \notin {cell, t.value} => Comparable(cell, t.value)
    BY DEF ResultOne, Compare
  <2>2. ResultOne(row, t) \in {True, False, Null, TypeError}
    BY DEF ResultOne, Compare, Bool
  <2>3. t.value.type = "timestamp" => t.value # Null
    BY DEF Null, Value
  <2> QED
    BY <2>1, <2>2, <2>3 DEF Comparable
<1>3. MayMatchOne(group, t) \in BOOLEAN /\ MustMatchOne(group, t) \in BOOLEAN
  BY <1>1 DEF MayMatchOne, MustMatchOne, CompareMayMatch, CompareMustMatch, CompareOps, Usable
<1>4. CASE stats = NoStats
  <2>1. MayMatchOne(group, t) /\ ~MustMatchOne(group, t)
    BY <1>4 DEF MayMatchOne, MustMatchOne, CompareMayMatch, CompareMustMatch, Usable
  <2> QED
    BY <1>2, <1>3, <2>1
<1>5. CASE stats # NoStats
  <2>1. Recorded(stats, cell) /\ InTimeOrder({stats.min, stats.max, cell, t.value})
    BY <1>5 DEF Described
  <2>2. stats \in ColumnBounds
    BY <1>1, <1>5
  <2>3. ~CompareMayMatch(stats, t.op, t.value) => Compare(t.op, cell, t.value) # True
    BY <1>1, <2>1, <2>2, DroppedGroupsHoldNoMatch
  <2>4. CompareMustMatch(stats, t.op, t.value) => Compare(t.op, cell, t.value) = True
    BY <1>1, <1>2, <2>1, <2>2, SatisfiedGroupsMatch
  <2> QED
    BY <1>2, <1>3, <2>3, <2>4 DEF MayMatchOne, MustMatchOne, ResultOne
<1> QED
  BY <1>4, <1>5

(* When a connective is true.                                               *)
LEMMA OneConnective ==
    ASSUME NEW op \in Connectives, NEW results \in SUBSET {True, False, Null}
    PROVE  /\ LogicalResult(op, results) \in {True, False, Null}
           /\ op = "and" => (LogicalResult(op, results) = True <=> \A x \in results : x = True)
           /\ op = "or" => (LogicalResult(op, results) = True <=> \E x \in results : x = True)
<1>1. /\ AllOf(results) = True <=> \A x \in results : x = True
      /\ AnyOf(results) = True <=> \E x \in results : x = True
      /\ AllOf(results) \in {True, False, Null} /\ AnyOf(results) \in {True, False, Null}
  BY TruthValues DEF AllOf, AnyOf
<1> QED
  BY <1>1 DEF LogicalResult, Connectives

(* A row group that rowGroupMayMatch drops for a filter of two levels of    *)
(* connectives holds no row for which the filter is true, and in one that   *)
(* rowGroupMustMatch satisfies it is true of every row: NULL cells, and     *)
(* columns without statistics, included.  No comparison is refused: a       *)
(* refused one fails the scan of a group that is read.                      *)
THEOREM FiltersKeepAnswers ==
    ASSUME NEW Columns, NEW group \in [Columns -> ColumnBounds \cup {NoStats}],
           NEW row \in [Columns -> Scalars], NEW filter \in Seq(Seq(Comparisons(Columns))),
           NEW outer \in Connectives, NEW inner \in Connectives,
           \A i \in DOMAIN filter : \A j \in DOMAIN filter[i] :
             Described(group, row, filter[i][j]) /\ ResultOne(row, filter[i][j]) # TypeError
    PROVE  /\ ~MayMatchFilter(outer, inner, filter, group) =>
                FilterResult(outer, inner, filter, row) # True
           /\ MustMatchFilter(outer, inner, filter, group) =>
                FilterResult(outer, inner, filter, row) = True
<1> DEFINE result(i) == LogicalResult(inner, {ResultOne(row, filter[i][j]) : j \in DOMAIN filter[i]})
           may(i) == Connected(inner, [j \in DOMAIN filter[i] |-> MayMatchOne(group, filter[i][j])])
           must(i) == Connected(inner, [j \in DOMAIN filter[i] |-> MustMatchOne(group, filter[i][j])])
<1>1. ASSUME NEW i \in DOMAIN filter
      PROVE  /\ result(i) \in {True, False, Null} /\ may(i) \in BOOLEAN /\ must(i) \in BOOLEAN
             /\ result(i) = True => may(i)
             /\ must(i) => result(i) = True
  <2> DEFINE J == DOMAIN filter[i]
             R == {ResultOne(row, filter[i][j]) : j \in J}
  <2>1. ASSUME NEW j \in J
        PROVE  /\ ResultOne(row, filter[i][j]) \in {True, False, Null}
               /\ MayMatchOne(group, filter[i][j]) \in BOOLEAN
               /\ MustMatchOne(group, filter[i][j]) \in BOOLEAN
               /\ ResultOne(row, filter[i][j]) = True => MayMatchOne(group, filter[i][j])
               /\ MustMatchOne(group, filter[i][j]) => ResultOne(row, filter[i][j]) = True
    <3>1. filter[i][j] \in Comparisons(Columns)
      OBVIOUS
    <3> QED
      BY <3>1, OneComparison
  <2>2. R \in SUBSET {True, False, Null}
    BY <2>1
  <2>3. /\ inner = "and" => /\ may(i) <=> \A j \in J : MayMatchOne(group, filter[i][j])
                            /\ must(i) <=> \A j \in J : MustMatchOne(group, filter[i][j])
        /\ inner = "or" => /\ may(i) <=> \E j \in J : MayMatchOne(group, filter[i][j])
                           /\ must(i) <=> \E j \in J : MustMatchOne(group, filter[i][j])
        /\ may(i) \in BOOLEAN /\ must(i) \in BOOLEAN
    BY DEF Connected, Connectives
  <2>4. /\ result(i) \in {True, False, Null}
        /\ inner = "and" => (result(i) = True <=> \A j \in J : ResultOne(row, filter[i][j]) = True)
        /\ inner = "or" => (result(i) = True <=> \E j \in J : ResultOne(row, filter[i][j]) = True)
    <3>1. result(i) = LogicalResult(inner, R)
      OBVIOUS
    <3>2. /\ (\A x \in R : x = True) <=> \A j \in J : ResultOne(row, filter[i][j]) = True
          /\ (\E x \in R : x = True) <=> \E j \in J : ResultOne(row, filter[i][j]) = True
      OBVIOUS
    <3> HIDE DEF result, R, J
    <3> QED
      BY <2>2, <3>1, <3>2, OneConnective
  <2> HIDE DEF result, may, must, J
  <2> QED
    BY <2>1, <2>3, <2>4 DEF Connectives
<1> DEFINE I == DOMAIN filter
           R == {result(i) : i \in I}
<1>2. /\ FilterResult(outer, inner, filter, row) = LogicalResult(outer, R)
      /\ MayMatchFilter(outer, inner, filter, group) = Connected(outer, [i \in I |-> may(i)])
      /\ MustMatchFilter(outer, inner, filter, group) = Connected(outer, [i \in I |-> must(i)])
  BY DEF FilterResult, MayMatchFilter, MustMatchFilter
<1> HIDE DEF result, may, must, I
<1>3. R \in SUBSET {True, False, Null}
  BY <1>1 DEF I
<1>4. /\ outer = "and" => (LogicalResult(outer, R) = True <=> \A i \in I : result(i) = True)
      /\ outer = "or" => (LogicalResult(outer, R) = True <=> \E i \in I : result(i) = True)
  <2>1. /\ (\A x \in R : x = True) <=> \A i \in I : result(i) = True
        /\ (\E x \in R : x = True) <=> \E i \in I : result(i) = True
    OBVIOUS
  <2> HIDE DEF R
  <2> QED
    BY <1>3, <2>1, OneConnective
<1>5. /\ outer = "and" => /\ Connected(outer, [i \in I |-> may(i)]) <=> \A i \in I : may(i)
                          /\ Connected(outer, [i \in I |-> must(i)]) <=> \A i \in I : must(i)
      /\ outer = "or" => /\ Connected(outer, [i \in I |-> may(i)]) <=> \E i \in I : may(i)
                         /\ Connected(outer, [i \in I |-> must(i)]) <=> \E i \in I : must(i)
  BY DEF Connected, Connectives
<1> HIDE DEF R
<1> QED
  BY <1>1, <1>2, <1>4, <1>5 DEF Connectives, I
================================================================================
