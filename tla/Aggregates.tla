----------------------------- MODULE Aggregates -----------------------------
(***************************************************************************)
(* Aggregate states: the vectorised ones and their merge and snapshot      *)
(* (core/src/vector-aggregate.ts, -snapshot.ts, aggregate-quantile.ts),    *)
(* and the row-by-row ones of the query engine (core/src/query.ts).        *)
(*                                                                         *)
(* A state is a record with the fields of every operation; an operation    *)
(* uses its own.  Averages and variances are exact: a rational is a pair   *)
(* in lowest terms, and <<0, 0>> is NaN.                                   *)
(*                                                                         *)
(* The keys of a distinct count (core/src/vector-aggregate-distinct.ts)    *)
(* are a set, or, for long batches of mostly distinct text and no budget,  *)
(* sorted runs that are merged through a heap only when they are counted.  *)
(***************************************************************************)
EXTENDS SqlValues, SequencesExt

CONSTANTS
  SortedRunMergeMinValues,   \* the length from which a run is kept as a run
  SortedRunSampleValues      \* how many values the cardinality sample takes

ASSUME SortedRunAssumption ==
  /\ SortedRunMergeMinValues \in Nat \ {0}
  /\ SortedRunSampleValues \in Nat \ {0}

NoBudget == -1
NoKeys == [values |-> {}, runs |-> <<>>]
OverBudget == [values |-> {}, runs |-> <<<<>>>>]

\* distinctKey: the JavaScript type and the text of the value.
DistinctKey(v) == <<JsType(v), v.type = "nan", v.key>>

TypeRank(key) ==
  CASE key[1] = "bigint" -> 0 [] key[1] = "boolean" -> 1 [] key[1] = "number" -> 2
    [] key[1] = "timestamp" -> 3 [] OTHER -> 4
KeyRank(key) == 100 * TypeRank(key) + (IF key[2] THEN 50 ELSE key[3])
KeyLess(a, b) == KeyRank(a) < KeyRank(b)

\* A heap of the runs' next values, smallest first, ties by run.
HeapLess(a, b) ==
  \/ KeyLess(a.value, b.value)
  \/ a.value = b.value /\ a.run < b.run

RECURSIVE SiftUp(_, _, _)
SiftUp(heap, i, entry) ==
  LET parent == i \div 2
  IN  IF i > 1 /\ HeapLess(entry, heap[parent])
      THEN SiftUp([heap EXCEPT ![i] = heap[parent]], parent, entry)
      ELSE [heap EXCEPT ![i] = entry]

HeapPush(heap, entry) == SiftUp(Append(heap, entry), Len(heap) + 1, entry)

RECURSIVE HeapifyDown(_, _, _)
HeapifyDown(heap, i, entry) ==
  LET left == 2 * i
      right == left + 1
      child == IF right <= Len(heap) /\ HeapLess(heap[right], heap[left])
               THEN right ELSE left
  IN  IF left > Len(heap) \/ ~HeapLess(heap[child], entry)
      THEN [heap EXCEPT ![i] = entry]
      ELSE HeapifyDown([heap EXCEPT ![i] = heap[child]], child, entry)

\* The heap after its first entry is taken.
HeapPop(heap) ==
  IF Len(heap) = 1 THEN <<>>
  ELSE HeapifyDown(Front(heap), 1, Last(heap))

\* The heap with the next value of the run that its first entry was of.
Advanced(runs, heap, first) ==
  IF first.at + 1 > Len(runs[first.run]) THEN heap
  ELSE HeapPush(heap, [value |-> runs[first.run][first.at + 1],
                       run |-> first.run, at |-> first.at + 1])

RECURSIVE Visit(_, _, _)
Visit(runs, heap, visited) ==
  IF heap = <<>> THEN visited
  ELSE Visit(runs, Advanced(runs, HeapPop(heap), Head(heap)),
             IF visited # <<>> /\ Last(visited) = Head(heap).value THEN visited
             ELSE Append(visited, Head(heap).value))

\* createSortedRunHeap, visitSortedUniqueRuns, mergeSortedRuns.
MergeSortedRuns(runs) ==
  IF Len(runs) = 1 THEN runs[1]
  ELSE Visit(runs,
             FoldLeft(LAMBDA heap, r :
                        IF runs[r] = <<>> THEN heap
                        ELSE HeapPush(heap, [value |-> runs[r][1], run |-> r, at |-> 1]),
                      <<>>, [r \in DOMAIN runs |-> r]),
             <<>>)

SortedKeys(keys) == SetToSortSeq(keys, KeyLess)

DistinctSnapshotValues(d) ==
  IF d.runs # <<>> THEN MergeSortedRuns(d.runs) ELSE SortedKeys(d.values)

\* countSortedUniqueRuns: a single run is counted without looking at it.
DistinctValueCount(d) ==
  IF d.runs # <<>> THEN Len(MergeSortedRuns(d.runs)) ELSE Cardinality(d.values)

MutableDistinctValues(d) ==
  IF d.runs = <<>> \/ d = OverBudget THEN d
  ELSE [values |-> ToSet(MergeSortedRuns(d.runs)), runs |-> <<>>]

AddDistinctValue(d, key, budget) ==
  LET fits == budget = NoBudget \/ key \in d.values \/ Cardinality(d.values) < budget
  IN  IF d = OverBudget THEN d
      ELSE IF fits THEN [d EXCEPT !.values = @ \cup {key}] ELSE OverBudget

AddDistinctValues(d, keys, budget) ==
  FoldLeft(LAMBDA acc, key : AddDistinctValue(acc, key, budget),
           MutableDistinctValues(d), keys)

\* Short lists join the set; a long one becomes a run, and so does the set.
MergeDistinctSortedValues(d, keys, budget) ==
  IF budget # NoBudget \/ Len(keys) < SortedRunMergeMinValues
  THEN IF budget = NoBudget /\ keys = <<>> THEN d ELSE AddDistinctValues(d, keys, budget)
  ELSE [values |-> {},
        runs |-> d.runs \o (IF d.values = {} THEN <<>> ELSE <<SortedKeys(d.values)>>)
                        \o <<keys>>]

HasHighCardinalitySample(keys) ==
  LET size == IF Len(keys) < SortedRunSampleValues THEN Len(keys) ELSE SortedRunSampleValues
  IN  2 * Cardinality(ToSet(SubSeq(keys, 1, size))) >= size

\* The keys of a batch of text, repeats included.
AddDistinctSortedStringRun(d, keys, budget) ==
  IF \/ budget # NoBudget
     \/ Len(keys) < SortedRunMergeMinValues
     \/ ~HasHighCardinalitySample(keys)
  THEN AddDistinctValues(d, keys, budget)
  ELSE MergeDistinctSortedValues(d, SortedKeys(ToSet(keys)), budget)
-------------------------------------------------------------------------------
NumericOps == {"sum", "avg", "var_samp"}
AggregateOps == NumericOps \cup
  {"count", "median", "quantile", "min", "max", "count_distinct", "mode",
   "first", "last"}

RECURSIVE Gcd(_, _)
Gcd(a, b) == IF b = 0 THEN a ELSE Gcd(b, a % b)
Rat(n, d) ==
  IF d = 0 THEN <<0, 0>>
  ELSE LET g == Gcd(IF n < 0 THEN -n ELSE n, d) IN <<n \div g, d \div g>>
RatOf(v) == IF v = NaN THEN <<0, 0>> ELSE <<v.key, 1>>
Plus(a, b) == Rat(a[1] * b[2] + b[1] * a[2], a[2] * b[2])
Minus(a, b) == Rat(a[1] * b[2] - b[1] * a[2], a[2] * b[2])
Times(a, b) == Rat(a[1] * b[1], a[2] * b[2])
Over(a, n) == Rat(a[1], a[2] * n)

Created(op) ==
  [op |-> op, count |-> 0, sum |-> Number(0), mean |-> <<0, 1>>, m2 |-> <<0, 1>>,
   values |-> <<>>, distinct |-> NoKeys, value |-> Null, seen |-> FALSE]

Failed(code) == [op |-> "failed", code |-> code]
IsFailed(s) == s.op = "failed"

\* What an operation accepts besides NULL; text and numbers mix only in the
\* states that do not compare them.
Accepts(op, v) ==
  CASE op \in NumericOps \cup {"quantile"} -> JsType(v) = "number"
    [] op = "median" -> JsType(v) \in {"number", "string"}
    [] OTHER -> v.type # "binary"

\* The values kept for a median, a quantile or a mode count as buffered rows.
WithinBuffer(s, budget) ==
  IF budget # NoBudget /\ Len(s.values) > budget THEN Failed("budget") ELSE s

AddVariance(s, v) ==
  LET n == s.count + 1
      delta == Minus(RatOf(v), s.mean)
      mean == Plus(s.mean, Over(delta, n))
  IN  [s EXCEPT !.count = n, !.mean = mean,
                !.m2 = Plus(@, Times(delta, Minus(RatOf(v), mean)))]

\* The comparison of JavaScript, false either way when one side is NaN.
Better(op, v, best) ==
  /\ NaN \notin {v, best}
  /\ IF op = "min" THEN v.key < best.key ELSE v.key > best.key

UpdateMinMax(s, v) ==
  IF v = Null THEN s
  ELSE IF s.value = Null THEN [s EXCEPT !.value = v]
  ELSE IF JsType(s.value) # JsType(v) THEN Failed("type")
  ELSE IF Better(s.op, v, s.value) THEN [s EXCEPT !.value = v] ELSE s

\* The entries of a mode are in the order their values were first seen.
AddModeEntry(s, entry, budget) ==
  LET same == {i \in DOMAIN s.values : s.values[i].key = entry.key}
  IN  WithinBuffer(
        IF same = {} THEN [s EXCEPT !.values = Append(@, entry)]
        ELSE [s EXCEPT !.values[CHOOSE i \in same : TRUE].count = @ + entry.count],
        budget)

WithDistinct(s, d) == IF d = OverBudget THEN Failed("budget") ELSE [s EXCEPT !.distinct = d]

AddKeys(s, keys, budget) == WithDistinct(s, AddDistinctValues(s.distinct, keys, budget))

UpdateStateValue(s, v, budget) ==
  CASE IsFailed(s) -> s
    [] s.op = "first" -> IF s.seen THEN s ELSE [s EXCEPT !.value = v, !.seen = TRUE]
    [] s.op = "last" -> [s EXCEPT !.value = v, !.seen = TRUE]
    [] v = Null -> s
    [] ~Accepts(s.op, v) -> Failed("type")
    [] s.op = "count" -> [s EXCEPT !.count = @ + 1]
    [] s.op = "sum" -> [s EXCEPT !.sum = Arithmetic("add", @, v)]
    [] s.op = "avg" -> [s EXCEPT !.sum = Arithmetic("add", @, v), !.count = @ + 1]
    [] s.op = "var_samp" -> AddVariance(s, v)
    [] s.op \in {"median", "quantile"} ->
         WithinBuffer([s EXCEPT !.values = Append(@, v)], budget)
    [] s.op \in {"min", "max"} -> UpdateMinMax(s, v)
    [] s.op = "count_distinct" -> AddKeys(s, <<DistinctKey(v)>>, budget)
    [] s.op = "mode" ->
         AddModeEntry(s, [key |-> DistinctKey(v), value |-> v, count |-> 1], budget)

Update(s, values, budget) ==
  FoldLeft(LAMBDA state, v : UpdateStateValue(state, v, budget), s, values)

MergeVariance(t, s) ==
  IF s.count = 0 THEN t
  ELSE IF t.count = 0 THEN [t EXCEPT !.count = s.count, !.mean = s.mean, !.m2 = s.m2]
  ELSE LET n == t.count + s.count
           delta == Minus(s.mean, t.mean)
           weighted(x) == Times(x.mean, <<x.count, 1>>)
       IN  [t EXCEPT
              !.mean = Over(Plus(weighted(t), weighted(s)), n),
              !.m2 = Plus(@, Plus(s.m2,
                       Over(Times(Times(delta, delta), <<t.count * s.count, 1>>), n))),
              !.count = n]

\* mergeVectorAggregateState; a distinct snapshot is merged as a sorted run.
Merge(t, s, budget) ==
  CASE IsFailed(t) \/ IsFailed(s) -> IF IsFailed(t) THEN t ELSE s
    [] t.op # s.op -> Failed("type")
    [] t.op \in {"count", "sum", "avg"} ->
         [t EXCEPT !.count = @ + s.count, !.sum = Arithmetic("add", @, s.sum)]
    [] t.op = "var_samp" -> MergeVariance(t, s)
    [] t.op \in {"median", "quantile"} -> Update(t, s.values, budget)
    [] t.op \in {"min", "max"} -> UpdateMinMax(t, s.value)
    [] t.op = "count_distinct" -> AddKeys(t, DistinctSnapshotValues(s.distinct), budget)
    [] t.op = "mode" ->
         FoldLeft(LAMBDA state, e : IF IsFailed(state) THEN state
                                    ELSE AddModeEntry(state, e, budget), t, s.values)
    [] t.op = "first" ->
         IF ~t.seen /\ s.seen THEN [t EXCEPT !.value = s.value, !.seen = TRUE] ELSE t
    [] t.op = "last" ->
         IF s.seen THEN [t EXCEPT !.value = s.value, !.seen = TRUE] ELSE t

MergeSnapshot(t, s, budget) ==
  IF IsFailed(t) \/ IsFailed(s) \/ t.op # "count_distinct" THEN Merge(t, s, budget)
  ELSE WithDistinct(t, MergeDistinctSortedValues(t.distinct, DistinctSnapshotValues(s.distinct), budget))

\* A snapshot keeps the kind of a bigint and of a timestamp, so it is the
\* state; a distinct state comes back as a plain set of keys.
Snapshot(s) ==
  IF s.op # "count_distinct" THEN s
  ELSE [s EXCEPT !.distinct = [values |-> ToSet(DistinctSnapshotValues(@)), runs |-> <<>>]]

Sorted(values) ==
  SortSeq(values, LAMBDA a, b : a.key < b.key)

\* finalizeMedian, and continuousQuantile at a half, on numbers; a median of
\* text takes the lower of the two in the middle.
FinalizeMedian(s) ==
  LET sorted == Sorted(s.values)
      n == Len(sorted)
      left == sorted[(n + 1) \div 2]
  IN  IF n = 0 THEN Null
      ELSE IF Cardinality({JsType(s.values[i]) : i \in 1..n}) > 1 THEN TypeError
      ELSE IF n % 2 = 1 \/ left.type = "string" THEN left
      ELSE Rat(left.key + sorted[n \div 2 + 1].key, 2)

ContinuousQuantile(values) ==
  LET sorted == Sorted(values)
      n == Len(values)
      lower == sorted[(n - 1) \div 2 + 1]
      upper == sorted[n \div 2 + 1]
  IN  IF n = 0 THEN Null
      ELSE IF n % 2 = 1 THEN lower
      ELSE Plus(RatOf(lower), Over(Minus(RatOf(upper), RatOf(lower)), 2))

FinalizeMode(s) ==
  IF s.values = <<>> THEN Null
  ELSE FoldLeft(LAMBDA best, e : IF e.count > best.count THEN e ELSE best,
                Head(s.values), Tail(s.values)).value

Finalize(s) ==
  CASE IsFailed(s) -> s
    [] s.op = "count" -> Number(s.count)
    [] s.op = "sum" -> s.sum
    [] s.op = "avg" -> IF s.count = 0 THEN Null ELSE Over(RatOf(s.sum), s.count)
    [] s.op = "var_samp" -> IF s.count < 2 THEN Null ELSE Over(s.m2, s.count - 1)
    [] s.op = "median" -> FinalizeMedian(s)
    [] s.op = "quantile" -> ContinuousQuantile(s.values)
    [] s.op = "count_distinct" -> Number(DistinctValueCount(s.distinct))
    [] s.op = "mode" -> FinalizeMode(s)
    [] OTHER -> s.value
=============================================================================
