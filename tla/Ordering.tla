------------------------------ MODULE Ordering ------------------------------
(***************************************************************************)
(* ORDER BY and top-k (core/src/vector-sort.ts and query.ts): the sort of  *)
(* a batch, the bounded selections that keep the best rows seen so far,    *)
(* the sorted runs and their merge, the references that are ranked first   *)
(* and read later, and the operator state a later slice resumes from.      *)
(***************************************************************************)
EXTENDS BatchEvaluator, SequencesExt

Term(column, desc, nullsFirst) ==
  [column |-> column, desc |-> desc, nullsFirst |-> nullsFirst]
\* normalizeOrderBy: nulls come last, first when descending.
DefaultTerm(column, desc) == Term(column, desc, desc)

Refuses == 99                  \* a comparison that throws
RefusedRows == <<[failed |-> "sort"]>>   \* what an operation that throws leaves

Sortable(v) == v.type \in {"string", "number", "nan", "bigint", "boolean", "timestamp"}

\* Plausible bug: NULL follows the direction of the term.
FaultCompareSortValues(l, r, term) ==
  LET sign == IF term.desc THEN -1 ELSE 1
  IN  IF l = Null /\ r = Null THEN 0
      ELSE IF Null \in {l, r} THEN IF (l = Null) = term.nullsFirst THEN -sign ELSE sign
      ELSE IF ~(Sortable(l) /\ Sortable(r) /\ JsType(l) = JsType(r)) THEN Refuses
      ELSE sign * ValueOrder(l, r)

CompareSortValues(l, r, term) ==
  LET sign == IF term.desc THEN -1 ELSE 1
  IN  IF l = Null /\ r = Null THEN 0
      ELSE IF Null \in {l, r} THEN IF (l = Null) = term.nullsFirst THEN -1 ELSE 1
      ELSE IF ~(Sortable(l) /\ Sortable(r) /\ JsType(l) = JsType(r)) THEN Refuses
      ELSE sign * ValueOrder(l, r)

CompareRows(l, r, orderBy) ==
  LET c == [i \in DOMAIN orderBy |->
              CompareSortValues(l[orderBy[i].column], r[orderBy[i].column], orderBy[i])]
      decided == {i \in DOMAIN c : c[i] # 0}
  IN  IF decided = {} THEN 0 ELSE c[CHOOSE i \in decided : \A j \in decided : i <= j]

\* A sort compares neighbours of its result, so a pair it must not compare is met.
SortRefuses(rows, orderBy) ==
  \E i, j \in DOMAIN rows : CompareRows(rows[i], rows[j], orderBy) = Refuses

\* Array.prototype.sort is stable.
StableOrder(rows, orderBy) ==
  SortSeq([i \in DOMAIN rows |-> i],
          LAMBDA i, j : LET c == CompareRows(rows[i], rows[j], orderBy)
                        IN  IF c = 0 THEN i < j ELSE c < 0)
SortRows(rows, orderBy) ==
  IF SortRefuses(rows, orderBy) THEN RefusedRows
  ELSE [i \in DOMAIN rows |-> rows[StableOrder(rows, orderBy)[i]]]

Slice(s, offset, limit) ==
  SubSeq(s, offset + 1, IF offset + limit < Len(s) THEN offset + limit ELSE Len(s))
Page(rows, offset, limit) == IF rows = RefusedRows THEN rows ELSE Slice(rows, offset, limit)

---------------------------------------------------------------------------
(* Batches. *)

\* Ties keep the order of the rows.
CompareBatchRows(batch, i, j, orderBy) ==
  LET c == CompareRows(MaterializeRow(batch, i), MaterializeRow(batch, j), orderBy)
  IN  IF c = 0 THEN i - j ELSE c

\* vectorTopKIndices and worstKeptIndex: a row replaces the worst kept one.
VectorTopKIndices(batch, orderBy, k, selected) ==
  LET worst(kept) == CHOOSE w \in DOMAIN kept :
                       \A i \in DOMAIN kept : CompareBatchRows(batch, kept[i], kept[w], orderBy) <= 0
      step(kept, row) ==
        IF Len(kept) < k THEN Append(kept, row)
        ELSE IF CompareBatchRows(batch, row, kept[worst(kept)], orderBy) < 0
             THEN [kept EXCEPT ![worst(kept)] = row] ELSE kept
  IN  IF k = 0 THEN <<>>
      ELSE FoldLeft(step, <<>>, SelectSeq([i \in 1..RowCount(batch) |-> i],
                                          LAMBDA i : i \in selected))

GatherVector(v, indices) ==
  LET at(s) == [i \in DOMAIN indices |-> s[indices[i]]]
  IN  IF v.type = "dict" THEN [v EXCEPT !.indices = at(@), !.valid = at(@)]
      ELSE [v EXCEPT !.values = at(@), !.valid = at(@)]

GatherBatch(batch, indices) == [c \in DOMAIN batch |-> GatherVector(batch[c], indices)]

VectorCells(v) == [i \in 1..VectorLength(v) |-> ScalarVectorValue(v, i)]

\* A column that is all NULL has a type of its own, which no other concatenates to.
ConcatVectors(v, w) ==
  LET units == [i \in 1..VectorLength(v) |-> v.unit] \o [i \in 1..VectorLength(w) |-> w.unit]
  IN  IF v.type # w.type THEN [v EXCEPT !.type = "refused"]
      ELSE IF \/ v.type = "timestamp" /\ v.unit # w.unit
              \/ v.type = "dict" /\ v.values # w.values
      THEN VectorFromValues(VectorCells(v) \o VectorCells(w), units)
      ELSE [v EXCEPT !.values = IF v.type = "dict" THEN @ ELSE @ \o w.values,
                     !.valid = @ \o w.valid, !.indices = @ \o w.indices]
ConcatBatches(a, b) == [c \in DOMAIN a |-> ConcatVectors(a[c], b[c])]

RefusedBatch(batch) == \E c \in DOMAIN batch : batch[c].type = "refused"
BatchRows(batch) ==
  IF RefusedBatch(batch) THEN RefusedRows
  ELSE [i \in 1..RowCount(batch) |-> MaterializeRow(batch, i)]

VectorTopKBatch(batch, orderBy, offset, limit, selected) ==
  LET kept == VectorTopKIndices(batch, orderBy, offset + limit, selected)
      byRow == SortSeq(kept, LAMBDA i, j : CompareBatchRows(batch, i, j, orderBy) < 0)
  IN  IF RefusedBatch(batch) THEN batch ELSE GatherBatch(batch, Slice(byRow, offset, limit))

VectorOrderByBatch(batch, orderBy, selected) ==
  LET rows == BatchRows(batch)
  IN  GatherBatch(batch, SelectSeq(StableOrder(rows, orderBy), LAMBDA i : i \in selected))

\* tryColumnarTopKRows without late materialisation: the best rows of the batches
\* so far, against the best of the next one.
WholeTopK(batch, orderBy, offset, limit) ==
  VectorTopKBatch(batch, orderBy, offset, limit, 1..RowCount(batch))
BestOf(batch, where, orderBy, k) ==
  VectorTopKBatch(batch, orderBy, 0, k, SelectedRows(PredicateMask(batch, where)))

PagesOfBest(best, orderBy, offset, limit) ==
  FlattenSeq([i \in DOMAIN best |-> BatchRows(WholeTopK(best[i], orderBy, offset, limit))])

ColumnarTopK(batches, where, orderBy, offset, limit) ==
  LET best == FoldLeft(LAMBDA acc, batch : IF acc = <<>> THEN <<batch>>
                         ELSE <<WholeTopK(ConcatBatches(acc[1], batch), orderBy, 0, offset + limit)>>,
                       <<>>, [i \in DOMAIN batches |-> BestOf(batches[i], where, orderBy, offset + limit)])
  IN  PagesOfBest(best, orderBy, offset, limit)

---------------------------------------------------------------------------
(* References ranked by their keys, and read when the best are known. *)

CompareRankedRefs(l, r, orderBy) ==
  LET c == CompareRows(l.keys, r.keys, orderBy)
  IN  IF c # 0 THEN c
      ELSE IF l.path # r.path THEN l.path - r.path ELSE l.row - r.row

AddRankedRef(retained, ref, orderBy, k) ==
  LET worst == CHOOSE w \in DOMAIN retained :
                 \A i \in DOMAIN retained : CompareRankedRefs(retained[i], retained[w], orderBy) <= 0
  IN  IF Len(retained) < k THEN Append(retained, ref)
      ELSE IF k > 0 /\ CompareRankedRefs(ref, retained[worst], orderBy) < 0
           THEN [retained EXCEPT ![worst] = ref] ELSE retained

\* files[path] is a sequence of rows.
RankedRefs(files, where, orderBy, k) ==
  LET refs(p) == [i \in DOMAIN files[p] |-> [path |-> p, row |-> i, keys |-> files[p][i]]]
      all == FlattenSeq([p \in DOMAIN files |-> refs(p)])
      matching == SelectSeq(all, LAMBDA ref : Matches(where, ref.keys))
  IN  SortSeq(FoldLeft(LAMBDA acc, ref : AddRankedRef(acc, ref, orderBy, k), <<>>, matching),
              LAMBDA l, r : CompareRankedRefs(l, r, orderBy) < 0)

MaterializationWindows(refs, maxRows) ==
  LET sorted == SortSeq(refs, LAMBDA l, r : l.path < r.path \/ (l.path = r.path /\ l.row < r.row))
      step(out, ref) ==
        IF out # <<>> /\ Last(out).path = ref.path /\ ref.row + 1 - Last(out).start <= maxRows
        THEN [out EXCEPT ![Len(out)].end = ref.row + 1]
        ELSE Append(out, [path |-> ref.path, start |-> ref.row, end |-> ref.row + 1])
  IN  FoldLeft(step, <<>>, sorted)

\* The late columns of a reference, from the window of its file that holds it; the
\* row of a reference no window holds has only its keys.
MaterializeRowRefs(files, refs, late, maxRows) ==
  LET windows == MaterializationWindows(refs, maxRows)
      held(ref) == \E w \in DOMAIN windows : /\ windows[w].path = ref.path
                                             /\ windows[w].start <= ref.row
                                             /\ ref.row < windows[w].end
      cells(ref) == IF held(ref) THEN [c \in late |-> files[ref.path][ref.row][c]] ELSE <<>>
  IN  [i \in DOMAIN refs |-> cells(refs[i]) @@ refs[i].keys]

WithoutLate(refs, late) ==
  [i \in DOMAIN refs |-> [refs[i] EXCEPT !.keys = [c \in DOMAIN @ \ late |-> @[c]]]]
LateTopK(files, where, orderBy, offset, limit, late, maxRows) ==
  MaterializeRowRefs(files, WithoutLate(Slice(RankedRefs(files, where, orderBy, offset + limit), offset, limit),
                                        late), late, maxRows)

---------------------------------------------------------------------------
(* Rows, in buffers that a later slice takes up again. *)

\* addOrderedMatch: the first of the worst rows kept makes room for a better one.
AddOrderedMatch(matched, row, orderBy, k) ==
  LET worse(i, j) == CompareRows(matched[i], matched[j], orderBy) > 0
      worst == CHOOSE w \in DOMAIN matched : /\ \A i \in DOMAIN matched : ~worse(i, w)
                                             /\ \A i \in 1..(w - 1) : worse(w, i)
  IN  IF Len(matched) < k THEN Append(matched, row)
      ELSE IF k > 0 /\ CompareRows(row, matched[worst], orderBy) < 0
           THEN [matched EXCEPT ![worst] = row] ELSE matched

RowTopK(before, rows, orderBy, k) ==
  IF SortRefuses(before \o rows, orderBy) THEN RefusedRows
  ELSE SortRows(FoldLeft(LAMBDA acc, row : AddOrderedMatch(acc, row, orderBy, k), before, rows),
                orderBy)

\* collectSortRuns: a run is sorted and put away when the buffer is full.
LastRun(end, orderBy) ==
  IF end.current = <<>> THEN end.runs ELSE Append(end.runs, SortRows(end.current, orderBy))
CollectSortRuns(runs, rows, orderBy, capacity) ==
  LET step(acc, row) ==
        IF Len(acc.current) + 1 >= capacity
        THEN [runs |-> Append(acc.runs, SortRows(Append(acc.current, row), orderBy)), current |-> <<>>]
        ELSE [acc EXCEPT !.current = Append(@, row)]
  IN  LastRun(FoldLeft(step, [runs |-> runs, current |-> <<>>], rows), orderBy)

\* mergeSortRuns: the least head, of the earliest run among equals.
MergeSortRuns(runs, orderBy) ==
  LET total == FoldLeft(LAMBDA n, run : n + Len(run), 0, runs)
      open(cursors) == {r \in DOMAIN runs : cursors[r] <= Len(runs[r])}
      head(cursors, r) == runs[r][cursors[r]]
      best(cursors) ==
        CHOOSE r \in open(cursors) :
          \A q \in open(cursors) \ {r} :
            LET c == CompareRows(head(cursors, r), head(cursors, q), orderBy)
            IN  c < 0 \/ (c = 0 /\ r < q)
      step(acc, i) == [out |-> Append(acc.out, head(acc.cursors, best(acc.cursors))),
                       cursors |-> [acc.cursors EXCEPT ![best(acc.cursors)] = @ + 1]]
  IN  IF \E r \in DOMAIN runs : runs[r] = RefusedRows THEN RefusedRows
      ELSE FoldLeft(step, [out |-> <<>>, cursors |-> [r \in DOMAIN runs |-> 1]],
                    [i \in 1..total |-> i]).out

\* topKOperatorState, sortOperatorState and back: rows go through JSON.
SnapshotRows(rows) ==
  [i \in DOMAIN rows |-> [c \in DOMAIN rows[i] |-> JsonScalar(rows[i][c])]]

\* A state is taken up by the request that made it, or refused.
ResumableState(state, orderBy, offset, limit) ==
  state.orderBy = orderBy /\ state.offset = offset /\ state.limit = limit
=============================================================================
