------------------------------ MODULE Queries ------------------------------
(***************************************************************************)
(* A query over the objects of a pattern (core/src/query.ts): which        *)
(* objects are planned, which columns are read, and the three ways its     *)
(* rows are made: row by row, from projected batches, and from references  *)
(* whose other columns are read once the limit is known.                   *)
(*                                                                         *)
(* An object has a path, the values its path gives to partition columns,   *)
(* and rows.                                                               *)
(***************************************************************************)
EXTENDS Pruning, Ordering, GroupBy

NoSelect == <<>>
NoWhere == Lit(True)
Query(select, where, distinct, offset, limit) ==
  [select |-> select, where |-> where, distinct |-> distinct, offset |-> offset, limit |-> limit]

FailedRows(error) == <<[failed |-> error]>>

---------------------------------------------------------------------------
(* Planning. *)

\* partitionEval: TRUE, FALSE or unknown, from the values in the path alone.
RECURSIVE PartitionEval(_, _)
PartitionEval(e, partitions) ==
  LET parts == {PartitionEval(e.operands[i], partitions) : i \in DOMAIN e.operands}
  IN  CASE e.kind \in {"literal", "column"} -> "unknown"
        [] e.kind = "not" ->
             LET inner == PartitionEval(e.operand, partitions)
             IN  CASE inner = "true" -> "false" [] inner = "false" -> "true" [] OTHER -> "unknown"
        [] e.kind = "logical" ->
             LET decides == IF e.op = "and" THEN "false" ELSE "true"
             IN  IF decides \in parts THEN decides
                 ELSE IF Cardinality(parts) = 1 THEN CHOOSE p \in parts : TRUE ELSE "unknown"
        [] OTHER ->
             IF ColumnsOf(e) # {} /\ ColumnsOf(e) \subseteq DOMAIN partitions
             THEN IF Matches(e, partitions) THEN "true" ELSE "false"
             ELSE "unknown"

\* planObjects, for the partitions; a pattern names its objects in order of path.
PlanObjects(objects, where) ==
  SelectSeq(objects, LAMBDA o : PartitionEval(where, o.partitions) # "false")

\* projectedReadColumns: what the clauses name, or every column if they name none.
ReadColumns(q, orderBy) ==
  ToSet(q.select) \cup {orderBy[i].column : i \in DOMAIN orderBy} \cup ColumnsOf(q.where)

\* A row as it is scanned, partition values first: what the file has of a column
\* takes their place, which happens when no column but theirs is asked for.
ScannedRow(object, row, columns) ==
  LET physical == columns \ DOMAIN object.partitions
      raw == IF physical = {} THEN row ELSE [c \in physical \cap DOMAIN row |-> row[c]]
  IN  raw @@ object.partitions

Missing(row, select) == \E i \in DOMAIN select : select[i] \notin DOMAIN row
Project(row, select) ==
  IF select = NoSelect THEN row ELSE [c \in ToSet(select) |-> row[c]]

\* limitAwareBatchSize.
ScanBatchSize(size, q) == IF q.limit # NoLimit /\ q.offset + q.limit < size
                          THEN (IF q.offset + q.limit > 0 THEN q.offset + q.limit ELSE 1) ELSE size

Chunks(rows, size) ==
  LET count == (Len(rows) + size - 1) \div size
  IN  [i \in 1..count |-> SubSeq(rows, (i - 1) * size + 1,
                                 IF i * size < Len(rows) THEN i * size ELSE Len(rows))]

---------------------------------------------------------------------------
(* Row by row. *)

Started == [out |-> <<>>, seen |-> {}, skipped |-> 0,
            broke |-> FALSE, done |-> FALSE, failed |-> FALSE]
AtLimit(q, s) == q.limit # NoLimit /\ Len(s.out) >= q.limit

\* The offset, then the limit.
TakeRow(q, s, row) ==
  IF s.skipped < q.offset THEN [s EXCEPT !.skipped = @ + 1]
  ELSE IF AtLimit(q, s) THEN [s EXCEPT !.broke = TRUE]
  ELSE [s EXCEPT !.out = Append(@, row)]

\* A row that is not distinct counts for neither.
TakeDistinct(q, s, row) ==
  IF q.distinct /\ row \in s.seen THEN s ELSE TakeRow(q, [s EXCEPT !.seen = @ \cup {row}], row)

TestedRow(q, s, row, result) ==
  IF IsError(result) \/ (result = True /\ Missing(row, q.select)) THEN [s EXCEPT !.failed = TRUE]
  ELSE IF result # True THEN s
  ELSE TakeDistinct(q, s, Project(row, q.select))

RowStep(q, s, row) ==
  IF s.failed \/ s.broke THEN s ELSE TestedRow(q, s, row, MatchResult(q.where, row))

BatchDone(q, s) == [s EXCEPT !.done = AtLimit(q, s)]
RowBatchStep(q, s, rows) ==
  IF s.failed \/ s.done THEN s
  ELSE BatchDone(q, FoldLeft(LAMBDA acc, row : RowStep(q, acc, row), [s EXCEPT !.broke = FALSE], rows))

RowsMade(end, reason) == IF end.failed THEN FailedRows(reason) ELSE end.out

\* batches, and orderedBatches without an order: objects one after the other.
RowQuery(objects, q, batchSize) ==
  LET planned == PlanObjects(objects, q.where)
      scanned(o) == [i \in DOMAIN o.rows |-> ScannedRow(o, o.rows[i], ReadColumns(q, <<>>))]
      batches == FlattenSeq([i \in DOMAIN planned |->
                   Chunks(scanned(planned[i]), ScanBatchSize(batchSize, q))])
  IN  RowsMade(FoldLeft(LAMBDA s, rows : RowBatchStep(q, s, rows), Started, batches), "row")

---------------------------------------------------------------------------
(* From batches. *)

BatchOf(rows, columns) ==
  [c \in columns |-> VectorFromValues([i \in DOMAIN rows |-> rows[i][c]], [i \in DOMAIN rows |-> 1])]

\* The rows of a batch that a mask selects, in order.
SelectedBy(mask) == SelectSeq([i \in DOMAIN mask |-> i], LAMBDA i : mask[i] = True)

TakeSelected(q, s, batch, mask) ==
  IF Throws(mask) THEN [s EXCEPT !.failed = TRUE]
  ELSE BatchDone(q, FoldLeft(LAMBDA acc, i : IF acc.broke THEN acc
                               ELSE TakeRow(q, acc, Project(MaterializeRow(batch, i), q.select)),
                             s, SelectedBy(mask)))

ColumnarBatch(q, s, batch) == TakeSelected(q, s, batch, PredicateMask(batch, q.where))
ColumnarStep(q, s, rows) ==
  IF s.failed \/ s.done THEN s ELSE ColumnarBatch(q, s, BatchOf(rows, ReadColumns(q, <<>>)))

\* columnarProjectedBatches: without a filter a file is read no further than the limit.
ColumnarQuery(objects, q, batchSize) ==
  LET step(s, object) ==
        LET last == IF q.where = NoWhere /\ q.offset = 0 /\ q.limit # NoLimit
                    THEN Lesser(q.limit - Len(s.out), Len(object.rows)) ELSE Len(object.rows)
        IN  FoldLeft(LAMBDA acc, chunk : ColumnarStep(q, acc, chunk), s,
                     Chunks(SubSeq(object.rows, 1, last), ScanBatchSize(batchSize, q)))
  IN  RowsMade(FoldLeft(step, Started, objects), "batch")

\* Plausible bug: the references of the offset are not counted.
FaultEnough(q) == q.limit
Enough(q) == q.offset + q.limit

\* The references of lateMaterializedLimitRows: a batch is evaluated whole, and none
\* after the one that has enough.
MaskedRefs(q, s, batch, mask) ==
  IF Throws(mask) THEN [s EXCEPT !.failed = TRUE]
  ELSE [s EXCEPT !.out = SubSeq(@ \o [i \in DOMAIN SelectedBy(mask) |-> batch[SelectedBy(mask)[i]]], 1,
                                Lesser(Enough(q), Len(@) + Len(SelectedBy(mask))))]

RefsStep(q, s, batch) ==
  IF s.failed \/ (s.out # <<>> /\ Len(s.out) >= Enough(q)) THEN s
  ELSE MaskedRefs(q, s, batch,
         PredicateMask(BatchOf([i \in DOMAIN batch |-> batch[i].keys], ColumnsOf(q.where)), q.where))

LimitRefs(objects, q, batchSize) ==
  LET refs(p) == [i \in DOMAIN objects[p].rows |->
                    [path |-> p, row |-> i,
                     keys |-> [c \in ColumnsOf(q.where) |-> objects[p].rows[i][c]]]]
  IN  FoldLeft(LAMBDA s, batch : RefsStep(q, s, batch), Started,
               FlattenSeq([p \in DOMAIN objects |-> Chunks(refs(p), batchSize)]))

LateColumns(q) == ToSet(q.select) \ ColumnsOf(q.where)
LateApplies(q) ==
  q.limit # NoLimit /\ q.select # NoSelect /\ ColumnsOf(q.where) # {} /\ LateColumns(q) # {}

Projected(rows, select) == [i \in DOMAIN rows |-> Project(rows[i], select)]

LateRows(objects, q, refs, batchSize) ==
  IF refs.failed THEN FailedRows("late")
  ELSE Projected(MaterializeRowRefs([p \in DOMAIN objects |-> objects[p].rows],
                   SubSeq(refs.out, q.offset + 1, Len(refs.out)), LateColumns(q), batchSize), q.select)
LateQuery(objects, q, batchSize) == LateRows(objects, q, LimitRefs(objects, q, batchSize), batchSize)

\* tryColumnarProjectedBatches: what the batches are used for.
Columnar(objects, q) ==
  /\ q.select # NoSelect /\ ~q.distinct
  /\ \A i \in DOMAIN objects : DOMAIN objects[i].partitions = {}

QueryRows(objects, q, batchSize) ==
  IF ~Columnar(objects, q) THEN RowQuery(objects, q, batchSize)
  ELSE IF LateApplies(q) THEN LateQuery(objects, q, batchSize)
  ELSE ColumnarQuery(objects, q, batchSize)

---------------------------------------------------------------------------
(* Aggregates whose inputs are read late. *)

\* tryLateMaterializedAggregateRows: FALSE sends the query to the next strategy,
\* when too many rows match, in number or in density, after any batch.
MaxDensityPercent == 35
LateAggregateApplies(batches, where, maxRows) ==
  LET matched(n) == Len(SelectSeq(FlattenSeq(SubSeq(batches, 1, n)), LAMBDA r : Matches(where, r)))
      scanned(n) == Len(FlattenSeq(SubSeq(batches, 1, n)))
  IN  \A n \in DOMAIN batches :
        matched(n) <= maxRows /\ 100 * matched(n) <= MaxDensityPercent * scanned(n)

\* aggregateValueFromUnknown: what is not a JavaScript scalar counts as NULL.
LateValue(v) == IF v.type \in {"timestamp", "binary"} THEN Null ELSE v

LateAggregate(keys, spec, batches, where, maxGroups) ==
  LET matching == SelectSeq(FlattenSeq(batches), LAMBDA r : Matches(where, r))
      late == {spec[k].column : k \in DOMAIN spec} \ ToSet(keys)
      seen(row) == [c \in DOMAIN row |-> IF c \in late THEN LateValue(row[c]) ELSE row[c]]
  IN  UpdateGroups(<<>>, keys, spec, [i \in DOMAIN matching |-> seen(matching[i])], maxGroups)

---------------------------------------------------------------------------
(* The policy of a lake, and the clauses a bookmark keeps. *)

\* applyQueryPolicy: the row filter first, the lesser limit, and what may be read.
ApplyQueryPolicy(q, policy) ==
  [q EXCEPT !.where = IF policy.rowFilter = NoWhere THEN @
                      ELSE IF @ = NoWhere THEN policy.rowFilter
                      ELSE Logical("and", <<policy.rowFilter, @>>),
            !.limit = IF policy.maxLimit = NoLimit THEN @
                      ELSE IF @ = NoLimit \/ policy.maxLimit < @ THEN policy.maxLimit ELSE @,
            !.select = IF @ = NoSelect THEN policy.allowed ELSE @]
PolicyRefuses(q, policy) ==
  policy.allowed # NoSelect /\ ~(ReadColumns(ApplyQueryPolicy(q, policy), <<>>)
                                 \subseteq ToSet(policy.allowed))
=============================================================================
