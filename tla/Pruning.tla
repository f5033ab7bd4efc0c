------------------------------ MODULE Pruning ------------------------------
(***************************************************************************)
(* Which parts of a Parquet file a scan reads: row groups kept by their    *)
(* statistics (parquet/src/row-group-pruning.ts, row-group-plan.ts,        *)
(* core/src/predicate-plan.ts), the row windows of a task and its division *)
(* into work units (task.ts, task-scan.ts), and the scans of a window      *)
(* (object-batches.ts, column-batches.ts, scan-adapter.ts).                *)
(*                                                                         *)
(* A file is a sequence of row groups, a row group a record of its rows    *)
(* and of the statistics of its columns.  Row numbers are those of the     *)
(* file, from 0, and a window [start, end) excludes its end.               *)
(***************************************************************************)
EXTENDS BatchEvaluator, Statistics

\* columnStats: a column without usable bounds has no statistics.
ColumnStats(group, column) ==
  IF column \in DOMAIN group.stats THEN group.stats[column] ELSE NoStats

\* columnLiteralCompare: the pair of a comparison, the column on the left.
ColumnLiteral(e) ==
  CASE e.left.kind = "column" /\ e.right.kind = "literal" ->
         [column |-> e.left.name, op |-> e.op, value |-> e.right.value]
    [] e.right.kind = "column" /\ e.left.kind = "literal" ->
         [column |-> e.right.name, op |-> InvertOp(e.op), value |-> e.left.value]
    [] OTHER -> [column |-> "", op |-> e.op, value |-> Null]

LiteralValues(es) == {IF es[i].kind = "literal" THEN es[i].value ELSE Null : i \in DOMAIN es}

Literals(e) == e.target.kind = "column" /\ e.low.kind = "literal" /\ e.high.kind = "literal"

\* Plausible bug: the negation of what may match cannot.
RECURSIVE FaultMayMatch(_, _)
FaultMayMatch(group, e) ==
  CASE e.kind = "compare" ->
         LET p == ColumnLiteral(e)
         IN  CompareMayMatch(ColumnStats(group, p.column), p.op, p.value)
    [] e.kind = "not" -> ~FaultMayMatch(group, e.operand)
    [] OTHER -> TRUE

\* rowGroupMayMatch: what the statistics do not speak of may match.
RECURSIVE MayMatch(_, _)
MayMatch(group, e) ==
  CASE e.kind = "compare" ->
         LET p == ColumnLiteral(e)
         IN  CompareMayMatch(ColumnStats(group, p.column), p.op, p.value)
    [] e.kind = "in" /\ e.target.kind = "column" ->
         InMayMatch(ColumnStats(group, e.target.name), e.negated, LiteralValues(e.values))
    [] e.kind = "between" /\ Literals(e) ->
         BetweenMayMatch(ColumnStats(group, e.target.name), e.low.value, e.high.value)
    [] e.kind = "logical" ->
         Connected(e.op, [i \in DOMAIN e.operands |-> MayMatch(group, e.operands[i])])
    [] OTHER -> TRUE

\* rowGroupMustMatch: every row of the group is known to match.
RECURSIVE MustMatch(_, _)
MustMatch(group, e) ==
  CASE e.kind = "literal" -> e.value = True
    [] e.kind = "compare" ->
         LET p == ColumnLiteral(e)
         IN  CompareMustMatch(ColumnStats(group, p.column), p.op, p.value)
    [] e.kind = "between" /\ Literals(e) ->
         BetweenMustMatch(ColumnStats(group, e.target.name), e.low.value, e.high.value)
    [] e.kind = "logical" ->
         Connected(e.op, [i \in DOMAIN e.operands |-> MustMatch(group, e.operands[i])])
    [] OTHER -> FALSE

RECURSIVE Conjuncts(_)
Conjuncts(e) ==
  IF e.kind = "logical" /\ e.op = "and"
  THEN FlattenSeq([i \in DOMAIN e.operands |-> Conjuncts(e.operands[i])])
  ELSE <<e>>

\* collectColumns, for the kinds of expression that hold others.
RECURSIVE ColumnsOf(_)
ColumnsOf(e) ==
  LET all(es) == UNION {ColumnsOf(es[i]) : i \in DOMAIN es}
  IN  CASE e.kind = "column" -> {e.name}
        [] e.kind = "literal" -> {}
        [] e.kind \in {"compare", "arithmetic"} -> all(<<e.left, e.right>>)
        [] e.kind = "in" -> all(<<e.target>> \o e.values)
        [] e.kind = "between" -> all(<<e.target, e.low, e.high>>)
        [] e.kind \in {"null-check", "like"} -> ColumnsOf(e.target)
        [] e.kind = "logical" -> all(e.operands)
        [] e.kind = "not" -> ColumnsOf(e.operand)
        [] e.kind = "call" -> all(e.args)
        [] e.kind = "case" ->
             ColumnsOf(e.else) \cup
             UNION {all(<<e.whens[i].when, e.whens[i].value>>) : i \in DOMAIN e.whens}

\* statsPredicateColumn.
SpeaksOfStats(e, columns) ==
  \/ e.kind = "compare" /\ ColumnLiteral(e).column \in columns /\ ColumnLiteral(e).value # Null
  \/ /\ e.kind = "in" /\ ~e.negated /\ e.target.kind = "column"
     /\ Null \notin LiteralValues(e.values) /\ e.target.name \in columns
  \/ e.kind = "between" /\ Literals(e) /\ e.target.name \in columns

\* classifyPredicate: each conjunct goes to the first level that can use it.
ClassifyPredicate(e, partition, rowGroup, fileStats) ==
  LET level(part) ==
        CASE ColumnsOf(part) # {} /\ ColumnsOf(part) \subseteq partition -> "partition"
          [] SpeaksOfStats(part, rowGroup) -> "rowGroupStats"
          [] SpeaksOfStats(part, fileStats) -> "fileStats"
          [] OTHER -> "residual"
  IN  [l \in {"partition", "rowGroupStats", "fileStats", "residual"} |->
         SelectSeq(Conjuncts(e), LAMBDA part : level(part) = l)]

RowStart(file, g) == FoldLeft(LAMBDA n, h : n + Len(h.rows), 0, SubSeq(file, 1, g - 1))
RowsOf(file) == FlattenSeq([g \in DOMAIN file |-> file[g].rows])

\* appendRowGroupRange: a group that follows the last range extends it.
AppendRange(ranges, index) ==
  IF ranges # <<>> /\ Last(ranges).end = index
  THEN [ranges EXCEPT ![Len(ranges)].end = index + 1]
  ELSE Append(ranges, [start |-> index, end |-> index + 1])

\* planRowGroupsFromMetadata: the ranges of groups, from 0, that may match.
RowGroupRanges(file, e) ==
  FoldLeft(LAMBDA ranges, g : IF MayMatch(file[g], e) THEN AppendRange(ranges, g - 1) ELSE ranges,
           <<>>, [g \in DOMAIN file |-> g])

\* taskRowWindows: the rows of a task's ranges; a range outside the file is dropped.
TaskRowWindows(file, ranges) ==
  LET groups == Len(file)
      kept == SelectSeq(ranges, LAMBDA r : r.start >= 0 /\ r.start < r.end /\ r.start < groups)
      last(r) == IF r.end < groups THEN r.end ELSE groups
  IN  [i \in DOMAIN kept |-> [start |-> RowStart(file, kept[i].start + 1),
                              end |-> RowStart(file, last(kept[i]) + 1)]]

Lesser(a, b) == IF a < b THEN a ELSE b
Greater(a, b) == IF a > b THEN a ELSE b

\* The windows of a batch each that a read of [start, end) decodes, with what the
\* statistics say of them: residualPredicateSatisfied.
ScanWindows(file, start, end, e, size) ==
  FlattenSeq([g \in DOMAIN file |->
    LET from == Greater(RowStart(file, g), start)
        to == Lesser(RowStart(file, g + 1), end)
    IN  IF from >= to \/ ~MayMatch(file[g], e) THEN <<>>
        ELSE [b \in 1..((to - from + size - 1) \div size) |->
                [start |-> from + (b - 1) * size,
                 end |-> Lesser(from + b * size, to),
                 satisfied |-> MustMatch(file[g], e)]]])

WindowRows(file, w) == SubSeq(RowsOf(file), w.start + 1, w.end)

\* scanParquetTaskBatches: every decoded row is tested again.
ScanTaskRows(file, ranges, e, size) ==
  FlattenSeq([i \in DOMAIN TaskRowWindows(file, ranges) |->
    LET t == TaskRowWindows(file, ranges)[i]
        scanned == ScanWindows(file, t.start, t.end, e, size)
    IN  FlattenSeq([w \in DOMAIN scanned |->
          SelectSeq(WindowRows(file, scanned[w]), LAMBDA row : Matches(e, row))])])

\* A batch of the rows of a window, as columns.
ColumnBatch(rows) ==
  [c \in DOMAIN rows[1] |->
     VectorFromValues([i \in DOMAIN rows |-> rows[i][c]], [i \in DOMAIN rows |-> 1])]

\* scanParquetTaskColumnBatches: a window the statistics satisfy is not tested;
\* what the masks cannot decide is decided row by row.
Hits(rows, selected) == FlattenSeq([i \in DOMAIN rows |-> IF i \in selected THEN <<rows[i]>> ELSE <<>>])
Masked(rows, mask, e) ==
  IF FallsBack(mask) THEN SelectSeq(rows, LAMBDA row : Matches(e, row)) ELSE Hits(rows, SelectedRows(mask))
Emitted(rows, satisfied, e) ==
  IF satisfied THEN rows ELSE Masked(rows, PredicateMask(ColumnBatch(rows), e), e)

ScanTaskColumns(file, ranges, e, size) ==
  FlattenSeq([i \in DOMAIN TaskRowWindows(file, ranges) |->
    LET t == TaskRowWindows(file, ranges)[i]
        scanned == ScanWindows(file, t.start, t.end, e, size)
    IN  FlattenSeq([w \in DOMAIN scanned |-> Emitted(WindowRows(file, scanned[w]), scanned[w].satisfied, e)])])

\* planParquetTaskWorkUnits: the ranges of each work unit, or a refusal.
NoLimit == -1
TooManyRows == <<"too many rows">>

WorkUnits(file, ranges, maxGroups, maxRows) ==
  LET count(g) == Len(file[g + 1].rows)
      indices == FlattenSeq([i \in DOMAIN ranges |->
                   [k \in 1..Greater(0, Lesser(ranges[i].end, Len(file)) - Greater(0, ranges[i].start))
                      |-> Greater(0, ranges[i].start) + k - 1]])
      empty == [ranges |-> <<>>, groups |-> 0, rows |-> 0]
      step(acc, g) ==
        LET cur == acc.current
            full == \/ maxGroups # NoLimit /\ cur.groups > 0 /\ cur.groups + 1 > maxGroups
                    \/ maxRows # NoLimit /\ cur.rows > 0 /\ cur.rows + count(g) > maxRows
            base == IF full THEN empty ELSE cur
        IN  [units |-> IF full THEN Append(acc.units, cur.ranges) ELSE acc.units,
             current |-> [ranges |-> AppendRange(base.ranges, g),
                          groups |-> base.groups + 1, rows |-> base.rows + count(g)]]
      done == FoldLeft(step, [units |-> <<>>, current |-> empty], indices)
  IN  IF maxRows # NoLimit /\ \E i \in DOMAIN indices : count(indices[i]) > maxRows
      THEN TooManyRows
      ELSE IF done.current.groups = 0 THEN done.units
      ELSE Append(done.units, done.current.ranges)

\* splitTaskByRowGroupCount: the same with the count the plan remembered.
SplitByRowGroupCount(groupCount, ranges, maxGroups) ==
  WorkUnits([g \in 1..groupCount |-> [rows |-> <<>>]], ranges, maxGroups, NoLimit)

\* mergeRowGroupRanges: tasks of one file are read together; overlaps merge.
MergeRanges(ranges) ==
  LET before(a, b) == a.start < b.start \/ (a.start = b.start /\ a.end < b.end)
      step(merged, r) ==
        IF merged # <<>> /\ Last(merged).end >= r.start
        THEN [merged EXCEPT ![Len(merged)].end = Greater(@, r.end)]
        ELSE Append(merged, r)
  IN  FoldLeft(step, <<>>, SortSeq(ranges, before))
=============================================================================
