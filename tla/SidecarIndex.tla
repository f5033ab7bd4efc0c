---------------------------- MODULE SidecarIndex ----------------------------
(***************************************************************************)
(* Side-car indexes (core/src/sidecar-index.ts): what is kept of a file's  *)
(* rows beside it (bounds, boxes, H3 cells), and which files a filter may  *)
(* be true in.  The H3 tests of rows, of batches and of row groups are     *)
(* with them (evaluator.ts, batch-call.ts, parquet/row-group-pruning.ts).  *)
(***************************************************************************)
EXTENDS Evaluator

IsIndexValue(v) == v.type \in {"string", "number", "bigint", "boolean"}

\* compareIndexValues: JavaScript finds values of different kinds neither less nor greater.
CompareIndexValues(l, r) ==
  IF l.type = r.type \/ {l.type, r.type} = {"number", "bigint"} THEN Order(l.key, r.key) ELSE 0

SameIndexType(l, r) == l.type = r.type \/ {l.type, r.type} = {"number", "bigint"}

NoEntry == [min |-> Null, max |-> Null, nullCount |-> 0]
IndexRefused == [min |-> TypeError, max |-> TypeError, nullCount |-> 0]

\* buildMinMaxIndex, of one column.
IndexCell(entry, v) ==
  CASE entry = IndexRefused -> entry
    [] v = Null -> [entry EXCEPT !.nullCount = @ + 1]
    [] ~IsIndexValue(v) -> IndexRefused
    [] OTHER -> [entry EXCEPT
                   !.min = IF @ = Null \/ CompareIndexValues(v, @) < 0 THEN v ELSE @,
                   !.max = IF @ = Null \/ CompareIndexValues(v, @) > 0 THEN v ELSE @]
BuildMinMaxIndex(rows, columns) ==
  [c \in columns |-> FoldLeft(LAMBDA entry, row : IndexCell(entry, row[c]), NoEntry, rows)]

\* columnLiteralPair does not turn the operator of a literal on the left around.
IndexPair(e) ==
  CASE e.left.kind = "column" /\ e.right.kind = "literal" ->
         [column |-> e.left.name, value |-> e.right.value]
    [] e.right.kind = "column" /\ e.left.kind = "literal" ->
         [column |-> e.right.name, value |-> e.left.value]
    [] OTHER -> [column |-> "", value |-> Null]

\* The index of a column that has one; a column of NULLs only has none.
IndexOf(file, column) ==
  IF column \in DOMAIN file.columns THEN file.columns[column] ELSE NoEntry
IndexSpeaks(entry, low, high) ==
  /\ entry.min # Null /\ IsIndexValue(low) /\ IsIndexValue(high)
  /\ SameIndexType(entry.min, low) /\ SameIndexType(entry.max, high)

IndexCompare(entry, op, v) ==
  IndexSpeaks(entry, v, v) =>
    LET low == CompareIndexValues(entry.min, v)
        high == CompareIndexValues(entry.max, v)
    IN  CASE op = "eq" -> low <= 0 /\ high >= 0
          [] op = "ne" -> ~(low = 0 /\ high = 0)
          [] op \in {"lt", "lte"} -> CompareOrder(op, low)
          [] op \in {"gt", "gte"} -> CompareOrder(op, high)

IndexBetween(entry, low, high) ==
  IndexSpeaks(entry, low, high) =>
    CompareIndexValues(entry.max, low) >= 0 /\ CompareIndexValues(entry.min, high) <= 0

\* h3_in of a row, and h3InMask, for a list of texts; GridDisk is the backend's.
GridDisk(origin, k) == {Text(origin.key + i, NoInstant) : i \in (-k)..k}
H3In(cell, cells) == IF cell = Null THEN Null ELSE Bool(cell \in cells)
H3Within(cell, origin, k) == IF Null \in {cell, origin} THEN Null ELSE Bool(cell \in GridDisk(origin, k))

\* The same question of a file's set of cells, and of a row group's bounds.
H3InMayMatch(indexed, cells) == cells \cap indexed # {}
H3WithinMayMatch(indexed, origin, k) == k > 0 \/ origin \in indexed
GroupH3InMayMatch(min, max, cells) == \E c \in cells : min.key <= c.key /\ c.key <= max.key
GroupH3WithinMayMatch(min, max, origin, k) == k # 0 \/ GroupH3InMayMatch(min, max, {origin})

\* fileMayMatch: NOT and everything the index does not speak of keep the file.
RECURSIVE FileMayMatch(_, _)
FileMayMatch(file, e) ==
  CASE e.kind = "compare" ->
         LET p == IndexPair(e) IN IndexCompare(IndexOf(file, p.column), e.op, p.value)
    [] e.kind = "between" ->
         /\ e.target.kind = "column" /\ e.low.kind = "literal" /\ e.high.kind = "literal"
         => IndexBetween(IndexOf(file, e.target.name), e.low.value, e.high.value)
    [] e.kind = "in" ->
         /\ ~e.negated /\ e.target.kind = "column"
         => \E i \in DOMAIN e.values :
              e.values[i].kind = "literal" =>
                IndexCompare(IndexOf(file, e.target.name), "eq", e.values[i].value)
    [] e.kind = "logical" /\ e.op = "and" ->
         \A i \in DOMAIN e.operands : FileMayMatch(file, e.operands[i])
    [] e.kind = "logical" /\ e.op = "or" ->
         \E i \in DOMAIN e.operands : FileMayMatch(file, e.operands[i])
    [] OTHER -> TRUE

PruneFilesWithIndex(files, where) ==
  [planned |-> {f \in files : FileMayMatch(f, where)},
   skipped |-> {f \in files : ~FileMayMatch(f, where)}]
=============================================================================
