-------------------------- MODULE BatchEvaluator --------------------------
(***************************************************************************)
(* The vectorised evaluator (core/src/batch.ts, batch-call.ts): columns as *)
(* vectors with a validity bitmap, predicates as masks over a batch.       *)
(*                                                                         *)
(* What is evaluated at once (masks, and the construction of an operand)   *)
(* throws for the whole batch; what is evaluated per row (valueAt) throws  *)
(* only where it is asked for.  A mask is a sequence of SQL booleans; an   *)
(* error anywhere in it is the batch's.                                    *)
(***************************************************************************)
EXTENDS Evaluator

\* A timestamp vector holds whole units; UnitTicks of them are a tick each.
\* A null cell holds the type's default value, which must never be read.
Vector(type, values, valid, unit) ==
  [type |-> type, values |-> values, valid |-> valid, unit |-> unit,
   indices |-> <<>>]

\* BigInt division truncates towards zero.
EpochForUnit(ticks, unit) == IF ticks < 0 THEN -((-ticks) \div unit) ELSE ticks \div unit

ShapeOf(v) ==
  CASE v.type \in {"number", "nan"} -> "f64"
    [] v.type = "bigint" -> "i64"
    [] v.type = "boolean" -> "bool"
    [] v.type = "string" -> "utf8"
    [] OTHER -> v.type

DefaultCell(shape) ==
  CASE shape = "f64" -> Number(0)
    [] shape = "i64" -> BigInt(0)
    [] shape = "bool" -> False
    [] shape = "utf8" -> Text(0, NoInstant)
    [] shape = "timestamp" -> Timestamp(0)
    [] OTHER -> Binary

\* vectorShape: all values of a column have one shape.
Mixed(cells) ==
  \E i, j \in DOMAIN cells : /\ Null \notin {cells[i], cells[j]}
                             /\ ShapeOf(cells[i]) # ShapeOf(cells[j])

\* vectorFromValues, timestampValues: the unit is that of the first timestamp
\* and the others are cut down to it.  units[i] is the unit of cell i.
VectorFromValues(cells, units) ==
  LET some == {i \in DOMAIN cells : cells[i] # Null}
      first == CHOOSE i \in some : \A j \in some : i <= j
      shape == ShapeOf(cells[first])
      cell(i) == IF cells[i] = Null THEN DefaultCell(shape)
                 ELSE IF shape = "timestamp"
                 THEN Timestamp(EpochForUnit(cells[i].key, units[first]))
                 ELSE cells[i]
  IN  IF some = {}
      THEN Vector("null", cells, [i \in DOMAIN cells |-> TRUE], 1)
      ELSE Vector(shape, [i \in DOMAIN cells |-> cell(i)],
                  [i \in DOMAIN cells |-> cells[i] # Null], units[first])

\* A dictionary-encoded column: the distinct cells once, and an index a row.
DictionaryVector(dictionary, indices, valid) ==
  [type |-> "dict", values |-> dictionary, valid |-> valid, unit |-> 1,
   indices |-> indices]

VectorLength(v) == IF v.type = "dict" THEN Len(v.indices) ELSE Len(v.values)

RECURSIVE ScalarVectorValue(_, _)
ScalarVectorValue(v, i) ==
  CASE v.type = "null" \/ ~v.valid[i] -> Null
    [] v.type = "dict" -> ScalarVectorValue(v.values, v.indices[i])
    [] v.type = "timestamp" -> Timestamp(v.values[i].key * v.unit)
    [] OTHER -> v.values[i]

\* materializeBatchRows.
MaterializeRow(batch, i) == [c \in DOMAIN batch |-> ScalarVectorValue(batch[c], i)]
RowCount(batch) == VectorLength(batch[CHOOSE c \in DOMAIN batch : TRUE])

FlipOp(op) ==
  CASE op = "lt" -> "gt" [] op = "lte" -> "gte"
    [] op = "gt" -> "lt" [] op = "gte" -> "lte" [] OTHER -> op

\* compareNumberMaskValue on two f64 values: here NaN is unordered, and only ne holds.
CompareFloats(op, l, r) ==
  IF NaN \in {l, r} THEN op = "ne" ELSE CompareOrder(op, Order(l.key, r.key))

\* compareVectorLiteralMasks on a plain vector: the kernels that exist.
HasKernel(v, lit) ==
  \/ lit = Null
  \/ v.type = "f64" /\ lit.type \in {"number", "nan"}
  \/ v.type = "i64" /\ lit.type \in {"bigint", "number"}
  \/ v.type = "timestamp" /\ HasInstant(lit)

\* The kernel of a cell, given the literal; the literal of a timestamp
\* comparison is cut down to the vector's unit.
Kernel(op, v, cell, lit) ==
  CASE v.type = "f64" -> CompareFloats(op, cell, lit)
    [] v.type = "i64" -> CompareOrder(op, Order(cell.key, lit.key))
    [] v.type = "timestamp" ->
         CompareOrder(op, Order(cell.key, EpochForUnit(lit.instant, v.unit)))

FaultKernelMask(op, v, lit) ==
  [i \in 1..Len(v.values) |->
     IF lit = Null THEN Null ELSE Bool(Kernel(op, v, v.values[i], lit))]

KernelMask(op, v, lit) ==
  [i \in 1..Len(v.values) |->
     IF lit = Null \/ ~v.valid[i] THEN Null
     ELSE Bool(Kernel(op, v, v.values[i], lit))]

\* compareDictLiteralMasks: the kernel runs once on the dictionary.
VectorLiteralMask(op, v, lit) ==
  IF v.type # "dict" THEN KernelMask(op, v, lit)
  ELSE LET dictionary == KernelMask(op, v.values, lit)
       IN  [i \in DOMAIN v.indices |->
              IF ~v.valid[i] THEN Null ELSE dictionary[v.indices[i]]]

VectorHasKernel(v, lit) ==
  HasKernel(IF v.type = "dict" /\ lit # Null THEN v.values ELSE v, lit)

AllRows(batch, v) == [i \in 1..RowCount(batch) |-> v]

\* Of several operands: what has no vector form throws when it is built, before
\* any row is read.
FirstThrown(values) ==
  IF \E i \in DOMAIN values : IsError(values[i]) /\ values[i] # TypeError
  THEN FirstError(SelectSeq(values, LAMBDA v : v # TypeError))
  ELSE FirstError(values)
CannotBeBuilt(values) == \E i \in DOMAIN values : values[i] \in {Unsupported, UnknownColumn}

FirstMask(masks) ==
  masks[CHOOSE k \in DOMAIN masks : Throws(masks[k]) /\ \A j \in 1..(k - 1) : ~Throws(masks[j])]
AnyThrows(masks) == \E k \in DOMAIN masks : Throws(masks[k])

RowValues(vs, i) == [k \in DOMAIN vs |-> vs[k][i]]
\* An operand that cannot be built throws when it is built.
RowResult(e, v) == IF Throws(v) THEN FirstThrown(v) ELSE Result(e, v)
EachRow(batch, e, vs) == [i \in 1..RowCount(batch) |-> RowResult(e, RowValues(vs, i))]

CaseRow(conditions, values, else) ==
  LET hit == {k \in DOMAIN conditions : conditions[k] = True}
  IN  IF hit = {} THEN else ELSE values[CHOOSE k \in hit : \A j \in hit : k <= j]
CaseValues(batch, masks, values, else) ==
  IF AnyThrows(masks) THEN AllRows(batch, FirstError(FirstMask(masks)))
  ELSE IF \E k \in DOMAIN values : CannotBeBuilt(values[k]) THEN AllRows(batch, Unsupported)
  ELSE [i \in 1..RowCount(batch) |-> CaseRow(RowValues(masks, i), RowValues(values, i), else[i])]

BothMasks(low, high) ==
  IF Throws(low) THEN low ELSE IF Throws(high) THEN high
  ELSE [i \in DOMAIN low |-> SqlAnd(low[i], high[i])]
LogicalMask(batch, op, masks) ==
  IF AnyThrows(masks) THEN AllRows(batch, FirstError(FirstMask(masks)))
  ELSE [i \in 1..RowCount(batch) |-> LogicalResult(op, ToSet(RowValues(masks, i)))]
NotMask(mask) == IF Throws(mask) THEN mask ELSE [i \in DOMAIN mask |-> SqlNot(mask[i])]

\* A comparison of a column that has a kernel for the literal.
Fast(batch, x, y) ==
  /\ x.kind = "column" /\ x.name \in DOMAIN batch /\ y.kind = "literal"
  /\ VectorHasKernel(batch[x.name], y.value)

RECURSIVE PredicateMask(_, _), BatchValues(_, _)

\* batchExprValues: valueAt(i) for every row i.
BatchValues(batch, e) ==
  CASE e.kind = "literal" -> AllRows(batch, e.value)
    [] e.kind = "column" ->
         IF e.name \notin DOMAIN batch THEN AllRows(batch, UnknownColumn)
         ELSE [i \in 1..RowCount(batch) |-> ScalarVectorValue(batch[e.name], i)]
    [] e.kind = "call" /\ e.fn \in {"least", "greatest"} -> AllRows(batch, Unsupported)
    [] e.kind = "arithmetic" \/ (e.kind = "call" /\ e.fn \notin {"least", "greatest"}) ->
         EachRow(batch, e, [k \in DOMAIN Operands(e) |-> BatchValues(batch, Operands(e)[k])])
    [] e.kind = "case" ->
         CaseValues(batch, [k \in DOMAIN e.whens |-> PredicateMask(batch, e.whens[k].when)],
                    [k \in DOMAIN e.whens |-> BatchValues(batch, e.whens[k].value)],
                    BatchValues(batch, e.else))
    [] OTHER -> AllRows(batch, Unsupported)

PredicateMask(batch, e) ==
  CASE e.kind = "compare" /\ Fast(batch, e.left, e.right) ->
         VectorLiteralMask(e.op, batch[e.left.name], e.right.value)
    [] e.kind = "compare" /\ Fast(batch, e.right, e.left) ->
         VectorLiteralMask(FlipOp(e.op), batch[e.right.name], e.left.value)
    [] \/ e.kind \in {"in", "null-check"}
       \/ e.kind = "compare" /\ ~Fast(batch, e.left, e.right) /\ ~Fast(batch, e.right, e.left) ->
         EachRow(batch, e, [k \in DOMAIN Operands(e) |-> BatchValues(batch, Operands(e)[k])])
    [] e.kind = "between" ->
         BothMasks(PredicateMask(batch, Cmp("gte", e.target, e.low)),
                   PredicateMask(batch, Cmp("lte", e.target, e.high)))
    [] e.kind = "logical" ->
         LogicalMask(batch, e.op, [k \in DOMAIN e.operands |-> PredicateMask(batch, e.operands[k])])
    [] e.kind = "not" -> NotMask(PredicateMask(batch, e.operand))
    [] e.kind = "like" -> AllRows(batch, Unsupported)
    [] OTHER -> [i \in 1..RowCount(batch) |-> ToSqlBoolean(BatchValues(batch, e)[i])]

\* tryPredicateSelection: what has no vector form, or names a column the batch
\* does not have, falls back to the rows; any other error is the query's.
FallsBack(mask) == Throws(mask) /\ FirstError(mask) \in {Unsupported, UnknownColumn}
SelectedRows(mask) == {i \in DOMAIN mask : mask[i] = True}
=============================================================================
