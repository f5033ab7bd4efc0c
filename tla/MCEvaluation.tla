--------------------------- MODULE MCEvaluation ---------------------------
(***************************************************************************)
(* Inputs for expressions, batches, row groups and geometries, and what is *)
(* asked of each: the vectorised evaluator against the row evaluator,      *)
(* pruning and the scans of a task against a filter of all rows, and the   *)
(* spatial functions against the points they are about.                    *)
(***************************************************************************)
EXTENDS Pruning, Spatial

MCNoInstant == -99
MCNoStats == [none |-> TRUE]

\* Cells of the columns a and b, by type; instants and order disagree in the texts.
Floats == {Null, Number(0), Number(1), NaN}
BigInts == {Null, BigInt(1)}
Texts == {Null, Text(2, NoInstant), Text(3, NoInstant)}
Moments == {Null, Timestamp(-2), Timestamp(2)}
Flags == {Null, True, False}

Leaves ==
  {Cmp(op, Col("a"), Lit(Number(0))) : op \in CompareOps} \cup
  {Cmp(op, Lit(Number(1)), Col("a")) : op \in {"lt", "gte"}} \cup
  {Cmp("lt", Col("b"), Lit(v)) : v \in {Text(3, NoInstant), Number(1), Timestamp(2), Null}} \cup
  {Cmp(op, Col("b"), Lit(Timestamp(3))) : op \in {"eq", "gt", "lte"}} \cup
  {Cmp("eq", Col("a"), Col("b")), Cmp("eq", Col("missing"), Lit(Null)), Col("b"),
   In(TRUE, Col("a"), <<Lit(Null), Lit(Number(1))>>),
   In(FALSE, Col("a"), <<Lit(Number(0)), Lit(Null)>>),
   Between(Col("a"), Lit(Number(0)), Lit(Null)),
   Between(Col("b"), Lit(Number(1)), Lit(Number(1))),
   Between(Lit(Number(0)), Col("a"), Lit(NaN)),
   NullCheck(FALSE, Col("a")), NullCheck(TRUE, Col("b")), Like(Col("b")),
   Cmp("eq", Call("upper", <<Col("b")>>), Lit(Text(2, NoInstant))),
   Cmp("gt", Call("coalesce", <<Col("a"), Lit(Number(1))>>), Lit(Number(0))),
   Cmp("eq", Call("least", <<Col("a"), Lit(Number(0))>>), Lit(Number(0))),
   Cmp("eq", Call("nullif", <<Col("a"), Col("b")>>), Lit(Number(1))),
   Cmp("eq", Call("cast_number", <<Col("b")>>), Lit(Number(1))),
   Cmp("eq", Arith("mod", Col("a"), Lit(Number(0))), Col("a")),
   Cmp("eq", Arith("sub", Lit(Number(0)), Col("a")), Lit(Number(-1))),
   Case(<<When(Cmp("eq", Col("a"), Lit(Number(1))), Col("b")),
          When(NullCheck(FALSE, Col("b")), Lit(True))>>, Lit(False))}

Pairs == {Cmp("gt", Col("a"), Lit(Number(0))), Cmp("eq", Col("b"), Lit(Number(1))), Col("b"),
          NullCheck(FALSE, Col("a")), Like(Col("b"))}

Predicates ==
  Leaves \cup {Not(p) : p \in Leaves} \cup
  {Logical(op, <<p, q>>) : op \in {"and", "or"}, p \in Pairs, q \in Pairs}

Plain(cells) == VectorFromValues(cells, [i \in DOMAIN cells |-> 2])
Dictionary(cells) ==
  DictionaryVector(Plain(<<cells[2], cells[1]>>), <<2, 1>>, <<cells[1] # Null, TRUE>>)

Columns(S) == {Plain(<<x, y>>) : x \in S, y \in S}
Batches ==
  {[a |-> a, b |-> b] :
     a \in Columns(Floats) \cup {Dictionary(<<v, Number(1)>>) : v \in {Null, NaN}},
     b \in Columns(Texts) \cup Columns(Moments) \cup Columns(Flags) \cup Columns(BigInts)}

\* The comparisons of a predicate that become masks.
RECURSIVE MaskComparisons(_)
MaskComparisons(e) ==
  CASE e.kind = "compare" -> {e}
    [] e.kind = "between" -> {Cmp("gte", e.target, e.low), Cmp("lte", e.target, e.high)}
    [] e.kind = "not" -> MaskComparisons(e.operand)
    [] e.kind = "logical" -> UNION {MaskComparisons(e.operands[k]) : k \in DOMAIN e.operands}
    [] e.kind = "case" -> UNION {MaskComparisons(e.whens[k].when) : k \in DOMAIN e.whens}
    [] OTHER -> {}

\* Where a kernel answers otherwise than the row evaluator: it finds NaN equal to
\* nothing, and the evaluator to every number ...
NaNDiffers(op, cell, lit) ==
  NaN \in {cell, lit} /\ Null \notin {cell, lit} /\ op \in {"eq", "ne", "lte", "gte"}
\* ... and it compares an instant cut down to the unit of the vector.
FinerLiteral(v, cell, lit) ==
  /\ v.type = "timestamp" /\ HasInstant(lit) /\ cell # Null
  /\ cell.key = EpochForUnit(lit.instant, v.unit) * v.unit /\ cell.key # lit.instant

KernelDiffers(batch, i, op, x, y) ==
  /\ Fast(batch, x, y)
  /\ LET v == batch[x.name]
         cell == ScalarVectorValue(v, i)
     IN  NaNDiffers(op, cell, y.value) \/ FinerLiteral(v, cell, y.value)
RowsThatDiffer(e, batch) ==
  {i \in 1..RowCount(batch) : \E c \in MaskComparisons(e) :
     KernelDiffers(batch, i, c.op, c.left, c.right) \/ KernelDiffers(batch, i, c.op, c.right, c.left)}

\* The mask of a batch is the rows' results but in those rows; a batch refused is a
\* row refused, or a CASE, whose branches are all evaluated.
RECURSIVE HasCase(_)
HasCase(e) ==
  CASE e.kind = "case" -> TRUE
    [] e.kind = "not" -> HasCase(e.operand)
    [] OTHER -> FALSE

MaskAgrees(mask, results, e, differ) ==
  \/ FallsBack(mask)
  \/ Throws(mask) /\ (Throws(results) \/ HasCase(e))
  \/ ~Throws(mask) /\ \A i \in DOMAIN mask : mask[i] = results[i] \/ i \in differ
BatchAgrees(e, batch) ==
  MaskAgrees(PredicateMask(batch, e),
             [i \in 1..RowCount(batch) |-> MatchResult(e, MaterializeRow(batch, i))],
             e, RowsThatDiffer(e, batch))

\* Files of two row groups of up to two rows; the statistics are those a Parquet
\* writer leaves, of a column without NaN, its null count known or not.
Bounds(rows, c, counted) ==
  LET values == {rows[i][c] : i \in DOMAIN rows} \ {Null}
      least == CHOOSE v \in values : \A w \in values : v.key <= w.key
      most == CHOOSE v \in values : \A w \in values : v.key >= w.key
  IN  IF values = {} THEN NoStats
      ELSE Stats(least, most, counted /\ \A i \in DOMAIN rows : rows[i][c] # Null)

ParquetGroup(rows, counted) ==
  [rows |-> rows, stats |-> [c \in {"a", "b"} |-> Bounds(rows, c, counted)]]

AB(a, b) == [a |-> a, b |-> b]
GroupRows ==
  {<<AB(Number(0), Text(2, NoInstant))>>, <<AB(Null, Text(3, NoInstant))>>,
   <<AB(Number(1), Null), AB(Number(0), Text(2, NoInstant))>>,
   <<AB(Number(1), Text(3, NoInstant)), AB(Number(1), Text(3, NoInstant))>>,
   <<AB(Number(2), Null), AB(Null, Null)>>}
Files == {<<ParquetGroup(r, counted), ParquetGroup(q, TRUE)>> :
            r \in GroupRows, q \in GroupRows, counted \in BOOLEAN}

Bound == {Number(0), Number(1), Null}
PruningLeaves ==
  {Cmp(op, Col("a"), Lit(Number(n))) : op \in CompareOps, n \in 0..2} \cup
  {Cmp(op, Lit(BigInt(1)), Col("a")) : op \in CompareOps} \cup
  {Cmp(op, Col("b"), Lit(Text(3, NoInstant))) : op \in {"lt", "gte", "ne"}} \cup
  {Between(Col("a"), Lit(l), Lit(h)) : l \in Bound, h \in Bound} \cup
  {In(neg, Col("a"), <<Lit(Number(2)), Lit(v)>>) : neg \in BOOLEAN, v \in Bound} \cup
  {NullCheck(FALSE, Col("a")), Lit(True)}
PruningPairs ==
  {Cmp("gt", Col("a"), Lit(Number(0))), Cmp("lte", Col("a"), Lit(Number(1))),
   Cmp("ne", Col("b"), Lit(Text(3, NoInstant))), NullCheck(TRUE, Col("b"))}
Filters ==
  PruningLeaves \cup {Not(p) : p \in PruningLeaves} \cup
  {Logical(op, <<p, q>>) : op \in {"and", "or"}, p \in PruningPairs, q \in PruningPairs}

\* Texts in ISO form, whose instants a clock gives, and timestamps, in one column
\* each: fractions of one length make a clock run forward, others may not.
Clocks == {<<0, 1>>, <<1, 0>>}
TimeText(clock, n) == Text(n, clock[n])
TimeFiles(clock) ==
  LET rows(x, y) == <<AB(Number(0), x), AB(Number(1), y)>>
      groups == {rows(TimeText(clock, 1), TimeText(clock, 2)), rows(TimeText(clock, 2), Null)}
  IN  {<<ParquetGroup(g, TRUE), ParquetGroup(h, TRUE)>> : g \in groups, h \in groups} \cup
      {<<ParquetGroup(rows(Timestamp(0), Timestamp(1)), TRUE)>>}
TimeFilters(clock) ==
  LET times == {TimeText(clock, 1), TimeText(clock, 2), Timestamp(0), Timestamp(1)}
  IN  {Cmp(op, Col("b"), Lit(t)) : op \in CompareOps, t \in times} \cup
      {Between(Col("b"), Lit(t), Lit(u)) : t \in times, u \in times} \cup
      {In(FALSE, Col("b"), <<Lit(t)>>) : t \in times}

RECURSIVE LiteralsOf(_)
LiteralsOf(e) ==
  CASE e.kind = "literal" -> {e.value}
    [] e.kind = "column" -> {}
    [] OTHER -> UNION {LiteralsOf(Operands(e)[i]) : i \in DOMAIN Operands(e)}
TimesInOrder(file, e) ==
  InTimeOrder({RowsOf(file)[i].b : i \in DOMAIN RowsOf(file)} \cup LiteralsOf(e))

\* Every row of the kept ranges that passes the filter, and no other, whichever way
\* the task is cut and read.
ScanTasksAgree(file, e, ranges, wanted) ==
  LET whole == <<[start |-> 0, end |-> Len(file) + 1]>>
      units(maxGroups, maxRows) == WorkUnits(file, ranges, maxGroups, maxRows)
      divisions == {<<whole>>, <<ranges>>, units(1, NoLimit), units(NoLimit, 2),
                    SplitByRowGroupCount(Len(file), ranges, 1)}
  IN  /\ TooManyRows \notin divisions
      /\ \A cut \in {<<tasks, 1>> : tasks \in divisions} \cup {<<<<ranges>>, 2>>} :
           FlattenSeq([i \in DOMAIN cut[1] |-> ScanTaskColumns(file, cut[1][i], e, cut[2])]) = wanted
      /\ \A tasks \in {ranges, MergeRanges(FlattenSeq(units(1, NoLimit)))}, size \in 1..2 :
           ScanTaskRows(file, tasks, e, size) = wanted
ScansAgree(file, e) ==
  TimesInOrder(file, e) =>
  ScanTasksAgree(file, e, RowGroupRanges(file, e),
                 SelectSeq(RowsOf(file), LAMBDA row : Matches(e, row)))

\* The levels of a plan hold every conjunct once, and a row that passes passes each.
LevelsCover(file, e) ==
  LET plan == ClassifyPredicate(e, {"p"}, {"a"}, {"b"})
      parts == plan.partition \o plan.rowGroupStats \o plan.fileStats \o plan.residual
  IN  /\ ToSet(parts) = ToSet(Conjuncts(e)) /\ Len(parts) = Len(Conjuncts(e))
      /\ \A g \in DOMAIN file : \A i \in DOMAIN file[g].rows :
           Matches(e, file[g].rows[i]) =>
             \A k \in DOMAIN parts : Matches(parts[k], file[g].rows[i])

\* Geometries on a grid of three by three points.
Grid == (0..2) \X (0..2)
Boxes == {StBBox(0, 0, 1, 2), StBBox(1, 1, 2, 2), StBBox(2, 0, 2, 1), StBBox(1, 0, 0, 0)}
Geometries ==
  {Geometry("Point", <<p>>) : p \in Grid} \cup {b \in Boxes : b.type # Rejected} \cup
  {Geometry("LineString", <<Point(0, 0), Point(2, 0)>>),
   Geometry("LineString", <<Point(0, 2), Point(0, 0), Point(1, 0)>>),
   Geometry("LineString", <<Point(1, 0), Point(1, 2)>>),
   Geometry("Polygon", <<Point(0, 0), Point(0, 2), Point(2, 2), Point(2, 0)>>),
   Geometry("Polygon", BBoxRing([minx |-> 1, miny |-> 0, maxx |-> 2, maxy |-> 1]))}
SpatialOps == {"st_intersects", "st_disjoint", "st_contains", "st_within", "st_dwithin"}

RegionOf(g) == Region(ToGeometry(g))
ByPoints(op, a, b, distance) ==
  CASE op = "st_intersects" -> RegionOf(a) \cap RegionOf(b) # {}
    [] op = "st_disjoint" -> RegionOf(a) \cap RegionOf(b) = {}
    [] op = "st_contains" -> RegionOf(b) \subseteq RegionOf(a)
    [] op = "st_within" -> RegionOf(a) \subseteq RegionOf(b)
    [] op = "st_dwithin" -> \E p \in RegionOf(a), q \in RegionOf(b) : PointDistance(p, q) <= distance

SpatialIs(op, a, b, distance, expected) ==
  /\ SpatialPredicate(op, a, b, distance) = expected
  /\ op # "st_disjoint" => \A columnFirst \in BOOLEAN :
       SpatialMask(op, IF columnFirst THEN a ELSE b, IF columnFirst THEN b ELSE a, columnFirst, distance)
         = expected
  /\ op = "st_intersects" /\ expected = True =>
       StIntersectsMayMatch(GroupBBox(<<a, Geometry("Point", <<Point(0, 1)>>)>>), EnvelopeFromGeometry(b))
  /\ a.type \in {"BBox", "Polygon"} => GeometryArea(a) = GeometryArea(ToGeometry(a))
SpatialAgree(op, a, b, distance) ==
  SpatialIs(op, a, b, distance,
            IF NullGeometry \in {a, b} THEN Null ELSE Bool(ByPoints(op, a, b, distance)))

\* A geometry reads back from its bytes; its bytes cut short, or with more after
\* them, are refused.
Headers == {Header("", z, m, srid) : z \in BOOLEAN, m \in BOOLEAN, srid \in BOOLEAN}
           \cup {IsoHeader("", family) : family \in 0..3}
ReadsBack(g) ==
  \A h \in Headers :
    LET words == EncodeWkb(g, [h EXCEPT !.type = g.type])
    IN  /\ ParseWkb(words) = g
        /\ ParseWkb(Append(words, 0)) = Truncated
        /\ \A n \in 0..(Len(words) - 1) : ParseWkb(SubSeq(words, 1, n)) = Truncated
=============================================================================
