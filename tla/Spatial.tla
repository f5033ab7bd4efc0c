------------------------------ MODULE Spatial ------------------------------
(***************************************************************************)
(* The spatial functions (core/src/evaluator.ts, batch-call.ts, and the    *)
(* st_intersects part of parquet/src/row-group-pruning.ts).                *)
(*                                                                         *)
(* A geometry is its type and its points on an integer grid; its lines run *)
(* along the axes, so that the points it covers decide the questions asked *)
(* of the geometry backend (the external Turf), and so that every distance *)
(* has an integer square.  A polygon is a rectangle ring, open or closed.  *)
(***************************************************************************)
EXTENDS SqlValues, SequencesExt

Geometry(type, points) == [type |-> type, points |-> points]
NullGeometry == Geometry("null", <<>>)
Rejected == "type error"

Point(x, y) == <<x, y>>
Lowest(S) == CHOOSE a \in S : \A b \in S : a <= b
Highest(S) == CHOOSE a \in S : \A b \in S : a >= b

\* bboxRing: the rectangle of a box, closed.
BBoxRing(b) ==
  <<Point(b.minx, b.miny), Point(b.maxx, b.miny), Point(b.maxx, b.maxy),
    Point(b.minx, b.maxy), Point(b.minx, b.miny)>>

\* st_bbox: bounds out of order are refused.
StBBox(minx, miny, maxx, maxy) ==
  IF minx > maxx \/ miny > maxy THEN Geometry(Rejected, <<>>)
  ELSE Geometry("BBox", <<Point(minx, miny), Point(maxx, maxy)>>)

BoxOf(g) == [minx |-> g.points[1][1], miny |-> g.points[1][2],
             maxx |-> g.points[2][1], maxy |-> g.points[2][2]]

CloseRing(ring) == IF Head(ring) = Last(ring) THEN ring ELSE Append(ring, Head(ring))

\* toGeometry: a box becomes its rectangle, an open ring is closed.
ToGeometry(g) ==
  CASE g.type = "BBox" -> Geometry("Polygon", BBoxRing(BoxOf(g)))
    [] g.type = "Polygon" -> Geometry("Polygon", CloseRing(g.points))
    [] OTHER -> g

PointsEnvelope(points) ==
  LET xs == {points[i][1] : i \in DOMAIN points}
      ys == {points[i][2] : i \in DOMAIN points}
  IN  [minx |-> Lowest(xs), miny |-> Lowest(ys), maxx |-> Highest(xs), maxy |-> Highest(ys)]

\* envelopeFromGeometry works on what was parsed, envelopeOf on what was closed.
EnvelopeFromGeometry(g) == IF g.type = "BBox" THEN BoxOf(g) ELSE PointsEnvelope(g.points)
EnvelopeOf(g) == PointsEnvelope(g.points)

BBoxIntersects(l, r) ==
  l.maxx >= r.minx /\ l.minx <= r.maxx /\ l.maxy >= r.miny /\ l.miny <= r.maxy

BBoxContains(l, r) ==
  l.minx <= r.minx /\ l.miny <= r.miny /\ l.maxx >= r.maxx /\ l.maxy >= r.maxy

Square(n) == n * n

\* Plausible bug: the gap is measured from the wrong side.
FaultBBoxDistance(l, r) ==
  LET gap(lmin, lmax, rmin, rmax) ==
        IF lmax < rmin THEN rmax - lmin ELSE IF rmax < lmin THEN lmin - rmax ELSE 0
  IN  Square(gap(l.minx, l.maxx, r.minx, r.maxx)) + Square(gap(l.miny, l.maxy, r.miny, r.maxy))

\* bboxDistance, squared.
BBoxDistance(l, r) ==
  LET gap(lmin, lmax, rmin, rmax) ==
        IF lmax < rmin THEN rmin - lmax ELSE IF rmax < lmin THEN lmin - rmax ELSE 0
  IN  Square(gap(l.minx, l.maxx, r.minx, r.maxx)) + Square(gap(l.miny, l.maxy, r.miny, r.maxy))

\* pathSegments; a polygon's path is closed when its ring is not.
PathSegments(points, closed) ==
  {<<points[i - 1], points[i]>> : i \in 2..Len(points)} \cup
  (IF closed /\ Len(points) > 1 /\ Head(points) # Last(points)
   THEN {<<Last(points), Head(points)>>} ELSE {})

GeometrySegments(g) ==
  IF g.type = "Point" THEN {} ELSE PathSegments(g.points, g.type = "Polygon")

Between2(v, a, b) == (a <= v /\ v <= b) \/ (b <= v /\ v <= a)
Covers(segment, p) ==
  /\ Between2(p[1], segment[1][1], segment[2][1])
  /\ Between2(p[2], segment[1][2], segment[2][2])

\* The grid points a geometry covers.
Region(g) ==
  LET e == EnvelopeOf(g)
      box == (e.minx..e.maxx) \X (e.miny..e.maxy)
  IN  CASE g.type = "Polygon" -> box
        [] g.type = "Point" -> {g.points[1]}
        [] OTHER -> {p \in box : \E s \in GeometrySegments(g) : Covers(s, p)}

\* The backend.
BooleanIntersects(a, b) == Region(a) \cap Region(b) # {}
BooleanContains(a, b) == Region(b) \subseteq Region(a)

PointDistance(a, b) == Square(a[1] - b[1]) + Square(a[2] - b[2])

\* The closest point of a segment along an axis is the clamped projection.
Clamp(v, a, b) ==
  LET low == Lowest({a, b}) high == Highest({a, b})
  IN  IF v < low THEN low ELSE IF v > high THEN high ELSE v
PointSegmentDistance(p, s) ==
  PointDistance(p, Point(Clamp(p[1], s[1][1], s[2][1]), Clamp(p[2], s[1][2], s[2][2])))

Orientation(a, b, c) ==
  LET cross == (b[1] - a[1]) * (c[2] - a[2]) - (b[2] - a[2]) * (c[1] - a[1])
  IN  IF cross = 0 THEN 0 ELSE IF cross > 0 THEN 1 ELSE -1

SegmentsIntersect(l, r) ==
  LET abc == Orientation(l[1], l[2], r[1])  abd == Orientation(l[1], l[2], r[2])
      cda == Orientation(r[1], r[2], l[1])  cdb == Orientation(r[1], r[2], l[2])
  IN  \/ abc = 0 /\ Covers(l, r[1])
      \/ abd = 0 /\ Covers(l, r[2])
      \/ cda = 0 /\ Covers(r, l[1])
      \/ cdb = 0 /\ Covers(r, l[2])
      \/ abc * abd < 0 /\ cda * cdb < 0

SegmentDistance(l, r) ==
  IF SegmentsIntersect(l, r) THEN 0
  ELSE Lowest({PointSegmentDistance(l[1], r), PointSegmentDistance(l[2], r),
               PointSegmentDistance(r[1], l), PointSegmentDistance(r[2], l)})

\* geometryDistance, squared: points and edges, the inside only through the backend.
GeometryDistance(a, b) ==
  IF BooleanIntersects(a, b) THEN 0
  ELSE LET pa == ToSet(a.points) pb == ToSet(b.points)
           sa == GeometrySegments(a) sb == GeometrySegments(b)
       IN  Lowest({PointDistance(p, q) : p \in pa, q \in pb}
                    \cup {PointSegmentDistance(p, s) : p \in pa, s \in sb}
                    \cup {PointSegmentDistance(p, s) : p \in pb, s \in sa}
                    \cup {SegmentDistance(s, t) : s \in sa, t \in sb})

\* spatialPredicate and stDWithin: a row at a time, both operands normalised first.
\* distance is squared, and only st_dwithin reads it.
SpatialPredicate(op, left, right, distance) ==
  LET a == ToGeometry(left)  b == ToGeometry(right)
      ea == EnvelopeOf(a)  eb == EnvelopeOf(b)
  IN  IF NullGeometry \in {left, right} THEN Null
      ELSE Bool(
        CASE op = "st_intersects" -> BBoxIntersects(ea, eb) /\ BooleanIntersects(a, b)
          [] op = "st_disjoint" -> ~BBoxIntersects(ea, eb) \/ ~BooleanIntersects(a, b)
          [] op = "st_contains" -> BBoxContains(ea, eb) /\ BooleanContains(a, b)
          [] op = "st_within" -> BBoxContains(eb, ea) /\ BooleanContains(b, a)
          [] op = "st_dwithin" -> /\ BBoxDistance(ea, eb) <= distance
                                  /\ GeometryDistance(a, b) <= distance)

\* geometryVectorContainsMask, of one cell.
VectorContains(value, constant, constantContainsValue) ==
  LET envelope == EnvelopeFromGeometry(value)
  IN  IF constantContainsValue
      THEN BBoxContains(EnvelopeOf(constant), envelope)
             /\ BooleanContains(constant, ToGeometry(value))
      ELSE BBoxContains(envelope, EnvelopeOf(constant))
             /\ BooleanContains(ToGeometry(value), constant)

\* The masks of batch-call.ts: one operand is a column, the other a constant that
\* is normalised once; columnFirst says which.
SpatialMask(op, value, operand, columnFirst, distance) ==
  LET constant == ToGeometry(operand)
      envelope == EnvelopeFromGeometry(value)
  IN  IF NullGeometry \in {value, operand} THEN Null
      ELSE Bool(
        CASE op = "st_intersects" ->
               BBoxIntersects(envelope, EnvelopeOf(constant))
                 /\ BooleanIntersects(ToGeometry(value), constant)
          [] op = "st_contains" -> VectorContains(value, constant, ~columnFirst)
          [] op = "st_within" -> VectorContains(value, constant, columnFirst)
          [] op = "st_dwithin" ->
               /\ BBoxDistance(envelope, EnvelopeOf(constant)) <= distance
               /\ GeometryDistance(ToGeometry(value), constant) <= distance)

\* rowGroupBBox, stIntersectsMayMatch: the covering columns of a row group bound
\* the envelopes of its geometries.
StIntersectsMayMatch(groupBox, queryBox) == BBoxIntersects(groupBox, queryBox)
GroupBBox(geometries) ==
  PointsEnvelope(FlattenSeq([i \in DOMAIN geometries |->
    LET e == EnvelopeFromGeometry(geometries[i])
    IN  <<Point(e.minx, e.miny), Point(e.maxx, e.maxy)>>]))

\* geometryArea of a rectangle, doubled: the shoelace sum of the ring, closed or open.
RingArea(ring) ==
  LET next(i) == ring[(i % Len(ring)) + 1]
      sum == FoldLeft(LAMBDA n, i : n + ring[i][1] * next(i)[2] - next(i)[1] * ring[i][2],
                      0, [i \in DOMAIN ring |-> i])
  IN  IF sum < 0 THEN -sum ELSE sum

GeometryArea(g) ==
  CASE g.type = "BBox" -> LET b == BoxOf(g) IN 2 * (b.maxx - b.minx) * (b.maxy - b.miny)
    [] g.type = "Polygon" -> RingArea(g.points)
    [] OTHER -> 0

\* Well-known binary (WkbReader), a word at a time: the byte order, the header,
\* the counts and the coordinates.  The header's dimension count comes from the
\* EWKB flags or from the thousands of an ISO type.
Header(type, z, m, srid) == [type |-> type, z |-> z, m |-> m, srid |-> srid, iso |-> 0]
IsoHeader(type, family) ==
  [type |-> type, z |-> FALSE, m |-> FALSE, srid |-> FALSE, iso |-> family]
Dimensions(h) ==
  2 + (IF h.z \/ h.iso \in {1, 3} THEN 1 ELSE 0) + (IF h.m \/ h.iso \in {2, 3} THEN 1 ELSE 0)

Truncated == Geometry(Rejected, <<>>)

\* n positions of d coordinates each, of which two are kept, from the word at.
Positions(words, at, n, d) ==
  IF at + n * d - 1 > Len(words) THEN <<"truncated">>
  ELSE [i \in 1..n |-> Point(words[at + (i - 1) * d], words[at + (i - 1) * d + 1])]

\* WkbReader.geometry and parseWkbGeometry; a polygon here has one ring.
ParseWkb(words) ==
  IF Len(words) < 2 \/ words[1] \notin {0, 1} THEN Truncated
  ELSE LET h == words[2]
           d == Dimensions(h)
           body == IF h.srid THEN 4 ELSE 3
           counts == CASE h.type = "Point" -> 0 [] h.type = "LineString" -> 1 [] OTHER -> 2
           at == body + counts
           n == IF counts = 0 THEN 1 ELSE words[at - 1]
           points == Positions(words, at, n, d)
       IN  IF at - 1 > Len(words) THEN Truncated
           ELSE IF points = <<"truncated">> \/ at + n * d - 1 # Len(words) THEN Truncated
           ELSE Geometry(h.type, points)

\* The writer of the same format, external.
EncodeWkb(g, h) ==
  LET extra == [i \in 1..(Dimensions(h) - 2) |-> 9]
      coordinates == FlattenSeq([i \in DOMAIN g.points |-> g.points[i] \o extra])
      counts == CASE g.type = "Point" -> <<>> [] g.type = "LineString" -> <<Len(g.points)>>
                  [] OTHER -> <<1, Len(g.points)>>
  IN  <<1, h>> \o (IF h.srid THEN <<4326>> ELSE <<>>) \o counts \o coordinates
=============================================================================
