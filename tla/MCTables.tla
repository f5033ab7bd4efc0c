------------------------------ MODULE MCTables ------------------------------
(***************************************************************************)
(* Inputs for sorting, joining, querying, aggregation and SQL, and what is *)
(* asked: every strategy gives the rows of the plainest one; however the   *)
(* rows are divided into tasks the groups are those of one pass; the text  *)
(* a query is written as reads back as the query, and the commands give    *)
(* the rows that the SQL means, row by row.                                *)
(***************************************************************************)
EXTENDS SqlCommands

\* Rows whose keys tie, are NULL, or come in one type of which JSON keeps nothing.
Keyed(keys) == {<<[k |-> a, v |-> Number(1)], [k |-> b, v |-> Number(2)], [k |-> c, v |-> Number(1)]>> :
                  a \in keys, b \in keys, c \in keys}
SortTables ==
  Keyed({Null, Number(0), Number(1)}) \cup Keyed({Text(1, NoInstant), Null}) \cup
  Keyed({Timestamp(2), Timestamp(0)}) \cup Keyed({BigInt(0), BigInt(2)})
Orders ==
  {<<Term("k", desc, nullsFirst)>> : desc \in BOOLEAN, nullsFirst \in BOOLEAN} \cup
  {<<DefaultTerm("v", TRUE), DefaultTerm("k", FALSE)>>}

SameKeys(a, b, orderBy) ==
  /\ a # RefusedRows /\ Len(a) = Len(b)
  /\ \A i \in DOMAIN a : CompareRows(a[i], b[i], orderBy) = 0

\* Rows that a bookmark gives back as they were: it keeps a bigint as a number and a
\* timestamp as its text.
JsonKeeps(rows) == \A i \in DOMAIN rows : \A c \in DOMAIN rows[i] : JsonScalar(rows[i][c]) = rows[i][c]
\* A column that is all NULL in one batch and not in the other.
MixedColumns(a, b) ==
  \E c \in {"k", "v"} : BatchOf(a, {c})[c].type # BatchOf(b, {c})[c].type

\* What an order is, and NULL at its own end.
InOrder(rows, term) ==
  \A i, j \in DOMAIN rows : i < j =>
    LET l == rows[i][term.column]
        r == rows[j][term.column]
    IN  IF l = Null \/ r = Null
        THEN IF term.nullsFirst THEN r = Null => l = Null ELSE l = Null => r = Null
        ELSE IF term.desc THEN l.key >= r.key ELSE l.key <= r.key

\* The state of what came before is written to a bookmark and read again.
RestoredRuns(runs) == [i \in DOMAIN runs |-> SnapshotRows(runs[i])]
BatchesOf(parts) == [i \in DOMAIN parts |-> BatchOf(parts[i], {"k", "v"})]

SortsAre(rows, first, second, orderBy, offset, limit, sorted, page) ==
  LET runs(before, more) == CollectSortRuns(before, more, orderBy, 2)
      best(before, more) == RowTopK(before, more, orderBy, offset + limit)
  IN  /\ InOrder(sorted, orderBy[1])
      /\ MergeSortRuns(runs(<<>>, rows), orderBy) = sorted
      /\ SameKeys(Page(best(<<>>, rows), offset, limit), page, orderBy)
      /\ BatchRows(VectorOrderByBatch(BatchOf(rows, {"k", "v"}), orderBy, DOMAIN rows)) = sorted
      /\ first # <<>> /\ second # <<>> =>
           ColumnarTopK(BatchesOf(<<first, second>>), NoWhere, orderBy, offset, limit)
             = IF MixedColumns(first, second) THEN RefusedRows ELSE page
      /\ LateTopK(<<first, second>>, NoWhere, orderBy, offset, limit, {"v"}, 2) = page
      /\ JsonKeeps(rows) =>
           /\ SameKeys(Page(best(SnapshotRows(best(<<>>, first)), second), offset, limit), page, orderBy)
           /\ MergeSortRuns(RestoredRuns(runs(<<>>, first)) \o runs(<<>>, second), orderBy) = sorted
SortsPaged(rows, first, second, orderBy, offset, limit, sorted) ==
  SortsAre(rows, first, second, orderBy, offset, limit, sorted, Page(sorted, offset, limit))
SortsAgree(rows, orderBy, offset, limit, cut) ==
  SortsPaged(rows, SubSeq(rows, 1, cut), SubSeq(rows, cut + 1, Len(rows)), orderBy, offset, limit,
             SortRows(rows, orderBy))

---------------------------------------------------------------------------
\* Keys that are NULL, tie, or agree as JSON text only.
KeyCells == {Null, Number(1), Number(2), BigInt(1)}
Sides(column) == {<<>>} \cup
  {<<[id |-> a] @@ (column :> Number(1))>> : a \in KeyCells} \cup
  {<<[id |-> a] @@ (column :> Number(1)), [id |-> b] @@ (column :> Number(2))>> :
     a \in KeyCells, b \in KeyCells}
JoinTypes == {"inner", "left", "semi", "anti"}

JoinsAgree(left, right, type) ==
  LET o == JoinOptions(<<"id">>, <<"id">>, type, Len(right) * (Len(left) + 1) + 1)
      joined(t) == BroadcastJoin(left, right, [o EXCEPT !.type = t])
      all == [i \in DOMAIN left |-> right]
      padded(rows) == [i \in DOMAIN rows |-> IF type = "left" /\ "r" \notin DOMAIN rows[i]
                                             THEN ("r" :> Null) @@ rows[i] ELSE rows[i]]
      batch(rows, columns) == BatchOf(rows, columns)
      mixes(rows) == \E i, j \in DOMAIN rows :
                       /\ Null \notin {rows[i].id, rows[j].id} /\ rows[i].id.type # rows[j].id.type
      vector == VectorHashJoin(batch(left, {"id", "v"}), batch(right, {"id", "r"}),
                               [i \in DOMAIN left |-> i], [i \in DOMAIN right |-> i], o)
      pairs == {p \in (1..Len(left)) \X (1..Len(right)) :
                  JoinKey(left[p[1]], o.leftKeys) = JoinKey(right[p[2]], o.rightKeys)}
  IN  /\ LookupJoin(left, all, o) = joined(type)
      /\ mixes(left) \/ mixes(right) \/ vector = padded(joined(type))
      /\ Len(joined("inner")) = Cardinality(pairs)
      /\ Len(joined("semi")) + Len(joined("anti")) = Len(left)
      /\ Len(joined("left")) = Len(joined("inner")) + Len(joined("anti"))
      /\ Len(right) > 0 =>
           IsJoinFailed(BroadcastJoin(left, right, [o EXCEPT !.maxRightRows = Len(right) - 1]))

---------------------------------------------------------------------------
Object(year, rows) == [partitions |-> IF year = Null THEN <<>> ELSE [y |-> year], rows |-> rows]
KV(k, v) == [k |-> k, v |-> v]
Contents == {<<>>, <<KV(Null, Number(1)), KV(Number(1), NaN)>>,
             <<KV(Number(1), Number(2)), KV(Number(0), Null), KV(Number(1), Number(2))>>}
Years == {Null, Text(1, NoInstant), Text(2, NoInstant)}
Catalogs == {<<Object(y, a), Object(IF y = Null THEN Null ELSE z, b)>> :
               y \in Years, z \in Years \ {Null}, a \in Contents, b \in Contents}
ByYear == Cmp("eq", Col("y"), Lit(Text(1, NoInstant)))
ByKey == Cmp("eq", Col("k"), Lit(Number(1)))
Wheres(catalog) ==
  {NoWhere, ByKey, Not(ByKey), Cmp("gt", Col("v"), Lit(Number(1)))} \cup
  (IF catalog[1].partitions = <<>> THEN {}
   ELSE {ByYear, Not(ByYear), Logical("or", <<ByYear, ByKey>>), Not(Logical("and", <<ByYear, ByKey>>))})
Selects == {NoSelect, <<"k">>, <<"v">>, <<"k", "v">>}

\* The definition of a query: filter, project, tell apart, page.  Without a SELECT a
\* filter's columns are the ones that are read.
TableRows(objects) ==
  FlattenSeq([i \in DOMAIN objects |->
    [j \in DOMAIN objects[i].rows |-> objects[i].rows[j] @@ objects[i].partitions]])
FirstOnly(rows) ==
  LET kept == SelectSeq([i \in DOMAIN rows |-> i], LAMBDA i : \A j \in 1..(i - 1) : rows[j] # rows[i])
  IN  [i \in DOMAIN kept |-> rows[kept[i]]]
MeantPage(rows, q) ==
  SubSeq(rows, q.offset + 1,
         IF q.limit = NoLimit THEN Len(rows) ELSE Lesser(q.offset + q.limit, Len(rows)))
MeantColumns(objects, q) ==
  LET named == ColumnsOf(q.where) \cap {"k", "v"}
  IN  IF q.select # NoSelect THEN ToSet(q.select)
      ELSE (IF named # {} THEN named ELSE {"k", "v"}) \cup DOMAIN objects[1].partitions
Shown(rows, columns) == [i \in DOMAIN rows |-> [c \in columns |-> rows[i][c]]]
Told(rows, q) == IF q.distinct THEN FirstOnly(rows) ELSE rows
Meaning(objects, q) ==
  MeantPage(Told(Shown(SelectSeq(TableRows(objects), LAMBDA row : Matches(q.where, row)),
                       MeantColumns(objects, q)), q), q)

QueriesMean(objects, q, batchSize, meaning) ==
  /\ RowQuery(objects, q, batchSize) = meaning
  /\ Columnar(objects, q) => /\ ColumnarQuery(objects, q, batchSize) = meaning
                             /\ LateApplies(q) => LateQuery(objects, q, batchSize) = meaning
QueriesAgree(objects, q, batchSize) == QueriesMean(objects, q, batchSize, Meaning(objects, q))

\* Aggregates whose inputs are read late are those of the rows.
AggregatesAgree(objects, q, batchSize) ==
  LET spec == <<[op |-> "count", column |-> "v"], [op |-> "min", column |-> "v"],
                [op |-> "count", column |-> StarColumn]>>
      matching == SelectSeq(TableRows(objects), LAMBDA row : Matches(q.where, row))
      batches == Chunks(TableRows(objects), batchSize)
  IN  LateAggregateApplies(batches, q.where, 2) =>
        FinalizeGroups(LateAggregate(<<"k">>, spec, batches, q.where, NoMaxGroups)) =
        FinalizeGroups(RowGroups(<<>>, <<"k">>, spec, matching, NoMaxGroups))

\* A policy's row filter is a table without the other rows.
Policies == {[rowFilter |-> ByKey, maxLimit |-> 1, allowed |-> <<"k", "v">>],
             [rowFilter |-> Cmp("gt", Col("v"), Lit(Number(1))), maxLimit |-> NoLimit,
              allowed |-> <<"k", "v">>]}
PolicyFilters(objects, q, policy, batchSize) ==
  LET visible == [i \in DOMAIN objects |->
        [objects[i] EXCEPT !.rows = SelectSeq(@, LAMBDA row : Matches(policy.rowFilter, row))]]
      effective == ApplyQueryPolicy(q, policy)
      least == IF policy.maxLimit = NoLimit THEN q.limit
               ELSE IF q.limit = NoLimit \/ policy.maxLimit < q.limit THEN policy.maxLimit ELSE q.limit
  IN  IF ReadColumns(q, <<>>) \subseteq {"k", "v"}
      THEN /\ ~PolicyRefuses(q, policy)
           /\ QueryRows(objects, effective, batchSize) =
                Meaning(visible, [q EXCEPT !.limit = least,
                                           !.select = IF @ = NoSelect THEN policy.allowed ELSE @])
      ELSE PolicyRefuses(q, policy)
-----------------------------------------------------------------------------
MCSortedRunMergeMinValues == 2
MCSortedRunSampleValues == 2

RowsOver(n, keys, cells) == [1..n -> [k : keys, v : cells]]
NumberRows ==
  UNION {RowsOver(n, {Null, Number(1)}, {Null, Number(0), Number(3), NaN}) : n \in 0..2}
    \cup RowsOver(3, {Null, Number(1)}, {Null, Number(3)})
ScalarRows ==
  UNION {RowsOver(n, {Number(1), Text(2, NoInstant)}, {Null, Text(2, NoInstant), Text(4, NoInstant)})
           : n \in 1..2}
    \cup RowsOver(3, {Number(1), Text(2, NoInstant)}, {Text(2, NoInstant), Text(4, NoInstant)})

Of(op) == [op |-> op, column |-> "v"]
ScalarSpec == <<Of("count"), Of("median"), Of("min"), Of("max"), Of("count_distinct"),
                Of("mode"), Of("first"), Of("last")>>
NumberSpec == <<Of("count"), Of("median"), Of("count_distinct"), Of("mode"), Of("first"),
                Of("last"), Of("sum"), Of("avg"), Of("var_samp"), Of("quantile"),
                [op |-> "count", column |-> StarColumn]>>
SpecOf(rows) == IF \E i \in DOMAIN rows : JsType(rows[i].v) = "number" THEN NumberSpec ELSE ScalarSpec

Cuts(rows, a, b) == <<SubSeq(rows, 1, a), SubSeq(rows, a + 1, b), SubSeq(rows, b + 1, Len(rows))>>
OnePass(rows) == FinalizeGroups(UpdateGroups(<<>>, <<"k">>, SpecOf(rows), rows, NoMaxGroups))

\* A reference that knows nothing of states: the values of a column and key.
ValuesFor(rows, key, column) ==
  LET mine == SelectSeq(rows, LAMBDA r : r.k = key /\ (column = StarColumn \/ r.v # Null))
  IN  [i \in DOMAIN mine |-> mine[i].v]
ByDefinition(item, values) ==
  LET total == FoldLeft(LAMBDA s, v : Arithmetic("add", s, v), Number(0), values)
  IN  CASE item.op = "count" -> Number(Len(values))
        [] item.op = "count_distinct" -> Number(Cardinality(ToSet(values)))
        [] item.op = "sum" -> total
        [] item.op = "avg" -> IF values = <<>> THEN Null ELSE Over(RatOf(total), Len(values))
        [] item.op = "min" -> IF values = <<>> THEN Null
                              ELSE CHOOSE v \in ToSet(values) : \A w \in ToSet(values) : v.key <= w.key
        [] item.op = "max" -> IF values = <<>> THEN Null
                              ELSE CHOOSE v \in ToSet(values) : \A w \in ToSet(values) : v.key >= w.key

Defined == {"count", "count_distinct", "sum", "avg", "min", "max"}
GroupsAre(merged, once, rows, spec) ==
  /\ FinalizeGroups(merged) = once
  /\ \A g \in DOMAIN merged, k \in DOMAIN spec : spec[k].op \in Defined =>
       once[g].row[k] = ByDefinition(spec[k], ValuesFor(rows, merged[g].values[1], spec[k].column))

OneKey(rows) == [i \in DOMAIN rows |-> [k |-> Null, v |-> rows[i].v]]
MergesTo(rows, a, b) ==
  /\ GroupsAre(GroupTasks(<<"k">>, SpecOf(rows), Cuts(rows, a, b), NoMaxGroups), OnePass(rows),
               rows, SpecOf(rows))
  /\ rows # <<>> => AggregateTasks(SpecOf(rows), Cuts(OneKey(rows), a, b)) = OnePass(OneKey(rows))[1].row

\* The group limit stops one pass at the group beyond it.
LimitStops(rows, limit) ==
  LET groups == UpdateGroups(<<>>, <<"k">>, SpecOf(rows), rows, limit)
  IN  IsFailedGroups(groups) <=> Cardinality({rows[i].k : i \in DOMAIN rows}) > limit

EncodedAgrees(rows) ==
  LET dictionary == <<Number(1), Text(2, NoInstant)>>
      index(v) == IF v = Null THEN 0 ELSE CHOOSE i \in 1..2 : dictionary[i] = v
      spec == <<[op |-> "count", column |-> StarColumn], [op |-> "count", column |-> "k"]>>
  IN  UpdateEncodedGroups(<<>>, spec, "k", dictionary, [i \in DOMAIN rows |-> index(rows[i].k)], NoMaxGroups)
        = UpdateGroups(<<>>, <<"k">>, spec, rows, NoMaxGroups)

\* The row engine, in one go or resumed from its serialised state.
AsSet(groups) == {groups[i] : i \in DOMAIN groups}
EnginesAgree(vector, once, resumed, early) ==
  /\ FinalizeGroups(once) = vector
  /\ (\E i \in DOMAIN early : early[i].v = NaN) \/ AsSet(FinalizeGroups(resumed)) = AsSet(vector)
RowEngineAgrees(rows, cut) ==
  LET groups(before, more) == RowGroups(before, <<"k">>, SpecOf(rows), more, NoMaxGroups)
      early == SubSeq(rows, 1, cut)
  IN  EnginesAgree(OnePass(rows), groups(<<>>, rows),
                   groups(ResumedGroups(groups(<<>>, early)), SubSeq(rows, cut + 1, Len(rows))), early)

\* Distinct counts: batches of text kept as runs, merged with partials in any form.
TextBatches == UNION {[1..n -> {DistinctKey(Text(k, NoInstant)) : k \in 1..3}] : n \in 0..3}
MergedCounts(merged, again, all) ==
  /\ DistinctValueCount(merged) = Cardinality(all)
  /\ DistinctSnapshotValues(merged) = SortedKeys(all)
  /\ DistinctValueCount(AddDistinctValues(merged, again, NoBudget)) = Cardinality(all)
RunCounts(runs, first, third, all) ==
  /\ DistinctValueCount(runs) = Cardinality(all)
  /\ MergedCounts(MergeDistinctSortedValues(runs, SortedKeys(ToSet(third)), NoBudget), first,
                  all \cup ToSet(third))
DistinctCounts(first, second, third) ==
  LET all == ToSet(first) \cup ToSet(second)
  IN  /\ RunCounts(AddDistinctSortedStringRun(AddDistinctSortedStringRun(NoKeys, first, NoBudget),
                                              second, NoBudget), first, third, all)
      /\ AddDistinctValues(AddDistinctValues(NoKeys, first, 2), second, 2) = OverBudget
           <=> Cardinality(all) > 2
------------------------------------------------------------------------------
One == Lit(Number(1))
Atoms == {Col("l.v"), One}
Shaped(xs, ys) ==
  UNION {{Cmp("lt", x, y), Logical("and", <<x, y>>), Logical("or", <<x, y>>), In(TRUE, x, <<y>>),
          Between(x, y, One), Arith("add", x, y), Arith("sub", x, y), Arith("mul", x, y),
          Case(<<When(x, y)>>, x)} : x \in xs, y \in ys}
  \cup UNION {{Not(x), NullCheck(TRUE, x), Like(x), Call("lower", <<x>>)} : x \in xs}
Simple == Shaped(Atoms, Atoms)
Printed == Simple \cup Shaped(Simple, Atoms) \cup Shaped(Atoms, Simple)

\* How tightly the text of an expression holds together.
Level(e) ==
  CASE e.kind = "logical" -> 2
    [] e.kind = "not" -> 3
    [] e.kind \in {"compare", "between", "in", "null-check", "like"} -> 4
    [] e.kind = "arithmetic" -> IF e.op = "mul" THEN 6 ELSE 5
    [] OTHER -> 7

\* The expressions whose text needs no parentheses but those of AND, OR and NOT.
RECURSIVE WellBound(_)
WellBound(e) ==
  CASE e.kind = "compare" -> \A x \in {e.left, e.right} : WellBound(x) /\ Level(x) >= 5
    [] e.kind = "arithmetic" -> /\ WellBound(e.left) /\ Level(e.left) >= Level(e)
                                /\ WellBound(e.right) /\ Level(e.right) > Level(e)
    [] e.kind = "between" -> \A x \in {e.target, e.low, e.high} : WellBound(x) /\ Level(x) >= 5
    [] e.kind \in {"in", "null-check", "like"} -> WellBound(e.target) /\ Level(e.target) >= 5
    [] e.kind = "logical" ->
         \A x \in ToSet(e.operands) : WellBound(x) /\ ~(x.kind = "logical" /\ x.op = e.op)
    [] e.kind = "not" -> WellBound(e.operand)
    [] OTHER -> TRUE

JoinScope == <<Sql!Table("people", "l"), Sql!Table("stores", "right")>>
ExpressionReadsBack(e) ==
  WellBound(e) => Sql!ExprToLakeql(Sql!ParseAt(Sql!FormatExpr(e), 1, 1).node, JoinScope, <<>>) = e

---------------------------------------------------------------------------
K(table) == Sql!Ref(table, "k")
V == Sql!Ref("l", "v")
R == Sql!Ref("right", "r")
NumberToken(n) == <<"value", Number(n)>>
Comparison(op) == <<"cmp", op>>
Select(where) == <<"select", [from |-> "stores", keys |-> <<Sql!Ref("", "k")>>, where |-> where]>>
RightWhere == <<Sql!Ref("", "r"), Comparison("gt"), <<"value", Number(1)>>>>

Ons == {<<K("l"), Comparison("eq"), K("right")>>, <<K("right"), Comparison("eq"), K("people")>>,
        <<K("l"), Comparison("eq"), K("right"), Sql!Op("and"), R, Comparison("eq"), V>>}
JoinClauses == {[source |-> "stores", alias |-> "right", type |-> t, on |-> on] :
                  t \in {"inner", "left"}, on \in Ons}
SqlWheres ==
  {<<>>, <<V, Comparison("gt"), NumberToken(1)>>, <<V, Sql!Word("is null")>>,
   <<V, Comparison("lte"), <<"parameter", 1>>, Sql!Op("or"), V, Comparison("eq"), NumberToken(2)>>}
SubqueryWheres ==
  {<<K("l")>> \o negated \o <<Sql!Word("in"), Select(w)>> \o rest :
     negated \in {<<>>, <<Sql!Op("not")>>}, w \in {<<>>, RightWhere},
     rest \in {<<>>, <<Sql!Op("and"), V, Comparison("gt"), NumberToken(1)>>}}
SideWheres ==
  {<<R, Comparison("gt"), NumberToken(1)>>, <<R, Sql!Word("is null")>>,
   <<V, Comparison("gt"), NumberToken(1), Sql!Op("and"), R, Comparison("gte"), NumberToken(1)>>,
   <<V, Comparison("lt"), R>>}

Item(tokens, alias) == [tokens |-> tokens, alias |-> alias]
Star == <<Item(<<Sql!Ref("", "*")>>, "")>>
Maximum == <<"fn", "max", FALSE>>
Count(distinct) == <<"fn", "count", distinct>>
Paren(ts) == <<Sql!Word("(")>> \o ts \o <<Sql!Word(")")>>
Aggregated ==
  <<Item(<<K("l")>>, ""), Item(<<Maximum>> \o Paren(<<V>>), "most"),
    Item(<<Count(TRUE)>> \o Paren(<<V>>), "values"), Item(<<Count(FALSE)>> \o Paren(<<Sql!Ref("", "*")>>), "rows")>>
Computed == <<Item(<<V>>, ""), Item(<<V, Sql!Op("add"), NumberToken(1)>>, "next"), Item(<<K("l")>>, "key")>>

Statement(items, join, where, distinct, limit) ==
  [distinct |-> distinct, items |-> items, from |-> Sql!Table("people", "l"), join |-> join,
   where |-> where, groupBy |-> IF items = Aggregated THEN <<K("l")>> ELSE <<>>,
   having |-> IF items = Aggregated THEN <<Sql!Ref("", "rows"), Comparison("gte"), NumberToken(1)>> ELSE <<>>,
   orderBy |-> IF items = Star THEN <<>>
               ELSE <<[column |-> IF items = Aggregated THEN Sql!Ref("", "most") ELSE V,
                       desc |-> distinct, nulls |-> "default"]>>,
   limit |-> limit, offset |-> IF limit = 1 THEN 1 ELSE 0]

OneTable ==
  {Statement(items, Sql!NoJoin, where, distinct, limit) :
     items \in {Star, Aggregated, Computed}, where \in SqlWheres \cup SubqueryWheres,
     distinct \in BOOLEAN, limit \in {Sql!NoCount, 1}}
TwoTables ==
  {Statement(items, join, where, distinct, limit) :
     items \in {<<Item(<<V>>, ""), Item(<<R>>, "")>>, Star},
     join \in JoinClauses, where \in SqlWheres \cup SideWheres, distinct \in {FALSE}, limit \in {Sql!NoCount, 1}}
  \cup {Statement(<<Item(<<R>>, "")>>, join, <<>>, TRUE, 1) : join \in JoinClauses}

Plainly(items) == Statement(items, Sql!NoJoin, <<>>, FALSE, Sql!NoCount)

Parameters == <<Number(1)>>
QueryOf(statement) == Sql!SelectStatementToAst(statement, Parameters)
QueryReadsBack(q) == q # Sql!NoQuery /\ Sql!SelectStatementToAst(Sql!FormatSql(q), <<>>) = q
StatementReadsBack(statement) == QueryReadsBack(QueryOf(statement))

---------------------------------------------------------------------------
Cells == {Null, Number(1), Number(2)}
Person(k, v) == [k |-> k, v |-> v]
Store(k, r) == [k |-> k, r |-> r]
People == {<<>>} \cup {<<Person(a, Number(2)), Person(b, v)>> : a \in Cells, b \in Cells, v \in {Null, Number(1)}}
Stores == {<<>>, <<Store(Number(1), Number(2))>>, <<Store(Number(1), Null), Store(Null, Number(2))>>,
           <<Store(Number(1), Number(1)), Store(Number(1), Number(2)), Store(Number(2), Number(2))>>}
Asked ==
  {<<people, stores, s>> : people \in People, stores \in Stores \ {<<>>},
     s \in {t \in TwoTables : t.where \in SideWheres \cup {<<>>}}
           \cup {t \in OneTable : t.where \in SubqueryWheres /\ t.items # Aggregated}}
  \cup {<<people, <<>>, s>> : people \in People, s \in {t \in OneTable : t.where \in SqlWheres}}
NoStoreRow == Store(Null, Null)
Qualified(row, alias) ==
  [c \in {alias \o "." \o name : name \in DOMAIN row} |-> row[SubSeq(c, Len(alias) + 2, Len(c))]]
QualifiedColumns == {"l.k", "l.v", "right.k", "right.r"}
And(a, b) == IF a = Sql!NoExpr THEN b ELSE IF b = Sql!NoExpr THEN a ELSE Logical("and", <<a, b>>)
Kept(rows, where) == SelectSeq(rows, LAMBDA row : where = Sql!NoExpr \/ Matches(where, row))

\* Every pair of rows whose keys SQL finds equal, and a left row without any once more.
JoinedPairs(people, stores, q) ==
  LET pair(l, r) == Qualified(l, "l") @@ Qualified(r, "right")
      joins(l, r) == \A i \in DOMAIN q.join.leftKey :
                       Compare("eq", pair(l, r)[q.join.leftKey[i]], pair(l, r)[q.join.rightKey[i]]) = True
      of(l) == LET found == SelectSeq(stores, LAMBDA r : joins(l, r))
               IN  IF found = <<>> /\ q.join.type = "left" THEN <<pair(l, NoStoreRow)>>
                   ELSE [i \in DOMAIN found |-> pair(l, found[i])]
  IN  FlattenSeq([i \in DOMAIN people |-> of(people[i])])

\* IN over the rows of another table is IN over their keys.
Members(people, found, anti) ==
  Kept(people, In(anti, Col("k"), [i \in DOMAIN found |-> Lit(found[i].k)]))

\* The rows a query over two tables means.
Meant(people, stores, q) ==
  Finished(Kept(IF q.join # Sql!NoJoin THEN JoinedPairs(people, stores, q)
                ELSE Members(people, Kept(stores, q.subqueryJoin.where), q.subqueryJoin.type = "anti"),
                q.where), q)

---------------------------------------------------------------------------
(* A question is a few queries to run; its answer, the rows of each. *)

Trial(tables, q, scalars) == [tables |-> tables, q |-> q, scalars |-> scalars]
OnTables(people, stores, q) == Trial([people |-> people, stores |-> stores], q, <<>>)

\* The statements asked beside the one in question.
Beside ==
  [every |-> Plainly(Star), groups |-> Plainly(Aggregated),
   most |-> Plainly(<<Item(<<Maximum>> \o Paren(<<V>>), "most")>>)]

CteWhere == Cmp("gt", Col("v"), One)
Filtering(q, where) == [q EXCEPT !.where = And(where, @)]
FromCte(people, cte, q) ==
  Trial(MaterializeCte([people |-> people, stores |-> <<>>], "c", cte, q), q, <<>>)

\* WHERE v >= (SELECT max(v)).
TopTrial(people, qs) ==
  [OnTables(people, <<>>, Filtering(qs.every, Cmp("gte", Col("v"), Call(ScalarSubquery, <<One>>)))) EXCEPT
     !.scalars = <<[query |-> [qs.most EXCEPT !.orderBy = <<>>], column |-> "most"]>>]

Trials(people, stores, qs) ==
  IF stores # <<>> THEN [main |-> OnTables(people, stores, qs.asked)]
  ELSE [main |-> FromCte(people, Filtering(qs.every, CteWhere), [qs.asked EXCEPT !.source = "c"]),
        cte |-> OnTables(people, <<>>, Filtering(qs.every, CteWhere)),
        whole |-> OnTables(people, <<>>, Filtering(qs.asked, CteWhere)),
        groups |-> OnTables(people, <<>>, qs.groups),
        top |-> TopTrial(people, qs)]

Answers(trials) ==
  [n \in DOMAIN trials |-> RunQuery(trials[n].tables, trials[n].q, trials[n].scalars, 3)]

ShownRows(rows) == [i \in DOMAIN rows |-> [c \in QualifiedColumns |-> CellOf(rows[i], c)]]
NoNullKeys(people, stores) == Null \notin {r.k : r \in ToSet(people) \cup ToSet(stores)}
\* A key of ON that is NULL on either side: join.ts finds such keys equal, and SQL does not.
NullKeysMeet(people, stores, q) ==
  LET left == {Qualified(l, "l") : l \in ToSet(people)}
      right == {Qualified(r, "right") : r \in ToSet(stores)}
  IN  \E i \in DOMAIN q.join.leftKey :
        Null \in {l[q.join.leftKey[i]] : l \in left} \cap {r[q.join.rightKey[i]] : r \in right}

\* NULL keys apart, where two of them meet in ON, and where IN makes them keys.
TwoTablesMean(answer, people, stores, q) ==
  IF q.join # Sql!NoJoin
  THEN NullKeysMeet(people, stores, q) \/ ShownRows(answer) = ShownRows(Meant(people, stores, q))
  ELSE NoNullKeys(people, stores) => answer = Meant(people, stores, q)

\* The rows that no other exceeds.
TopRows(people) ==
  SelectSeq(people, LAMBDA row : /\ row.v # Null
                                 /\ \A i \in DOMAIN people : people[i].v = Null \/ people[i].v.key <= row.v.key)

CountsOfKeys(rows, people) ==
  LET of(k) == {i \in DOMAIN people : people[i].k = k}
  IN  /\ {rows[i].k : i \in DOMAIN rows} = {people[i].k : i \in DOMAIN people}
      /\ \A i \in DOMAIN rows :
           /\ rows[i].rows = Number(Cardinality(of(rows[i].k)))
           /\ rows[i].values = Number(Cardinality({people[j].v : j \in of(rows[i].k)} \ {Null}))

\* The query of a WITH that keeps rows is one more condition.
OneTableMeans(answers, people) ==
  /\ answers.cte # <<>> => answers.main = answers.whole
  /\ answers.top = TopRows(people)
  /\ CountsOfKeys(answers.groups, people)

AnswersMean(answers, people, stores, q) ==
  IF stores # <<>> THEN TwoTablesMean(answers.main, people, stores, q) ELSE OneTableMeans(answers, people)
QueriesMeant(people, stores, qs) ==
  AnswersMean(Answers(Trials(people, stores, qs)), people, stores, qs.asked)
Queried(statements) == [n \in DOMAIN statements |-> QueryOf(statements[n])]
CommandMeans(people, stores, statement) ==
  QueriesMeant(people, stores, Queried([asked |-> statement] @@ Beside))
=============================================================================
