---------------------------- MODULE SqlCommands ----------------------------
(***************************************************************************)
(* What the command line does with a SQL query (cli/src/index.ts): the     *)
(* query of a WITH is written as a table, scalar subqueries become         *)
(* literals, and joins, IN subqueries and aggregates are run over the rows *)
(* of the tables.                                                          *)
(*                                                                         *)
(* A query is a record of SqlDialect with its scalar subqueries, a         *)
(* sequence of an id, a query and the column read from it.  Tables are a   *)
(* function from names to rows.  A right table is known by RightAlias, the *)
(* prefix that Joins gives the columns of the right rows.                  *)
(***************************************************************************)
EXTENDS Queries, Joins

Sql == INSTANCE SqlDialect

RightAlias == "right"
RefusedQuery(reason) == <<[failed |-> reason]>>
IsRefusedQuery(rows) == rows # <<>> /\ "failed" \in DOMAIN Head(rows)
ScalarSubquery == "__lakeql_scalar_subquery"

HasAggregation(q) == q.aggregates # <<>> \/ q.groupBy # <<>> \/ q.having # Sql!NoExpr

QualifiedBy(column, alias) ==
  Len(column) > Len(alias) + 1 /\ SubSeq(column, 1, Len(alias) + 1) = alias \o "."
StripQualifiedColumn(column, alias) ==
  IF QualifiedBy(column, alias) THEN SubSeq(column, Len(alias) + 2, Len(column)) ELSE column

\* The expression with other columns and with values for its scalar subqueries.
RECURSIVE Rewritten(_, _, _)
Rewritten(e, alias, scalars) ==
  LET f(x) == Rewritten(x, alias, scalars)
      all(es) == [i \in DOMAIN es |-> f(es[i])]
  IN  CASE e.kind = "column" -> Col(StripQualifiedColumn(e.name, alias))
        [] e.kind = "literal" -> e
        [] e.kind \in {"compare", "arithmetic"} -> [e EXCEPT !.left = f(@), !.right = f(@)]
        [] e.kind = "between" -> [e EXCEPT !.target = f(@), !.low = f(@), !.high = f(@)]
        [] e.kind = "in" -> [e EXCEPT !.target = f(@), !.values = all(@)]
        [] e.kind \in {"null-check", "like"} -> [e EXCEPT !.target = f(@)]
        [] e.kind = "logical" -> [e EXCEPT !.operands = all(@)]
        [] e.kind = "not" -> [e EXCEPT !.operand = f(@)]
        [] e.kind = "call" /\ e.fn = ScalarSubquery /\ scalars # <<>> -> Lit(scalars[e.args[1].value.key])
        [] e.kind = "call" /\ (e.fn # ScalarSubquery \/ scalars = <<>>) -> [e EXCEPT !.args = all(@)]
        [] e.kind = "case" ->
             [e EXCEPT !.whens = [i \in DOMAIN @ |-> When(f(@[i].when), f(@[i].value))], !.else = f(@)]

StripQualifiedExpr(e, alias) == Rewritten(e, alias, <<>>)
ReplaceScalarSubqueryExpr(e, scalars) ==
  IF e = Sql!NoExpr THEN e ELSE Rewritten(e, "", scalars)

---------------------------------------------------------------------------
(* The clauses over rows. *)

CellOf(row, column) == IF column \in DOMAIN row THEN row[column] ELSE Null

RowsThat(rows, results) ==
  IF \E i \in DOMAIN results : IsError(results[i]) THEN RefusedQuery("where")
  ELSE FlattenSeq([i \in DOMAIN rows |-> IF results[i] = True THEN <<rows[i]>> ELSE <<>>])

Filtered(rows, where) ==
  IF where = Sql!NoExpr THEN rows
  ELSE RowsThat(rows, [i \in DOMAIN rows |-> MatchResult(where, rows[i])])

\* sortRows: NULLs are last unless asked first, whatever the direction.
SortJoined(rows, orderBy) ==
  SortRows(rows, [i \in DOMAIN orderBy |->
                    Term(orderBy[i].column, orderBy[i].desc, orderBy[i].nulls = "first")])

\* projectRows.
ProjectRows(rows, q) ==
  LET computed(row) == [a \in {q.projections[i].alias : i \in DOMAIN q.projections} |->
        Evaluate(q.projections[CHOOSE i \in DOMAIN q.projections : q.projections[i].alias = a].expr, row)]
      chosen(row) == IF "*" \in ToSet(q.select) THEN row ELSE [c \in ToSet(q.select) |-> CellOf(row, c)]
  IN  [i \in DOMAIN rows |-> computed(rows[i]) @@ chosen(rows[i])]

\* distinctRows: rows of one JSON text are one row.
DistinctRows(rows) ==
  LET text(row) == [c \in DOMAIN row |-> JsonScalar(row[c])]
  IN  FoldLeft(LAMBDA out, row : IF \E i \in DOMAIN out : text(out[i]) = text(row)
                                 THEN out ELSE Append(out, row), <<>>, rows)

Sliced(rows, q) ==
  IF q.limit = Sql!NoCount THEN SubSeq(rows, q.offset + 1, Len(rows)) ELSE Slice(rows, q.offset, q.limit)

Paged(rows, q) == Sliced(IF q.distinct THEN DistinctRows(rows) ELSE rows, q)

\* What follows a join, in this order.
Finished(rows, q) ==
  IF IsRefusedQuery(rows) THEN rows
  ELSE Paged(ProjectRows(IF q.orderBy = <<>> THEN rows ELSE SortJoined(rows, q.orderBy), q), q)

---------------------------------------------------------------------------
(* Joins. *)

\* referencedJoinColumns.
ReferencedJoinColumns(q) ==
  (ToSet(q.select) \cup UNION {ColumnsOf(q.projections[i].expr) : i \in DOMAIN q.projections}
     \cup (IF q.where = Sql!NoExpr THEN {} ELSE ColumnsOf(q.where))
     \cup {q.orderBy[i].column : i \in DOMAIN q.orderBy}) \ {"*"}

SideColumns(q, alias, keys) ==
  {StripQualifiedColumn(c, alias) :
     c \in ToSet(keys) \cup {c \in ReferencedJoinColumns(q) : QualifiedBy(c, alias)}}

CanProjectSides(q) ==
  "*" \notin ToSet(q.select) /\
  \A c \in ReferencedJoinColumns(q) : QualifiedBy(c, q.join.leftAlias) \/ QualifiedBy(c, q.join.alias)

CombineAnd(es) ==
  IF es = <<>> THEN Sql!NoExpr ELSE IF Len(es) = 1 THEN es[1] ELSE Logical("and", es)

\* Plausible bug: the right side of an outer join is filtered before it.
FaultPlanJoinSides(q) ==
  LET parts == IF q.where = Sql!NoExpr THEN <<>> ELSE Conjuncts(q.where)
      of(e, alias) == ColumnsOf(e) # {} /\ \A c \in ColumnsOf(e) : QualifiedBy(c, alias)
      left(e) == of(e, q.join.leftAlias)
      right(e) == ~left(e) /\ of(e, q.join.alias)
      stripped(es, alias) == [i \in DOMAIN es |-> StripQualifiedExpr(es[i], alias)]
  IN  [left |-> CombineAnd(stripped(SelectSeq(parts, left), q.join.leftAlias)),
       right |-> CombineAnd(stripped(SelectSeq(parts, right), q.join.alias)),
       residual |-> CombineAnd(SelectSeq(parts, LAMBDA e : ~left(e) /\ ~right(e))),
       projects |-> CanProjectSides(q)]

\* planJoinSides: a conjunct of one side's columns filters that side; the right side
\* of an outer join is filtered after it.
PlanJoinSides(q) ==
  LET parts == IF q.where = Sql!NoExpr THEN <<>> ELSE Conjuncts(q.where)
      of(e, alias) == ColumnsOf(e) # {} /\ \A c \in ColumnsOf(e) : QualifiedBy(c, alias)
      left(e) == of(e, q.join.leftAlias)
      right(e) == ~left(e) /\ q.join.type = "inner" /\ of(e, q.join.alias)
      stripped(es, alias) == [i \in DOMAIN es |-> StripQualifiedExpr(es[i], alias)]
  IN  [left |-> CombineAnd(stripped(SelectSeq(parts, left), q.join.leftAlias)),
       right |-> CombineAnd(stripped(SelectSeq(parts, right), q.join.alias)),
       residual |-> CombineAnd(SelectSeq(parts, LAMBDA e : ~left(e) /\ ~right(e))),
       projects |-> CanProjectSides(q)]

QualifyRow(row, alias) ==
  [c \in {alias \o "." \o name : name \in DOMAIN row} |-> row[StripQualifiedColumn(c, alias)]] @@ row

\* leftJoinRightColumns, fillLeftJoinNulls.
FillLeftJoinNulls(rows, q, rightRows) ==
  LET wild == IF "*" \in ToSet(q.select) THEN UNION {DOMAIN rightRows[i] : i \in DOMAIN rightRows} ELSE {}
      named == {c \in wild \cup ReferencedJoinColumns(q) : QualifiedBy(c, q.join.alias)}
  IN  [i \in DOMAIN rows |-> rows[i] @@ [c \in named |-> Null]]

\* The rows of one side, filtered, cut to what is referenced, and qualified.
JoinSide(rows, q, projects, alias, keys) ==
  IF IsRefusedQuery(rows) THEN rows
  ELSE [i \in DOMAIN rows |->
          QualifyRow(IF projects THEN [c \in SideColumns(q, alias, keys) |-> rows[i][c]] ELSE rows[i], alias)]

AfterJoin(joined, right, q, residual) ==
  IF IsJoinFailed(joined) THEN joined
  ELSE Finished(Filtered(IF q.join.type = "left" THEN FillLeftJoinNulls(joined, q, right) ELSE joined,
                         residual), q)

JoinSides(left, right, q, residual, maxRight) ==
  IF IsRefusedQuery(left) \/ IsRefusedQuery(right) THEN RefusedQuery("where")
  ELSE AfterJoin(BroadcastJoin(left, right,
                    JoinOptions(q.join.leftKey, q.join.rightKey, q.join.type, maxRight)),
                  right, q, residual)

JoinRowsFromAst(tables, q, maxRight) ==
  LET plan == PlanJoinSides(q)
  IN  IF HasAggregation(q) THEN RefusedQuery("aggregate")
      ELSE JoinSides(
             JoinSide(Filtered(tables[q.source], plan.left), q, plan.projects,
                      q.join.leftAlias, q.join.leftKey),
             JoinSide(Filtered(tables[q.join.source], plan.right), q, plan.projects,
                      q.join.alias, q.join.rightKey),
             q, plan.residual, maxRight)

\* subqueryJoinRowsFromAst.
SubqueryJoined(joined, q) ==
  IF IsJoinFailed(joined) THEN joined ELSE Finished(Filtered(joined, q.where), q)

SubqueryJoinRows(tables, q, maxRight) ==
  LET join == q.subqueryJoin
      matched(right) == IF IsRefusedQuery(right) THEN right
                        ELSE SubqueryJoined(BroadcastJoin(tables[q.source], right,
                               JoinOptions(join.leftKey, join.rightKey, join.type, maxRight)), q)
  IN  IF HasAggregation(q) THEN RefusedQuery("aggregate")
      ELSE matched(Filtered(tables[join.source], join.where))

---------------------------------------------------------------------------
(* One table, and the whole of a query. *)

HiddenCount == "__lakeql_group_count"

\* Without an aggregate the groups are counted under a name that is not shown.
AggregateSpecs(q) ==
  IF q.aggregates = <<>> THEN <<[op |-> "count", column |-> StarColumn, name |-> HiddenCount]>>
  ELSE [i \in DOMAIN q.aggregates |->
          [op |-> q.aggregates[i].expr.op, name |-> q.aggregates[i].alias,
           column |-> IF q.aggregates[i].expr.arg = Sql!NoExpr THEN StarColumn
                      ELSE q.aggregates[i].expr.arg.name]]

\* A finished group as a row: its aggregates and the columns it is grouped by.
GroupRow(group, specs, q) ==
  [c \in {specs[k].name : k \in DOMAIN specs} |->
     group.row[CHOOSE k \in DOMAIN specs : specs[k].name = c]]
  @@ [c \in ToSet(q.groupBy) |-> group.values[CHOOSE i \in DOMAIN q.groupBy : q.groupBy[i] = c]]

GroupsAsRows(groups, specs, q) == [i \in DOMAIN groups |-> GroupRow(groups[i], specs, q)]

LibraryOrder(q) ==
  [i \in DOMAIN q.orderBy |-> DefaultTerm(q.orderBy[i].column, q.orderBy[i].desc)]

\* projectAggregateRows.
ProjectAggregateRows(rows, q) ==
  LET kept(row) == IF "*" \in ToSet(q.select) THEN DOMAIN row \ {HiddenCount} ELSE ToSet(q.select)
      named == {q.aggregates[i].alias : i \in DOMAIN q.aggregates}
  IN  [i \in DOMAIN rows |-> [c \in kept(rows[i]) \cup named |-> rows[i][c]]]

\* DISTINCT is applied to what is shown, before the page; otherwise the page is cut first.
AggregatePage(sorted, q) ==
  IF q.distinct THEN Sliced(DistinctRows(ProjectAggregateRows(sorted, q)), q)
  ELSE ProjectAggregateRows(Sliced(sorted, q), q)

AggregatedRows(groups, q) ==
  IF IsFailedGroups(groups) THEN RefusedQuery("groups")
  ELSE AggregatePage(
         SortRows(Filtered(GroupsAsRows(FinalizeGroups(groups), AggregateSpecs(q), q), q.having),
                  LibraryOrder(q)), q)

\* aggregateRowsFromAst, validateAggregateProjection.
AggregateRowsFromAst(rows, q) ==
  IF \E c \in ToSet(q.select) \ {"*"} : c \notin ToSet(q.groupBy) THEN RefusedQuery("projection")
  ELSE AggregatedRows(RowGroups(<<>>, q.groupBy, AggregateSpecs(q), Filtered(rows, q.where), NoMaxGroups), q)

\* builderFromAst: the query of the library.
MatchedRows(matched, q) ==
  IF IsRefusedQuery(matched) THEN matched
  ELSE Paged(ProjectRows(SortRows(matched, LibraryOrder(q)), q), q)

QueriedRows(rows, q) == MatchedRows(Filtered(rows, q.where), q)

PlainRows(tables, q) ==
  IF HasAggregation(q) THEN AggregateRowsFromAst(tables[q.source], q) ELSE QueriedRows(tables[q.source], q)

\* materializeCteIfNeeded: the rows of WITH become a table of their own.
WithTable(tables, name, rows, q) ==
  IF q.source # name \/ q.join # Sql!NoJoin \/ q.subqueryJoin # Sql!NoJoin \/ rows = <<>>
  THEN (name :> RefusedQuery("cte")) @@ tables
  ELSE (name :> rows) @@ tables

MaterializeCte(tables, name, cte, q) == WithTable(tables, name, PlainRows(tables, cte), q)

\* resolveScalarSubqueries: no row is NULL, more than one is refused.
ScalarValue(rows, column) == IF rows = <<>> THEN Null ELSE CellOf(Head(rows), column)

ReplaceScalarSubqueries(q, values) ==
  [q EXCEPT !.where = ReplaceScalarSubqueryExpr(@, values),
            !.having = ReplaceScalarSubqueryExpr(@, values),
            !.projections = [i \in DOMAIN @ |->
               [@[i] EXCEPT !.expr = ReplaceScalarSubqueryExpr(@, values)]]]

ScalarsReplaced(q, scalars, rows) ==
  IF \E i \in DOMAIN rows : Len(rows[i]) > 1 THEN Sql!NoQuery
  ELSE ReplaceScalarSubqueries(q, [i \in DOMAIN scalars |-> ScalarValue(rows[i], scalars[i].column)])

ResolveScalarSubqueries(tables, q, scalars) ==
  IF scalars = <<>> THEN q
  ELSE ScalarsReplaced(q, scalars, [i \in DOMAIN scalars |-> PlainRows(tables, scalars[i].query)])

\* query and write: one of four ways.
RunResolved(tables, q, maxRight) ==
  IF q = Sql!NoQuery THEN RefusedQuery("scalar")
  ELSE IF IsRefusedQuery(tables[q.source]) THEN tables[q.source]
  ELSE IF q.subqueryJoin # Sql!NoJoin THEN SubqueryJoinRows(tables, q, maxRight)
  ELSE IF q.join # Sql!NoJoin THEN JoinRowsFromAst(tables, q, maxRight)
  ELSE PlainRows(tables, q)

RunQuery(tables, query, scalars, maxRight) ==
  RunResolved(tables, ResolveScalarSubqueries(tables, query, scalars), maxRight)
=============================================================================
