----------------------------- MODULE SqlDialect -----------------------------
(***************************************************************************)
(* SQL text, queries and back (sql/src/index.ts).                          *)
(*                                                                         *)
(* A statement is text whose clauses are told apart: a record of clauses,  *)
(* the expressions in them sequences of tokens.  The parser of expressions *)
(* is a library; its precedences are here for what formatSql leaves        *)
(* without parentheses.  A parsed node is a record of its type; a query is *)
(* the record that parseSql returns.  What is refused is NoQuery.          *)
(***************************************************************************)
EXTENDS Evaluator, SequencesExt

NoExpr == [kind |-> "none"]
NoJoin == [source |-> "none"]
NoQuery == [source |-> "refused"]
BadExpr == [kind |-> "refused"]
NoCount == -1

Op(o) == <<"op", o>>
Word(w) == <<"word", w>>
Ref(table, name) == <<"ref", table, name>>
Aggregates == {"count", "sum", "min", "max"}

---------------------------------------------------------------------------
(* The library: tokens to nodes. *)

Node(node, next) == [node |-> node, next |-> next]
IsAt(ts, i, token) == i <= Len(ts) /\ ts[i] = token
Binds(level) == CASE level = 1 -> {"or"} [] level = 2 -> {"and"} [] level = 5 -> {"add", "sub"}
                  [] level = 6 -> {"mul", "div", "mod"}

RECURSIVE ParseAt(_, _, _), ParseBinary(_, _, _), ParsePredicate(_, _), ParseItems(_, _), ParseWhens(_, _)

\* Level 1 is OR, 2 AND, 3 NOT, 4 the predicates, 5 and 6 arithmetic.
ParseAt(ts, i, level) ==
  CASE level \in {1, 2, 5, 6} -> ParseBinary(ts, ParseAt(ts, i, level + 1), level)
    [] level = 3 /\ IsAt(ts, i, Op("not")) ->
         LET operand == ParseAt(ts, i + 1, 3)
         IN  Node([type |-> "unary", op |-> "not", operand |-> operand.node], operand.next)
    [] level = 3 -> ParseAt(ts, i, 4)
    [] level = 4 -> ParsePredicate(ts, ParseAt(ts, i, 5))
    [] level = 7 /\ IsAt(ts, i, Word("(")) ->
         LET inner == ParseItems(ts, i + 1)
         IN  Node(IF Len(inner.node) = 1 THEN Head(inner.node) ELSE [type |-> "list", items |-> inner.node],
                  inner.next)
    [] level = 7 /\ IsAt(ts, i, Word("case")) -> ParseWhens(ts, i + 1)
    [] level = 7 /\ ts[i][1] = "fn" ->
         LET args == ParseItems(ts, i + 2)
         IN  Node([type |-> "call", fn |-> ts[i][2], distinct |-> ts[i][3], args |-> args.node], args.next)
    [] OTHER -> Node([type |-> ts[i][1], token |-> ts[i]], i + 1)

ParseBinary(ts, left, level) ==
  IF left.next <= Len(ts) /\ ts[left.next][1] = "op" /\ ts[left.next][2] \in Binds(level)
  THEN LET right == ParseAt(ts, left.next + 1, level + 1)
       IN  ParseBinary(ts, Node([type |-> "binary", op |-> ts[left.next][2],
                                 left |-> left.node, right |-> right.node], right.next), level)
  ELSE left

ParsePredicate(ts, left) ==
  LET i == left.next
      negated == IsAt(ts, i, Op("not"))
      k == IF negated THEN i + 1 ELSE i
      right == ParseAt(ts, k + 1, 5)
      high == ParseAt(ts, right.next + 1, 5)
      items == ParseItems(ts, k + 2)
      test(op, node, next) ==
        ParsePredicate(ts, Node([type |-> "binary", op |-> op, negated |-> negated,
                                 left |-> left.node, right |-> node], next))
  IN  IF k > Len(ts) THEN left
      ELSE CASE ts[k][1] = "cmp" -> test(ts[k][2], right.node, right.next)
             [] ts[k] = Word("like") -> test("like", right.node, right.next)
             [] ts[k] = Word("in") /\ ts[k + 1][1] = "select" ->
                  test("in", [type |-> "select", token |-> ts[k + 1]], k + 2)
             [] ts[k] = Word("in") /\ ts[k + 1][1] # "select" ->
                  test("in", [type |-> "list", items |-> items.node], items.next)
             [] ts[k] = Word("between") ->
                  ParsePredicate(ts, Node([type |-> "ternary", negated |-> negated, value |-> left.node,
                                           lo |-> right.node, hi |-> high.node], high.next))
             [] ts[k] = Word("is null") ->
                  ParsePredicate(ts, Node([type |-> "unary", op |-> "is null", operand |-> left.node], k + 1))
             [] ts[k] = Word("is not null") ->
                  ParsePredicate(ts, Node([type |-> "unary", op |-> "is not null", operand |-> left.node], k + 1))
             [] OTHER -> left

\* Expressions with commas, to the closing parenthesis.
ParseItems(ts, i) ==
  IF ts[i] = Word(")") THEN Node(<<>>, i + 1)
  ELSE LET first == ParseAt(ts, i, 1)
           rest == ParseItems(ts, IF ts[first.next] = Word(",") THEN first.next + 1 ELSE first.next)
       IN  Node(<<first.node>> \o rest.node, rest.next)

ParseWhens(ts, i) ==
  IF ts[i] = Word("else")
  THEN LET e == ParseAt(ts, i + 1, 1) IN Node([type |-> "case", whens |-> <<>>, else |-> e.node], e.next + 1)
  ELSE LET when == ParseAt(ts, i + 1, 1)
           value == ParseAt(ts, when.next + 1, 1)
           rest == ParseWhens(ts, value.next)
       IN  Node([rest.node EXCEPT !.whens = <<[when |-> when.node, value |-> value.node]>> \o @], rest.next)

---------------------------------------------------------------------------
(* Nodes to queries. *)

\* SqlScope: the tables of a statement, in order.
Table(source, alias) == [source |-> source, alias |-> alias]
RefName(token, scope) ==
  LET known == {i \in DOMAIN scope : token[2] \in {scope[i].source, scope[i].alias}}
      names == UNION {{scope[i].source, scope[i].alias} : i \in DOMAIN scope}
  IN  IF token[1] # "ref" THEN "refused"
      ELSE IF token[2] = "" THEN token[3]
      ELSE IF known = {} THEN "refused"
      ELSE IF Cardinality(names) <= 2 THEN token[3]
      ELSE scope[CHOOSE i \in known : TRUE].alias \o "." \o token[3]

Column(token, scope) ==
  LET name == RefName(token, scope) IN IF name = "refused" THEN BadExpr ELSE Col(name)

\* flattenLogical: operands of the same operator are taken in.
Flattened(op, e) == IF e.kind = "logical" /\ e.op = op THEN e.operands ELSE <<e>>

\* unaryToExpr: minus is a product.
UnaryToExpr(op, operand) ==
  CASE op = "not" -> Not(operand)
    [] op = "is null" -> NullCheck(FALSE, operand)
    [] op = "is not null" -> NullCheck(TRUE, operand)
    [] op = "sub" -> Arith("mul", Lit(Number(-1)), operand)

\* exprToLakeql, binaryToExpr, ternaryToExpr, caseToExpr, parameterValue.
RECURSIVE ExprToLakeql(_, _, _)
ExprToLakeql(n, scope, parameters) ==
  LET ex(x) == ExprToLakeql(x, scope, parameters)
      all(xs) == [i \in DOMAIN xs |-> ex(xs[i])]
      bad(es) == \E i \in DOMAIN es : es[i] = BadExpr
      built(es, e) == IF bad(es) THEN BadExpr ELSE e
  IN  CASE n.type = "ref" -> Column(n.token, scope)
        [] n.type = "value" -> Lit(n.token[2])
        [] n.type = "parameter" ->
             IF n.token[2] \in DOMAIN parameters THEN Lit(parameters[n.token[2]]) ELSE BadExpr
        [] n.type = "unary" -> LET e == ex(n.operand) IN built(<<e>>, UnaryToExpr(n.op, e))
        [] n.type = "binary" /\ n.op \in {"and", "or"} ->
             LET es == <<ex(n.left), ex(n.right)>>
             IN  built(es, Logical(n.op, Flattened(n.op, es[1]) \o Flattened(n.op, es[2])))
        [] n.type = "binary" /\ n.op = "in" ->
             IF n.right.type # "list" THEN BadExpr
             ELSE LET es == <<ex(n.left)>> \o all(n.right.items)
                  IN  built(es, In(n.negated, es[1], Tail(es)))
        [] n.type = "binary" /\ n.op = "like" ->
             LET e == ex(n.left)
                 like == IF n.negated THEN Not(Like(e)) ELSE Like(e)
             IN  IF n.right.type = "value" /\ n.right.token[2].type = "string"
                 THEN built(<<e>>, like) ELSE BadExpr
        [] n.type = "binary" /\ n.op \in CompareOps ->
             LET es == <<ex(n.left), ex(n.right)>> IN built(es, Cmp(n.op, es[1], es[2]))
        [] n.type = "binary" /\ n.op \in {"add", "sub", "mul", "div", "mod"} ->
             LET es == <<ex(n.left), ex(n.right)>> IN built(es, Arith(n.op, es[1], es[2]))
        [] n.type = "ternary" ->
             LET es == <<ex(n.value), ex(n.lo), ex(n.hi)>>
                 between == Between(es[1], es[2], es[3])
             IN  built(es, IF n.negated THEN Not(between) ELSE between)
        [] n.type = "case" ->
             LET whens == [i \in DOMAIN n.whens |-> ex(n.whens[i].when)]
                 values == [i \in DOMAIN n.whens |-> ex(n.whens[i].value)]
                 else == ex(n.else)
             IN  built(whens \o values \o <<else>>,
                       Case([i \in DOMAIN whens |-> When(whens[i], values[i])], else))
        [] n.type = "call" -> LET es == all(n.args) IN built(es, Call(n.fn, es))
        [] OTHER -> BadExpr

\* flattenWhereConjuncts, flattenJoinConjuncts.
RECURSIVE ConjunctNodes(_)
ConjunctNodes(n) ==
  IF n.type = "binary" /\ n.op = "and" THEN ConjunctNodes(n.left) \o ConjunctNodes(n.right) ELSE <<n>>

IsSubquery(n) == n.type = "binary" /\ n.op = "in" /\ n.right.type = "select"

\* subqueryJoinToAst: a subquery is [from, keys, where]; it sees no parameters.
SubqueryJoin(n, scope) ==
  LET statement == n.right.token[2]
      inner == <<Table(statement.from, statement.from)>>
      left == IF n.left.type = "list" THEN n.left.items ELSE <<n.left>>
      names(ns, s) == [i \in DOMAIN ns |-> IF ns[i].type = "ref" THEN RefName(ns[i].token, s) ELSE "refused"]
      leftKey == names(left, scope)
      rightKey == [i \in DOMAIN statement.keys |-> RefName(statement.keys[i], inner)]
      where == IF statement.where = <<>> THEN NoExpr
               ELSE ExprToLakeql(ParseAt(statement.where, 1, 1).node, inner, <<>>)
  IN  IF \/ "refused" \in ToSet(leftKey) \cup ToSet(rightKey) \/ Len(leftKey) # Len(rightKey)
         \/ leftKey = <<>> \/ where = BadExpr
      THEN NoJoin
      ELSE [source |-> statement.from, type |-> IF n.negated THEN "anti" ELSE "semi",
            leftKey |-> leftKey, rightKey |-> rightKey, where |-> where]

\* whereToAst: one IN subquery leaves the conjunction.
WhereParts(es, joins) ==
  [where |-> IF es = <<>> THEN NoExpr ELSE IF Len(es) = 1 THEN es[1] ELSE Logical("and", es),
   subqueryJoin |-> IF joins = <<>> THEN NoJoin ELSE Head(joins),
   refused |-> Len(joins) > 1 \/ BadExpr \in ToSet(es) \/ NoJoin \in ToSet(joins)]

ConjunctsToAst(parts, scope, parameters) ==
  LET subqueries == SelectSeq(parts, IsSubquery)
      rest == SelectSeq(parts, LAMBDA p : ~IsSubquery(p))
  IN  WhereParts([i \in DOMAIN rest |-> ExprToLakeql(rest[i], scope, parameters)],
                 [i \in DOMAIN subqueries |-> SubqueryJoin(subqueries[i], scope)])

WhereToAst(n, scope, parameters) == ConjunctsToAst(ConjunctNodes(n), scope, parameters)

\* joinKeysFromPredicate: each equality names a key of either side, in either order.
JoinKeys(on, left, right) ==
  LET side(token) == IF token[2] \in {left.alias, left.source} THEN "left"
                     ELSE IF token[2] \in {right.alias, right.source} THEN "right" ELSE "none"
      parts == ConjunctNodes(on)
      sides(p) == <<side(p.left.token), side(p.right.token)>>
      ok(p) == /\ p.type = "binary" /\ p.op = "eq" /\ p.left.type = "ref" /\ p.right.type = "ref"
               /\ sides(p) \in {<<"left", "right">>, <<"right", "left">>}
      key(p, s) == IF side(p.left.token) = s THEN p.left.token[3] ELSE p.right.token[3]
  IN  IF \E i \in DOMAIN parts : ~ok(parts[i]) THEN <<>>
      ELSE <<[i \in DOMAIN parts |-> left.alias \o "." \o key(parts[i], "left")],
             [i \in DOMAIN parts |-> right.alias \o "." \o key(parts[i], "right")]>>

\* aggregateCallToSpec.
AggregateSpec(n, scope, parameters) ==
  LET star == n.args = <<>> \/ (n.args[1].type = "ref" /\ n.args[1].token[3] = "*")
      op == IF n.distinct THEN "count_distinct" ELSE n.fn
  IN  IF n.distinct /\ (n.fn # "count" \/ Len(n.args) # 1 \/ star) THEN BadExpr
      ELSE IF op = "count" /\ star THEN [kind |-> "aggregate", op |-> op, arg |-> NoExpr]
      ELSE IF Len(n.args) # 1 THEN BadExpr
      ELSE LET arg == ExprToLakeql(n.args[1], scope, parameters)
           IN  IF arg = BadExpr THEN BadExpr ELSE [kind |-> "aggregate", op |-> op, arg |-> arg]

\* A select item: a column, a projection or an aggregate; what is computed has an alias.
Selected(as, name, expr) == [as |-> as, name |-> name, expr |-> expr]
SelectedColumn(name, alias, column) ==
  IF alias \in {"", name} THEN Selected("column", name, column) ELSE Selected("projection", alias, column)

SelectNode(n, alias, scope, parameters) ==
  CASE n.type = "ref" /\ n.token[3] = "*" -> Selected("column", "*", NoExpr)
    [] n.type = "ref" /\ n.token[3] # "*" ->
         SelectedColumn(RefName(n.token, scope), alias, Column(n.token, scope))
    [] n.type = "call" /\ n.fn \in Aggregates ->
         Selected("aggregate", IF alias = "" THEN n.fn ELSE alias, AggregateSpec(n, scope, parameters))
    [] OTHER -> Selected("projection", alias,
                         IF alias = "" THEN BadExpr ELSE ExprToLakeql(n, scope, parameters))

SelectItem(item, scope, parameters) ==
  SelectNode(ParseAt(item.tokens, 1, 1).node, item.alias, scope, parameters)

\* selectStatementToAst.
StatementQuery(s, keys, items, where, having, groupBy, orderBy) ==
  LET as(kind) == SelectSeq(items, LAMBDA it : it.as = kind)
      named(its) == [i \in DOMAIN its |-> [alias |-> its[i].name, expr |-> its[i].expr]]
      names(its) == [i \in DOMAIN its |-> its[i].name]
  IN  IF \/ keys = <<>> \/ items = <<>> \/ where.refused \/ having = BadExpr
         \/ \E i \in DOMAIN items : items[i].expr = BadExpr
         \/ "refused" \in ToSet(groupBy) \cup {orderBy[i].column : i \in DOMAIN orderBy}
      THEN NoQuery
      ELSE [source |-> s.from.source, distinct |-> s.distinct,
            join |-> IF s.join = NoJoin THEN NoJoin
                     ELSE [source |-> s.join.source, alias |-> s.join.alias, leftAlias |-> s.from.alias,
                           type |-> s.join.type, leftKey |-> keys[1], rightKey |-> keys[2]],
            select |-> names(as("column")), projections |-> named(as("projection")),
            aggregates |-> named(as("aggregate")), where |-> where.where,
            subqueryJoin |-> where.subqueryJoin, groupBy |-> groupBy, having |-> having,
            orderBy |-> orderBy, limit |-> s.limit, offset |-> s.offset]

SelectStatementToAst(s, parameters) ==
  LET scope == IF s.join = NoJoin THEN <<s.from>> ELSE <<s.from, Table(s.join.source, s.join.alias)>>
  IN  StatementQuery(s,
        IF s.join = NoJoin THEN <<<<>>, <<>>>> ELSE JoinKeys(ParseAt(s.join.on, 1, 1).node, s.from, scope[2]),
        [i \in DOMAIN s.items |-> SelectItem(s.items[i], scope, parameters)],
        IF s.where = <<>> THEN WhereParts(<<>>, <<>>)
        ELSE WhereToAst(ParseAt(s.where, 1, 1).node, scope, parameters),
        IF s.having = <<>> THEN NoExpr ELSE ExprToLakeql(ParseAt(s.having, 1, 1).node, scope, parameters),
        [i \in DOMAIN s.groupBy |-> RefName(s.groupBy[i], scope)],
        [i \in DOMAIN s.orderBy |-> [s.orderBy[i] EXCEPT !.column = RefName(@, scope)]])

---------------------------------------------------------------------------
(* Queries to text. *)

\* formatIdentifier, as the tokens it is read as.
RefToken(name) ==
  LET dots == {i \in 1..Len(name) : SubSeq(name, i, i) = "."}
      dot == CHOOSE i \in dots : \A j \in dots : i <= j
  IN  IF dots = {} THEN Ref("", name) ELSE Ref(SubSeq(name, 1, dot - 1), SubSeq(name, dot + 1, Len(name)))

Joined(parts, separator) ==
  FlattenSeq([i \in DOMAIN parts |-> IF i = 1 THEN parts[i] ELSE separator \o parts[i]])
Bracketed(ts) == <<Word("(")>> \o ts \o <<Word(")")>>

\* Plausible bug: the operands of AND and OR are not put in parentheses.
RECURSIVE FaultFormatExpr(_)
FaultFormatExpr(e) ==
  LET f(x) == FaultFormatExpr(x)
  IN  CASE e.kind = "literal" -> <<<<"value", e.value>>>>
        [] e.kind = "column" -> <<RefToken(e.name)>>
        [] e.kind = "compare" -> f(e.left) \o <<<<"cmp", e.op>>>> \o f(e.right)
        [] e.kind = "logical" -> Joined([i \in DOMAIN e.operands |-> f(e.operands[i])], <<Op(e.op)>>)
        [] OTHER -> <<<<"value", Null>>>>

\* formatExpr: parentheses around the operands of AND, OR and NOT alone.
RECURSIVE FormatExpr(_)
FormatExpr(e) ==
  LET f(x) == FormatExpr(x)
      list(es) == Bracketed(Joined([i \in DOMAIN es |-> f(es[i])], <<Word(",")>>))
  IN  CASE e.kind = "literal" -> <<<<"value", e.value>>>>
        [] e.kind = "column" -> <<RefToken(e.name)>>
        [] e.kind = "compare" -> f(e.left) \o <<<<"cmp", e.op>>>> \o f(e.right)
        [] e.kind = "between" ->
             f(e.target) \o <<Word("between")>> \o f(e.low) \o <<Op("and")>> \o f(e.high)
        [] e.kind = "in" ->
             f(e.target) \o (IF e.negated THEN <<Op("not")>> ELSE <<>>) \o <<Word("in")>> \o list(e.values)
        [] e.kind = "null-check" ->
             Append(f(e.target), Word(IF e.negated THEN "is not null" ELSE "is null"))
        [] e.kind = "logical" ->
             Joined([i \in DOMAIN e.operands |-> Bracketed(f(e.operands[i]))], <<Op(e.op)>>)
        [] e.kind = "not" -> <<Op("not")>> \o Bracketed(f(e.operand))
        [] e.kind = "like" -> f(e.target) \o <<Word("like"), <<"value", Text(0, NoInstant)>>>>
        [] e.kind = "call" -> <<<<"fn", e.fn, FALSE>>>> \o list(e.args)
        [] e.kind = "arithmetic" -> f(e.left) \o <<Op(e.op)>> \o f(e.right)
        [] e.kind = "case" ->
             <<Word("case")>> \o
             FlattenSeq([i \in DOMAIN e.whens |->
               <<Word("when")>> \o f(e.whens[i].when) \o <<Word("then")>> \o f(e.whens[i].value)])
             \o <<Word("else")>> \o f(e.else) \o <<Word("end")>>

FormatAggregate(a) ==
  LET arg == IF a.arg = NoExpr THEN <<Ref("", "*")>> ELSE FormatExpr(a.arg)
  IN  <<<<"fn", IF a.op = "count_distinct" THEN "count" ELSE a.op, a.op = "count_distinct">>>> \o Bracketed(arg)

\* formatSubqueryJoin.
FormatSubqueryJoin(join) ==
  (IF Len(join.leftKey) = 1 THEN <<RefToken(join.leftKey[1])>>
   ELSE Bracketed(Joined([i \in DOMAIN join.leftKey |-> <<RefToken(join.leftKey[i])>>], <<Word(",")>>)))
  \o (IF join.type = "anti" THEN <<Op("not")>> ELSE <<>>) \o
  <<Word("in"), <<"select", [from |-> join.source,
                             keys |-> [i \in DOMAIN join.rightKey |-> RefToken(join.rightKey[i])],
                             where |-> IF join.where = NoExpr THEN <<>> ELSE FormatExpr(join.where)]>>>>

\* formatWhere.
FormatWhere(where, join) ==
  Joined((IF where = NoExpr THEN <<>> ELSE <<Bracketed(FormatExpr(where))>>)
         \o (IF join = NoJoin THEN <<>> ELSE <<Bracketed(FormatSubqueryJoin(join))>>), <<Op("and")>>)

\* formatSql, formatJoin, formatOrderByTerm.
FormatSql(q) ==
  LET item(tokens, alias) == [tokens |-> tokens, alias |-> alias]
      on == Joined([i \in DOMAIN q.join.leftKey |->
              <<RefToken(q.join.leftKey[i]), <<"cmp", "eq">>, RefToken(q.join.rightKey[i])>>], <<Op("and")>>)
      items == [i \in DOMAIN q.select |-> item(<<RefToken(q.select[i])>>, "")]
        \o [i \in DOMAIN q.projections |-> item(FormatExpr(q.projections[i].expr), q.projections[i].alias)]
        \o [i \in DOMAIN q.aggregates |-> item(FormatAggregate(q.aggregates[i].expr), q.aggregates[i].alias)]
  IN  [distinct |-> q.distinct, items |-> IF items = <<>> THEN <<item(<<Ref("", "*")>>, "")>> ELSE items,
       from |-> Table(q.source, IF q.join = NoJoin THEN q.source ELSE q.join.leftAlias),
       join |-> IF q.join = NoJoin THEN NoJoin
                ELSE [source |-> q.join.source, alias |-> q.join.alias, type |-> q.join.type, on |-> on],
       where |-> FormatWhere(q.where, q.subqueryJoin),
       groupBy |-> [i \in DOMAIN q.groupBy |-> RefToken(q.groupBy[i])],
       having |-> IF q.having = NoExpr THEN <<>> ELSE FormatExpr(q.having),
       orderBy |-> [i \in DOMAIN q.orderBy |-> [q.orderBy[i] EXCEPT !.column = RefToken(@)]],
       limit |-> q.limit, offset |-> q.offset]
=============================================================================
