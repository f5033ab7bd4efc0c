----------------------------- MODULE Evaluator -----------------------------
(***************************************************************************)
(* The row evaluator (core/src/evaluator.ts): an expression over one row.  *)
(* An expression is a record with the fields of the source's Expr types; a *)
(* row is a function from column names to values.  An operand that throws  *)
(* makes the whole expression throw, in the order of evaluation: AND and   *)
(* OR evaluate every operand, CASE stops at the first branch that is true. *)
(***************************************************************************)
EXTENDS SqlValues, SequencesExt

Lit(v) == [kind |-> "literal", value |-> v]
Col(name) == [kind |-> "column", name |-> name]
Cmp(op, l, r) == [kind |-> "compare", op |-> op, left |-> l, right |-> r]
In(negated, target, values) ==
  [kind |-> "in", negated |-> negated, target |-> target, values |-> values]
Between(target, low, high) ==
  [kind |-> "between", target |-> target, low |-> low, high |-> high]
NullCheck(negated, target) ==
  [kind |-> "null-check", negated |-> negated, target |-> target]
Logical(op, operands) == [kind |-> "logical", op |-> op, operands |-> operands]
Not(operand) == [kind |-> "not", operand |-> operand]
Like(target) == [kind |-> "like", target |-> target]
Call(fn, args) == [kind |-> "call", fn |-> fn, args |-> args]
Arith(op, l, r) == [kind |-> "arithmetic", op |-> op, left |-> l, right |-> r]
Case(whens, else) == [kind |-> "case", whens |-> whens, else |-> else]
When(when, value) == [when |-> when, value |-> value]

RowValue(row, name) == IF name \in DOMAIN row THEN row[name] ELSE UnknownColumn

\* The first error of a sequence of evaluated operands, if there is one.
FirstError(values) ==
  LET bad == {i \in DOMAIN values : IsError(values[i])}
  IN  values[CHOOSE i \in bad : \A j \in bad : i <= j]

Throws(values) == \E i \in DOMAIN values : IsError(values[i])

\* unaryString, unaryNumber: the argument count, then NULL, then the type.
Unary(type, args, result) ==
  IF Len(args) # 1 THEN TypeError
  ELSE IF args[1] = Null THEN Null
  ELSE IF JsType(args[1]) # type THEN TypeError
  ELSE result

\* Text keys 2k and 2k + 1 are the two cases of one word.
Upper(v) == Text(v.key - (v.key % 2), v.instant)
Abs(v) == IF v = NaN THEN NaN ELSE Number(IF v.key < 0 THEN -v.key ELSE v.key)

\* Text is not a number in the model, so its cast is Number.NaN and then NULL.
Cast(v, target) ==
  IF v = Null THEN Null
  ELSE CASE target = "number" ->
              (IF v.type \in {"number", "bigint", "boolean"}
               THEN Number(v.key) ELSE Null)
         [] target = "boolean" ->
              Bool(v.type \in {"string", "binary", "timestamp"}
                     \/ (v.type # "nan" /\ v.key # 0))
         [] OTHER -> TypeError

\* What a comparison picks, unless it was refused.
Picked(c, yes, no) == IF IsError(c) THEN c ELSE IF c = True THEN yes ELSE no

\* least and greatest: NULL wins over everything; NaN never replaces a value.
LeastGreatest(op, args) ==
  IF args = <<>> THEN TypeError
  ELSE IF Contains(args, Null) THEN Null
  ELSE FoldLeft(LAMBDA best, v : IF IsError(best) THEN best
                                 ELSE Picked(Compare(op, v, best), v, best),
                Head(args), Tail(args))

Coalesce(args) ==
  IF \A i \in DOMAIN args : args[i] = Null THEN Null
  ELSE args[CHOOSE i \in DOMAIN args :
              args[i] # Null /\ \A j \in 1..(i - 1) : args[j] = Null]

NullIf(args) ==
  IF Len(args) # 2 THEN TypeError
  ELSE Picked(Compare("eq", args[1], args[2]), Null, args[1])

\* The dispatch by name; each name here stands for the functions of its shape.
CallFunction(fn, args) ==
  CASE fn = "upper" -> Unary("string", args, Upper(args[1]))
    [] fn = "abs" -> Unary("number", args, Abs(args[1]))
    [] fn = "coalesce" -> Coalesce(args)
    [] fn = "nullif" -> NullIf(args)
    [] fn = "least" -> LeastGreatest("lt", args)
    [] fn = "greatest" -> LeastGreatest("gt", args)
    [] fn \in {"cast_number", "cast_boolean"} ->
         Cast(args[1], IF fn = "cast_number" THEN "number" ELSE "boolean")
    [] OTHER -> Unsupported

\* A pattern with one % matches every text.
LikeMatch(v) ==
  IF v = Null THEN Null ELSE IF v.type # "string" THEN TypeError ELSE True

\* The expressions whose values a result is computed from, in order.
Operands(e) ==
  CASE e.kind \in {"compare", "arithmetic"} -> <<e.left, e.right>>
    [] e.kind = "in" -> <<e.target>> \o e.values
    [] e.kind = "between" -> <<e.target, e.low, e.high>>
    [] e.kind \in {"null-check", "like"} -> <<e.target>>
    [] e.kind = "logical" -> e.operands
    [] e.kind = "not" -> <<e.operand>>
    [] e.kind = "call" -> e.args

\* A refused value stays as it is.
Negated(negated, v) == IF negated /\ ~IsError(v) THEN SqlNot(v) ELSE v

Both(low, high) ==
  IF IsError(low) THEN low ELSE IF IsError(high) THEN high ELSE SqlAnd(low, high)

\* The result of an expression from the values of its operands.
Result(e, v) ==
  CASE e.kind = "compare" -> Compare(e.op, v[1], v[2])
    [] e.kind = "arithmetic" -> Arithmetic(e.op, v[1], v[2])
    [] e.kind = "in" -> Negated(e.negated, InList(v[1], Tail(v)))
    [] e.kind = "between" -> Both(Compare("gte", v[1], v[2]), Compare("lte", v[1], v[3]))
    [] e.kind = "null-check" -> Bool((v[1] = Null) # e.negated)
    [] e.kind = "like" -> LikeMatch(v[1])
    [] e.kind = "logical" -> LogicalResult(e.op, ToSet(v))
    [] e.kind = "not" -> SqlNot(v[1])
    [] e.kind = "call" -> CallFunction(e.fn, v)

Operand(e, v) == IF e.kind \in {"logical", "not"} THEN ToSqlBoolean(v) ELSE v
Applied(e, values) == IF Throws(values) THEN FirstError(values) ELSE Result(e, values)

\* The expression that CASE becomes: of the first condition that is true or throws.
Branch(e, conditions) ==
  LET ends == {k \in DOMAIN conditions : conditions[k] = True \/ IsError(conditions[k])}
      first == CHOOSE k \in ends : \A j \in ends : k <= j
  IN  IF ends = {} THEN e.else
      ELSE IF IsError(conditions[first]) THEN Lit(conditions[first])
      ELSE e.whens[first].value

RECURSIVE Evaluate(_, _)
Evaluate(e, row) ==
  CASE e.kind = "literal" -> e.value
    [] e.kind = "column" -> RowValue(row, e.name)
    [] e.kind = "case" ->
         Evaluate(Branch(e, [i \in DOMAIN e.whens |-> ToSqlBoolean(Evaluate(e.whens[i].when, row))]), row)
    [] OTHER -> Applied(e, [i \in DOMAIN Operands(e) |-> Operand(e, Evaluate(Operands(e)[i], row))])

\* matches: a row is kept only when the predicate is true.
MatchResult(e, row) == ToSqlBoolean(Evaluate(e, row))
Matches(e, row) == MatchResult(e, row) = True
=============================================================================
