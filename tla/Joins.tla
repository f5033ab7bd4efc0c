------------------------------- MODULE Joins -------------------------------
(***************************************************************************)
(* The three joins: an index of all right rows (broadcastJoin), a lookup   *)
(* for each left row (lookupJoin), both in core/src/join.ts, and the join  *)
(* of two batches (core/src/vector-join.ts).                               *)
(*                                                                         *)
(* A join is a record of its key columns, its type ("inner", "left",       *)
(* "semi", "anti") and its budget of right rows.                           *)
(***************************************************************************)
EXTENDS BatchEvaluator, SequencesExt

Prefixed(name) == "right." \o name   \* rightPrefix, by default

JoinOptions(leftKeys, rightKeys, type, maxRightRows) ==
  [leftKeys |-> leftKeys, rightKeys |-> rightKeys, type |-> type, maxRightRows |-> maxRightRows]

JoinFailed(reason) == <<[failed |-> reason]>>
IsJoinFailed(rows) == rows # <<>> /\ "failed" \in DOMAIN Head(rows)

ValidOptions(o) ==
  Len(o.leftKeys) = Len(o.rightKeys) /\ o.leftKeys # <<>> /\ o.maxRightRows >= 1

\* joinKey: the stable JSON text, in which a bigint reads as its digits in quotes;
\* NULL keys are equal to each other, and so are NaN keys.
JoinKey(row, keys) ==
  LET part(v) == IF v.type = "bigint" THEN <<"string", v.key>> ELSE <<v.type, v.key>>
  IN  [i \in DOMAIN keys |-> part(row[keys[i]])]

\* scalarJoinValue of the row joins: a timestamp is no scalar, a column must be there.
KeyRefused(row, keys) ==
  \E i \in DOMAIN keys : keys[i] \notin DOMAIN row \/ row[keys[i]].type \in {"timestamp", "binary"}

\* mergeRows: a key column that both sides share is not repeated.
MergeRows(left, right, o) ==
  LET kept == {c \in DOMAIN right : ~(c \in ToSet(o.rightKeys) /\ c \in ToSet(o.leftKeys))}
      name(c) == IF c \in DOMAIN left THEN Prefixed(c) ELSE c
      names == {name(c) : c \in kept}
  IN  [n \in names |-> right[CHOOSE c \in kept : name(c) = n]] @@ left

\* What a left row with these matches contributes.
JoinedRows(left, matches, o) ==
  CASE o.type = "semi" -> IF matches # <<>> THEN <<left>> ELSE <<>>
    [] o.type = "anti" -> IF matches = <<>> THEN <<left>> ELSE <<>>
    [] o.type = "left" /\ matches = <<>> -> <<left>>
    [] OTHER -> [i \in DOMAIN matches |-> MergeRows(left, matches[i], o)]

Bucket(right, left, o) ==
  SelectSeq(right, LAMBDA r : JoinKey(r, o.rightKeys) = JoinKey(left, o.leftKeys))

BroadcastJoin(left, right, o) ==
  IF ~ValidOptions(o) THEN JoinFailed("options")
  ELSE IF Len(right) > o.maxRightRows THEN JoinFailed("budget")
  ELSE IF \/ \E i \in DOMAIN right : KeyRefused(right[i], o.rightKeys)
          \/ \E i \in DOMAIN left : KeyRefused(left[i], o.leftKeys)
  THEN JoinFailed("key")
  ELSE FlattenSeq([i \in DOMAIN left |-> JoinedRows(left[i], Bucket(right, left[i], o), o)])

\* Plausible bug: the rows a lookup returns are not compared with the key again.
FaultLookupJoin(left, found, o) ==
  LET read == FoldLeft(LAMBDA n, i : n + Len(found[i]), 0, [i \in DOMAIN left |-> i])
  IN  IF ~ValidOptions(o) THEN JoinFailed("options")
      ELSE IF read > o.maxRightRows THEN JoinFailed("budget")
      ELSE IF \E i \in DOMAIN left :
                \/ KeyRefused(left[i], o.leftKeys)
                \/ \E k \in DOMAIN found[i] : KeyRefused(found[i][k], o.rightKeys)
      THEN JoinFailed("key")
      ELSE FlattenSeq([i \in DOMAIN left |-> JoinedRows(left[i], found[i], o)])

\* lookupJoin: found[i] is what the caller's lookup returns for left row i, which
\* may hold rows of other keys; the budget counts what all lookups return.
LookupJoin(left, found, o) ==
  LET read == FoldLeft(LAMBDA n, i : n + Len(found[i]), 0, [i \in DOMAIN left |-> i])
  IN  IF ~ValidOptions(o) THEN JoinFailed("options")
      ELSE IF read > o.maxRightRows THEN JoinFailed("budget")
      ELSE IF \E i \in DOMAIN left :
                \/ KeyRefused(left[i], o.leftKeys)
                \/ \E k \in DOMAIN found[i] : KeyRefused(found[i][k], o.rightKeys)
      THEN JoinFailed("key")
      ELSE FlattenSeq([i \in DOMAIN left |-> JoinedRows(left[i], Bucket(found[i], left[i], o), o)])

\* outputRightColumns.
OutputRightColumns(left, right, o) ==
  IF o.type \in {"semi", "anti"} THEN {}
  ELSE {c \in DOMAIN right : ~(c \in ToSet(o.rightKeys) /\ c \in ToSet(o.leftKeys))}

\* vectorHashJoin: the rows of the output batch.  A left row without a match has
\* NULLs where the row joins leave the columns out.
VectorHashJoin(left, right, leftSelected, rightSelected, o) ==
  LET rows(batch, selected) == [i \in DOMAIN selected |-> MaterializeRow(batch, selected[i])]
      leftRows == rows(left, leftSelected)
      rightRows == rows(right, rightSelected)
      padding == [c \in OutputRightColumns(left, right, o) |-> Null]
      joined(row) ==
        LET matches == Bucket(rightRows, row, o)
        IN  IF o.type = "left" /\ matches = <<>> THEN <<MergeRows(row, padding, o)>>
            ELSE JoinedRows(row, matches, o)
  IN  IF ~ValidOptions(o) THEN JoinFailed("options")
      ELSE IF ~(ToSet(o.leftKeys) \subseteq DOMAIN left /\ ToSet(o.rightKeys) \subseteq DOMAIN right)
      THEN JoinFailed("key")
      ELSE IF Len(rightSelected) > o.maxRightRows THEN JoinFailed("budget")
      ELSE FlattenSeq([i \in DOMAIN leftRows |-> joined(leftRows[i])])
=============================================================================
