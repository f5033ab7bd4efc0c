------------------------------ MODULE GroupBy ------------------------------
(***************************************************************************)
(* Grouped aggregation: the vectorised group-by with its partial states    *)
(* (core/src/vector-group-by.ts), the tasks that make and merge them       *)
(* (parquet/src/aggregate-task.ts), and the row engine's groups with their *)
(* resumable operator state (core/src/query.ts).                           *)
(*                                                                         *)
(* Groups are a sequence, in the order they were first seen; a group is    *)
(* its key, its key values and one aggregate state for each item of the    *)
(* specification, whose items are records of an operation and a column.    *)
(***************************************************************************)
EXTENDS Aggregates

NoMaxGroups == -1
StarColumn == "*"   \* count(*), which every row counts for

FailedGroups(code) == <<[failed |-> code]>>
IsFailedGroups(groups) == groups # <<>> /\ "failed" \in DOMAIN Head(groups)

\* scalarGroupKeyPart: the type and the text; every NaN is one key.
GroupKeyPart(v) == IF v = Null THEN <<"null", FALSE, 0>> ELSE DistinctKey(v)
GroupKey(values) == [i \in DOMAIN values |-> GroupKeyPart(values[i])]

ItemValue(item, row) ==
  IF item.column = StarColumn THEN True
  ELSE IF item.column \in DOMAIN row THEN row[item.column] ELSE UnknownColumn

KeyValues(keys, row) == [i \in DOMAIN keys |-> row[keys[i]]]

Position(groups, key) == {i \in DOMAIN groups : groups[i].key = key}

\* getOrCreateGroupByValues, and the same lines of the paths that do not encode.
WithGroup(groups, values, spec, maxGroups) ==
  IF Position(groups, GroupKey(values)) # {} THEN groups
  ELSE IF maxGroups # NoMaxGroups /\ Len(groups) >= maxGroups THEN FailedGroups("groups")
  ELSE Append(groups, [key |-> GroupKey(values), values |-> values,
                       states |-> [i \in DOMAIN spec |-> Created(spec[i].op)]])

FailureOf(groups) ==
  IF IsFailedGroups(groups) THEN groups
  ELSE LET bad == {i \in DOMAIN groups :
                     \E k \in DOMAIN groups[i].states : IsFailed(groups[i].states[k])}
       IN  IF bad = {} THEN groups ELSE FailedGroups("aggregate")

UpdateGroup(groups, key, spec, row) ==
  LET at == CHOOSE i \in Position(groups, key) : TRUE
  IN  IF IsFailedGroups(groups) THEN groups
      ELSE FailureOf([groups EXCEPT ![at].states =
             [k \in DOMAIN spec |-> UpdateStateValue(@[k], ItemValue(spec[k], row), NoBudget)]])

\* A row of the batch: its group, then every aggregate of the group.
AddRow(groups, keys, spec, row, maxGroups) ==
  IF IsFailedGroups(groups) THEN groups
  ELSE UpdateGroup(WithGroup(groups, KeyValues(keys, row), spec, maxGroups),
                   GroupKey(KeyValues(keys, row)), spec, row)

\* updateVectorGroupByState, from rows; directF64SumInput and the encoders make
\* the same groups faster.
UpdateGroups(groups, keys, spec, rows, maxGroups) ==
  FoldLeft(LAMBDA acc, row : AddRow(acc, keys, spec, row, maxGroups), groups, rows)

\* A dictionary column: the group of an index is looked up once for a batch, so
\* equal entries of one dictionary share a group.
UpdateEncodedGroups(groups, spec, column, dictionary, indices, maxGroups) ==
  LET value(i) == IF indices[i] = 0 THEN Null ELSE dictionary[indices[i]]
      rows == [i \in DOMAIN indices |-> column :> value(i)]
      step(acc, i) ==
        IF IsFailedGroups(acc.groups) THEN acc
        ELSE LET with == IF indices[i] \in DOMAIN acc.byId THEN acc.groups
                         ELSE WithGroup(acc.groups, <<value(i)>>, spec, maxGroups)
                 at == IF indices[i] \in DOMAIN acc.byId THEN acc.byId[indices[i]]
                       ELSE CHOOSE g \in Position(with, GroupKey(<<value(i)>>)) : TRUE
             IN  IF IsFailedGroups(with) THEN [acc EXCEPT !.groups = with]
                 ELSE [groups |-> FailureOf([with EXCEPT ![at].states =
                         [k \in DOMAIN spec |->
                            UpdateStateValue(@[k], ItemValue(spec[k], rows[i]), NoBudget)]]),
                       byId |-> (indices[i] :> at) @@ acc.byId]
  IN  FoldLeft(step, [groups |-> groups, byId |-> <<>>], [i \in DOMAIN indices |-> i]).groups

\* snapshotVectorGroupByState and restoreVectorGroupByState.
SnapshotGroups(groups) ==
  IF IsFailedGroups(groups) THEN groups
  ELSE [i \in DOMAIN groups |->
          [groups[i] EXCEPT !.states = [k \in DOMAIN @ |-> Snapshot(@[k])]]]

\* Plausible bug: a group that only the partial has is dropped.
FaultMergeGroups(target, source) ==
  IF IsFailedGroups(target) \/ IsFailedGroups(source)
  THEN IF IsFailedGroups(target) THEN target ELSE source
  ELSE FoldLeft(LAMBDA acc, g :
         LET at == Position(acc, g.key)
         IN  IF at = {} THEN acc
             ELSE [acc EXCEPT ![CHOOSE i \in at : TRUE].states =
                     [k \in DOMAIN @ |-> Merge(@[k], g.states[k], NoBudget)]],
         target, source)

\* mergeVectorGroupByStates: no group limit is asked for here.
MergeGroups(target, source) ==
  IF IsFailedGroups(target) \/ IsFailedGroups(source)
  THEN IF IsFailedGroups(target) THEN target ELSE source
  ELSE FailureOf(FoldLeft(LAMBDA acc, g :
         LET at == Position(acc, g.key)
         IN  IF at = {} THEN Append(acc, [g EXCEPT !.states = [k \in DOMAIN @ |-> Snapshot(@[k])]])
             ELSE [acc EXCEPT ![CHOOSE i \in at : TRUE].states =
                     [k \in DOMAIN @ |-> Merge(@[k], g.states[k], NoBudget)]],
         target, source))

\* finalizeVectorGroupByRows.
FinalizeGroups(groups) ==
  [i \in DOMAIN groups |-> [values |-> groups[i].values,
                            row |-> [k \in DOMAIN groups[i].states |-> Finalize(groups[i].states[k])]]]

\* aggregateParquetGroupTask: the partial of a task's rows; aggregateParquetGroupTasks
\* merges the partials in the order of the tasks.
GroupTask(keys, spec, rows, maxGroups) ==
  SnapshotGroups(UpdateGroups(<<>>, keys, spec, rows, maxGroups))

GroupTasks(keys, spec, tasks, maxGroups) ==
  FoldLeft(LAMBDA acc, rows : MergeGroups(acc, GroupTask(keys, spec, rows, maxGroups)), <<>>, tasks)

\* aggregateParquetTasks: one state an item, whatever the rows.
AggregateTasks(spec, tasks) ==
  [k \in DOMAIN spec |->
     Finalize(FoldLeft(LAMBDA acc, rows :
       MergeSnapshot(acc, Snapshot(Update(Created(spec[k].op),
                       [i \in DOMAIN rows |-> ItemValue(spec[k], rows[i])], NoBudget)), NoBudget),
       Created(spec[k].op), tasks))]

\* The row engine (CountState .. AnyState, createAggregateState): the comparisons
\* and the keys of text, numbers and booleans only.
RowAccepts(op, v) ==
  CASE op \in NumericOps \cup {"quantile"} -> JsType(v) = "number"
    [] op = "median" -> JsType(v) \in {"number", "string"}
    [] op \in {"min", "max", "mode"} -> JsType(v) \in {"string", "number", "boolean"}
    [] OTHER -> TRUE

\* stableStringify: a bigint is the text of its digits, and so is not told apart
\* from that text; NaN is the text NaN.
RowKey(v) == IF v.type \in {"bigint", "nan"} THEN <<"string", FALSE, v.key>> ELSE DistinctKey(v)

RowUpdate(s, v) ==
  IF ~IsFailed(s) /\ v # Null /\ ~RowAccepts(s.op, v) THEN Failed("type")
  ELSE IF ~IsFailed(s) /\ v # Null /\ s.op = "count_distinct"
  THEN [s EXCEPT !.distinct.values = @ \cup {RowKey(v)}]
  ELSE UpdateStateValue(s, v, NoBudget)

RowGroup(groups, key, values, spec, maxGroups) ==
  IF Position(groups, key) # {} THEN groups
  ELSE IF maxGroups # NoMaxGroups /\ Len(groups) >= maxGroups THEN FailedGroups("groups")
  ELSE Append(groups, [key |-> key, values |-> values,
                       states |-> [k \in DOMAIN spec |-> Created(spec[k].op)]])

RowUpdateGroup(groups, key, spec, row) ==
  LET at == CHOOSE i \in Position(groups, key) : TRUE
  IN  IF IsFailedGroups(groups) THEN groups
      ELSE FailureOf([groups EXCEPT ![at].states =
             [k \in DOMAIN spec |-> RowUpdate(@[k], ItemValue(spec[k], row))]])

AddEngineRow(groups, key, values, spec, row, maxGroups) ==
  IF IsFailedGroups(groups) THEN groups
  ELSE RowUpdateGroup(RowGroup(groups, key, values, spec, maxGroups), key, spec, row)

RowKeys(values) == [i \in DOMAIN values |-> RowKey(values[i])]

\* aggregateWithState: the groups of a state, if one is given, then the rows.
RowGroups(groups, keys, spec, rows, maxGroups) ==
  FoldLeft(LAMBDA acc, row : AddEngineRow(acc, RowKeys(KeyValues(keys, row)), KeyValues(keys, row),
                                          spec, row, maxGroups), groups, rows)

KeyBefore(a, b) ==
  LET differ == {i \in DOMAIN a.key : a.key[i] # b.key[i]}
      at == CHOOSE i \in differ : \A j \in differ : i <= j
  IN  differ # {} /\ KeyLess(a.key[at], b.key[at])

\* aggregateOperatorState, its JSON and aggregateGroupsFromState: the groups come
\* back in the order of their keys.
ResumedGroups(groups) ==
  LET states == {groups[i].states : i \in DOMAIN groups}
      restored(s) == [s EXCEPT !.value = JsonScalar(@)]
  IN  IF IsFailedGroups(groups) THEN groups
      ELSE IF \E ss \in states : \E k \in DOMAIN ss : ss[k].sum = NaN
      THEN FailedGroups("bookmark invalid")
      ELSE SortSeq([i \in DOMAIN groups |->
                      [groups[i] EXCEPT !.values = [k \in DOMAIN @ |-> JsonScalar(@[k])],
                                        !.states = [k \in DOMAIN @ |-> restored(@[k])]]],
                   KeyBefore)
=============================================================================
