---------------------------- MODULE MCOperators ----------------------------
(***************************************************************************)
(* The pure algorithms of the query engine, over bounded inputs.  A first  *)
(* step picks what is asked, a second one the input; the invariants then   *)
(* state the answer.                                                       *)
(***************************************************************************)
EXTENDS MCFormats, MCTables

VARIABLE case

vars == <<case>>

Questions == {"batch", "pruning", "spatial", "groups", "distinct",
              "sorts", "joins", "queries", "pages", "index", "text", "iceberg",
              "sql", "commands"}
Open(question) == [question |-> question, open |-> TRUE]
Closed(question, input) == [question |-> question, open |-> FALSE, input |-> input]

Init == case = Open("none")

Ask == case = Open("none") /\ \E q \in Questions : case' = Open(q)

AskBatch ==
  /\ case = Open("batch")
  /\ \E e \in Predicates, b \in Batches : case' = Closed("batch", <<e, b>>)
AskPruning ==
  /\ case = Open("pruning")
  /\ \/ \E e \in Filters, f \in Files : case' = Closed("pruning", <<f, e>>)
     \/ \E clock \in Clocks : \E e \in TimeFilters(clock), f \in TimeFiles(clock) :
          case' = Closed("pruning", <<f, e>>)
AskSpatial ==
  /\ case = Open("spatial")
  /\ \E op \in SpatialOps, a \in Geometries, b \in Geometries \cup {NullGeometry}, d \in 0..2 :
       case' = Closed("spatial", <<op, a, b, d>>)

AskGroups ==
  /\ case = Open("groups")
  /\ \E rows \in NumberRows \cup ScalarRows, a \in 0..1, b \in 0..3 :
       /\ a <= b /\ b <= Len(rows)
       /\ case' = Closed("groups", <<rows, a, b>>)
AskDistinct ==
  /\ case = Open("distinct")
  /\ \E x, y \in TextBatches, z \in {b \in TextBatches : Len(b) \in {0, 2}} :
       case' = Closed("distinct", <<x, y, z>>)
AskSorts ==
  /\ case = Open("sorts")
  /\ \E rows \in SortTables, orderBy \in Orders, offset \in 0..1, limit \in 0..2, cut \in 0..3 :
       case' = Closed("sorts", <<rows, orderBy, offset, limit, cut>>)
AskJoins ==
  /\ case = Open("joins")
  /\ \E left \in Sides("v"), right \in Sides("r"), type \in JoinTypes :
       case' = Closed("joins", <<left, right, type>>)
AskQueries ==
  /\ case = Open("queries")
  /\ \E catalog \in Catalogs, distinct \in BOOLEAN, select \in Selects :
       \E where \in Wheres(catalog), offset \in 0..1, limit \in {NoLimit, 2} :
         case' = Closed("queries", <<catalog, Query(select, where, distinct, offset, limit)>>)

AskPages ==
  /\ case = Open("pages")
  /\ \E a \in ColumnCells, b \in ColumnCells, cut \in PageCuts, indexed \in 0..3,
        otherCut \in {<<3>>, <<1, 0, 2>>}, from \in 3..6, to \in 5..8 :
       /\ indexed <= Len(cut) /\ from < to
       /\ case' = Closed("pages", <<a, PagesOf(a, cut, indexed), b, PagesOf(b, otherCut, 1), from, to>>)
AskIndex ==
  /\ case = Open("index")
  /\ \/ \E rows \in GroupRows, e \in Filters : case' = Closed("index", <<rows, e>>)
     \/ \E keys, wanted \in SUBSET (0..3), k \in 0..1 :
          keys # {} /\ case' = Closed("index", <<keys, wanted, 1, k>>)
AskText ==
  /\ case = Open("text")
  /\ \/ \E a \in TextCells, b, c, d \in FewCells, n \in 0..2 :
          case' = Closed("text", <<"csv", SubSeq(<<<<a, b>>, <<c, d>>>>, 1, n)>>)
     \/ \E x, y, z \in JsonLines, maxRows \in 1..3 :
          case' = Closed("text", <<"json", <<x, y, z>>, maxRows>>)
AskIceberg ==
  /\ case = Open("iceberg")
  /\ \E deletes \in DeletePairs, layout \in Layouts, absolute \in BOOLEAN, where \in TableWheres,
        mode \in {"strict", "ignore-unsupported-deletes", "ignore-deletes"} :
       case' = Closed("iceberg", <<deletes, layout, absolute, where, mode>>)

AskSql ==
  /\ case = Open("sql")
  /\ \/ \E e \in Printed : case' = Closed("sql", <<"expression", e>>)
     \/ \E s \in OneTable \cup TwoTables : case' = Closed("sql", <<"statement", s>>)
AskCommands ==
  /\ case = Open("commands")
  /\ \E asked \in Asked : case' = Closed("commands", asked)

Next == Ask \/ AskBatch \/ AskPruning \/ AskSpatial \/ AskGroups \/ AskDistinct
        \/ AskSorts \/ AskJoins \/ AskQueries \/ AskPages \/ AskIndex \/ AskText \/ AskIceberg
        \/ AskSql \/ AskCommands

Spec == Init /\ [][Next]_vars

Answered(question) == case.question = question /\ ~case.open

(* A predicate keeps the same rows of a batch whether the kernels evaluate  *)
(* its column vectors or the evaluator its rows, and refuses a batch only   *)
(* if it refuses a row.  Apart are a CASE, which a batch may refuse for a   *)
(* branch no row takes; a row whose NaN is compared (the kernels find it    *)
(* equal to nothing, the evaluator to every number); and a row compared     *)
(* with a timestamp finer than the unit of its vector, to which the kernels *)
(* cut the literal down (evaluator.ts, batch.ts).                           *)
BatchAgreesWithRows == Answered("batch") => BatchAgrees(case.input[1], case.input[2])

(* A file read in tasks, pruned by row-group statistics and cut by any      *)
(* budget, gives exactly the rows its filter keeps, texts apart that sort   *)
(* otherwise than the instants they denote (no pruned column holds a NaN,   *)
(* since bounds leave it out); the levels of a plan hold every *)
(* conjunct of the filter once; a side-car index skips no file with a       *)
(* match, a literal left of a comparison apart (row-group-pruning.ts,       *)
(* task.ts, task-scan.ts, sidecar-index.ts).                                *)
PruningSound ==
  /\ Answered("pruning") => /\ ScansAgree(case.input[1], case.input[2])
                            /\ LevelsCover(case.input[1], case.input[2])
  /\ Answered("index") => IF Len(case.input) = 2
                          THEN IndexKeeps(case.input[1], case.input[2])
                          ELSE H3Keeps(case.input[1], case.input[2], case.input[3], case.input[4])

(* The spatial predicates, by rows and by masks, give what the points of    *)
(* the two geometries say; bounding boxes skip no group with a match; a     *)
(* geometry is read back from WKB, and cut or padded WKB is refused         *)
(* (geo/src/index.ts, batch.ts).                                            *)
SpatialAgrees ==
  Answered("spatial") =>
    /\ SpatialAgree(case.input[1], case.input[2], case.input[3], case.input[4])
    /\ case.input[2].type \in {"Point", "LineString", "Polygon"} => ReadsBack(case.input[2])

(* However rows are divided into tasks, the merged groups are those of one  *)
(* pass and those of the definition of each aggregate; the row engine       *)
(* agrees, resumed from its serialised state too unless a NaN came before   *)
(* it (JSON keeps no NaN: a sum that is one is refused, and a NaN kept as   *)
(* a value comes back as NULL), and so do dictionary-encoded keys; the      *)
(* group limit stops exactly the pass beyond it; distinct values are        *)
(* counted once whatever form the partials have (vector-aggregate.ts,       *)
(* vector-group-by.ts, aggregate-task.ts, query.ts).                        *)
AggregatesMerge ==
  /\ Answered("groups") =>
       /\ MergesTo(case.input[1], case.input[2], case.input[3])
       /\ LimitStops(case.input[1], case.input[3])
       /\ EncodedAgrees(case.input[1])
       /\ RowEngineAgrees(case.input[1], case.input[3])
  /\ Answered("distinct") => DistinctCounts(case.input[1], case.input[2], case.input[3])

(* Merged runs, row and columnar top-k, late materialisation and the vector *)
(* sort give the rows of a plain sort, which are in order with NULL at its  *)
(* end, between OFFSET and LIMIT; but columnar top-k refuses exactly the    *)
(* queries that meet batches in which a column has different types, as one  *)
(* that is all NULL in one batch has.  Runs and candidates restored from a  *)
(* bookmark give these rows too if JSON keeps the rows' values: a timestamp *)
(* comes back as its text, a bigint as a number, and they then sort with or *)
(* are refused beside the cells read since (query.ts, vector-sort.ts).      *)
SortAgrees ==
  Answered("sorts") =>
    SortsAgree(case.input[1], case.input[2], case.input[3], case.input[4], case.input[5])

(* The broadcast and the lookup join give the same rows for every type of   *)
(* join, and so does the vector join unless the keys of a side are of       *)
(* several types, which no vector holds; the four types together count      *)
(* every pair whose keys join.ts takes for equal, two NULLs among them, and *)
(* every row left over; a right side beyond the limit is refused (join.ts,  *)
(* vector-join.ts).                                                         *)
JoinAgrees == Answered("joins") => JoinsAgree(case.input[1], case.input[2], case.input[3])

(* Row by row, in column batches or with late materialisation, a query      *)
(* gives the rows of its definition; aggregates read late are those of the  *)
(* rows; a policy shows exactly the rows and columns it allows (query.ts).  *)
QueryPathsAgree ==
  Answered("queries") =>
    /\ QueriesAgree(case.input[1], case.input[2], 2)
    /\ AggregatesAgree(case.input[1], case.input[2], 2)
    /\ \A policy \in Policies : PolicyFilters(case.input[1], case.input[2], policy, 2)

(* The batches of a window of rows are those rows in order, none twice and  *)
(* none left out, though the pages of each column are cut differently and   *)
(* only some have dictionary indices (vector-batches.ts, column-            *)
(* batches.ts).                                                             *)
PagesReadBack ==
  Answered("pages") =>
    PagesAgree(case.input[1], case.input[2], case.input[3], case.input[4], case.input[5], case.input[6])

(* CSV that a query streams under a header is read back cell by cell, with  *)
(* one type a column and the row limits kept: a number, a boolean or a text *)
(* comes back as one, the empty text as NULL. Apart are a column of several *)
(* types and a column whose texts all look like numbers or all like         *)
(* booleans ("007", "1e3", "TRUE"), which are taken for such; they come     *)
(* back as the texts that were written where no type is sniffed. A header   *)
(* is told by itself only above a cell that is not text. JSON rows are the  *)
(* same in every format that accepts them (csv/src/index.ts,                *)
(* json/src/index.ts, query.ts).                                            *)
TextReadsBack ==
  Answered("text") =>
    IF case.input[1] = "csv"
    THEN CsvReadsBack(case.input[2])
    ELSE JsonReadsBack(case.input[2], case.input[3])

(* A statement written as SQL text is parsed to the same query; an          *)
(* expression too, if its text needs no parentheses but those of AND, OR    *)
(* and NOT (sql/src/index.ts).                                              *)
SqlReadsBack ==
  Answered("sql") => IF case.input[1] = "expression" THEN ExpressionReadsBack(case.input[2])
                     ELSE StatementReadsBack(case.input[2])

(* What the command line runs for a statement gives the rows the statement  *)
(* means: joins on equality of SQL, IN over a subquery, WITH, scalar        *)
(* subqueries and groups.  Apart are tables with NULL keys on both sides of *)
(* ON, which join.ts joins where SQL does not, and IN over a subquery with  *)
(* NULL keys (cli/src/index.ts).                                            *)
CommandsMeanSql ==
  Answered("commands") => CommandMeans(case.input[1], case.input[2], case.input[3])

(* A scan of an Iceberg table gives the rows that the deletes its mode      *)
(* applies leave, however files lie in manifests and whatever pruning       *)
(* skipped; a strict one is refused exactly where a delete it cannot read   *)
(* may apply; an append hides no row.  Position deletes by absolute paths   *)
(* are left out (iceberg/src/index.ts, lakeql/src/engine.ts).               *)
TableScansExact ==
  Answered("iceberg") =>
    TableScans(case.input[1], case.input[2], case.input[3], case.input[4], case.input[5])
=============================================================================
