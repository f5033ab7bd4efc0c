----------------------------- MODULE MCFormats -----------------------------
(***************************************************************************)
(* Inputs for what is stored and read back: the pages of Parquet columns,  *)
(* side-car indexes, text, and the files and deletes of Iceberg tables.    *)
(***************************************************************************)
EXTENDS MCEvaluation, PageReader, SidecarIndex, IcebergScan

Formats == INSTANCE TextFormats

\* A column of three rows, cut into pages: some of them of dictionary indices, the
\* rest plain, as a writer does that gives its dictionary up; one page may be empty.
ColumnCells == {<<Number(0), Number(1), Number(0)>>, <<Null, Number(1), Number(1)>>,
                <<Number(1), Null, Null>>, <<Null, Null, Null>>}
PageCuts == {<<3>>, <<1, 2>>, <<2, 1>>, <<1, 0, 2>>, <<1, 1, 1>>}

PagesOf(cells, cut, indexed) ==
  LET first(i) == FoldLeft(LAMBDA n, x : n + x, 0, SubSeq(cut, 1, i - 1)) + 1
      part(i) == SubSeq(cells, first(i), first(i) + cut[i] - 1)
      present(i) == SelectSeq(part(i), LAMBDA v : v # Null)
      data(i) == DataPage([r \in 1..cut[i] |-> IF part(i)[r] = Null THEN 0 ELSE 1],
                          IF i <= indexed THEN [k \in DOMAIN present(i) |-> present(i)[k].key + 1]
                          ELSE present(i), i <= indexed)
  IN  <<DictionaryPage(<<Number(0), Number(1)>>)>> \o [i \in DOMAIN cut |-> data(i)]

\* The batches of a window are its rows in order, none twice and none left out.
PagesAgree(cells, pages, other, otherPages, from, to) ==
  LET batches == GroupBatches([a |-> pages, b |-> otherPages], 4, 3, from, to)
      start == IF from > 4 THEN from ELSE 4
      end == IF to < 7 THEN to ELSE 7
      size(i) == RowCount(batches[i].batch)
      rows(i) == [r \in 1..size(i) |-> MaterializeRow(batches[i].batch, r)]
  IN  /\ FlattenSeq([i \in DOMAIN batches |-> rows(i)])
           = [r \in 1..(IF start < end THEN end - start ELSE 0) |->
                [a |-> cells[start - 4 + r], b |-> other[start - 4 + r]]]
      /\ \A i \in DOMAIN batches :
           batches[i].offset = start + FoldLeft(LAMBDA n, k : n + size(k), 0, [k \in 1..(i - 1) |-> k])
      /\ start < end =>
           FlattenSeq([i \in DOMAIN NestedWindows(start, end, 2) |->
             LET w == NestedWindows(start, end, 2)[i] IN [r \in 1..(w.end - w.start) |-> w.start + r]])
           = [r \in 1..(end - start) |-> start + r]

\* A literal on the left of an order comparison is read the wrong way round.
RECURSIVE TurnedAround(_)
TurnedAround(e) ==
  CASE e.kind = "compare" -> e.left.kind = "literal" /\ e.op \notin {"eq", "ne"}
    [] e.kind = "logical" -> \E i \in DOMAIN e.operands : TurnedAround(e.operands[i])
    [] OTHER -> FALSE

\* A file is skipped only if none of its rows matches.
IndexKeeps(rows, e) ==
  LET file == [columns |-> BuildMinMaxIndex(rows, {"a", "b"})]
  IN  (\E i \in DOMAIN rows : Matches(e, rows[i])) =>
        TurnedAround(e) \/ PruneFilesWithIndex({file}, e).planned = {file}

\* The H3 cells of a file: neither its set nor a row group's bounds lose a row, and
\* the tests of rows are what they are of a list.
Cell(n) == Text(n, NoInstant)
H3Keeps(keys, wanted, origin, k) ==
  LET cells == {Cell(n) : n \in keys}
      wants == {Cell(n) : n \in wanted}
      min == CHOOSE c \in cells : \A d \in cells : c.key <= d.key
      max == CHOOSE c \in cells : \A d \in cells : c.key >= d.key
  IN  /\ (\E c \in cells : H3In(c, wants) = True) =>
           H3InMayMatch(cells, wants) /\ GroupH3InMayMatch(min, max, wants)
      /\ (\E c \in cells : H3Within(c, Cell(origin), k) = True) =>
           H3WithinMayMatch(cells, Cell(origin), k) /\ GroupH3WithinMayMatch(min, max, Cell(origin), k)

\* Texts that CSV must quote and others that it need not, texts that read as a number
\* or a boolean, and cells of these types.
PlainTexts ==
  {<<>>, <<"letter">>, <<"quote">>, <<"comma", "letter">>, <<"lf">>, <<"letter", "quote">>,
   <<"quote", "quote">>, <<"cr", "lf">>, <<"semicolon", "1">>, <<"dot">>, <<"1", "e">>, <<"true", "1">>}
NumberTexts == {<<"1">>, <<"0", "0", "7">>, <<"1", "e", "3">>, <<"plus", "1", "dot">>, <<"dot", "5", "0">>}
BooleanTexts == {<<"TRUE">>, <<"false">>}
FewCells ==
  {Formats!NullCell, Formats!TextCell(<<"quote">>), Formats!TextCell(<<"1">>),
   Formats!TextCell(<<"TRUE">>), Formats!NumberCell(1, 3), Formats!BooleanCell("true")}
TextCells ==
  FewCells \cup {Formats!TextCell(t) : t \in PlainTexts \cup NumberTexts \cup BooleanTexts} \cup
  {Formats!NumberCell(0, 0), Formats!NumberCell(-12, -1), Formats!NumberCell(5, -3),
   Formats!BooleanCell("false")}
HeaderNames == <<<<"letter">>, <<"letter", "e">>>>
Header2 == [c \in 1..2 |-> Formats!TextCell(HeaderNames[c])]

\* The batches of a table of rows are its rows.
TableReadsBack(rows, batchSize) ==
  FlattenSeq(Formats!ScanTable(rows, {"a", "b"}, batchSize)) = rows

\* What CSV does not tell apart: the types of a column that has several, and texts
\* that all look like numbers, or all like booleans.
Present(column) == {column[i] : i \in DOMAIN column} \ {Formats!NullCell, Formats!TextCell(<<>>)}
Mistaken(column) ==
  \/ Cardinality({cell.kind : cell \in Present(column)}) > 1
  \/ /\ Present(column) # {} /\ \A cell \in Present(column) : cell.kind = "string"
     /\ {cell.text : cell \in Present(column)} \in SUBSET NumberTexts \cup SUBSET BooleanTexts

\* But for those, the cells of a column come back as they were, the empty text as
\* NULL; a column comes back in one type, and as it was written where none is sniffed.
ReadAs(cell) == IF cell = Formats!TextCell(<<>>) THEN Formats!NullCell ELSE cell
ColumnReadsBack(written, read, unsniffed) ==
  /\ Mistaken(written) \/ read = [i \in DOMAIN written |-> ReadAs(written[i])]
  /\ \A x, y \in ToSet(read) \ {Formats!NullCell} : x.kind = y.kind
  /\ unsniffed = [i \in DOMAIN written |->
       IF ReadAs(written[i]) = Formats!NullCell THEN Formats!NullCell
       ELSE Formats!TextCell(Formats!CellText(written[i]))]

TwoTablesOf(rows) == <<[rows |-> rows, size |-> 1], [rows |-> rows, size |-> 1]>>
CsvRowsRead(read, unsniffed, records) ==
  /\ Len(read) = Len(records) /\ Len(unsniffed) = Len(records)
  /\ \A c \in 1..2 : LET column(rows) == [i \in DOMAIN rows |-> rows[i][c]]
                     IN  ColumnReadsBack(column(records), column(read), column(unsniffed))
  /\ TableReadsBack([i \in DOMAIN read |-> [a |-> read[i][1], b |-> read[i][2]]], 1)
  /\ Formats!IsRefused(Formats!IngestTables(TwoTablesOf(read), 3, 2)) <=> 2 * Len(read) > 3

\* A header is told by itself only above a cell that is not text.
HeaderFound(auto, read, texts) ==
  IF \E i \in DOMAIN texts : \E c \in 1..2 : Formats!SniffScalarKind(texts[i][c]) # "string"
  THEN auto = read
  ELSE Formats!IsRefused(auto) <=> Len(texts) = 2

CsvTextRead(text, records, texts) ==
  LET read(header, sniffing, maxRows) == Formats!ParseCsvText(text, "comma", header, sniffing, maxRows)
  IN  /\ Formats!DetectDelimiter(text) = "comma"
      /\ Formats!ParseCsvRecords(text, "comma").rows = <<HeaderNames>> \o texts
      /\ CsvRowsRead(read("yes", TRUE, 2).rows, read("yes", FALSE, 2).rows, records)
      /\ HeaderFound(read("auto", TRUE, 2), read("yes", TRUE, 2), texts)
      /\ records # <<>> => Formats!IsRefused(read("yes", TRUE, Len(records) - 1))

CsvReadsBack(records) ==
  CsvTextRead(Formats!StreamCsv(<<Header2>> \o records), records,
              [i \in DOMAIN records |-> [c \in 1..2 |-> Formats!CellText(records[i][c])]])

\* JSON rows read back from lines, from an array, and from an object over two lines;
\* no format returns more rows than it may, nor rows another format reads otherwise.
JsonLines ==
  {Formats!Blank, Formats!JsonLine("object", <<1>>), Formats!JsonLine("array", <<1, 2>>),
   Formats!JsonLine("scalar", <<>>), Formats!JsonLine("open", <<3>>), Formats!JsonLine("close", <<>>)}
JsonAgrees(auto, json, ndjson, maxRows) ==
  LET good(read) == ~Formats!IsRefused(read)
  IN  /\ \A read \in {auto, json, ndjson} : Len(read.rows) <= maxRows
      /\ good(auto) <=> good(json) \/ good(ndjson)
      /\ good(json) => auto = json
      /\ good(ndjson) => auto = ndjson
JsonReadsBack(lines, maxRows) ==
  JsonAgrees(Formats!ParseTextRows(lines, "auto", maxRows), Formats!ParseTextRows(lines, "json", maxRows),
             Formats!ParseTextRows(lines, "ndjson", maxRows), maxRows)

\* A table of two files of different partitions, its first column renamed since, and
\* delete files of every kind that a writer adds after them.
Path(name, absolute) ==
  [authority |-> IF absolute THEN "s3" ELSE "", inside |-> TRUE, dotted |-> FALSE, name |-> name]
InRegion(k) == Text(k, NoInstant)
OldFields == <<[id |-> 1, name |-> "v", sourceId |-> 0], [id |-> 2, name |-> "region", sourceId |-> 0]>>
NewFields == <<[id |-> 3, name |-> "w", sourceId |-> 1], [id |-> 2, name |-> "region", sourceId |-> 0]>>

DataRows == [n \in 1..3 |-> CASE n = 1 -> <<[v |-> Number(1)], [v |-> BigInt(2)], [v |-> Null]>>
                              [] n = 2 -> <<[v |-> Number(1)], [v |-> Number(2)]>>
                              [] n = 3 -> <<[w |-> Number(1), region |-> InRegion(1)]>>]
Partition(k) == IF k = 0 THEN << >> ELSE [region |-> InRegion(k)]

Entry(status, content, vector, name, absolute, seq, k) ==
  [status |-> status, content |-> content, vector |-> vector, path |-> Path(name, absolute),
   seq |-> seq, partition |-> Partition(k)]

\* A delete file: its content, its partition (0: of every one), and what it names.
DeleteKinds == {"position", "equality", "null", "vector", "removed"}
DeleteEntry(d, name, absolute) ==
  Entry(IF d.kind = "removed" THEN 2 ELSE 1, IF d.kind \in {"equality", "null"} THEN 2 ELSE 1,
        d.kind = "vector", name, absolute, 3, d.partition)
DeleteContents(d, absolute) ==
  CASE d.kind \in {"position", "removed"} ->
         <<[kind |-> "position", path |-> Path(1, absolute), position |-> 2],
           [kind |-> "position", path |-> Path(2, absolute), position |-> 0]>>
    [] d.kind = "equality" -> <<[kind |-> "equality", columns |-> {"w"}, row |-> [w |-> Number(2)]]>>
    [] d.kind = "null" -> <<[kind |-> "equality", columns |-> {"w"}, row |-> [w |-> Null]]>>
    [] d.kind = "vector" -> <<>>

DeletePairs ==
  LET all == {[kind |-> kind, partition |-> k] : kind \in DeleteKinds, k \in 0..2}
  IN  {<<>>} \cup {<<d>> : d \in all} \cup {<<d, e>> : d \in {x \in all : x.partition = 1}, e \in {x \in all : x.partition # 1}}
Layouts == {"together", "apart", "deletes first"}
TableWheres ==
  {Lit(True), Cmp("eq", Col("region"), Lit(InRegion(1))), Cmp("gt", Col("region"), Lit(Number(0))),
   Not(Cmp("eq", Col("region"), Lit(InRegion(1)))),
   Logical("or", <<Cmp("eq", Col("region"), Lit(InRegion(2))), Cmp("eq", Col("w"), Lit(Number(1)))>>)}

TableOf(deletes, layout, absolute) ==
  LET file(n) == Entry(1, 0, FALSE, n, absolute, n, n)
      removed == [file(2) EXCEPT !.status = 2]
      del == AvroManifest([i \in DOMAIN deletes |-> DeleteEntry(deletes[i], 3 + i, absolute)])
  IN  [location |-> [authority |-> "s3", prefix |-> TRUE],
       schemas |-> <<OldFields, NewFields>>, current |-> 1, refs |-> [main |-> 2],
       snapshots |-> <<[id |-> 1, timestamp |-> 1, schema |-> 2, manifests |->
           CASE layout = "together" -> <<AvroManifest(<<file(1), file(2)>>), del>>
             [] layout = "apart" -> <<AvroManifest(<<file(2)>>), AvroManifest(<<file(1), removed>>), del>>
             [] layout = "deletes first" -> <<del, AvroManifest(<<file(1)>>), AvroManifest(<<file(2)>>)>>]>>]
ObjectsOf(deletes, absolute) ==
  [p \in {Path(n, FALSE) : n \in 1..(3 + Len(deletes))} |->
     IF p.name <= 3 THEN DataRows[p.name] ELSE DeleteContents(deletes[p.name - 3], absolute)]

\* The rows of file n that the deletes leave, by Iceberg's rules.
LiveRows(n, deletes) ==
  LET row(i) == [w |-> DataRows[n][i].v, region |-> InRegion(n)]
      deleted(i) ==
        \E k \in DOMAIN deletes : deletes[k].partition \in {0, n} /\
          CASE deletes[k].kind = "position" -> <<n, i>> \in {<<1, 3>>, <<2, 1>>}
            [] deletes[k].kind = "equality" -> row(i).w.key = 2
            [] deletes[k].kind = "null" -> row(i).w = Null
            [] OTHER -> FALSE
      live == SetToSortSeq({i \in DOMAIN DataRows[n] : ~deleted(i)}, <)
  IN  [k \in DOMAIN live |-> row(live[k])]

\* A strict scan is the live rows or a refusal, and is refused only where a delete it
\* cannot apply may apply; an append hides no row and is not touched by older deletes.
\* Absolute paths are left out where a delete names positions.
ScanOf(table, objects, where, mode) == ScanRows(table, objects, [kind |-> "current"], where, mode, {}, 2)
KeptBy(where, rows) == SelectSeq(rows, LAMBDA row : Matches(where, row))

\* Where a deletion vector may apply to a file that the filter leaves.
Unreadable(deletes, where) ==
  \E k \in DOMAIN deletes : deletes[k].kind = "vector" /\
    \E n \in 1..2 : PartitionMayMatch(where, Partition(n)) /\ deletes[k].partition \in {0, n}

\* The table after an append of a third file.
Appended(table) ==
  [table EXCEPT !.snapshots = <<[table.snapshots[1] EXCEPT !.manifests =
     AppendedManifests(Hydrate(@, table.location).manifests,
       <<[path |-> Path(3, FALSE), seq |-> 3, partition |-> Partition(1), deletes |-> <<>>]>>)]>>]

ScanIs(result, where, expected) == ~IsRefused(result) /\ KeptBy(where, result.rows) = expected

ScansOf(table, objects, where, mode, expected, refused) ==
  IF refused THEN IsRefused(ScanOf(table, objects, where, mode))
  ELSE /\ ScanIs(ScanOf(table, objects, where, mode), where, expected)
       /\ ScanIs(ScanOf(Appended(table), objects, where, mode), where,
                 expected \o KeptBy(where, DataRows[3]))

TableScans(deletes, layout, absolute, where, mode) ==
  LET applied == SelectSeq(deletes, LAMBDA d : mode # "ignore-deletes" /\ d.kind # "removed")
      unnormalised == absolute /\ \E k \in DOMAIN deletes : deletes[k].kind = "position"
  IN  ~unnormalised =>
        ScansOf(TableOf(deletes, layout, absolute), ObjectsOf(deletes, absolute), where, mode,
                KeptBy(where, LiveRows(1, applied) \o LiveRows(2, applied)),
                mode = "strict" /\ Unreadable(applied, where))
=============================================================================
