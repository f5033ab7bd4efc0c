----------------------------- MODULE PageReader -----------------------------
(***************************************************************************)
(* Parquet pages made into vectors (parquet/src/vector-batches.ts): which  *)
(* columns can be read this way, the window of pages a row range needs,    *)
(* the vector of a page, and the alignment of columns whose pages end at   *)
(* different rows.                                                         *)
(*                                                                         *)
(* A column chunk is a sequence of pages.  A page has the definition level *)
(* of every row (0 where the value is NULL), the values that are present,  *)
(* as they are or as indices into the dictionary, and its bytes: header    *)
(* and body.  Decompression and the encodings of values are external.      *)
(***************************************************************************)
EXTENDS BatchEvaluator, SequencesExt

DictionaryPage(values) == [kind |-> "dictionary", values |-> values, header |-> 1, body |-> 1]
DataPage(levels, values, indexed) ==
  [kind |-> "data", levels |-> levels, values |-> values, indexed |-> indexed,
   header |-> 1, body |-> Len(values)]

\* canRepresentDirectVectorLeaf: the annotation decides before the physical type.
LeafIsDirect(leaf) ==
  \/ leaf.annotation \in {"TIMESTAMP", "UTF8", "JSON", "STRING"}
  \/ /\ leaf.annotation \notin {"UINT_64", "DATE", "BSON", "INTERVAL", "UUID"}
     /\ \/ leaf.type \in {"BOOLEAN", "DOUBLE", "FLOAT", "INT32", "INT64"}
        \/ leaf.type = "BYTE_ARRAY" /\ leaf.annotation \in {"none", "GEOMETRY", "GEOGRAPHY"}

\* canDirectVector, canRepresentNestedVectorColumn, canReadVectorColumn.
ColumnIsDirect(column) ==
  /\ ~(column.dictionaryEncoded /\ ~column.hasDictionaryPage)
  /\ column.flat /\ LeafIsDirect(column.leaf)
ColumnIsNested(column) == ~column.flat /\ column.leaf.annotation \in {"LIST", "MAP"}
CanReadVectors(columns) ==
  columns # <<>> /\ \A i \in DOMAIN columns : ColumnIsDirect(columns[i]) \/ ColumnIsNested(columns[i])

\* dataPageRowCount; a page of the column that holds no rows is passed over.
PageRows(page) == IF page.kind = "data" THEN Len(page.levels) ELSE 0

\* compactPresentValues, copyNullableValues: the value of a row is counted among
\* the rows before it that have one.
PresentBefore(levels, row) == Cardinality({r \in 1..row : levels[r] # 0})
PageCells(page) ==
  [row \in DOMAIN page.levels |->
     IF page.levels[row] = 0 THEN Null ELSE page.values[PresentBefore(page.levels, row)]]

\* flatPageVector: a page of indices shares the chunk's dictionary; a page whose
\* rows are all NULL has no type to go by.
PageVector(page, dictionary) ==
  LET cells == PageCells(page)
      valid == [row \in DOMAIN cells |-> page.levels[row] # 0]
      index(row) == IF valid[row] THEN cells[row] ELSE 1
      units == [row \in DOMAIN cells |-> 1]
  IN  IF page.indexed
      THEN DictionaryVector(VectorFromValues(dictionary, [i \in DOMAIN dictionary |-> 1]),
                            [row \in DOMAIN cells |-> index(row)], valid)
      ELSE VectorFromValues(cells, units)

SliceVector(v, start, end) ==
  IF v.type = "dict"
  THEN [v EXCEPT !.indices = SubSeq(@, start + 1, end), !.valid = SubSeq(@, start + 1, end)]
  ELSE [v EXCEPT !.values = SubSeq(@, start + 1, end), !.valid = SubSeq(@, start + 1, end)]

\* Plausible bug: a page that is passed over does not move the rows on.
FaultPageStep(s, page, from, to) ==
  LET end == s.row + PageRows(page)
      start == IF s.row > from THEN s.row ELSE from
      stop == IF end < to THEN end ELSE to
  IN  IF s.row >= to THEN s
      ELSE IF page.kind = "dictionary" THEN [s EXCEPT !.dictionary = page.values]
      ELSE IF end <= from \/ start >= stop THEN s
      ELSE [s EXCEPT !.row = end,
                     !.out = Append(@, [offset |-> start, vector |->
                       SliceVector(PageVector(page, s.dictionary), start - s.row, stop - s.row)])]

\* A page of readColumnVectorBatches and readColumnWindowVectorBatches: the rows from
\* s.row on, cut to those asked for.
PageStep(s, page, from, to) ==
  LET end == s.row + PageRows(page)
      start == IF s.row > from THEN s.row ELSE from
      stop == IF end < to THEN end ELSE to
  IN  IF s.row >= to THEN s
      ELSE IF page.kind = "dictionary" THEN [s EXCEPT !.dictionary = page.values]
      ELSE IF end <= from \/ start >= stop THEN [s EXCEPT !.row = end]
      ELSE [s EXCEPT !.row = end,
                     !.out = Append(@, [offset |-> start, vector |->
                       SliceVector(PageVector(page, s.dictionary), start - s.row, stop - s.row)])]

ColumnVectors(pages, groupStart, from, to) ==
  FoldLeft(LAMBDA s, page : PageStep(s, page, from, to),
           [row |-> groupStart, dictionary |-> <<>>, out |-> <<>>], pages).out

\* readPageHeader: a read of growing size until the header fits.
FirstHeaderRead == 256
HeaderGrowth == 4
RECURSIVE HeaderIsRead(_, _, _)
HeaderIsRead(needed, available, size) ==
  LET end == IF size < available THEN size ELSE available
  IN  /\ size <= available \/ size = FirstHeaderRead
      /\ \/ needed <= end
         \/ end < available /\ HeaderIsRead(needed, available, size * HeaderGrowth)

\* readPageWindow: a page whose body would pass the end of the chunk is not read.
PageWindow(chunkEnd, offset, page) ==
  [start |-> offset + page.header, end |-> offset + page.header + page.body,
   inside |-> offset < chunkEnd /\ offset + page.header + page.body <= chunkEnd]

\* readNestedColumnVectorBatches: windows of the batch size.
NestedWindows(from, to, size) ==
  [i \in 1..((to - from + size - 1) \div size) |->
     [start |-> from + (i - 1) * size, end |-> IF from + i * size < to THEN from + i * size ELSE to]]

\* readAlignedColumnVectorBatches: sources[c] is what is left of column c.  The rows
\* the heads share make a batch, and the heads that end with it move on.
RECURSIVE Aligned(_)
Aligned(sources) ==
  LET head(c) == Head(sources[c])
      endOf(c) == head(c).offset + VectorLength(head(c).vector)
      offset == CHOOSE o \in {head(c).offset : c \in DOMAIN sources} :
                  \A c \in DOMAIN sources : head(c).offset <= o
      end == CHOOSE e \in {endOf(c) : c \in DOMAIN sources} : \A c \in DOMAIN sources : e <= endOf(c)
      rest == Aligned([c \in DOMAIN sources |->
                         IF endOf(c) <= end THEN Tail(sources[c]) ELSE sources[c]])
      batch == [c \in DOMAIN sources |->
                  SliceVector(head(c).vector, offset - head(c).offset, end - head(c).offset)]
  IN  IF \E c \in DOMAIN sources : sources[c] = <<>> THEN <<>>
      ELSE IF offset < end THEN <<[offset |-> offset, batch |-> batch]>> \o rest
      ELSE rest

\* readParquetVectorBatchesFromFile, for one row group whose statistics let it pass.
GroupBatches(chunks, groupStart, groupRows, from, to) ==
  LET start == IF from > groupStart THEN from ELSE groupStart
      end == IF to < groupStart + groupRows THEN to ELSE groupStart + groupRows
  IN  IF groupStart + groupRows <= from \/ groupStart >= to THEN <<>>
      ELSE Aligned([c \in DOMAIN chunks |-> ColumnVectors(chunks[c], groupStart, start, end)])
=============================================================================
