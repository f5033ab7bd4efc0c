---------------------------- MODULE TextFormats ----------------------------
(***************************************************************************)
(* Rows in text: the CSV a query writes (core/src/query.ts), the CSV and   *)
(* JSON readers (csv/src/index.ts, json/src/index.ts), and the tables of   *)
(* rows they fill (core/src/in-memory.ts).                                 *)
(*                                                                         *)
(* A text is a sequence of characters: the quote, the delimiters, the line *)
(* ends, digits, letters and signs; "true", "TRUE" and "false" stand for   *)
(* the words.  A number is <<m, p>>, which is m times ten to the p, where  *)
(* ten does not divide m.  A JSON document is a sequence of lines, each    *)
(* with what it parses to.                                                 *)
(***************************************************************************)
EXTENDS Integers, Sequences, FiniteSets, SequencesExt

\* What a reader returns, or the error it throws.
Read(rows) == [rows |-> rows, refused |-> ""]
Refused(reason) == [rows |-> <<>>, refused |-> reason]
IsRefused(result) == result.refused # ""

\* A cell is NULL, a number, a boolean or a text.
Cell(kind, text, number) == [kind |-> kind, text |-> text, number |-> number]
NullCell == Cell("null", <<>>, <<0, 0>>)
TextCell(text) == Cell("string", text, <<0, 0>>)
NumberCell(m, p) == Cell("number", <<>>, <<m, p>>)
BooleanCell(word) == Cell("boolean", <<word>>, <<0, 0>>)

\* String(number), of numbers that it writes without an exponent.
DigitChars == <<"0", "1", "2", "3", "4", "5", "6", "7", "8", "9">>
Digits(n) ==
  LET width == CHOOSE w \in 1..9 : n < 10^w /\ (w = 1 \/ n >= 10^(w - 1))
  IN  [i \in 1..width |-> DigitChars[((n \div 10^(width - i)) % 10) + 1]]
Zeros(n) == [i \in 1..n |-> "0"]
NumberText(m, p) ==
  LET digits == Digits(IF m < 0 THEN -m ELSE m)
      all == Zeros(-p + 1 - Len(digits)) \o digits   \* one digit before the point
  IN  (IF m < 0 THEN <<"minus">> ELSE <<>>) \o
      IF p >= 0 THEN digits \o Zeros(p)
      ELSE SubSeq(all, 1, Len(all) + p) \o <<"dot">> \o SubSeq(all, Len(all) + p + 1, Len(all))
CellText(cell) == IF cell.kind = "number" THEN NumberText(cell.number[1], cell.number[2]) ELSE cell.text

\* csvCell: NULL is the empty text.
Quoted(text) ==
  IF ToSet(text) \cap {"quote", "comma", "lf", "cr"} = {} THEN text
  ELSE <<"quote">> \o FlattenSeq([i \in DOMAIN text |->
         IF text[i] = "quote" THEN <<"quote", "quote">> ELSE <<text[i]>>]) \o <<"quote">>
CsvCell(cell) == Quoted(CellText(cell))
\* csvHeader, csvRow.
CsvRow(cells) ==
  FlattenSeq([i \in DOMAIN cells |->
    CsvCell(cells[i]) \o <<IF i = Len(cells) THEN "lf" ELSE "comma">>])
StreamCsv(records) == FlattenSeq([i \in DOMAIN records |-> CsvRow(records[i])])

\* Plausible bug: a doubled quote ends the quoted part.
FaultCsvStep(s, char, next, delimiter) ==
  LET field == [s EXCEPT !.record = Append(@, s.field), !.field = <<>>, !.started = FALSE]
  IN  CASE s.skip -> [s EXCEPT !.skip = FALSE]
        [] s.quoted /\ char = "quote" -> [s EXCEPT !.quoted = FALSE]
        [] s.quoted /\ char # "quote" -> [s EXCEPT !.field = Append(@, char)]
        [] ~s.quoted /\ ~s.started /\ char = "quote" -> [s EXCEPT !.quoted = TRUE, !.started = TRUE]
        [] ~s.quoted /\ char = delimiter -> field
        [] ~s.quoted /\ char \in {"lf", "cr"} ->
             [field EXCEPT !.records = Append(@, field.record), !.record = <<>>]
        [] OTHER -> [s EXCEPT !.field = Append(@, char), !.started = TRUE]

\* A character of parseCsvRecords, and the one after it.
CsvStep(s, char, next, delimiter) ==
  LET field == [s EXCEPT !.record = Append(@, s.field), !.field = <<>>, !.started = FALSE]
  IN  CASE s.skip -> [s EXCEPT !.skip = FALSE]
        [] s.quoted /\ char = "quote" ->
             IF next = "quote" THEN [s EXCEPT !.field = Append(@, char), !.skip = TRUE]
             ELSE [s EXCEPT !.quoted = FALSE]
        [] s.quoted /\ char # "quote" -> [s EXCEPT !.field = Append(@, char)]
        [] ~s.quoted /\ ~s.started /\ char = "quote" -> [s EXCEPT !.quoted = TRUE, !.started = TRUE]
        [] ~s.quoted /\ char = delimiter -> field
        [] ~s.quoted /\ char \in {"lf", "cr"} ->
             [field EXCEPT !.records = Append(@, field.record), !.record = <<>>,
                           !.skip = char = "cr" /\ next = "lf"]
        [] OTHER -> [s EXCEPT !.field = Append(@, char), !.started = TRUE]

CsvEnd(end) ==
  IF end.quoted THEN Refused("not terminated")
  ELSE IF end.field # <<>> \/ end.started \/ end.record # <<>>
  THEN Read(Append(end.records, Append(end.record, end.field)))
  ELSE Read(end.records)

ParseCsvRecords(text, delimiter) ==
  CsvEnd(FoldLeft(LAMBDA s, i : CsvStep(s, text[i], IF i = Len(text) THEN "" ELSE text[i + 1], delimiter),
                  [records |-> <<>>, record |-> <<>>, field |-> <<>>,
                   quoted |-> FALSE, started |-> FALSE, skip |-> FALSE],
                  [i \in 1..Len(text) |-> i]))

\* detectDelimiter: the candidate met most often in the first line that has anything.
DelimitersOutsideQuotes(line, delimiter) ==
  Cardinality({i \in DOMAIN line : /\ line[i] = delimiter
                                   /\ Cardinality({j \in 1..i : line[j] = "quote"}) % 2 = 0})
DetectDelimiter(text) ==
  LET from == {i \in DOMAIN text : text[i] \notin {"lf", "cr"}}
      start == CHOOSE i \in from : \A j \in from : i <= j
      rest == IF from = {} THEN <<>> ELSE SubSeq(text, start, Len(text))
      ends == {i \in DOMAIN rest : rest[i] = "lf"}
      line == IF ends = {} THEN rest
              ELSE SubSeq(rest, 1, CHOOSE i \in ends : \A j \in ends : i <= j)
      found(d) == DelimitersOutsideQuotes(line, d)
  IN  IF found("semicolon") > found("comma") THEN "semicolon" ELSE "comma"

---------------------------------------------------------------------------
(* A sign, digits with at most one point among or around them, and an exponent; no
   number is so large here that it is infinite. *)

Unsigned(text) == IF text # <<>> /\ Head(text) \in {"plus", "minus"} THEN Tail(text) ELSE text
\* What is before the first of a character, and after it.
Around(text, char) ==
  LET at == {i \in DOMAIN text : text[i] = char}
      first == CHOOSE i \in at : \A j \in at : i <= j
  IN  IF at = {} THEN <<text, <<>>>>
      ELSE <<SubSeq(text, 1, first - 1), SubSeq(text, first + 1, Len(text))>>
Mantissa(text) == Around(Around(Unsigned(text), "e")[1], "dot")
Exponent(text) == Around(Unsigned(text), "e")[2]

AllDigits(text) == ToSet(text) \subseteq ToSet(DigitChars)
IsNumberText(text) ==
  LET digits == Mantissa(text)[1] \o Mantissa(text)[2]
  IN  /\ digits # <<>> /\ AllDigits(digits)
      /\ Contains(text, "e") => /\ Unsigned(Exponent(text)) # <<>>
                                /\ AllDigits(Unsigned(Exponent(text)))

SniffScalarKind(text) ==
  IF text \in {<<"true">>, <<"TRUE">>, <<"false">>} THEN "boolean"
  ELSE IF IsNumberText(text) THEN "number" ELSE "string"

\* Number(text), of a text that is a number.
DigitsValue(digits) ==
  FoldLeft(LAMBDA n, char : 10 * n + (CHOOSE d \in 0..9 : DigitChars[d + 1] = char), 0, digits)
Signed(text, n) == IF text # <<>> /\ Head(text) = "minus" THEN -n ELSE n
ParsedNumber(text) ==
  LET digits == Mantissa(text)[1] \o Mantissa(text)[2]
      n == DigitsValue(digits)
      tens == CHOOSE k \in 0..Len(digits) :
                n % 10^k = 0 /\ \A j \in 0..Len(digits) : n % 10^j = 0 => j <= k
      power == Signed(Exponent(text), DigitsValue(Unsigned(Exponent(text)))) - Len(Mantissa(text)[2])
  IN  IF n = 0 THEN NumberCell(0, 0) ELSE NumberCell(Signed(text, n \div 10^tens), power + tens)

\* parseNull, parseNumber, parseBoolean, parseString: by default the empty text is NULL.
Converted(kind, text) ==
  CASE text = <<>> -> NullCell
    [] text # <<>> /\ kind = "number" -> ParsedNumber(text)
    [] text # <<>> /\ kind = "boolean" -> BooleanCell(IF text = <<"false">> THEN "false" ELSE "true")
    [] OTHER -> TextCell(text)

\* inferConverters: a column is of a kind when every cell that is not empty is.
ColumnKind(records, column, sniffing) ==
  LET kinds == {SniffScalarKind(records[i][column]) :
                  i \in {k \in DOMAIN records : records[k][column] # <<>>}}
  IN  IF sniffing /\ Cardinality(kinds) = 1 THEN CHOOSE kind \in kinds : TRUE ELSE "string"

\* shouldUseHeader: names, and something below them that is not text.
Letters == {"letter", "e", "true", "TRUE", "false"}
IsName(text) ==
  text # <<>> /\ Head(text) \in Letters /\ ToSet(text) \subseteq Letters \cup ToSet(DigitChars)
ShouldUseHeader(records) ==
  /\ Len(records) >= 2
  /\ LET first == Head(records)
     IN  /\ \A i \in DOMAIN first : IsName(first[i])
         /\ Cardinality(ToSet(first)) = Len(first)
  /\ \E i \in 2..Len(records) : \E c \in DOMAIN records[i] :
       SniffScalarKind(records[i][c]) # "string"

\* normalizeHeader, generatedColumns.
HeaderRefused(header) == {} # {i \in DOMAIN header :
                                 header[i] = <<>> \/ \E j \in 1..(i - 1) : header[j] = header[i]}

CsvCells(data, width, sniffing) ==
  [i \in DOMAIN data |-> [c \in 1..width |-> Converted(ColumnKind(data, c, sniffing), data[i][c])]]

CsvData(data, width, sniffing, maxRows) ==
  IF \E i \in DOMAIN data : Len(data[i]) # width THEN Refused("width")
  ELSE IF Len(data) > maxRows THEN Refused("rows")
  ELSE Read(CsvCells(data, width, sniffing))

CsvRecords(parsed, named, sniffing, maxRows) ==
  IF parsed.rows = <<>> THEN parsed
  ELSE IF named /\ HeaderRefused(Head(parsed.rows)) THEN Refused("header")
  ELSE CsvData(IF named THEN Tail(parsed.rows) ELSE parsed.rows, Len(Head(parsed.rows)), sniffing, maxRows)

\* parseCsvText.
CsvParsed(parsed, header, sniffing, maxRows) ==
  CsvRecords(parsed, IF header = "auto" THEN ShouldUseHeader(parsed.rows) ELSE header = "yes",
             sniffing, maxRows)

ParseCsvText(text, delimiter, header, sniffing, maxRows) ==
  CsvParsed(ParseCsvRecords(text, delimiter), header, sniffing, maxRows)

\* A line of JSON: what it is on its own, and its rows.
JsonLine(kind, rows) == [kind |-> kind, rows |-> rows]
Blank == JsonLine("blank", <<>>)
NonBlank(lines) == SelectSeq(lines, LAMBDA line : line.kind # "blank")

\* normalizeRows: objects are rows, and nothing else is.
NormalizeRows(line, maxRows) ==
  IF line.kind = "scalar" THEN Refused("validation")
  ELSE IF Len(line.rows) > maxRows THEN Refused("rows") ELSE Read(line.rows)

\* parseJsonRows: the whole text is one value, on a line or over an opening and a
\* closing one.
ParseJsonRows(lines, maxRows) ==
  LET text == NonBlank(lines)
  IN  CASE Len(text) = 1 /\ text[1].kind \in {"object", "array", "scalar"} ->
             NormalizeRows(text[1], maxRows)
        [] Len(text) = 2 /\ text[1].kind = "open" /\ text[2].kind = "close" ->
             NormalizeRows(text[1], maxRows)
        [] OTHER -> Refused("parse")

\* parseNdjsonRows: the first line that is refused ends the reading.
NdjsonStep(read, line, maxRows) ==
  CASE IsRefused(read) -> read
    [] line.kind \in {"array", "scalar"} -> Refused("validation")
    [] line.kind \in {"open", "close"} -> Refused("parse")
    [] OTHER -> IF Len(read.rows) + 1 > maxRows THEN Refused("rows") ELSE Read(read.rows \o line.rows)
ParseNdjsonRows(lines, maxRows) ==
  FoldLeft(LAMBDA read, line : NdjsonStep(read, line, maxRows), Read(<<>>), NonBlank(lines))

\* parseTextRows: what begins like JSON is tried as one value, and read by lines
\* only if it does not parse.
ParseTextRows(lines, format, maxRows) ==
  LET text == NonBlank(lines)
      whole == ParseJsonRows(lines, maxRows)
      byLine == ParseNdjsonRows(lines, maxRows)
  IN  CASE text = <<>> -> Read(<<>>)
        [] text # <<>> /\ format = "ndjson" -> byLine
        [] text # <<>> /\ format = "json" -> whole
        [] OTHER -> IF Head(text).kind \in {"object", "array", "open"} /\ whole # Refused("parse")
                    THEN whole ELSE byLine

\* normalizeInMemoryTables: the budgets are of all tables together, checked after each.
IngestTables(tables, maxRows, maxBytes) ==
  LET sum(k, field) == FoldLeft(LAMBDA n, t : n + field[t], 0, SubSeq([i \in DOMAIN tables |-> i], 1, k))
      rows == [i \in DOMAIN tables |-> Len(tables[i].rows)]
      bytes == [i \in DOMAIN tables |-> tables[i].size]
  IN  IF \E k \in DOMAIN tables : sum(k, rows) > maxRows \/ sum(k, bytes) > maxBytes
      THEN Refused("budget") ELSE Read(tables)

\* InMemoryRowsScanner.scan, projectPhysicalColumns.
ScanTable(rows, columns, batchSize) ==
  [b \in 1..((Len(rows) + batchSize - 1) \div batchSize) |->
     [i \in 1..(IF b * batchSize < Len(rows) THEN batchSize ELSE Len(rows) - (b - 1) * batchSize) |->
        LET row == rows[(b - 1) * batchSize + i]
        IN  [c \in columns \cap DOMAIN row |-> row[c]]]]
=============================================================================
