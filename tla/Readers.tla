------------------------------ MODULE Readers ------------------------------
(***************************************************************************)
(* src/ingestion/{csv,json,parquet,excel,polars_bridge}.rs: a table of raw *)
(* cells becomes the typed rows of a schema, a row (or, where Polars reads *)
(* the file, a column) per step.  A cell is only its kind, and a value is  *)
(* the place of the cell it was read from.                                 *)
(***************************************************************************)
EXTENDS Integers, Sequences, SequencesExt, FiniteSets

CONSTANT Sources   \* what is read: [format, text, tables, choice, listed, schema]

\* A table is [blank, header, rows]: the header, the rows, and how many empty
\* rows a sheet has above them, which calamine leaves out of the used range.
\* choice is an ExcelSheetSelection, with the sheets it lists; text is "rows"
\* unless what ingest_json_from_str is given is no list of rows.
ByRow == {"csv_reader", "json_text", "excel"}
ByColumn == {"csv_file", "json_file", "parquet"}

\* The kinds of cells there are in a format.
Cells(format) ==
  IF format \in {"csv_reader", "csv_file"} THEN {"blank", "one", "int", "frac", "yes", "word"}
  ELSE IF format = "excel"
  THEN {"empty", "bool", "int", "whole", "frac", "numeral", "word", "date"}
  ELSE IF format = "json_text"
  THEN {"null", "text", "bool", "int", "big", "frac", "object", "absent"}
  ELSE {"null", "int", "big", "frac", "word"}
         \cup IF format = "parquet" THEN {"bool"} ELSE {"numeral"}

CellTypes == {"Int64", "Float64", "Bool", "Utf8"}

IsRecord(table, i) == Len(table.rows[i]) = Len(table.header)

\* A row is as wide as the header, but for a JSON row that is not an object and
\* a CSV record that is malformed or has more or less fields, which are <<>>;
\* a Parquet column is of one type.
TablesIn(format) ==
  {table \in [blank: Nat, header: Seq(STRING), rows: Seq(Seq(Cells(format)))] :
     /\ \A i \in 1..Len(table.rows) :
          \/ IsRecord(table, i)
          \/ format \in {"json_text", "csv_reader"} /\ table.rows[i] = <<>>
     /\ format = "parquet" => \A c \in 1..Len(table.header) :
          \E one \in {{"int", "big"}, {"frac"}, {"word"}, {"bool"}} :
            \A i \in 1..Len(table.rows) : table.rows[i][c] \in one \cup {"null"}}

\* Only a workbook has sheets to choose from, and only its schema is inferred.
ASSUME SourcesAssumption ==
  \A source \in Sources :
    /\ source.format \in ByRow \cup ByColumn
    /\ source.tables \in Seq(TablesIn(source.format))
    /\ source.listed \in Seq(1..Len(source.tables))
    /\ source.schema \in Seq([name: STRING, type: CellTypes])
    /\ source.format # "excel" =>
         Len(source.tables) = 1 /\ source.choice = "First" /\ source.schema # <<>>

VARIABLE reading   \* [source, schema, phase, sheet, at, types, rows, error]

\* What cells of a kind hold: the types they are or parse as.
Numeral == {"Int64", "Float64", "Utf8"}
Decimal == {"Float64", "Utf8"}

\* parse_typed_value of the trimmed text of a CSV cell.
CsvConverts ==
  [one |-> CellTypes, int |-> Numeral, frac |-> Decimal,
   yes |-> {"Bool", "Utf8"}, word |-> {"Utf8"}]

\* convert_json_value: nothing is parsed, an u64 above i64 is a float only.
JsonConverts ==
  [text |-> {"Utf8"}, bool |-> {"Bool"}, int |-> {"Int64", "Float64"},
   big |-> {"Float64"}, frac |-> {"Float64"}, object |-> {}]

\* convert_cell: an Int or Float cell is a Bool too, a text is parsed, and an
\* empty text is a text like any other.
ExcelConverts ==
  [bool |-> {"Bool", "Utf8"}, int |-> CellTypes, whole |-> CellTypes,
   frac |-> {"Float64", "Bool", "Utf8"}, numeral |-> Numeral,
   word |-> {"Utf8"}, date |-> {"Utf8"}]

Converts(format, type, kind) ==
  \/ format = "csv_reader" /\ type \in CsvConverts[kind]
  \/ format = "json_text" /\ type \in JsonConverts[kind]
  \/ format = "excel" /\ type \in ExcelConverts[kind]

IsBlank(kind) == kind \in {"blank", "null", "empty"}

Error(kind, row, column) == [kind |-> kind, row |-> row, column |-> column]
NoError == Error("none", 0, "")

\* The sheet names the dispatch passes on, an Option: a missing selection
\* reaches the workbook function as None, which stands for all the sheets.
SheetNames(source) ==
  IF source.choice \in {"First", "AllSheets"} THEN <<>> ELSE <<source.listed>>

Selected(source) ==
  IF SheetNames(source) = <<>> THEN [i \in 1..Len(source.tables) |-> i]
  ELSE SheetNames(source)[1]

Table == reading.source.tables[Selected(reading.source)[reading.sheet]]

\* position(): the first of the columns with that name.
ColumnOf(table, name) ==
  CHOOSE c \in 1..Len(table.header) :
    /\ table.header[c] = name
    /\ \A d \in 1..(c - 1) : table.header[d] # name

ReadersInit ==
  \E source \in Sources :
    reading = [source |-> source, schema |-> source.schema, sheet |-> 1, at |-> 0,
               phase |-> IF source.format = "json_text" THEN "text"
                         ELSE IF source.schema = <<>> THEN "infer" ELSE "open",
               types |-> <<>>, rows |-> <<>>, error |-> NoError]

Fails(e) == reading' = [reading EXCEPT !.phase = "failed", !.error = e]

\* ingest_json_from_str: one JSON value, or else a value on each line; all the
\* lines are parsed before the first is converted.
ParseText ==
  /\ reading.phase = "text"
  /\ IF reading.source.text = "rows" THEN reading' = [reading EXCEPT !.phase = "open"]
     ELSE Fails(Error("schema", 0, ""))

NoSheets ==
  /\ reading.phase \in {"text", "infer", "open"} /\ Selected(reading.source) = <<>>
  /\ Fails(Error("schema", 0, ""))
SheetIn(phase) == reading.phase = phase /\ Selected(reading.source) # <<>>
-----------------------------------------------------------------------------
(* infer_excel_schema: the first of the selected sheets, a row per step.   *)

Observed1(state, kind) ==
  LET next == IF kind = "bool" THEN "Bool"
              ELSE IF kind \in {"int", "whole"} THEN "Int64"
              ELSE IF kind = "frac" THEN "Float64"
              ELSE "Utf8"
  IN  IF kind = "empty" THEN state
      ELSE IF state \in {"Unknown", next} THEN next
      ELSE IF {state, next} = {"Int64", "Float64"} THEN "Float64"
      ELSE "Utf8"

\* Mutant: the last cell decides.
LastCell(state, kind) ==
  IF kind = "empty" THEN state ELSE Observed1("Unknown", kind)

ObserveCell(state, kind) == Observed1(state, kind)

InferRow ==
  /\ SheetIn("infer") /\ reading.at < Len(Table.rows)
  /\ reading' = [reading EXCEPT
       !.at = @ + 1,
       !.types = [c \in 1..Len(Table.header) |->
          ObserveCell(IF @ = <<>> THEN "Unknown" ELSE @[c],
                      Table.rows[reading.at + 1][c])]]

\* finish_type; a column without a name is left out.
InferredType(c) ==
  IF reading.types = <<>> \/ reading.types[c] = "Unknown" THEN "Utf8" ELSE reading.types[c]
InferredSchema ==
  FlattenSeq([c \in 1..Len(Table.header) |->
    IF Table.header[c] = "" THEN <<>>
    ELSE <<[name |-> Table.header[c], type |-> InferredType(c)]>>])

FinishInfer ==
  /\ SheetIn("infer") /\ reading.at = Len(Table.rows)
  /\ IF InferredSchema = <<>> THEN Fails(Error("schema", 0, ""))
     ELSE reading' = [reading EXCEPT !.schema = InferredSchema, !.phase = "open",
                                     !.at = 0]
-----------------------------------------------------------------------------
(* Row by row.                                                             *)

\* The first field of the schema that is so, or 0.
FirstWhere(Test(_)) == SelectInSeq(reading.schema, Test)
MissingField ==
  FirstWhere(LAMBDA f : \A c \in 1..Len(Table.header) : Table.header[c] # f.name)

\* The headers are looked up before a row is read.  JSON has none: an object
\* without the field is an error of its row.
OpenTable ==
  /\ SheetIn("open")
  /\ IF reading.source.format # "json_text" /\ MissingField # 0
     THEN Fails(Error("schema", 0, reading.schema[MissingField].name))
     ELSE reading' = [reading EXCEPT !.at = 0,
            !.phase = IF reading.source.format \in ByRow THEN "rows" ELSE "columns"]

\* Mutant: rows are counted below the header.
BelowHeader(source, i) == i

\* The row that an error names, for the i-th row below the header: counted with
\* the header, that of a sheet from the first row of its used range.
UserRow(source, i) ==
  IF source.format \in {"excel", "csv_reader", "csv_file"} THEN i + 1 ELSE i

CellKind(i, f) ==
  LET named == \E c \in 1..Len(Table.header) : Table.header[c] = f.name
  IN  IF ~named THEN "absent" ELSE Table.rows[i][ColumnOf(Table, f.name)]

BadCell(i, f) ==
  LET kind == CellKind(i, f)
  IN  \/ kind = "absent"
      \/ ~IsBlank(kind) /\ ~Converts(reading.source.format, f.type, kind)

Place(i, f) == <<Selected(reading.source)[reading.sheet], i,
                 ColumnOf(Table, f.name)>>

\* Mutant: the columns are taken in the order of the file.
ByFilePosition(i) ==
  [k \in 1..Len(reading.schema) |->
     IF IsBlank(CellKind(i, reading.schema[k])) THEN <<>>
     ELSE <<Selected(reading.source)[reading.sheet], i, k>>]

\* The output row: <<>> for Null, else the place of the cell.
RowOut(i) ==
  [k \in 1..Len(reading.schema) |->
     IF IsBlank(CellKind(i, reading.schema[k])) THEN <<>>
     ELSE Place(i, reading.schema[k])]

\* An error of the csv crate names no row and no column; that of a JSON row
\* that is not an object no column.
NoRecord(source, i) ==
  IF source.format = "csv_reader" THEN Error("csv", 0, "")
  ELSE Error("schema", UserRow(source, i), "")

ReadTableRow ==
  /\ reading.phase = "rows" /\ reading.at < Len(Table.rows)
  /\ LET i == reading.at + 1
         bad == FirstWhere(LAMBDA f : BadCell(i, f))
         field == reading.schema[bad]
     IN  IF ~IsRecord(Table, i) THEN Fails(NoRecord(reading.source, i))
         ELSE IF bad # 0
         THEN Fails(Error(IF CellKind(i, field) = "absent" THEN "schema" ELSE "parse",
                          UserRow(reading.source, i), field.name))
         ELSE reading' = [reading EXCEPT !.at = i, !.rows = Append(@, RowOut(i))]

FinishTable ==
  /\ reading.phase = "rows" /\ reading.at = Len(Table.rows)
  /\ reading' = IF reading.sheet < Len(Selected(reading.source))
                THEN [reading EXCEPT !.sheet = @ + 1, !.phase = "open", !.at = 0]
                ELSE [reading EXCEPT !.phase = "done"]
-----------------------------------------------------------------------------
(* Column by column: Polars gives each column one type, and the column is  *)
(* cast to the type of the field, a value that does not fit becoming null. *)

\* External: the type Polars infers for a CSV column, or reads from Parquet.
\* "yes" stands for the texts true and false here, "numeral" for a JSON string
\* that holds an integer.
ColumnKinds(c) ==
  {Table.rows[i][c] : i \in 1..Len(Table.rows)} \ {"blank", "null"}
Polars(kinds, whenEmpty) ==
  IF kinds = {} THEN whenEmpty
  ELSE IF kinds \subseteq {"one", "int", "big"} THEN "Int64"
  ELSE IF kinds \subseteq {"one", "int", "frac"} THEN "Float64"
  ELSE IF kinds \subseteq {"yes", "bool"} THEN "Bool"
  ELSE "Utf8"

\* dtype_compatible_with_schema, of the Parquet reader only.
Compatible(physical, type) ==
  type = physical \/ (type = "Float64" /\ physical = "Int64")

\* External: the cast that is refused (unless all is null), and what one keeps.
Refused(physical, type) == physical = "Utf8" /\ type = "Bool"
KeptByCast(physical, type, kind) ==
  \/ type = "Utf8"
  \/ physical = "Utf8" /\ kind \in {"one", "int", "numeral"}
  \/ physical = "Utf8" /\ kind = "frac" /\ type # "Int64"
  \/ physical # "Utf8" /\ ~(type = "Int64" /\ kind = "big")

TypeRefused(f, physical) ==
  reading.source.format = "parquet" /\ ~Compatible(physical, f.type)

KindsOf(f) == ColumnKinds(ColumnOf(Table, f.name))

\* The Parquet types of all columns are checked before the first is cast.
CastColumns ==
  /\ reading.phase = "columns"
  /\ \E whenEmpty \in IF reading.source.format = "parquet" THEN CellTypes ELSE {"Utf8"} :
     LET physical(f) == Polars(KindsOf(f), whenEmpty)
         incompatible == FirstWhere(LAMBDA f : TypeRefused(f, physical(f)))
         bad == IF incompatible # 0 THEN incompatible
                ELSE FirstWhere(LAMBDA f : KindsOf(f) # {} /\ Refused(physical(f), f.type))
         kept(i, f) == /\ ~IsBlank(CellKind(i, f))
                       /\ KeptByCast(physical(f), f.type, CellKind(i, f))
         cell(i, f) == IF kept(i, f) THEN Place(i, f) ELSE <<>>
     IN  IF bad # 0
         THEN Fails(Error("parse", UserRow(reading.source, 1), reading.schema[bad].name))
         ELSE reading' = [reading EXCEPT !.phase = "done",
                !.rows = [i \in 1..Len(Table.rows) |->
                  [k \in 1..Len(reading.schema) |-> cell(i, reading.schema[k])]]]
-----------------------------------------------------------------------------
ReadersNext ==
  \/ ParseText \/ NoSheets \/ InferRow \/ FinishInfer \/ OpenTable \/ ReadTableRow \/ FinishTable
  \/ CastColumns

ReadersSpec == ReadersInit /\ [][ReadersNext]_reading
-----------------------------------------------------------------------------

\* The rows of the selected sheets, one after the other: <<sheet, row>>.
DataRows(source, sheets) ==
  FlattenSeq([s \in 1..Len(sheets) |->
    [i \in 1..Len(source.tables[sheets[s]].rows) |-> <<sheets[s], i>>]])
RowsUpto(source, sheet, n) ==
  DataRows(source, SubSeq(Selected(source), 1, sheet - 1))
    \o [i \in 1..n |-> <<Selected(source)[sheet], i>>]
RowsBefore == RowsUpto(reading.source, reading.sheet, reading.at)

Columns1(table, f) == {c \in 1..Len(table.header) : table.header[c] = f.name}
IsFirst(c, f, table) == c \in Columns1(table, f) /\ \A d \in Columns1(table, f) : c <= d

(***************************************************************************)
(* What is read is what the tables hold: every row of the selected sheets, *)
(* in their order (a listed sheet twice is read twice), each field from    *)
(* the first column of its name wherever the file has it, Null for a blank *)
(* cell only, or, from a file that Polars reads, for a value the cast to   *)
(* the field's type loses: of Parquet, only an integer above the i64.      *)
(***************************************************************************)
RowsAreTheFiles ==
  LET expected == IF reading.phase = "done" THEN DataRows(reading.source, Selected(reading.source))
                  ELSE RowsBefore
      source == reading.source
  IN  reading.phase \in {"rows", "done"} =>
        /\ Len(reading.rows) = Len(expected)
        /\ \A i \in 1..Len(expected) : \A k \in 1..Len(reading.schema) :
             LET table == source.tables[expected[i][1]]
                 cell == reading.rows[i][k]
                 f == reading.schema[k]
                 kind == table.rows[expected[i][2]][CHOOSE c \in Columns1(table, f) :
                                                      IsFirst(c, f, table)]
             IN  IF cell = <<>>
                 THEN \/ IsBlank(kind)
                      \/ source.format = "parquet" /\ kind = "big"
                      \/ /\ source.format \in {"csv_file", "json_file"}
                         /\ kind \in {"word", "yes", "frac", "big"}
                 ELSE /\ <<cell[1], cell[2]>> = expected[i]
                      /\ IsFirst(cell[3], f, table) /\ ~IsBlank(kind)
                      /\ source.format \in ByRow => Converts(source.format, f.type, kind)

(***************************************************************************)
(* An error names the first cell, in the order of reading, that the field  *)
(* of its column cannot hold: every row before it was converted, and so    *)
(* were the fields before it.  Its row is counted in what is read: from 1  *)
(* with the header, in a CSV and in the used range of a sheet, whose empty *)
(* rows on top do not count (ErrorNamesSheetRow); the first value of a     *)
(* JSON is 1.  Of what is no row at all no column is named.  Where columns *)
(* are cast it is the first row of the file, whichever value is wrong, and *)
(* a column whose values all have the field's type is never refused.       *)
(***************************************************************************)
ErrorIsFirst ==
  LET e == reading.error
      source == reading.source
      schema == reading.schema
      i == reading.at + 1
      wrong(k) == /\ ~IsBlank(CellKind(i, schema[k]))
                  /\ \/ CellKind(i, schema[k]) = "absent"
                     \/ ~Converts(source.format, schema[k].type, CellKind(i, schema[k]))
      own == [Int64 |-> {"one", "int", "big"}, Float64 |-> {"one", "int", "big", "frac"},
              Bool |-> {"yes", "bool"}, Utf8 |-> {"word", "numeral"}]
  IN  /\ (reading.phase = "failed" /\ source.format \in ByRow /\ (e.row > 0 \/ e.kind = "csv")) =>
           /\ Len(reading.rows) = Len(RowsBefore)
           /\ e.row = CASE e.kind = "csv" -> 0 [] source.format = "json_text" -> i
                        [] OTHER -> i + 1
           /\ \/ ~IsRecord(Table, i) /\ e.column = ""
              \/ /\ IsRecord(Table, i) /\ e.kind # "csv"
                 /\ \E k \in 1..Len(schema) :
                      /\ e.column = schema[k].name /\ wrong(k)
                      /\ \A j \in 1..(k - 1) : ~wrong(j)
      /\ (reading.phase = "failed" /\ source.format \in ByColumn /\ e.kind = "parse") =>
           /\ e.row = IF source.format = "csv_file" THEN 2 ELSE 1
           /\ \E k \in 1..Len(schema) :
                /\ e.column = schema[k].name
                /\ KindsOf(schema[k]) = {} \/ ~(KindsOf(schema[k]) \subseteq own[schema[k].type])

(***************************************************************************)
(* ingest_from_path_infer does not fail on the values: a workbook whose    *)
(* columns have different names is read with the schema that was inferred  *)
(* from it, whatever its cells mix.  The schema is that of the first       *)
(* selected sheet: a later one may fail.                                   *)
(***************************************************************************)
InferredSchemaReads ==
  LET sheets == Selected(reading.source)
      header == IF sheets = <<>> THEN <<>> ELSE reading.source.tables[sheets[1]].header
      named == {c \in 1..Len(header) : header[c] # ""}
      distinct == \A c, d \in named : header[c] = header[d] => c = d
  IN  (reading.source.schema = <<>> /\ reading.phase = "failed" /\ distinct) =>
        reading.sheet > 1 \/ named = {}

(***************************************************************************)
(* An error of a workbook names the row of the sheet ("Report 1-based row  *)
(* number (Excel-like).", src/ingestion/excel.rs:110).                     *)
(***************************************************************************)
ErrorNamesSheetRow ==
  (reading.phase = "failed" /\ reading.source.format = "excel" /\ reading.error.row > 0) =>
    reading.error.row = Table.blank + 1 + (reading.at + 1)

(***************************************************************************)
(* ExcelSheetSelection::First reads the first sheet ("Ingest the first     *)
(* sheet (default).", src/ingestion/unified.rs:61).                        *)
(***************************************************************************)
FirstIsOneSheet ==
  reading.source.choice = "First" =>
    \A i \in 1..Len(reading.rows) : \A k \in 1..Len(reading.schema) :
      reading.rows[i][k] # <<>> => reading.rows[i][k][1] = 1
=============================================================================
