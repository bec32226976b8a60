-------------------------- MODULE IngestionProofs --------------------------
(***************************************************************************)
(* Proofs about the way in.  Readers: every row of a file is read, in      *)
(* order, under the schema, and the first value that is none is the error. *)
(* XmlRecords: what is exported is read back.                              *)
(* PathDiscovery: the paths come in one order, whatever the order of the   *)
(* walk.  OrderedIngest, for every set of files and whatever fails: what a *)
(* saved watermark leaves behind, what is taken twice, and what the        *)
(* observer is told.                                                       *)
(***************************************************************************)
EXTENDS Readers, XmlRecords, PathDiscovery, OrderedIngest, Induction

\* A cell of a row that was read from the row place of the files.
KindUnder(table, f, i) ==
  table.rows[i][CHOOSE c \in Columns1(table, f) : IsFirst(c, f, table)]
CellIs(source, f, cell, place) ==
  LET table == source.tables[place[1]]
      kind == KindUnder(table, f, place[2])
  IN  IF cell = <<>>
      THEN \/ IsBlank(kind)
           \/ source.format = "parquet" /\ kind = "big"
           \/ /\ source.format \in {"csv_file", "json_file"}
              /\ kind \in {"word", "yes", "frac", "big"}
      ELSE /\ <<cell[1], cell[2]>> = place
           /\ IsFirst(cell[3], f, table) /\ ~IsBlank(kind)
           /\ source.format \in ByRow => Converts(source.format, f.type, kind)
RowIs(source, schema, line, place) ==
  \A k \in 1..Len(schema) : CellIs(source, schema[k], line[k], place)
RowsAre(source, schema, rows, places) ==
  /\ Len(rows) = Len(places)
  /\ \A i \in 1..Len(places) : RowIs(source, schema, rows[i], places[i])

ErrorTypes == [kind: {"none", "schema", "parse", "csv"}, row: Nat, column: STRING \cup {""}]
Fields == [name: STRING, type: CellTypes]
ReadersTypeOK ==
  reading \in [source: Sources, schema: Seq(Fields),
               phase: {"text", "infer", "open", "rows", "columns", "done", "failed"},
               sheet: Nat \ {0}, at: Nat, types: Seq(CellTypes \cup {"Unknown"}),
               rows: Seq(Seq(Seq(Nat))),
               error: ErrorTypes]

\* Which formats are read how, and where the reading stands.
PhasesInOrder ==
  /\ reading.phase = "rows" => reading.source.format \in ByRow
  /\ reading.phase = "columns" => reading.source.format \in ByColumn
  /\ reading.phase = "text" => reading.source.format = "json_text"
  /\ reading.phase = "infer" => reading.source.schema = <<>>
  /\ reading.phase \in {"text", "infer"} => reading.sheet = 1 /\ reading.rows = <<>>
  /\ reading.phase \in {"text", "open", "columns"} => reading.at = 0
  /\ reading.phase \in {"rows", "columns"} \/ reading.sheet # 1 =>
       reading.sheet <= Len(Selected(reading.source))
  /\ reading.phase = "rows" => reading.at <= Len(Table.rows)
  /\ reading.phase = "infer" /\ Selected(reading.source) # <<>> =>
       reading.at <= Len(Table.rows)

\* The fields of a file that is read by columns were found in its header.
ColumnsAreThere ==
  reading.phase = "columns" =>
    \A k \in 1..Len(reading.schema) :
      \E c \in 1..Len(Table.header) : Table.header[c] = reading.schema[k].name

\* The rows so far are those of the sheets so far.
ReadSoFar ==
  reading.phase \notin {"infer", "failed"} =>
    RowsAre(reading.source, reading.schema, reading.rows,
            IF reading.phase = "done" THEN DataRows(reading.source, Selected(reading.source))
            ELSE RowsBefore)

\* A type that was inferred holds the cells it was inferred from.
Holds(type, kind) == kind = "empty" \/ type \in ExcelConverts[kind]
TypesHold ==
  (reading.phase = "infer" /\ Selected(reading.source) # <<>>) =>
    /\ reading.types # <<>> => Len(reading.types) = Len(Table.header)
    /\ \A c \in 1..Len(Table.header) : \A i \in 1..reading.at :
         reading.types # <<>> /\ Holds(reading.types[c], Table.rows[i][c])
SchemaHolds ==
  (reading.source.schema = <<>> /\ reading.phase \in {"open", "rows"}) =>
    \A k \in 1..Len(reading.schema) :
      LET table == reading.source.tables[Selected(reading.source)[1]]
      IN  \E c \in 1..Len(table.header) :
            /\ table.header[c] # "" /\ table.header[c] = reading.schema[k].name
            /\ \A i \in 1..Len(table.rows) : Holds(reading.schema[k].type, table.rows[i][c])

ReadersIInv ==
  /\ ReadersTypeOK /\ PhasesInOrder /\ ColumnsAreThere /\ ReadSoFar /\ TypesHold /\ SchemaHolds
  /\ ErrorIsFirst /\ InferredSchemaReads

\* One field of the schema, found by its place.
LEMMA ColumnIs ==
  ASSUME NEW table, NEW name, Len(table.header) \in Nat,
         \E c \in 1..Len(table.header) : table.header[c] = name
  PROVE  /\ ColumnOf(table, name) \in 1..Len(table.header)
         /\ table.header[ColumnOf(table, name)] = name
         /\ \A d \in 1..Len(table.header) :
              table.header[d] = name => ColumnOf(table, name) <= d
<1> DEFINE n == Len(table.header)
           S == {c \in 1..n : table.header[c] = name}
<1>1. PICK m \in S : \A x \in S : m <= x
  <2>1. S # {} /\ S \in SUBSET (1..n)
    OBVIOUS
  <2> HIDE DEF S
  <2> QED
    BY <2>1, LeastIs
<1>2. /\ m \in 1..n /\ table.header[m] = name
      /\ \A d \in 1..(m - 1) : table.header[d] # name
  BY <1>1
<1> DEFINE First(c) == /\ table.header[c] = name
                       /\ \A d \in 1..(c - 1) : table.header[d] # name
<1>3. ColumnOf(table, name) = CHOOSE c \in 1..n : First(c)
  BY DEF ColumnOf
<1>4. ColumnOf(table, name) \in 1..n /\ First(ColumnOf(table, name))
  <2>1. \E c \in 1..n : First(c)
    <3> HIDE DEF S
    <3> QED
      BY <1>2
  <2> HIDE DEF First
  <2> QED
    BY <1>3, <2>1
<1>5. ASSUME NEW d \in 1..n, table.header[d] = name
      PROVE  ColumnOf(table, name) <= d
  <2>1. d \notin 1..(ColumnOf(table, name) - 1)
    BY <1>4, <1>5
  <2> QED
    BY <1>4, <2>1
<1> QED
  BY <1>4, <1>5

\* The column that the properties speak of is that one.
LEMMA FirstIsColumn ==
  ASSUME NEW table, NEW f, Len(table.header) \in Nat,
         \E c \in 1..Len(table.header) : table.header[c] = f.name
  PROVE  /\ IsFirst(ColumnOf(table, f.name), f, table)
         /\ (CHOOSE c \in Columns1(table, f) : IsFirst(c, f, table)) = ColumnOf(table, f.name)
<1> DEFINE first == ColumnOf(table, f.name)
<1>1. /\ first \in 1..Len(table.header) /\ table.header[first] = f.name
      /\ \A d \in 1..Len(table.header) : table.header[d] = f.name => first <= d
  BY ColumnIs
<1> HIDE DEF first
<1>2. first \in Columns1(table, f) /\ \A d \in Columns1(table, f) : first <= d
  BY <1>1 DEF Columns1
<1>3. IsFirst(first, f, table)
  BY <1>2 DEF IsFirst
<1>4. \A c \in Columns1(table, f) : IsFirst(c, f, table) => c = first
  <2> SUFFICES ASSUME NEW c \in Columns1(table, f), IsFirst(c, f, table) PROVE c = first
    OBVIOUS
  <2>1. c <= first /\ first <= c
    BY <1>2 DEF IsFirst
  <2>2. c \in Nat /\ first \in Nat
    BY <1>2 DEF Columns1
  <2> QED
    BY <2>1, <2>2
<1> QED
  BY <1>2, <1>3, <1>4 DEF first

LEMMA SelectedIs ==
  ASSUME NEW source \in Sources
  PROVE  /\ Selected(source) \in Seq(1..Len(source.tables))
         /\ source.format # "excel" => Len(Selected(source)) = 1 /\ Selected(source)[1] = 1
<1>1. /\ source.listed \in Seq(1..Len(source.tables))
      /\ source.format # "excel" => Len(source.tables) = 1 /\ source.choice = "First"
      /\ Len(source.tables) \in Nat
  <2>1. source.tables \in Seq(TablesIn(source.format))
    BY SourcesAssumption
  <2> QED
    BY <2>1, SourcesAssumption
<1>2. CASE source.choice \in {"First", "AllSheets"}
  <2>1. Selected(source) = [i \in 1..Len(source.tables) |-> i]
    BY <1>2 DEF Selected, SheetNames
  <2> DEFINE n == Len(source.tables)
             all == [i \in 1..n |-> i]
  <2> n \in Nat
    BY <1>1
  <2> HIDE DEF n
  <2>2. all \in Seq(1..n) /\ Len(all) = n /\ (n = 1 => all[1] = 1)
    OBVIOUS
  <2> HIDE DEF all
  <2> QED
    BY <1>1, <2>1, <2>2 DEF n, all
<1>3. CASE source.choice \notin {"First", "AllSheets"}
  <2>1. SheetNames(source) = <<source.listed>>
    BY <1>3 DEF SheetNames
  <2>2. SheetNames(source) # <<>> /\ SheetNames(source)[1] = source.listed
    BY <2>1
  <2>3. Selected(source) = source.listed
    BY <2>2 DEF Selected
  <2> QED
    BY <1>1, <1>3, <2>3
<1> QED
  BY <1>2, <1>3

\* The table being read.
LEMMA TableIs ==
  ASSUME NEW source \in Sources, reading.source = source, reading.sheet \in Nat \ {0},
         reading.sheet <= Len(Selected(source))
  PROVE  /\ Selected(source)[reading.sheet] \in 1..Len(source.tables)
         /\ Table = source.tables[Selected(source)[reading.sheet]]
         /\ Table \in TablesIn(source.format)
<1>1. Selected(source)[reading.sheet] \in 1..Len(source.tables)
  BY SelectedIs
<1>2. Table = source.tables[Selected(source)[reading.sheet]]
  BY DEF Table
<1>3. source.tables \in Seq(TablesIn(source.format))
  BY SourcesAssumption
<1> QED
  BY <1>1, <1>2, <1>3

-----------------------------------------------------------------------------
(* The rows of the files, as places.                                       *)

SheetRows(source, t) == [i \in 1..Len(source.tables[t].rows) |-> <<t, i>>]

LEMMA PlacesGrow ==
  ASSUME NEW source \in Sources, NEW n \in 1..Len(Selected(source))
  PROVE  LET sheets == Selected(source)
         IN  /\ DataRows(source, SubSeq(sheets, 1, n - 1)) \in Seq(Nat \X Nat)
             /\ DataRows(source, SubSeq(sheets, 1, n)) =
                  DataRows(source, SubSeq(sheets, 1, n - 1)) \o SheetRows(source, sheets[n])
             /\ SheetRows(source, sheets[n]) \in Seq(Nat \X Nat)
             /\ Len(source.tables[sheets[n]].rows) \in Nat
<1> DEFINE sheets == Selected(source)
           all(m) == [s \in 1..m |-> SheetRows(source, sheets[s])]
<1>1. sheets \in Seq(1..Len(source.tables)) /\ Len(sheets) \in Nat
  BY SelectedIs
<1>2. \A s \in 1..Len(sheets) :
        /\ SheetRows(source, sheets[s]) \in Seq(Nat \X Nat)
        /\ Len(source.tables[sheets[s]].rows) \in Nat
  <2> SUFFICES ASSUME NEW s \in 1..Len(sheets)
               PROVE  /\ SheetRows(source, sheets[s]) \in Seq(Nat \X Nat)
                      /\ Len(source.tables[sheets[s]].rows) \in Nat
    OBVIOUS
  <2> DEFINE t == sheets[s]
             m == Len(source.tables[t].rows)
  <2>1. t \in 1..Len(source.tables) /\ source.tables \in Seq(TablesIn(source.format))
    BY <1>1, SourcesAssumption
  <2>2. source.tables[t] \in TablesIn(source.format) /\ t \in Nat
    BY <2>1
  <2>3. m \in Nat
    <3>1. source.tables[t].rows \in Seq(Seq(Cells(source.format)))
      BY <2>2, Zenon DEF TablesIn
    <3> QED
      BY <3>1
  <2> HIDE DEF m, t
  <2>4. [i \in 1..m |-> <<t, i>>] \in Seq(Nat \X Nat)
    BY <2>2, <2>3
  <2> QED
    BY <2>3, <2>4 DEF SheetRows, m, t
<1> HIDE DEF sheets
<1>3. ASSUME NEW m \in 0..Len(sheets)
      PROVE  DataRows(source, SubSeq(sheets, 1, m)) = FlattenSeq(all(m))
  <2>1. Len(SubSeq(sheets, 1, m)) = m /\ \A s \in 1..m : SubSeq(sheets, 1, m)[s] = sheets[s]
    BY <1>1
  <2>2. [s \in 1..Len(SubSeq(sheets, 1, m)) |->
           [i \in 1..Len(source.tables[SubSeq(sheets, 1, m)[s]].rows) |->
              <<SubSeq(sheets, 1, m)[s], i>>]] = all(m)
    BY <2>1 DEF SheetRows
  <2> HIDE DEF all
  <2> QED
    BY <2>2 DEF DataRows
<1>4. all(n - 1) \in Seq(Seq(Nat \X Nat)) /\ all(n) = Append(all(n - 1), SheetRows(source, sheets[n]))
  <2>1. n \in 1..Len(sheets) /\ n \in Nat /\ n - 1 \in Nat
    BY <1>1 DEF sheets
  <2>2. all(n - 1) \in Seq(Seq(Nat \X Nat)) /\ Len(all(n - 1)) = n - 1
    BY <1>2, <2>1
  <2>3. /\ Append(all(n - 1), SheetRows(source, sheets[n])) \in Seq(Seq(Nat \X Nat))
        /\ all(n) \in Seq(Seq(Nat \X Nat))
        /\ Len(all(n)) = n /\ Len(Append(all(n - 1), SheetRows(source, sheets[n]))) = n
    BY <1>2, <2>1, <2>2
  <2>4. \A s \in 1..n : all(n)[s] = Append(all(n - 1), SheetRows(source, sheets[n]))[s]
    BY <1>2, <2>1, <2>2
  <2> HIDE DEF all
  <2> QED
    BY <2>2, <2>3, <2>4, SeqEqual
<1>5. n \in 0..Len(sheets) /\ n - 1 \in 0..Len(sheets) /\ n \in 1..Len(sheets)
  BY <1>1 DEF sheets
<1> HIDE DEF all
<1>6. /\ FlattenSeq(all(n - 1)) \in Seq(Nat \X Nat)
      /\ FlattenSeq(all(n)) = FlattenSeq(all(n - 1)) \o SheetRows(source, sheets[n])
  <2>1. SheetRows(source, sheets[n]) \in Seq(Nat \X Nat)
    BY <1>2, <1>5
  <2> QED
    BY <1>4, <2>1, FlattenAppend
<1>7. /\ DataRows(source, SubSeq(sheets, 1, n - 1)) = FlattenSeq(all(n - 1))
      /\ DataRows(source, SubSeq(sheets, 1, n)) = FlattenSeq(all(n))
  BY <1>3, <1>5
<1> QED
  BY <1>2, <1>5, <1>6, <1>7 DEF sheets

LEMMA ConcatAppend ==
  ASSUME NEW A, NEW s \in Seq(A), NEW t \in Seq(A), NEW e \in A
  PROVE  s \o Append(t, e) = Append(s \o t, e)
<1>1. Append(t, e) = t \o <<e>> /\ Append(s \o t, e) = (s \o t) \o <<e>> /\ <<e>> \in Seq(A)
  BY AppendIsConcat
<1> QED
  BY <1>1, ConcatAssociative

\* One more row of a sheet, the last one of it, and none.
LEMMA RowsUptoIs ==
  ASSUME NEW source \in Sources, NEW n \in 1..Len(Selected(source)), NEW m \in Nat
  PROVE  LET t == Selected(source)[n]
         IN  /\ RowsUpto(source, n, m) \in Seq(Nat \X Nat)
             /\ RowsUpto(source, n, m + 1) = Append(RowsUpto(source, n, m), <<t, m + 1>>)
             /\ RowsUpto(source, n, 0) = DataRows(source, SubSeq(Selected(source), 1, n - 1))
             /\ RowsUpto(source, n, Len(source.tables[t].rows)) =
                  DataRows(source, SubSeq(Selected(source), 1, n))
<1> DEFINE t == Selected(source)[n]
           before == DataRows(source, SubSeq(Selected(source), 1, n - 1))
           here(k) == [i \in 1..k |-> <<t, i>>]
<1>1. /\ before \in Seq(Nat \X Nat) /\ Len(source.tables[t].rows) \in Nat
      /\ DataRows(source, SubSeq(Selected(source), 1, n)) = before \o SheetRows(source, t)
  BY PlacesGrow
<1>2. t \in Nat
  <2>1. Selected(source) \in Seq(1..Len(source.tables)) 
    BY SelectedIs
  <2>2. t \in 1..Len(source.tables)
    BY <2>1
  <2> QED
    BY <2>2
<1>3. \A k \in Nat : RowsUpto(source, n, k) = before \o here(k)
  BY DEF RowsUpto
<1> HIDE DEF t, before
<1>4. here(m) \in Seq(Nat \X Nat) /\ Len(here(m)) = m /\ here(m + 1) \in Seq(Nat \X Nat)
      /\ <<t, m + 1>> \in Nat \X Nat
  BY <1>2
<1>5. here(m + 1) = Append(here(m), <<t, m + 1>>)
  <2>1. /\ Len(here(m + 1)) = m + 1 /\ Append(here(m), <<t, m + 1>>) \in Seq(Nat \X Nat)
        /\ Len(Append(here(m), <<t, m + 1>>)) = m + 1
    BY <1>4
  <2>2. \A i \in 1..(m + 1) : here(m + 1)[i] = Append(here(m), <<t, m + 1>>)[i]
    BY <1>4
  <2> HIDE DEF here
  <2> QED
    BY <1>4, <2>1, <2>2, SeqEqual
<1>6. here(0) = <<>> /\ here(Len(source.tables[t].rows)) = SheetRows(source, t)
  BY DEF SheetRows
<1> HIDE DEF here
<1>7. before \o here(m + 1) = Append(before \o here(m), <<t, m + 1>>)
  <2> DEFINE e == <<t, m + 1>>
             P == Nat \X Nat
             h == here(m)
  <2>1. before \in Seq(P) /\ h \in Seq(P) /\ e \in P /\ here(m + 1) = Append(h, e)
    BY <1>1, <1>4, <1>5
  <2> HIDE DEF e, P, h
  <2>2. before \o Append(h, e) = Append(before \o h, e)
    BY <2>1, ConcatAppend
  <2> QED
    BY <2>1, <2>2 DEF e, h
<1>8. before \o here(m) \in Seq(Nat \X Nat) /\ before \o here(0) = before
  BY <1>1, <1>4, <1>6
<1>9. /\ RowsUpto(source, n, m) \in Seq(Nat \X Nat)
      /\ RowsUpto(source, n, m + 1) = Append(RowsUpto(source, n, m), <<t, m + 1>>)
      /\ RowsUpto(source, n, 0) = before
      /\ RowsUpto(source, n, Len(source.tables[t].rows)) =
           DataRows(source, SubSeq(Selected(source), 1, n))
  <2>1. m + 1 \in Nat /\ 0 \in Nat
    OBVIOUS
  <2>2. /\ RowsUpto(source, n, m) = before \o here(m)
        /\ RowsUpto(source, n, m + 1) = before \o here(m + 1)
        /\ RowsUpto(source, n, 0) = before \o here(0)
        /\ RowsUpto(source, n, Len(source.tables[t].rows)) = before \o SheetRows(source, t)
    BY <1>1, <1>3, <1>6, <2>1
  <2> QED
    BY <1>1, <1>7, <1>8, <2>2
<1> QED
  BY <1>9 DEF t, before

\* The rows of the only sheet of a file that is not a workbook.
LEMMA NothingBefore ==
  ASSUME NEW source \in Sources
  PROVE  RowsUpto(source, 1, 0) = <<>>
<1>1. SubSeq(Selected(source), 1, 1 - 1) = <<>>
  BY SelectedIs
<1>2. DataRows(source, <<>>) = <<>>
  <2>1. [s \in 1..Len(<<>>) |-> [i \in 1..Len(source.tables[<<>>[s]].rows) |-> <<<<>>[s], i>>]] = <<>>
    OBVIOUS
  <2>2. FlattenSeq(<<>>) = <<>>
    BY DEF FlattenSeq
  <2> QED
    BY <2>1, <2>2 DEF DataRows
<1>3. [i \in 1..0 |-> <<Selected(source)[1], i>>] = <<>>
  OBVIOUS
<1> DEFINE here == [i \in 1..0 |-> <<Selected(source)[1], i>>]
<1>4. RowsUpto(source, 1, 0) = DataRows(source, SubSeq(Selected(source), 1, 1 - 1)) \o here
  BY DEF RowsUpto
<1> HIDE DEF here
<1>5. here = <<>>
  BY <1>3 DEF here
<1>6. RowsUpto(source, 1, 0) = <<>> \o <<>>
  BY <1>1, <1>2, <1>4, <1>5
<1> QED
  BY <1>6

LEMMA RowsAppend ==
  ASSUME NEW source, NEW schema, NEW A, NEW rows \in Seq(A), NEW line \in A,
         NEW places \in Seq(Nat \X Nat), NEW place \in Nat \X Nat,
         RowsAre(source, schema, rows, places), RowIs(source, schema, line, place)
  PROVE  RowsAre(source, schema, Append(rows, line), Append(places, place))
<1>1. Len(rows) = Len(places) /\ \A i \in 1..Len(places) : RowIs(source, schema, rows[i], places[i])
  BY DEF RowsAre
<1>2. Len(Append(rows, line)) = Len(Append(places, place)) /\ Len(Append(places, place)) = Len(places) + 1
  BY <1>1
<1>3. ASSUME NEW i \in 1..(Len(places) + 1)
      PROVE  RowIs(source, schema, Append(rows, line)[i], Append(places, place)[i])
  <2>1. CASE i = Len(places) + 1
    <3>1. Append(rows, line)[i] = line /\ Append(places, place)[i] = place
      BY <1>1, <2>1
    <3> QED
      BY <3>1
  <2>2. CASE i # Len(places) + 1
    <3>1. i \in 1..Len(places) /\ Append(rows, line)[i] = rows[i] /\ Append(places, place)[i] = places[i]
      BY <1>1, <2>2
    <3> QED
      BY <1>1, <3>1
  <2> QED
    BY <2>1, <2>2
<1> QED
  BY <1>2, <1>3 DEF RowsAre

\* The first place where something is so, or 0.
FirstIn(S) == IF S # {} THEN Min(S) ELSE 0
LEMMA FirstInIs ==
  ASSUME NEW n \in Nat, NEW S \in SUBSET (1..n)
  PROVE  \/ FirstIn(S) = 0 /\ S = {}
         \/ FirstIn(S) \in S /\ FirstIn(S) \in 1..n /\ \A j \in 1..(FirstIn(S) - 1) : j \notin S
<1>1. CASE S = {}
  BY <1>1 DEF FirstIn
<1>2. CASE S # {}
  <2>1. Min(S) \in S /\ \A x \in S : Min(S) <= x
    BY <1>2, LeastIs
  <2> DEFINE m == Min(S)
  <2> HIDE DEF m
  <2>2. FirstIn(S) = m /\ m \in S /\ \A x \in S : m <= x
    BY <1>2, <2>1 DEF FirstIn, m
  <2> QED
    BY <2>2
<1> QED
  BY <1>1, <1>2

-----------------------------------------------------------------------------
(* The steps.                                                              *)

LEMMA NewTable ==
  ASSUME reading'.source = reading.source, reading'.sheet = reading.sheet
  PROVE  /\ Table' = Table
         /\ \A i, f : CellKind(i, f)' = CellKind(i, f)
         /\ Selected(reading.source)' = Selected(reading.source)
         /\ \A n : RowsUpto(reading'.source, reading'.sheet, n) = RowsUpto(reading.source, reading.sheet, n)
<1>1. Table' = Table
  BY DEF Table
<1> QED
  BY <1>1 DEF CellKind

LEMMA FailsKeeps ==
  ASSUME ReadersIInv, NEW e \in ErrorTypes, Fails(e), ErrorIsFirst', InferredSchemaReads'
  PROVE  ReadersIInv'
<1>1. reading' = [reading EXCEPT !.phase = "failed", !.error = e]
  BY DEF Fails
<1>2. ReadersTypeOK
  BY DEF ReadersIInv
<1>3. /\ reading'.source = reading.source /\ reading'.sheet = reading.sheet
      /\ reading'.phase = "failed" /\ reading'.rows = reading.rows
  BY <1>1, <1>2 DEF ReadersTypeOK
<1>4. ReadersTypeOK'
  BY <1>1, <1>2 DEF ReadersTypeOK
<1>5. PhasesInOrder'
  BY <1>3 DEF PhasesInOrder, ReadersIInv
<1>6. ReadSoFar' /\ TypesHold' /\ SchemaHolds' /\ ColumnsAreThere'
  BY <1>3 DEF ReadSoFar, TypesHold, SchemaHolds, ColumnsAreThere
<1> QED
  BY <1>4, <1>5, <1>6 DEF ReadersIInv

\* Neither says anything before an error.
LEMMA NoErrorYet ==
  ASSUME reading'.phase # "failed"
  PROVE  ErrorIsFirst' /\ InferredSchemaReads'
BY DEF ErrorIsFirst, InferredSchemaReads

LEMMA EmptyHeader ==
  ASSUME NEW e \in ErrorTypes, ReadersTypeOK, Fails(e), e.row = 0, e.kind = "schema"
  PROVE  ErrorIsFirst'
<1>1. reading'.error = e
  BY DEF Fails, ReadersTypeOK
<1>2. /\ ~(reading'.error.row > 0 \/ reading'.error.kind = "csv")
      /\ reading'.error.kind # "parse"
  BY <1>1
<1> QED
  BY <1>2, Zenon DEF ErrorIsFirst

LEMMA ParseTextStep == ReadersIInv /\ ParseText => ReadersIInv'
<1> SUFFICES ASSUME ReadersIInv, ParseText PROVE ReadersIInv'
  OBVIOUS
<1>1. ReadersTypeOK /\ reading.phase = "text" /\ reading.source.format = "json_text"
  BY DEF ReadersIInv, ParseText, PhasesInOrder
<1>2. CASE reading.source.text = "rows"
  <2>1. reading' = [reading EXCEPT !.phase = "open"]
    BY <1>2 DEF ParseText
  <2>2. /\ reading'.source = reading.source /\ reading'.sheet = reading.sheet
        /\ reading'.phase = "open" /\ reading'.rows = reading.rows /\ reading'.at = reading.at
        /\ reading'.schema = reading.schema
    BY <1>1, <2>1 DEF ReadersTypeOK
  <2>3. ReadersTypeOK'
    BY <1>1, <2>1 DEF ReadersTypeOK
  <2>4. PhasesInOrder'
    BY <1>1, <2>2 DEF PhasesInOrder, ReadersIInv
  <2>5. TypesHold' /\ ColumnsAreThere' /\ ErrorIsFirst' /\ InferredSchemaReads'
    BY <2>2, NoErrorYet DEF TypesHold, ColumnsAreThere
  <2>6. ReadSoFar'
    BY <1>1, <2>2, NewTable DEF ReadSoFar, RowsBefore, ReadersIInv
  <2>7. SchemaHolds'
    <3>1. reading.source \in Sources
      BY <1>1 DEF ReadersTypeOK
    <3>2. reading.source.schema # <<>>
      BY <1>1, <3>1, SourcesAssumption
    <3> QED
      BY <2>2, <3>2 DEF SchemaHolds
  <2> QED
    BY <2>3, <2>4, <2>5, <2>6, <2>7 DEF ReadersIInv
<1>3. CASE reading.source.text # "rows"
  <2> DEFINE e == Error("schema", 0, "")
  <2>1. Fails(e) /\ e \in ErrorTypes /\ e.row = 0 /\ e.kind = "schema"
    BY <1>3 DEF ParseText, ErrorTypes, Error
  <2> HIDE DEF e
  <2>2. ErrorIsFirst'
    BY <1>1, <2>1, EmptyHeader
  <2>3. reading.source \in Sources /\ reading'.source = reading.source
    BY <1>1, <2>1 DEF ReadersTypeOK, Fails
  <2>4. reading.source.schema # <<>>
    BY <1>1, <2>3, SourcesAssumption
  <2>5. InferredSchemaReads'
    BY <2>3, <2>4 DEF InferredSchemaReads
  <2> QED
    BY <2>1, <2>2, <2>5, FailsKeeps
<1> QED
  BY <1>2, <1>3

LEMMA NoSheetsStep == ReadersIInv /\ NoSheets => ReadersIInv'
<1> SUFFICES ASSUME ReadersIInv, NoSheets PROVE ReadersIInv'
  OBVIOUS
<1> DEFINE e == Error("schema", 0, "")
<1>1. /\ Fails(e) /\ e \in ErrorTypes /\ e.row = 0 /\ e.kind = "schema"
      /\ ReadersTypeOK /\ Selected(reading.source) = <<>>
  BY DEF NoSheets, ErrorTypes, Error, ReadersIInv
<1> HIDE DEF e
<1>2. reading'.source = reading.source
  BY <1>1 DEF ReadersTypeOK, Fails
<1>3. ErrorIsFirst'
  BY <1>1, EmptyHeader
<1>4. InferredSchemaReads'
  BY <1>1, <1>2 DEF InferredSchemaReads
<1> QED
  BY <1>1, <1>3, <1>4, FailsKeeps

LEMMA TableHere ==
  ASSUME ReadersTypeOK, PhasesInOrder, Selected(reading.source) # <<>>,
         reading.phase \in {"infer", "open", "rows", "columns"}
  PROVE  /\ reading.source \in Sources
         /\ reading.sheet \in 1..Len(Selected(reading.source))
         /\ Table = reading.source.tables[Selected(reading.source)[reading.sheet]]
         /\ Table \in TablesIn(reading.source.format)
         /\ Len(Table.header) \in Nat /\ Len(Table.rows) \in Nat
<1>1. reading.source \in Sources /\ reading.sheet \in Nat \ {0}
  BY DEF ReadersTypeOK
<1>2. Selected(reading.source) \in Seq(1..Len(reading.source.tables))
  BY <1>1, SelectedIs
<1>3. Len(Selected(reading.source)) \in Nat \ {0}
  BY <1>2
<1>4. reading.sheet <= Len(Selected(reading.source))
  BY <1>1, <1>3 DEF PhasesInOrder
<1>5. /\ Table = reading.source.tables[Selected(reading.source)[reading.sheet]]
      /\ Table \in TablesIn(reading.source.format)
  BY <1>1, <1>4, TableIs
<1>6. Table.header \in Seq(STRING) /\ Table.rows \in Seq(Seq(Cells(reading.source.format)))
  BY <1>5 DEF TablesIn
<1> QED
  BY <1>1, <1>3, <1>4, <1>5, <1>6

\* While rows are read there is a sheet.
LEMMA SheetHere ==
  ASSUME ReadersTypeOK, PhasesInOrder, reading.phase \in {"rows", "columns"}
  PROVE  Selected(reading.source) # <<>>
<1>1. reading.source \in Sources /\ reading.sheet \in Nat \ {0}
  BY DEF ReadersTypeOK
<1>2. Len(Selected(reading.source)) >= 1
  BY <1>1 DEF PhasesInOrder
<1> QED
  BY <1>2

LEMMA OpenTableStep == ReadersIInv /\ OpenTable => ReadersIInv'
<1> SUFFICES ASSUME ReadersIInv, OpenTable PROVE ReadersIInv'
  OBVIOUS
<1> DEFINE missing == {k \in 1..Len(reading.schema) :
                         \A c \in 1..Len(Table.header) : Table.header[c] # reading.schema[k].name}
           format == reading.source.format
<1>1. /\ ReadersTypeOK /\ PhasesInOrder /\ reading.phase = "open" /\ reading.at = 0
      /\ Selected(reading.source) # <<>>
  BY DEF ReadersIInv, OpenTable, SheetIn, PhasesInOrder
<1>2. /\ reading.source \in Sources
      /\ reading.sheet \in 1..Len(Selected(reading.source))
      /\ Len(Table.header) \in Nat /\ Len(Table.rows) \in Nat
      /\ format \in ByRow \cup ByColumn
  BY <1>1, TableHere, SourcesAssumption
<1>3. reading.schema \in Seq(Fields) /\ Len(reading.schema) \in Nat
  BY <1>1 DEF ReadersTypeOK
<1>4. MissingField = FirstIn(missing)
  BY DEF MissingField, FirstWhere, SelectInSeq, FirstIn
<1>5. \/ MissingField = 0 /\ missing = {}
      \/ MissingField \in missing /\ MissingField \in 1..Len(reading.schema)
  <2>1. missing \in SUBSET (1..Len(reading.schema))
    OBVIOUS
  <2> HIDE DEF missing
  <2> QED
    BY <1>3, <1>4, <2>1, FirstInIs
<1>6. CASE format # "json_text" /\ MissingField # 0
  <2> DEFINE field == reading.schema[MissingField]
             e == Error("schema", 0, field.name)
  <2>1. field \in Fields /\ \A c \in 1..Len(Table.header) : Table.header[c] # field.name
    BY <1>3, <1>5, <1>6
  <2>2. Fails(e) /\ e \in ErrorTypes /\ e.row = 0 /\ e.kind = "schema"
    <3>1. Fails(e)
      BY <1>6 DEF OpenTable
    <3> HIDE DEF field
    <3>2. field.name \in STRING
      BY <2>1 DEF Fields
    <3> QED
      BY <3>1, <3>2 DEF ErrorTypes, Error
  <2> HIDE DEF e
  <2>3. ErrorIsFirst'
    BY <1>1, <2>2, EmptyHeader
  <2>4. /\ reading'.source = reading.source /\ reading'.sheet = reading.sheet
    BY <1>1, <2>2 DEF ReadersTypeOK, Fails
  <2>5. reading.source.schema = <<>> => reading.sheet > 1
    <3> SUFFICES ASSUME reading.source.schema = <<>>, reading.sheet = 1 PROVE FALSE
      BY <1>2
    <3>1. Table = reading.source.tables[Selected(reading.source)[1]]
      BY DEF Table
    <3>2. \E c \in 1..Len(Table.header) : Table.header[c] = field.name
      BY <1>1, <1>5, <1>6, <3>1 DEF SchemaHolds, ReadersIInv
    <3> QED
      BY <2>1, <3>2
  <2>6. InferredSchemaReads'
    BY <2>4, <2>5 DEF InferredSchemaReads
  <2> QED
    BY <2>2, <2>3, <2>6, FailsKeeps
<1>7. CASE ~(format # "json_text" /\ MissingField # 0)
  <2>1. reading' = [reading EXCEPT !.at = 0, !.phase = IF format \in ByRow THEN "rows" ELSE "columns"]
    BY <1>7 DEF OpenTable
  <2>2. /\ reading'.source = reading.source /\ reading'.sheet = reading.sheet
        /\ reading'.phase = (IF format \in ByRow THEN "rows" ELSE "columns")
        /\ reading'.rows = reading.rows /\ reading'.at = 0
        /\ reading'.schema = reading.schema
    BY <1>1, <2>1 DEF ReadersTypeOK
  <2>3. ReadersTypeOK'
    BY <1>1, <2>1 DEF ReadersTypeOK
  <2>4. Table' = Table
    BY <2>2, NewTable
  <2>5. PhasesInOrder'
    BY <1>1, <1>2, <2>2, <2>4 DEF PhasesInOrder
  <2>6. TypesHold' /\ ErrorIsFirst' /\ InferredSchemaReads'
    BY <2>2, NoErrorYet DEF TypesHold
  <2>7. ReadSoFar'
    BY <1>1, <2>2, NewTable DEF ReadSoFar, RowsBefore, ReadersIInv
  <2>8. SchemaHolds'
    BY <1>1, <2>2, NewTable DEF SchemaHolds, ReadersIInv
  <2>9. ColumnsAreThere'
    <3> SUFFICES ASSUME reading'.phase = "columns", NEW k \in 1..Len(reading.schema)
                 PROVE  \E c \in 1..Len(Table.header) : Table.header[c] = reading.schema[k].name
      BY <2>2, <2>4 DEF ColumnsAreThere
    <3>1. format # "json_text"
      BY <2>2 DEF ByRow
    <3>2. k \notin missing
      BY <1>5, <1>7, <3>1
    <3> QED
      BY <3>2
  <2> QED
    BY <2>3, <2>5, <2>6, <2>7, <2>8, <2>9 DEF ReadersIInv
<1> QED
  BY <1>6, <1>7

LEMMA SchemaKeeps ==
  ASSUME SchemaHolds, reading.phase \in {"open", "rows"},
         reading'.source = reading.source, reading'.schema = reading.schema
  PROVE  SchemaHolds'
BY DEF SchemaHolds

LEMMA FinishTableStep == ReadersIInv /\ FinishTable => ReadersIInv'
<1> SUFFICES ASSUME ReadersIInv, FinishTable PROVE ReadersIInv'
  OBVIOUS
<1> DEFINE source == reading.source
           sheets == Selected(source)
           places == RowsUpto(source, reading.sheet, reading.at)
<1>1. /\ ReadersTypeOK /\ PhasesInOrder /\ reading.phase = "rows"
      /\ reading.at = Len(Table.rows)
  BY DEF ReadersIInv, FinishTable
<1>2. /\ source \in Sources /\ reading.sheet \in 1..Len(sheets)
      /\ Table = source.tables[sheets[reading.sheet]] /\ sheets # <<>>
  BY <1>1, SheetHere, TableHere
<1>3. sheets \in Seq(1..Len(source.tables)) /\ Len(sheets) \in Nat
  BY <1>2, SelectedIs
<1>4. places = DataRows(source, SubSeq(sheets, 1, reading.sheet))
  <2>1. places = RowsUpto(source, reading.sheet, Len(source.tables[sheets[reading.sheet]].rows))
    BY <1>1, <1>2
  <2> HIDE DEF places
  <2>2. RowsUpto(source, reading.sheet, Len(source.tables[sheets[reading.sheet]].rows)) =
          DataRows(source, SubSeq(sheets, 1, reading.sheet))
    <3>1. 0 \in Nat
      OBVIOUS
    <3> QED
      BY <1>2, <3>1, RowsUptoIs
  <2> QED
    BY <2>1, <2>2
<1>5. RowsAre(source, reading.schema, reading.rows, places)
  BY <1>1 DEF ReadersIInv, ReadSoFar, RowsBefore
<1> HIDE DEF places
<1>6. CASE reading.sheet < Len(sheets)
  <2>1. reading' = [reading EXCEPT !.sheet = @ + 1, !.phase = "open", !.at = 0]
    BY <1>6 DEF FinishTable
  <2>2. /\ reading'.source = source /\ reading'.sheet = reading.sheet + 1
        /\ reading'.phase = "open" /\ reading'.at = 0
        /\ reading'.rows = reading.rows /\ reading'.schema = reading.schema
    BY <1>1, <2>1 DEF ReadersTypeOK
  <2>3. ReadersTypeOK'
    <3>1. reading.sheet + 1 \in Nat \ {0} /\ 0 \in Nat
      BY <1>1 DEF ReadersTypeOK
    <3> QED
      BY <1>1, <2>1, <3>1 DEF ReadersTypeOK
  <2>4. PhasesInOrder'
    <3>1. reading.sheet + 1 <= Len(sheets)
      BY <1>2, <1>3, <1>6
    <3> QED
      BY <2>2, <3>1 DEF PhasesInOrder
  <2>5. TypesHold' /\ ColumnsAreThere' /\ ErrorIsFirst' /\ InferredSchemaReads'
    BY <2>2, NoErrorYet DEF TypesHold, ColumnsAreThere
  <2>6. SchemaHolds'
    BY <1>1, <2>2, SchemaKeeps DEF ReadersIInv
  <2>7. RowsUpto(source, reading.sheet + 1, 0) = places
    <3>1. reading.sheet + 1 \in 1..Len(sheets) /\ 0 \in Nat /\ (reading.sheet + 1) - 1 = reading.sheet
      BY <1>2, <1>3, <1>6
    <3>2. RowsUpto(source, reading.sheet + 1, 0) =
            DataRows(source, SubSeq(sheets, 1, (reading.sheet + 1) - 1))
      BY <1>2, <3>1, RowsUptoIs
    <3> QED
      BY <1>4, <3>1, <3>2
  <2>8. ReadSoFar'
    <3>1. RowsBefore' = RowsUpto(source, reading.sheet + 1, 0)
      BY <2>2 DEF RowsBefore
    <3> QED
      BY <1>5, <2>2, <2>7, <3>1 DEF ReadSoFar
  <2> QED
    BY <2>3, <2>4, <2>5, <2>6, <2>8 DEF ReadersIInv
<1>7. CASE ~(reading.sheet < Len(sheets))
  <2>1. reading' = [reading EXCEPT !.phase = "done"]
    BY <1>7 DEF FinishTable
  <2>2. /\ reading'.source = source /\ reading'.sheet = reading.sheet /\ reading'.phase = "done"
        /\ reading'.rows = reading.rows /\ reading'.schema = reading.schema
    BY <1>1, <2>1 DEF ReadersTypeOK
  <2>3. ReadersTypeOK'
    BY <1>1, <2>1 DEF ReadersTypeOK
  <2>4. PhasesInOrder'
    BY <1>1, <1>2, <2>2 DEF PhasesInOrder
  <2>5. TypesHold' /\ ColumnsAreThere' /\ ErrorIsFirst' /\ InferredSchemaReads' /\ SchemaHolds'
    BY <2>2, NoErrorYet DEF TypesHold, ColumnsAreThere, SchemaHolds
  <2>6. SubSeq(sheets, 1, reading.sheet) = sheets
    <3>1. reading.sheet = Len(sheets)
      BY <1>2, <1>3, <1>7
    <3> QED
      BY <1>3, <3>1, SubSeqFull
  <2>7. ReadSoFar'
    BY <1>4, <1>5, <2>2, <2>6 DEF ReadSoFar
  <2> QED
    BY <2>3, <2>4, <2>5, <2>7 DEF ReadersIInv
<1> QED
  BY <1>6, <1>7

\* The cell under a field, as the properties say it.
LEMMA KindIs ==
  ASSUME NEW source \in Sources, reading.source = source,
         reading.sheet \in 1..Len(Selected(source)),
         NEW i, NEW f, CellKind(i, f) # "absent"
  PROVE  LET t == Selected(source)[reading.sheet]
         IN  /\ KindUnder(source.tables[t], f, i) = CellKind(i, f)
             /\ IsFirst(ColumnOf(Table, f.name), f, source.tables[t])
             /\ ColumnOf(Table, f.name) \in 1..Len(Table.header)
             /\ CellKind(i, f) = Table.rows[i][ColumnOf(Table, f.name)]
<1> DEFINE t == Selected(source)[reading.sheet]
<1>1. Table = source.tables[t] /\ Table \in TablesIn(source.format)
  <2>1. reading.sheet \in Nat \ {0} /\ reading.sheet <= Len(Selected(source))
    <3>1. Selected(source) \in Seq(1..Len(source.tables))
      BY SelectedIs
    <3> QED
      BY <3>1
  <2> QED
    BY <2>1, TableIs
<1>2. Len(Table.header) \in Nat
  <2>1. Table.header \in Seq(STRING)
    BY <1>1 DEF TablesIn
  <2> QED
    BY <2>1
<1>3. /\ \E c \in 1..Len(Table.header) : Table.header[c] = f.name
      /\ CellKind(i, f) = Table.rows[i][ColumnOf(Table, f.name)]
  BY DEF CellKind
<1>4. /\ IsFirst(ColumnOf(Table, f.name), f, Table)
      /\ (CHOOSE c \in Columns1(Table, f) : IsFirst(c, f, Table)) = ColumnOf(Table, f.name)
  BY <1>2, <1>3, FirstIsColumn
<1>5. ColumnOf(Table, f.name) \in 1..Len(Table.header)
  BY <1>2, <1>3, ColumnIs
<1>6. KindUnder(Table, f, i) = CellKind(i, f)
  BY <1>3, <1>4 DEF KindUnder
<1> QED
  BY <1>1, <1>3, <1>4, <1>5, <1>6

\* What it becomes: its place, or Null where that is allowed.
Nullable(source, kind) ==
  \/ IsBlank(kind)
  \/ source.format = "parquet" /\ kind = "big"
  \/ /\ source.format \in {"csv_file", "json_file"}
     /\ kind \in {"word", "yes", "frac", "big"}

LEMMA CellOut ==
  ASSUME NEW source \in Sources, reading.source = source,
         reading.sheet \in 1..Len(Selected(source)),
         NEW i \in Nat, NEW f, CellKind(i, f) # "absent", NEW cell,
         \/ cell = <<>> /\ Nullable(source, CellKind(i, f))
         \/ /\ cell = Place(i, f) /\ ~IsBlank(CellKind(i, f))
            /\ source.format \in ByRow => Converts(source.format, f.type, CellKind(i, f))
  PROVE  /\ CellIs(source, f, cell, <<Selected(source)[reading.sheet], i>>)
         /\ cell \in Seq(Nat)
<1> DEFINE t == Selected(source)[reading.sheet]
           c == ColumnOf(Table, f.name)
           kind == KindUnder(source.tables[t], f, i)
<1>1. /\ kind = CellKind(i, f) /\ IsFirst(c, f, source.tables[t])
      /\ c \in Nat
  <2>1. c \in 1..Len(Table.header)
    BY KindIs
  <2>2. c \in Nat
    BY <2>1
  <2>3. kind = CellKind(i, f) /\ IsFirst(c, f, source.tables[t])
    BY KindIs
  <2> QED
    BY <2>2, <2>3
<1>2. t \in Nat
  <2>1. Selected(source) \in Seq(1..Len(source.tables))
    BY SelectedIs
  <2>2. t \in 1..Len(source.tables)
    BY <2>1
  <2> QED
    BY <2>2
<1>3. Place(i, f) = <<t, i, c>>
  BY DEF Place
<1> DEFINE place == <<t, i>>
<1>4. place[1] = t /\ place[2] = i
  OBVIOUS
<1> HIDE DEF c, kind
<1>5. CellIs(source, f, cell, place) <=>
        IF cell = <<>> THEN Nullable(source, kind)
        ELSE /\ <<cell[1], cell[2]>> = place
             /\ IsFirst(cell[3], f, source.tables[t]) /\ ~IsBlank(kind)
             /\ source.format \in ByRow => Converts(source.format, f.type, kind)
  <2> HIDE DEF place, t
  <2> QED
    BY <1>4 DEF CellIs, Nullable, kind
<1>6. CASE cell = <<>> /\ Nullable(source, CellKind(i, f))
  BY <1>1, <1>5, <1>6
<1>7. CASE /\ cell = Place(i, f) /\ ~IsBlank(CellKind(i, f))
           /\ source.format \in ByRow => Converts(source.format, f.type, CellKind(i, f))
  <2> HIDE DEF t
  <2>1. cell = <<t, i, c>> /\ cell # <<>> /\ cell \in Seq(Nat)
    BY <1>1, <1>2, <1>3, <1>7
  <2>2. cell[1] = t /\ cell[2] = i /\ cell[3] = c
    BY <2>1
  <2>3. <<cell[1], cell[2]>> = place
    BY <2>2 DEF place
  <2>4. CellIs(source, f, cell, place)
    BY <1>1, <1>5, <1>7, <2>1, <2>2, <2>3
  <2> QED
    BY <2>1, <2>4 DEF place, t
<1> QED
  BY <1>6, <1>7

LEMMA TableRow ==
  ASSUME NEW format, NEW table \in TablesIn(format), NEW i \in 1..Len(table.rows)
  PROVE  /\ table.rows[i] \in Seq(Cells(format))
         /\ format \notin {"json_text", "csv_reader"} => Len(table.rows[i]) = Len(table.header)
         /\ Len(table.header) \in Nat
<1>1. table.rows \in Seq(Seq(Cells(format))) /\ table.header \in Seq(STRING)
  BY DEF TablesIn
<1>2. format \notin {"json_text", "csv_reader"} => Len(table.rows[i]) = Len(table.header)
  BY DEF TablesIn, IsRecord
<1> QED
  BY <1>1, <1>2

LEMMA CellIn ==
  ASSUME NEW A, NEW s \in Seq(A), NEW n \in Nat, Len(s) = n, NEW c \in 1..n
  PROVE  s[c] \in A /\ s # <<>>
<1>1. c \in 1..Len(s) /\ Len(s) > 0
  OBVIOUS
<1> QED
  BY <1>1

\* The row of the files that is read, and what a good one of them becomes.
LEMMA RowOutIs ==
  ASSUME NEW source \in Sources, reading.source = source,
         reading.sheet \in 1..Len(Selected(source)), NEW i \in Nat,
         reading.schema \in Seq(Fields),
         \A k \in 1..Len(reading.schema) : ~BadCell(i, reading.schema[k])
  PROVE  /\ RowIs(source, reading.schema, RowOut(i), <<Selected(source)[reading.sheet], i>>)
         /\ RowOut(i) \in Seq(Seq(Nat))
<1> DEFINE schema == reading.schema
           cell(k) == IF IsBlank(CellKind(i, schema[k])) THEN <<>> ELSE Place(i, schema[k])
           place == <<Selected(source)[reading.sheet], i>>
<1>1. ASSUME NEW k \in 1..Len(schema)
      PROVE  CellIs(source, schema[k], cell(k), place) /\ cell(k) \in Seq(Nat)
  <2> DEFINE f == schema[k]
             kind == CellKind(i, f)
             c == cell(k)
  <2>1. /\ kind # "absent"
        /\ IsBlank(kind) \/ Converts(source.format, f.type, kind)
    BY DEF BadCell
  <2>2. \/ c = <<>> /\ Nullable(source, kind)
        \/ /\ c = Place(i, f) /\ ~IsBlank(kind)
           /\ source.format \in ByRow => Converts(source.format, f.type, kind)
    BY <2>1 DEF Nullable
  <2> HIDE DEF c, f
  <2>3. CellIs(source, f, c, place) /\ c \in Seq(Nat)
    BY <2>1, <2>2, CellOut
  <2> QED
    BY <2>3 DEF c, f
<1> HIDE DEF place
<1>2. RowOut(i) = [k \in 1..Len(schema) |-> cell(k)] /\ Len(schema) \in Nat
  BY DEF RowOut
<1> HIDE DEF cell, schema
<1>3. RowIs(source, schema, RowOut(i), place)
  <2> SUFFICES ASSUME NEW k \in 1..Len(schema) PROVE CellIs(source, schema[k], RowOut(i)[k], place)
    BY DEF RowIs
  <2>1. RowOut(i)[k] = cell(k)
    BY <1>2
  <2> QED
    BY <1>1, <2>1
<1>4. RowOut(i) \in Seq(Seq(Nat))
  <2> DEFINE A == Seq(Nat)
  <2>1. \A k \in 1..Len(schema) : cell(k) \in A
    BY <1>1
  <2> HIDE DEF A
  <2> QED
    BY <1>2, <2>1 DEF A
<1> QED
  BY <1>3, <1>4 DEF place, schema

LEMMA InferredHolds ==
  ASSUME ReadersIInv, reading.phase = "rows", reading.source.schema = <<>>, reading.sheet = 1,
         \A c, d \in 1..Len(Table.header) :
           Table.header[c] # "" /\ Table.header[c] = Table.header[d] => c = d,
         NEW i \in 1..Len(Table.rows), NEW k \in 1..Len(reading.schema)
  PROVE  ~BadCell(i, reading.schema[k])
<1> DEFINE f == reading.schema[k]
<1>1. /\ ReadersTypeOK /\ PhasesInOrder
      /\ SchemaHolds
  BY DEF ReadersIInv
<1>2. /\ reading.source \in Sources /\ Table \in TablesIn(reading.source.format)
      /\ Table = reading.source.tables[Selected(reading.source)[reading.sheet]]
      /\ Len(Table.header) \in Nat
  BY <1>1, SheetHere, TableHere
<1>3. reading.source.format = "excel"
  BY <1>2, SourcesAssumption
<1>4. PICK c \in 1..Len(Table.header) :
        /\ Table.header[c] # "" /\ Table.header[c] = f.name
        /\ Holds(f.type, Table.rows[i][c])
  BY <1>1, <1>2 DEF SchemaHolds
<1>5. /\ Table.rows[i] \in Seq(Cells("excel")) /\ Len(Table.rows[i]) = Len(Table.header)
      /\ Table.rows[i] # <<>>
  <2>1. /\ Table.rows[i] \in Seq(Cells("excel")) /\ Len(Table.rows[i]) = Len(Table.header)
    BY <1>2, <1>3, TableRow
  <2> QED
    BY <1>2, <2>1, CellIn
<1>6. ColumnOf(Table, f.name) = c
  <2>1. /\ ColumnOf(Table, f.name) \in 1..Len(Table.header)
        /\ Table.header[ColumnOf(Table, f.name)] = f.name
    <3> DEFINE name == f.name
               table == Table
    <3>1. \E d \in 1..Len(Table.header) : Table.header[d] = name
      BY <1>4
    <3>2. Len(table.header) \in Nat
      BY <1>2
    <3> HIDE DEF name, table
    <3>3. \E d \in 1..Len(table.header) : table.header[d] = name
      BY <3>1 DEF table
    <3>4. /\ ColumnOf(table, name) \in 1..Len(table.header)
          /\ table.header[ColumnOf(table, name)] = name
      BY <3>2, <3>3, ColumnIs
    <3> QED
      BY <3>4 DEF name, table
  <2> QED
    BY <1>4, <2>1
<1>7. CellKind(i, f) = Table.rows[i][c]
  BY <1>4, <1>5, <1>6 DEF CellKind
<1>8. CellKind(i, f) # "absent"
  <2>1. Table.rows[i][c] \in Cells("excel")
    BY <1>2, <1>5, CellIn
  <2> QED
    BY <1>7, <2>1 DEF Cells
<1> QED
  BY <1>3, <1>4, <1>7, <1>8 DEF BadCell, Holds, IsBlank, Converts

\* Nothing is promised of a sheet that is not the first, nor of ambiguous names.
LEMMA ReadsLater ==
  ASSUME NEW n \in Nat \ {0}, n # 1, reading'.sheet = n
  PROVE  InferredSchemaReads'
<1>1. n > 1
  OBVIOUS
<1>2. reading'.sheet > 1
  BY <1>1
<1> QED
  BY <1>2 DEF InferredSchemaReads

LEMMA NoNames ==
  ASSUME NEW source, reading'.source = source, Selected(source) # <<>>,
         {c \in 1..Len(source.tables[Selected(source)[1]].header) :
            source.tables[Selected(source)[1]].header[c] # ""} = {}
  PROVE  InferredSchemaReads'
BY DEF InferredSchemaReads

LEMMA ReadsUnlessClear ==
  ASSUME NEW source, reading'.source = source, Selected(source) # <<>>,
         ~(source.schema = <<>> /\ \A c, d \in 1..Len(source.tables[Selected(source)[1]].header) :
             LET header == source.tables[Selected(source)[1]].header
             IN  header[c] # "" /\ header[c] = header[d] => c = d)
  PROVE  InferredSchemaReads'
<1> DEFINE header == source.tables[Selected(source)[1]].header
           named == {c \in 1..Len(header) : header[c] # ""}
<1>1. CASE source.schema # <<>>
  BY <1>1 DEF InferredSchemaReads
<1>2. CASE ~ \A c, d \in 1..Len(header) : header[c] # "" /\ header[c] = header[d] => c = d
  <2>1. ~ \A c, d \in named : header[c] = header[d] => c = d
    <3> SUFFICES ASSUME \A c, d \in named : header[c] = header[d] => c = d,
                        NEW c \in 1..Len(header), NEW d \in 1..Len(header),
                        header[c] # "", header[c] = header[d]
                 PROVE  c = d
      BY <1>2
    <3> HIDE DEF header
    <3>1. c \in named /\ d \in named
      OBVIOUS
    <3> QED
      BY <3>1
  <2>2. InferredSchemaReads' =
          LET its == IF Selected(reading'.source) = <<>> THEN <<>>
                     ELSE reading'.source.tables[Selected(reading'.source)[1]].header
              all == {c \in 1..Len(its) : its[c] # ""}
          IN  (reading'.source.schema = <<>> /\ reading'.phase = "failed"
                 /\ \A c, d \in all : its[c] = its[d] => c = d) =>
                reading'.sheet > 1 \/ all = {}
    BY Zenon DEF InferredSchemaReads
  <2> DEFINE its == IF Selected(reading'.source) = <<>> THEN <<>>
                    ELSE reading'.source.tables[Selected(reading'.source)[1]].header
             all == {c \in 1..Len(its) : its[c] # ""}
  <2>3. its = header
    OBVIOUS
  <2>4. all = named
    BY <2>3
  <2>5. ~ \A c, d \in all : its[c] = its[d] => c = d
    <3> HIDE DEF its, all, header, named
    <3> QED
      BY <2>1, <2>3, <2>4
  <2> HIDE DEF its, all
  <2>6. InferredSchemaReads' <=>
          ((reading'.source.schema = <<>> /\ reading'.phase = "failed"
                 /\ \A c, d \in all : its[c] = its[d] => c = d) =>
                reading'.sheet > 1 \/ all = {})
    BY <2>2 DEF its, all
  <2> QED
    BY <2>5, <2>6
<1> QED
  BY <1>1, <1>2

LEMMA RowFails ==
  ASSUME ReadersIInv, reading.phase = "rows", reading.at < Len(Table.rows),
         IsRecord(Table, reading.at + 1),
         NEW bad \in 1..Len(reading.schema), BadCell(reading.at + 1, reading.schema[bad]),
         \A j \in 1..(bad - 1) : ~BadCell(reading.at + 1, reading.schema[j]),
         Fails(Error(IF CellKind(reading.at + 1, reading.schema[bad]) = "absent"
                     THEN "schema" ELSE "parse",
                     UserRow(reading.source, reading.at + 1), reading.schema[bad].name))
  PROVE  ReadersIInv'
<1> DEFINE i == reading.at + 1
           field == reading.schema[bad]
           e == Error(IF CellKind(i, field) = "absent" THEN "schema" ELSE "parse",
                      UserRow(reading.source, i), field.name)
           source == reading.source
<1>1. /\ ReadersTypeOK /\ PhasesInOrder /\ source.format \in ByRow
      /\ ReadSoFar /\ reading.at \in Nat /\ reading.schema \in Seq(Fields)
  BY DEF ReadersIInv, PhasesInOrder, ReadersTypeOK
<1>2. /\ source \in Sources /\ reading.sheet \in 1..Len(Selected(source))
      /\ Table \in TablesIn(source.format) /\ Len(Table.rows) \in Nat
      /\ Table = source.tables[Selected(source)[reading.sheet]]
  BY <1>1, SheetHere, TableHere
<1>4. field.name \in STRING
  <2>1. field \in Fields
    BY <1>1
  <2> QED
    BY <2>1 DEF Fields
<1>5. e \in ErrorTypes /\ Fails(e) /\ e.column = field.name
      /\ e.row = UserRow(source, i) /\ e.kind # "csv"
  <2>1. UserRow(source, i) \in Nat
    BY <1>1 DEF UserRow
  <2>2. (IF CellKind(i, field) = "absent" THEN "schema" ELSE "parse") \in {"schema", "parse"}
    OBVIOUS
  <2> QED
    BY <1>4, <2>1, <2>2 DEF ErrorTypes, Error
<1> HIDE DEF e
<1>6. /\ reading'.source = source /\ reading'.sheet = reading.sheet
      /\ reading'.at = reading.at /\ reading'.schema = reading.schema
      /\ reading'.rows = reading.rows /\ reading'.error = e /\ reading'.phase = "failed"
  BY <1>1, <1>5 DEF ReadersTypeOK, Fails
<1>7. Table' = Table /\ (\A n, f : CellKind(n, f)' = CellKind(n, f))
      /\ RowsBefore' = RowsBefore
  BY <1>6, NewTable DEF RowsBefore
<1> DEFINE wrong(k) == /\ ~IsBlank(CellKind(i, reading.schema[k]))
                       /\ \/ CellKind(i, reading.schema[k]) = "absent"
                          \/ ~Converts(source.format, reading.schema[k].type,
                                       CellKind(i, reading.schema[k]))
<1>8. /\ wrong(bad) /\ \A j \in 1..(bad - 1) : ~wrong(j)
  BY DEF BadCell, IsBlank
<1>9. Len(reading.rows) = Len(RowsBefore)
  BY <1>1 DEF ReadSoFar, RowsAre
<1>10. e.row = IF source.format = "json_text" THEN i ELSE i + 1
  BY <1>1, <1>5 DEF UserRow, ByRow
<1>11. source.format \notin ByColumn
  BY <1>1 DEF ByRow, ByColumn
<1>12. ErrorIsFirst'
  <2>1. /\ Len(reading'.rows) = Len(RowsBefore')
        /\ reading'.error.row = (CASE reading'.error.kind = "csv" -> 0
                                   [] reading'.source.format = "json_text" -> reading'.at + 1
                                   [] OTHER -> (reading'.at + 1) + 1)
        /\ IsRecord(Table, reading.at + 1)' /\ reading'.error.kind # "csv"
        /\ \E k \in 1..Len(reading'.schema) :
             /\ reading'.error.column = reading'.schema[k].name
             /\ wrong(k) /\ \A j \in 1..(k - 1) : ~wrong(j)
    <3>1. reading'.error.row = IF source.format = "json_text" THEN i ELSE i + 1
      BY <1>6, <1>10
    <3>2. IsRecord(Table, reading.at + 1)'
      BY <1>6, <1>7 DEF IsRecord
    <3>3. \E k \in 1..Len(reading'.schema) :
             /\ reading'.error.column = reading'.schema[k].name
             /\ wrong(k) /\ \A j \in 1..(k - 1) : ~wrong(j)
      BY <1>5, <1>6, <1>8
    <3> QED
      BY <1>5, <1>6, <1>7, <1>9, <3>1, <3>2, <3>3
  <2>2. \A k : wrong(k) <=>
          /\ ~IsBlank(CellKind(reading.at + 1, reading.schema[k])')
          /\ \/ CellKind(reading.at + 1, reading.schema[k])' = "absent"
             \/ ~Converts(reading'.source.format, reading'.schema[k].type,
                          CellKind(reading.at + 1, reading.schema[k])')
    BY <1>6, <1>7
  <2> HIDE DEF wrong
  <2> QED
    BY <1>6, <1>11, <2>1, <2>2 DEF ErrorIsFirst
<1>13. i \in 1..Len(Table.rows)
  <2> DEFINE n == Len(Table.rows)
             m == reading.at
  <2>1. m \in Nat /\ n \in Nat /\ m < n
    BY <1>1, <1>2
  <2> HIDE DEF n, m
  <2>2. m + 1 \in 1..n
    BY <2>1
  <2> QED
    BY <2>2 DEF n, m
<1>14. InferredSchemaReads'
  <2> SUFFICES ASSUME source.schema = <<>>, reading.sheet = 1,
                      \A c, d \in 1..Len(Table.header) :
                        Table.header[c] # "" /\ Table.header[c] = Table.header[d] => c = d
               PROVE  FALSE
    <3>1. Table = source.tables[Selected(source)[reading.sheet]]
      BY <1>2
    <3>2. Selected(source) # <<>>
      BY <1>1, SheetHere
    <3>3. reading.sheet \in Nat \ {0}
      BY <1>1 DEF ReadersTypeOK
    <3>4. CASE reading.sheet # 1
      <4>1. reading'.sheet = reading.sheet
        BY <1>6
      <4> QED
        BY <3>3, <3>4, <4>1, ReadsLater
    <3>5. CASE reading.sheet = 1
      <4> DEFINE header == source.tables[Selected(source)[1]].header
      <4>1. header = Table.header
        BY <3>1, <3>5
      <4>2. ~(source.schema = <<>> /\ \A c, d \in 1..Len(header) :
                header[c] # "" /\ header[c] = header[d] => c = d)
        BY <3>5, <4>1
      <4> QED
        BY <1>6, <3>2, <4>2, ReadsUnlessClear
    <3> QED
      BY <3>4, <3>5
  <2> QED
    BY <1>13, InferredHolds
<1> QED
  BY <1>5, <1>12, <1>14, FailsKeeps

\* A row that is none is an error of its own, and of no column.
LEMMA NoRecordFails ==
  ASSUME ReadersIInv, reading.phase = "rows", reading.at < Len(Table.rows),
         ~IsRecord(Table, reading.at + 1), Fails(NoRecord(reading.source, reading.at + 1))
  PROVE  ReadersIInv'
<1> DEFINE i == reading.at + 1
           source == reading.source
           e == NoRecord(source, i)
           own == IF source.format = "json_text" THEN i ELSE 0
<1>1. /\ ReadersTypeOK /\ PhasesInOrder /\ source.format \in ByRow /\ ReadSoFar
      /\ reading.at \in Nat
  BY DEF ReadersIInv, PhasesInOrder, ReadersTypeOK
<1>2. source \in Sources /\ Table \in TablesIn(source.format) /\ Len(Table.rows) \in Nat
  BY <1>1, SheetHere, TableHere
<1>3. source.format \in {"json_text", "csv_reader"}
  <2>1. i \in 1..Len(Table.rows)
    <3> DEFINE n == Len(Table.rows)
               m == reading.at
    <3>1. m \in Nat /\ n \in Nat /\ m < n
      BY <1>1, <1>2
    <3> HIDE DEF n, m
    <3>2. m + 1 \in 1..n
      BY <3>1
    <3> QED
      BY <3>2 DEF n, m
  <2>2. IsRecord(Table, i) \/ source.format \in {"json_text", "csv_reader"}
    <3> HIDE DEF i, source
    <3> QED
      BY <1>2, <2>1 DEF TablesIn, source
  <2> QED
    BY <2>2
<1>4. /\ e.row = own /\ e.column = "" /\ e \in ErrorTypes /\ Fails(e)
      /\ e.kind = IF source.format = "json_text" THEN "schema" ELSE "csv"
  <2> DEFINE kind == IF source.format = "json_text" THEN "schema" ELSE "csv"
  <2>1. i \in Nat /\ Fails(e)
    BY <1>1
  <2>2. e = Error(kind, own, "")
    BY <1>3 DEF NoRecord, UserRow
  <2>3. own \in Nat /\ kind \in {"schema", "csv"}
    BY <2>1
  <2> HIDE DEF own, e, kind
  <2>4. e.row = own /\ e.column = "" /\ e \in ErrorTypes /\ e.kind = kind
    BY <2>2, <2>3 DEF Error, ErrorTypes
  <2> QED
    BY <2>1, <2>4 DEF kind
<1> HIDE DEF e
<1>5. /\ reading'.source = source /\ reading'.sheet = reading.sheet /\ reading'.at = reading.at
      /\ reading'.rows = reading.rows /\ reading'.error = e /\ reading'.phase = "failed"
  BY <1>1, <1>4 DEF ReadersTypeOK, Fails
<1>6. Table' = Table /\ RowsBefore' = RowsBefore
  BY <1>5, NewTable DEF RowsBefore
<1>7. Len(reading.rows) = Len(RowsBefore)
  BY <1>1 DEF ReadSoFar, RowsAre
<1>8. source.format \notin ByColumn
  BY <1>1 DEF ByRow, ByColumn
<1>9. ErrorIsFirst'
  <2>1. ~IsRecord(Table, reading.at + 1)'
    BY <1>5, <1>6 DEF IsRecord
  <2>2. reading'.error.row = (CASE reading'.error.kind = "csv" -> 0
                                [] reading'.source.format = "json_text" -> reading'.at + 1
                                [] OTHER -> (reading'.at + 1) + 1)
    BY <1>3, <1>4, <1>5
  <2> QED
    BY <1>4, <1>5, <1>6, <1>7, <1>8, <2>1, <2>2 DEF ErrorIsFirst
<1>10. source.schema # <<>>
  BY <1>2, <1>3, SourcesAssumption
<1>11. InferredSchemaReads'
  BY <1>5, <1>10 DEF InferredSchemaReads
<1> QED
  BY <1>4, <1>9, <1>11, FailsKeeps

LEMMA ReadTableRowStep == ReadersIInv /\ ReadTableRow => ReadersIInv'
<1> SUFFICES ASSUME ReadersIInv, ReadTableRow PROVE ReadersIInv'
  OBVIOUS
<1> DEFINE i == reading.at + 1
           source == reading.source
           bads == {k \in 1..Len(reading.schema) : BadCell(i, reading.schema[k])}
           bad == FirstIn(bads)
<1>1. /\ ReadersTypeOK /\ PhasesInOrder /\ reading.phase = "rows"
      /\ reading.at < Len(Table.rows) /\ reading.at \in Nat /\ reading.schema \in Seq(Fields)
      /\ reading.rows \in Seq(Seq(Seq(Nat))) /\ Len(reading.schema) \in Nat
  BY DEF ReadersIInv, ReadTableRow, ReadersTypeOK
<1>2. /\ source \in Sources /\ reading.sheet \in 1..Len(Selected(source))
      /\ Len(Table.rows) \in Nat
  BY <1>1, SheetHere, TableHere
<1>4. FirstWhere(LAMBDA f : BadCell(i, f)) = bad
  BY DEF FirstWhere, SelectInSeq, FirstIn
<1>3. \/ bad = 0 /\ \A k \in 1..Len(reading.schema) : ~BadCell(i, reading.schema[k])
      \/ /\ bad \in 1..Len(reading.schema) /\ BadCell(i, reading.schema[bad])
         /\ \A j \in 1..(bad - 1) : ~BadCell(i, reading.schema[j])
  <2>1. bads \in SUBSET (1..Len(reading.schema))
    OBVIOUS
  <2>2. \A k \in 1..Len(reading.schema) : k \in bads <=> BadCell(i, reading.schema[k])
    OBVIOUS
  <2> HIDE DEF bads
  <2>3. \/ bad = 0 /\ bads = {}
        \/ bad \in bads /\ bad \in 1..Len(reading.schema) /\ \A j \in 1..(bad - 1) : j \notin bads
    BY <1>1, <2>1, FirstInIs
  <2> HIDE DEF bad
  <2>4. bad \in 1..Len(reading.schema) =>
          \A j \in 1..(bad - 1) : j \in 1..Len(reading.schema)
    BY <1>1
  <2> QED
    BY <2>2, <2>3, <2>4
<1> HIDE DEF bad, bads
<1>5. CASE IsRecord(Table, i) /\ bad # 0
  <2>1. /\ bad \in 1..Len(reading.schema) /\ BadCell(i, reading.schema[bad])
        /\ \A j \in 1..(bad - 1) : ~BadCell(i, reading.schema[j])
    BY <1>3, <1>5
  <2> DEFINE fails(b) == Fails(Error(IF CellKind(i, reading.schema[b]) = "absent"
                                     THEN "schema" ELSE "parse",
                                     UserRow(source, i), reading.schema[b].name))
  <2>2. fails(bad)
    BY <1>4, <1>5 DEF ReadTableRow
  <2> QED
    BY <1>1, <1>5, <2>1, <2>2, RowFails
<1>6. CASE IsRecord(Table, i) /\ bad = 0
  <2>1. reading' = [reading EXCEPT !.at = i, !.rows = Append(@, RowOut(i))]
    BY <1>4, <1>6 DEF ReadTableRow
  <2>2. \A k \in 1..Len(reading.schema) : ~BadCell(i, reading.schema[k])
    BY <1>3, <1>6
  <2> DEFINE line == RowOut(i)
             place == <<Selected(source)[reading.sheet], i>>
             before == RowsUpto(source, reading.sheet, reading.at)
  <2>3. RowIs(source, reading.schema, line, place) /\ line \in Seq(Seq(Nat))
    <3>1. i \in Nat
      BY <1>1
    <3> HIDE DEF i, source
    <3>2. /\ RowIs(reading.source, reading.schema, RowOut(i), <<Selected(reading.source)[reading.sheet], i>>)
          /\ RowOut(i) \in Seq(Seq(Nat))
      BY <1>1, <1>2, <2>2, <3>1, RowOutIs DEF source
    <3> QED
      BY <3>2 DEF source
  <2> HIDE DEF line
  <2>4. /\ reading'.source = source /\ reading'.sheet = reading.sheet /\ reading'.phase = "rows"
        /\ reading'.at = i /\ reading'.rows = Append(reading.rows, line)
        /\ reading'.schema = reading.schema
    BY <1>1, <2>1 DEF ReadersTypeOK, line
  <2>5. ReadersTypeOK'
    <3>1. Append(reading.rows, line) \in Seq(Seq(Seq(Nat))) /\ i \in Nat
      BY <1>1, <2>3
    <3> QED
      BY <1>1, <2>1, <3>1 DEF ReadersTypeOK, line
  <2>6. Table' = Table
    BY <2>4, NewTable
  <2>7. PhasesInOrder'
    <3>1. i <= Len(Table.rows)
      BY <1>1, <1>2
    <3> QED
      BY <1>1, <2>4, <2>6, <3>1 DEF PhasesInOrder
  <2>8. TypesHold' /\ ErrorIsFirst' /\ InferredSchemaReads' /\ ColumnsAreThere'
    BY <2>4, NoErrorYet DEF TypesHold, ColumnsAreThere
  <2>9. SchemaHolds'
    BY <1>1, <2>4, SchemaKeeps DEF ReadersIInv
  <2>10. /\ before \in Seq(Nat \X Nat)
         /\ RowsUpto(source, reading.sheet, i) = Append(before, place)
    BY <1>1, <1>2, RowsUptoIs
  <2>11. place \in Nat \X Nat
    <3>1. Selected(source) \in Seq(1..Len(source.tables))
      BY <1>2, SelectedIs
    <3>2. Selected(source)[reading.sheet] \in 1..Len(source.tables)
      BY <1>2, <3>1
    <3> QED
      BY <1>1, <3>2
  <2>12. RowsAre(source, reading.schema, reading.rows, before)
    BY <1>1 DEF ReadersIInv, ReadSoFar, RowsBefore
  <2> HIDE DEF before, place
  <2>13. RowsAre(source, reading.schema, Append(reading.rows, line), Append(before, place))
    BY <1>1, <2>3, <2>10, <2>11, <2>12, RowsAppend
  <2>14. ReadSoFar'
    <3>1. RowsBefore' = Append(before, place)
      BY <2>4, <2>10 DEF RowsBefore
    <3> QED
      BY <2>4, <2>13, <3>1 DEF ReadSoFar
  <2> QED
    BY <2>5, <2>7, <2>8, <2>9, <2>14 DEF ReadersIInv
<1>7. CASE ~IsRecord(Table, i)
  <2>1. Fails(NoRecord(source, i))
    BY <1>7 DEF ReadTableRow
  <2> QED
    BY <1>1, <1>7, <2>1, NoRecordFails
<1> QED
  BY <1>5, <1>6, <1>7

\* A type that has been observed holds the new cell and those before it.
LEMMA ObservedHolds ==
  ASSUME NEW state \in CellTypes \cup {"Unknown"}, NEW kind \in Cells("excel")
  PROVE  /\ ObserveCell(state, kind) \in CellTypes \cup {"Unknown"}
         /\ Holds(ObserveCell(state, kind), kind)
         /\ \A other \in Cells("excel") :
              Holds(state, other) => Holds(ObserveCell(state, kind), other)
<1>1. /\ state \in {"Int64", "Float64", "Bool", "Utf8", "Unknown"}
      /\ kind \in {"empty", "bool", "int", "whole", "frac", "numeral", "word", "date"}
  BY DEF CellTypes, Cells
<1> DEFINE seen == IF kind = "bool" THEN "Bool"
                   ELSE IF kind \in {"int", "whole"} THEN "Int64"
                   ELSE IF kind = "frac" THEN "Float64"
                   ELSE "Utf8"
           type == ObserveCell(state, kind)
<1>2. \/ kind = "empty" /\ type = state
      \/ kind # "empty" /\ state = "Unknown" /\ type = seen
      \/ kind # "empty" /\ state = seen /\ type = seen
      \/ /\ kind # "empty" /\ state # seen /\ type = "Float64"
         /\ {state, seen} = {"Int64", "Float64"}
      \/ kind # "empty" /\ type = "Utf8"
  BY DEF ObserveCell, Observed1
<1>3. seen \in CellTypes /\ (kind # "empty" => Holds(seen, kind))
  BY <1>1 DEF CellTypes, Holds, ExcelConverts, Numeral
<1>4. \A other \in Cells("excel") : Holds("Utf8", other)
  BY DEF Cells, Holds, ExcelConverts, Numeral, CellTypes
<1>5. \A other \in Cells("excel") : Holds("Unknown", other) => other = "empty"
  BY DEF Cells, Holds, ExcelConverts, Numeral, CellTypes
<1>6. \A other \in Cells("excel") : Holds("Int64", other) => Holds("Float64", other)
  BY DEF Cells, Holds, ExcelConverts, Numeral, CellTypes
<1>7. \A one : Holds(one, "empty")
  BY DEF Holds
<1> HIDE DEF seen, type
<1>8. CASE kind = "empty" /\ type = state
  BY <1>7, <1>8 DEF type
<1>9. CASE kind # "empty" /\ state = "Unknown" /\ type = seen
  BY <1>3, <1>5, <1>7, <1>9 DEF type
<1>10. CASE kind # "empty" /\ state = seen /\ type = seen
  BY <1>3, <1>10 DEF type
<1>11. CASE /\ kind # "empty" /\ state # seen /\ type = "Float64"
            /\ {state, seen} = {"Int64", "Float64"}
  <2>1. \/ state = "Int64" /\ seen = "Float64"
        \/ state = "Float64" /\ seen = "Int64"
    BY <1>11
  <2>2. Holds("Float64", kind)
    BY <1>3, <1>6, <1>11, <2>1
  <2>3. \A other \in Cells("excel") : Holds(state, other) => Holds("Float64", other)
    BY <1>6, <2>1
  <2>4. "Float64" \in CellTypes
    BY DEF CellTypes
  <2> QED
    BY <1>11, <2>2, <2>3, <2>4 DEF type
<1>12. CASE kind # "empty" /\ type = "Utf8"
  <2>1. "Utf8" \in CellTypes
    BY DEF CellTypes
  <2> QED
    BY <1>4, <1>12, <2>1 DEF type
<1> QED
  BY <1>2, <1>8, <1>9, <1>10, <1>11, <1>12

\* A cell of a workbook.
LEMMA WorkbookCell ==
  ASSUME ReadersTypeOK, PhasesInOrder, reading.phase = "infer",
         Selected(reading.source) # <<>>,
         NEW i \in 1..Len(Table.rows), NEW c \in 1..Len(Table.header)
  PROVE  Table.rows[i][c] \in Cells("excel")
<1>1. /\ reading.source \in Sources /\ Table \in TablesIn(reading.source.format)
      /\ Len(Table.header) \in Nat
  BY TableHere
<1>2. reading.source.format = "excel"
  BY <1>1, SourcesAssumption DEF PhasesInOrder
<1>3. Table.rows[i] \in Seq(Cells("excel")) /\ Len(Table.rows[i]) = Len(Table.header)
  BY <1>1, <1>2, TableRow
<1> QED
  BY <1>1, <1>3, CellIn

LEMMA InferRowStep == ReadersIInv /\ InferRow => ReadersIInv'
<1> SUFFICES ASSUME ReadersIInv, InferRow PROVE ReadersIInv'
  OBVIOUS
<1> DEFINE i == reading.at + 1
           width == Len(Table.header)
           kind(c) == Table.rows[i][c]
           state(c) == IF reading.types = <<>> THEN "Unknown" ELSE reading.types[c]
           observed == [c \in 1..width |-> ObserveCell(state(c), kind(c))]
<1>1. /\ ReadersTypeOK /\ PhasesInOrder /\ TypesHold /\ reading.phase = "infer"
      /\ Selected(reading.source) # <<>> /\ reading.at < Len(Table.rows)
      /\ reading.sheet = 1 /\ reading.rows = <<>> /\ reading.source.schema = <<>>
  BY DEF ReadersIInv, InferRow, SheetIn, PhasesInOrder
<1>2. /\ reading.source \in Sources /\ width \in Nat /\ Len(Table.rows) \in Nat
      /\ reading.at \in Nat /\ reading.types \in Seq(CellTypes \cup {"Unknown"})
  BY <1>1, TableHere DEF ReadersTypeOK
<1>3. reading' = [reading EXCEPT !.at = i, !.types = observed]
  BY DEF InferRow
<1>4. i \in 1..Len(Table.rows) /\ i \in Nat
  BY <1>1, <1>2
<1>5. ASSUME NEW c \in 1..width PROVE state(c) \in CellTypes \cup {"Unknown"}
  <2>1. CASE reading.types = <<>>
    BY <2>1
  <2>2. CASE reading.types # <<>>
    <3>1. Len(reading.types) = width
      BY <1>1, <2>2 DEF TypesHold
    <3> QED
      BY <1>2, <2>2, <3>1
  <2> QED
    BY <2>1, <2>2
<1>6. ASSUME NEW c \in 1..width PROVE kind(c) \in Cells("excel")
  BY <1>1, <1>4, WorkbookCell
<1> HIDE DEF width, kind, state
<1>7. observed \in Seq(CellTypes \cup {"Unknown"}) /\ Len(observed) = width
  <2>1. \A c \in 1..width : ObserveCell(state(c), kind(c)) \in CellTypes \cup {"Unknown"}
    BY <1>5, <1>6, ObservedHolds
  <2> QED
    BY <1>2, <2>1
<1> HIDE DEF observed
<1>8. /\ reading'.source = reading.source /\ reading'.sheet = 1 /\ reading'.phase = "infer"
      /\ reading'.at = i /\ reading'.types = observed /\ reading'.rows = <<>>
      /\ reading'.schema = reading.schema
  BY <1>1, <1>3 DEF ReadersTypeOK
<1>9. Table' = Table
  BY <1>1, <1>8, NewTable
<1>10. ReadersTypeOK'
  BY <1>1, <1>3, <1>4, <1>7 DEF ReadersTypeOK
<1>11. PhasesInOrder'
  BY <1>1, <1>4, <1>8, <1>9 DEF PhasesInOrder
<1>12. ColumnsAreThere' /\ ReadSoFar' /\ SchemaHolds' /\ ErrorIsFirst' /\ InferredSchemaReads'
  BY <1>8, NoErrorYet DEF ColumnsAreThere, ReadSoFar, SchemaHolds
<1>13. ASSUME NEW c \in 1..width, NEW j \in 1..i
       PROVE  observed # <<>> /\ Holds(observed[c], Table.rows[j][c])
  <2>1. observed[c] = ObserveCell(state(c), kind(c))
    BY DEF observed
  <2>2. observed # <<>>
    BY <1>2, <1>7, CellIn
  <2>3. CASE j = i
    <3>1. Holds(ObserveCell(state(c), kind(c)), kind(c))
      BY <1>5, <1>6, ObservedHolds
    <3> QED
      BY <2>1, <2>2, <2>3, <3>1 DEF kind
  <2>4. CASE j # i
    <3>1. j \in 1..reading.at /\ j \in 1..Len(Table.rows)
      BY <1>1, <1>2, <2>4
    <3>2. reading.types # <<>> /\ Holds(reading.types[c], Table.rows[j][c])
      BY <1>1, <3>1 DEF TypesHold, width
    <3>3. Holds(state(c), Table.rows[j][c])
      BY <3>2 DEF state
    <3>4. Table.rows[j][c] \in Cells("excel")
      BY <1>1, <3>1, WorkbookCell DEF width
    <3>5. Holds(ObserveCell(state(c), kind(c)), Table.rows[j][c])
      BY <1>5, <1>6, <3>3, <3>4, ObservedHolds
    <3> QED
      BY <2>1, <2>2, <3>5
  <2> QED
    BY <2>3, <2>4
<1>14. TypesHold'
  BY <1>7, <1>8, <1>9, <1>13 DEF TypesHold, width
<1> QED
  BY <1>10, <1>11, <1>12, <1>14 DEF ReadersIInv

LEMMA FinishInferStep == ReadersIInv /\ FinishInfer => ReadersIInv'
<1> SUFFICES ASSUME ReadersIInv, FinishInfer PROVE ReadersIInv'
  OBVIOUS
<1> DEFINE source == reading.source
           width == Len(Table.header)
           field(c) == [name |-> Table.header[c], type |-> InferredType(c)]
           part(c) == IF Table.header[c] = "" THEN <<>> ELSE <<field(c)>>
           parts == [c \in 1..width |-> part(c)]
<1>1. /\ ReadersTypeOK /\ PhasesInOrder /\ TypesHold /\ reading.phase = "infer"
      /\ Selected(source) # <<>> /\ reading.at = Len(Table.rows)
      /\ reading.sheet = 1 /\ reading.rows = <<>> /\ source.schema = <<>>
  BY DEF ReadersIInv, FinishInfer, SheetIn, PhasesInOrder
<1>2. /\ source \in Sources /\ width \in Nat /\ Len(Table.rows) \in Nat
      /\ reading.types \in Seq(CellTypes \cup {"Unknown"})
      /\ Table \in TablesIn(source.format) /\ reading.sheet \in 1..Len(Selected(source))
      /\ Table = source.tables[Selected(source)[1]]
  BY <1>1, TableHere DEF ReadersTypeOK
<1>3. ASSUME NEW c \in 1..width
      PROVE  field(c) \in Fields /\ \A i \in 1..Len(Table.rows) :
                                      Holds(InferredType(c), Table.rows[i][c])
  <2>1. Table.header[c] \in STRING
    <3>1. Table.header \in Seq(STRING)
      BY <1>2 DEF TablesIn
    <3> QED
      BY <3>1
  <2>2. \A i \in 1..Len(Table.rows) :
          reading.types # <<>> /\ Holds(reading.types[c], Table.rows[i][c])
    BY <1>1 DEF TypesHold
  <2>3. "Utf8" \in CellTypes
    BY DEF CellTypes
  <2>4. \A kind \in Cells("excel") : Holds("Unknown", kind) => Holds("Utf8", kind)
    BY DEF Holds, ExcelConverts, Numeral, CellTypes, Cells
  <2>5. \A i \in 1..Len(Table.rows) : Table.rows[i][c] \in Cells("excel")
    BY <1>1, WorkbookCell
  <2>6. CASE reading.types = <<>>
    <3>1. InferredType(c) = "Utf8"
      BY <2>6 DEF InferredType
    <3> QED
      BY <2>1, <2>2, <2>3, <2>6, <3>1 DEF Fields
  <2>7. CASE reading.types # <<>>
    <3>1. reading.types[c] \in CellTypes \cup {"Unknown"}
      <4>1. Len(reading.types) = width
        BY <1>1, <2>7 DEF TypesHold
      <4> QED
        BY <1>2, <4>1
    <3>2. InferredType(c) = IF reading.types[c] = "Unknown" THEN "Utf8" ELSE reading.types[c]
      BY <2>7 DEF InferredType
    <3>3. InferredType(c) \in CellTypes
      BY <2>3, <3>1, <3>2
    <3> QED
      BY <2>1, <2>2, <2>4, <2>5, <3>2, <3>3 DEF Fields
  <2> QED
    BY <2>6, <2>7
<1>4. InferredSchema = FlattenSeq(parts)
  BY DEF InferredSchema
<1>10. ASSUME NEW c \in 1..width
       PROVE  field(c).name = Table.header[c] /\ field(c).type = InferredType(c)
  OBVIOUS
<1> HIDE DEF width, field
<1>5. parts \in Seq(Seq(Fields)) /\ Len(parts) = width
  <2>1. ASSUME NEW c \in 1..width PROVE part(c) \in Seq(Fields)
    <3> DEFINE f == field(c)
    <3>1. f \in Fields
      BY <1>3
    <3> HIDE DEF f
    <3>2. <<f>> \in Seq(Fields) /\ <<>> \in Seq(Fields)
      BY <3>1
    <3> QED
      BY <3>2 DEF f
  <2> HIDE DEF part
  <2> QED
    BY <1>2, <2>1
<1>6. ASSUME NEW c \in 1..width
      PROVE  /\ Table.header[c] # "" => parts[c] = <<field(c)>> /\ parts[c] # <<>>
             /\ \A j \in 1..Len(parts[c]) :
                  Table.header[c] # "" /\ parts[c][j] = field(c)
  <2> DEFINE f == field(c)
  <2>1. parts[c] = IF Table.header[c] = "" THEN <<>> ELSE <<f>>
    OBVIOUS
  <2> HIDE DEF f, parts
  <2>2. CASE Table.header[c] = ""
    <3>1. parts[c] = <<>>
      BY <2>1, <2>2
    <3>2. \A j \in 1..Len(parts[c]) : FALSE
      BY <3>1
    <3> QED
      BY <2>2, <3>2
  <2>3. CASE Table.header[c] # ""
    <3>1. parts[c] = <<f>>
      BY <2>1, <2>3
    <3>2. parts[c] # <<>> /\ \A j \in 1..Len(parts[c]) : parts[c][j] = f
      BY <3>1
    <3> QED
      BY <2>3, <3>1, <3>2 DEF f
  <2> QED
    BY <2>2, <2>3
<1> HIDE DEF parts
<1>7. /\ InferredSchema \in Seq(Fields)
      /\ \A k \in 1..Len(InferredSchema) :
           \E c \in 1..width : \E j \in 1..Len(parts[c]) : InferredSchema[k] = parts[c][j]
      /\ InferredSchema = <<>> => \A c \in 1..width : parts[c] = <<>>
  BY <1>4, <1>5, FlattenFrom
<1>8. CASE InferredSchema = <<>>
  <2> DEFINE e == Error("schema", 0, "")
  <2>1. Fails(e) /\ e \in ErrorTypes /\ e.row = 0 /\ e.kind = "schema"
    BY <1>8 DEF FinishInfer, ErrorTypes, Error
  <2> HIDE DEF e
  <2>2. ErrorIsFirst'
    BY <1>1, <2>1, EmptyHeader
  <2>3. reading'.source = source
    BY <1>1, <2>1 DEF ReadersTypeOK, Fails
  <2>4. \A c \in 1..width : Table.header[c] = ""
    BY <1>6, <1>7, <1>8
  <2>5. {c \in 1..Len(Table.header) : Table.header[c] # ""} = {}
    BY <2>4 DEF width
  <2>6. InferredSchemaReads'
    BY <1>1, <1>2, <2>3, <2>5, NoNames
  <2> QED
    BY <2>1, <2>2, <2>6, FailsKeeps
<1>9. CASE InferredSchema # <<>>
  <2>1. reading' = [reading EXCEPT !.schema = InferredSchema, !.phase = "open", !.at = 0]
    BY <1>9 DEF FinishInfer
  <2>2. /\ reading'.source = source /\ reading'.sheet = 1 /\ reading'.phase = "open"
        /\ reading'.at = 0 /\ reading'.rows = <<>> /\ reading'.schema = InferredSchema
    BY <1>1, <2>1 DEF ReadersTypeOK
  <2>3. ReadersTypeOK'
    BY <1>1, <1>7, <2>1 DEF ReadersTypeOK
  <2>4. PhasesInOrder'
    BY <1>1, <2>2 DEF PhasesInOrder
  <2>5. TypesHold' /\ ColumnsAreThere' /\ ErrorIsFirst' /\ InferredSchemaReads'
    BY <2>2, NoErrorYet DEF TypesHold, ColumnsAreThere
  <2>6. ReadSoFar'
    <3>1. RowsBefore' = <<>>
      BY <1>2, <2>2, NothingBefore DEF RowsBefore
    <3> QED
      BY <2>2, <3>1 DEF ReadSoFar, RowsAre
  <2>7. ASSUME NEW k \in 1..Len(InferredSchema)
        PROVE  \E c \in 1..width :
                 /\ Table.header[c] # "" /\ Table.header[c] = InferredSchema[k].name
                 /\ \A i \in 1..Len(Table.rows) : Holds(InferredSchema[k].type, Table.rows[i][c])
    <3>1. PICK c \in 1..width : \E j \in 1..Len(parts[c]) : InferredSchema[k] = parts[c][j]
      BY <1>7
    <3>4. PICK j \in 1..Len(parts[c]) : InferredSchema[k] = parts[c][j]
      BY <3>1
    <3>2. Table.header[c] # "" /\ InferredSchema[k] = field(c)
      BY <1>6, <3>4
    <3>3. InferredSchema[k].name = Table.header[c] /\ InferredSchema[k].type = InferredType(c)
      BY <1>10, <3>2
    <3> QED
      BY <1>3, <3>2, <3>3
  <2>8. SchemaHolds'
    <3> DEFINE schema == InferredSchema
               table == Table
    <3>1. \A k \in 1..Len(schema) :
            \E c \in 1..Len(table.header) :
              /\ table.header[c] # "" /\ table.header[c] = schema[k].name
              /\ \A i \in 1..Len(table.rows) : Holds(schema[k].type, table.rows[i][c])
      BY <2>7 DEF width
    <3>3. source.tables[Selected(source)[1]] = table /\ reading'.source = source
      BY <1>2, <2>2
    <3>2. reading'.schema = schema
      BY <2>2
    <3> HIDE DEF schema, table, source
    <3> QED
      BY <3>1, <3>2, <3>3 DEF SchemaHolds
  <2> QED
    BY <2>3, <2>4, <2>5, <2>6, <2>8 DEF ReadersIInv
<1> QED
  BY <1>8, <1>9

\* What Polars makes of the kinds of a column, and of the cells that it drops.
OwnKinds ==
  [Int64 |-> {"one", "int", "big"}, Float64 |-> {"one", "int", "big", "frac"},
   Bool |-> {"yes", "bool"}, Utf8 |-> {"word", "numeral"}]
OneType(kinds) ==
  \/ kinds \subseteq {"int", "big"} \/ kinds \subseteq {"frac"}
  \/ kinds \subseteq {"word"} \/ kinds \subseteq {"bool"}

LEMMA OwnIsTaken ==
  ASSUME NEW type \in CellTypes, NEW kinds, kinds # {}, kinds \subseteq OwnKinds[type],
         NEW whenEmpty
  PROVE  /\ ~Refused(Polars(kinds, whenEmpty), type)
         /\ OneType(kinds) => Compatible(Polars(kinds, whenEmpty), type)
<1> DEFINE physical == Polars(kinds, whenEmpty)
<1>1. PICK kind \in kinds : TRUE
  OBVIOUS
<1>2. CASE type = "Int64"
  <2>1. kinds \subseteq {"one", "int", "big"}
    BY <1>2 DEF OwnKinds
  <2>2. physical = "Int64"
    BY <2>1 DEF Polars
  <2> QED
    BY <1>2, <2>2 DEF Refused, Compatible
<1>3. CASE type = "Float64"
  <2>1. kinds \subseteq {"one", "int", "big", "frac"}
    BY <1>3 DEF OwnKinds
  <2>2. OneType(kinds) => kinds \subseteq {"int", "big"} \/ kinds \subseteq {"frac"}
    <3>1. kind \in {"one", "int", "big", "frac"}
      BY <1>1, <2>1
    <3> QED
      BY <1>1, <3>1 DEF OneType
  <2>3. OneType(kinds) => physical \in {"Int64", "Float64"}
    <3>1. CASE kinds \subseteq {"int", "big"}
      BY <3>1 DEF Polars
    <3>2. CASE kinds \subseteq {"frac"}
      BY <3>2 DEF Polars
    <3> QED
      BY <2>2, <3>1, <3>2
  <2> QED
    BY <1>3, <2>3 DEF Refused, Compatible
<1>4. CASE type = "Bool"
  <2>1. kinds \subseteq {"yes", "bool"}
    BY <1>4 DEF OwnKinds
  <2>2. kind \in {"yes", "bool"}
    BY <1>1, <2>1
  <2>3. physical = "Bool"
    BY <1>1, <2>1, <2>2 DEF Polars
  <2> QED
    BY <1>4, <2>3 DEF Refused, Compatible
<1>5. CASE type = "Utf8"
  <2>1. kinds \subseteq {"word", "numeral"}
    BY <1>5 DEF OwnKinds
  <2>2. kind \in {"word", "numeral"}
    BY <1>1, <2>1
  <2>3. physical = "Utf8"
    BY <1>1, <2>1, <2>2 DEF Polars
  <2> QED
    BY <1>5, <2>3 DEF Refused, Compatible
<1> QED
  BY <1>2, <1>3, <1>4, <1>5 DEF CellTypes

LEMMA DroppedIsNullable ==
  ASSUME NEW source, source.format \in ByColumn, NEW kind \in Cells(source.format),
         NEW type \in CellTypes, NEW physical, ~KeptByCast(physical, type, kind),
         source.format = "parquet" => Compatible(physical, type)
  PROVE  Nullable(source, kind)
<1>1. \/ physical = "Utf8" /\ kind \notin {"one", "int", "numeral"} /\ type # "Utf8"
      \/ physical # "Utf8" /\ kind = "big"
  BY DEF KeptByCast
<1>2. source.format = "parquet" => kind = "big"
  BY <1>1 DEF Compatible
<1>3. CASE source.format = "parquet"
  BY <1>2, <1>3 DEF Nullable
<1>4. CASE source.format = "csv_file"
  BY <1>1, <1>4 DEF Nullable, IsBlank, Cells
<1>5. CASE source.format = "json_file"
  BY <1>1, <1>5 DEF Nullable, IsBlank, Cells
<1> QED
  BY <1>3, <1>4, <1>5 DEF ByColumn

\* A cell of a file that is read by columns.
LEMMA ColumnCell ==
  ASSUME ReadersTypeOK, PhasesInOrder, ColumnsAreThere, reading.phase = "columns",
         NEW k \in 1..Len(reading.schema)
  PROVE  /\ ColumnOf(Table, reading.schema[k].name) \in 1..Len(Table.header)
         /\ \A i \in 1..Len(Table.rows) :
              /\ CellKind(i, reading.schema[k]) \in Cells(reading.source.format)
              /\ CellKind(i, reading.schema[k]) # "absent"
<1> DEFINE source == reading.source
           f == reading.schema[k]
           c == ColumnOf(Table, f.name)
<1>1. /\ source \in Sources /\ Table \in TablesIn(source.format) /\ Len(Table.header) \in Nat
      /\ source.format \in ByColumn
  BY SheetHere, TableHere DEF PhasesInOrder
<1>2. \E d \in 1..Len(Table.header) : Table.header[d] = f.name
  BY DEF ColumnsAreThere
<1>3. c \in 1..Len(Table.header)
  BY <1>1, <1>2, ColumnIs
<1> HIDE DEF c
<1>4. ASSUME NEW i \in 1..Len(Table.rows)
      PROVE  CellKind(i, f) \in Cells(source.format) /\ CellKind(i, f) # "absent"
  <2>1. Table.rows[i] \in Seq(Cells(source.format)) /\ Len(Table.rows[i]) = Len(Table.header)
    BY <1>1, TableRow DEF ByColumn
  <2>2. Table.rows[i][c] \in Cells(source.format) /\ Table.rows[i] # <<>>
    BY <1>1, <1>3, <2>1, CellIn
  <2>3. CellKind(i, f) = Table.rows[i][c]
    BY <1>2, <2>2 DEF CellKind, c
  <2>4. "absent" \notin Cells(source.format)
    BY <1>1 DEF Cells, ByColumn
  <2> QED
    BY <2>2, <2>3, <2>4
<1> QED
  BY <1>3, <1>4 DEF c

\* A Parquet column is of one type.
LEMMA ParquetKinds ==
  ASSUME ReadersTypeOK, PhasesInOrder, ColumnsAreThere, reading.phase = "columns",
         reading.source.format = "parquet", NEW k \in 1..Len(reading.schema)
  PROVE  OneType(KindsOf(reading.schema[k]))
<1> DEFINE c == ColumnOf(Table, reading.schema[k].name)
<1>1. Table \in TablesIn("parquet")
  BY SheetHere, TableHere
<1>2. c \in 1..Len(Table.header)
  BY ColumnCell
<1> HIDE DEF c
<1>3. PICK one \in {{"int", "big"}, {"frac"}, {"word"}, {"bool"}} :
        \A i \in 1..Len(Table.rows) : Table.rows[i][c] \in one \cup {"null"}
  BY <1>1, <1>2 DEF TablesIn
<1>4. ColumnKinds(c) \subseteq one
  BY <1>3 DEF ColumnKinds
<1> QED
  BY <1>3, <1>4 DEF OneType, KindsOf, c

\* The columns fail, on a field whose values are not all of its type.
LEMMA ColumnsFail ==
  ASSUME ReadersIInv, reading.phase = "columns", NEW bad \in 1..Len(reading.schema),
         \/ KindsOf(reading.schema[bad]) = {}
         \/ ~(KindsOf(reading.schema[bad]) \subseteq OwnKinds[reading.schema[bad].type]),
         Fails(Error("parse", UserRow(reading.source, 1), reading.schema[bad].name))
  PROVE  ReadersIInv'
<1> DEFINE field == reading.schema[bad]
           source == reading.source
           e == Error("parse", UserRow(source, 1), field.name)
<1>1. /\ ReadersTypeOK /\ PhasesInOrder /\ source.format \in ByColumn
      /\ reading.schema \in Seq(Fields)
  BY DEF ReadersIInv, PhasesInOrder, ReadersTypeOK
<1>2. source \in Sources
  BY <1>1 DEF ReadersTypeOK
<1>3. field.name \in STRING
  <2>1. field \in Fields
    BY <1>1
  <2> QED
    BY <2>1 DEF Fields
<1>4. UserRow(source, 1) = IF source.format = "csv_file" THEN 2 ELSE 1
  BY <1>1 DEF UserRow, ByColumn
<1>5. e \in ErrorTypes /\ Fails(e) /\ e.column = field.name
      /\ e.row = IF source.format = "csv_file" THEN 2 ELSE 1
  <2>1. UserRow(source, 1) \in Nat
    BY <1>4
  <2> QED
    BY <1>3, <1>4, <2>1 DEF ErrorTypes, Error
<1> HIDE DEF e
<1>6. /\ reading'.source = source /\ reading'.sheet = reading.sheet
      /\ reading'.schema = reading.schema /\ reading'.error = e
  BY <1>1, <1>5 DEF ReadersTypeOK, Fails
<1>7. Table' = Table
  BY <1>6, NewTable
<1>8. \A f : KindsOf(f)' = KindsOf(f)
  BY <1>7 DEF KindsOf, ColumnKinds
<1>9. source.format \notin ByRow
  BY <1>1 DEF ByRow, ByColumn
<1>10. ErrorIsFirst'
  <2>1. /\ reading'.error.column = reading'.schema[bad].name
        /\ bad \in 1..Len(reading'.schema)
        /\ \/ KindsOf(reading.schema[bad])' = {}
           \/ ~(KindsOf(reading.schema[bad])' \subseteq OwnKinds[reading'.schema[bad].type])
    BY <1>5, <1>6, <1>8
  <2>2. reading'.error.row = IF reading'.source.format = "csv_file" THEN 2 ELSE 1
    BY <1>5, <1>6
  <2> QED
    BY <1>6, <1>9, <2>1, <2>2 DEF ErrorIsFirst, OwnKinds
<1>11. source.schema # <<>>
  BY <1>1, <1>2, SourcesAssumption DEF ByColumn
<1>12. InferredSchemaReads'
  BY <1>6, <1>11 DEF InferredSchemaReads
<1> QED
  BY <1>5, <1>10, <1>12, FailsKeeps

\* All rows of the only sheet.
LEMMA OnlySheet ==
  ASSUME NEW source \in Sources, source.format # "excel"
  PROVE  /\ Selected(source) \in Seq(Nat) /\ Len(Selected(source)) = 1 /\ Selected(source)[1] = 1
         /\ Len(source.tables[1].rows) \in Nat
         /\ DataRows(source, Selected(source)) = [i \in 1..Len(source.tables[1].rows) |-> <<1, i>>]
<1> DEFINE sheets == Selected(source)
           n == Len(source.tables[1].rows)
           here == [i \in 1..n |-> <<1, i>>]
<1>1. sheets \in Seq(1..Len(source.tables)) /\ Len(sheets) = 1 /\ sheets[1] = 1
  BY SelectedIs
<1>2. sheets \in Seq(Nat)
  <2>1. 1..Len(source.tables) \subseteq Nat
    OBVIOUS
  <2> QED
    BY <1>1, <2>1
<1>3. 1 \in 1..Len(sheets)
  BY <1>1
<1>4. n \in Nat
  BY <1>1, <1>3, PlacesGrow
<1>5. RowsUpto(source, 1, n) = DataRows(source, SubSeq(sheets, 1, 1))
  <2>1. RowsUpto(source, 1, Len(source.tables[sheets[1]].rows)) =
          DataRows(source, SubSeq(sheets, 1, 1))
    BY <1>3, <1>4, RowsUptoIs
  <2> QED
    BY <1>1, <2>1
<1>6. SubSeq(sheets, 1, 1) = sheets
  BY <1>1, <1>2, SubSeqFull
<1>7. DataRows(source, SubSeq(sheets, 1, 1 - 1)) = <<>>
  BY <1>3, <1>4, RowsUptoIs, NothingBefore
<1>8. RowsUpto(source, 1, n) = <<>> \o here
  BY <1>1, <1>7 DEF RowsUpto
<1> HIDE DEF n
<1>9. <<>> \o here = here
  BY <1>4
<1> QED
  BY <1>1, <1>2, <1>4, <1>5, <1>6, <1>8, <1>9 DEF n

LEMMA CastColumnsStep == ReadersIInv /\ CastColumns => ReadersIInv'
<1> SUFFICES ASSUME ReadersIInv, CastColumns PROVE ReadersIInv'
  OBVIOUS
<1> DEFINE source == reading.source
           schema == reading.schema
<1>1. /\ ReadersTypeOK /\ PhasesInOrder /\ ColumnsAreThere /\ reading.phase = "columns"
      /\ source.format \in ByColumn /\ schema \in Seq(Fields) /\ Len(schema) \in Nat
  BY DEF ReadersIInv, CastColumns, PhasesInOrder, ReadersTypeOK
<1>2. /\ source \in Sources /\ reading.sheet \in 1..Len(Selected(source))
      /\ Len(Table.rows) \in Nat /\ Table = source.tables[Selected(source)[reading.sheet]]
  BY <1>1, SheetHere, TableHere
<1>3. source.format # "excel"
  BY <1>1 DEF ByColumn
<1>4. reading.sheet = 1 /\ Table = source.tables[1] /\ Selected(source)[1] = 1
  <2>1. Len(Selected(source)) = 1 /\ Selected(source)[1] = 1
    BY <1>2, <1>3, OnlySheet
  <2>2. reading.sheet = 1
    BY <1>2, <2>1
  <2> QED
    BY <1>2, <2>1, <2>2
<1>5. PICK whenEmpty :
        LET physical(f) == Polars(KindsOf(f), whenEmpty)
            incompatible == FirstWhere(LAMBDA f : TypeRefused(f, physical(f)))
            bad == IF incompatible # 0 THEN incompatible
                   ELSE FirstWhere(LAMBDA f : KindsOf(f) # {} /\ Refused(physical(f), f.type))
            kept(i, f) == /\ ~IsBlank(CellKind(i, f))
                          /\ KeptByCast(physical(f), f.type, CellKind(i, f))
            cell(i, f) == IF kept(i, f) THEN Place(i, f) ELSE <<>>
        IN  IF bad # 0
            THEN Fails(Error("parse", UserRow(source, 1), schema[bad].name))
            ELSE reading' = [reading EXCEPT !.phase = "done",
                   !.rows = [i \in 1..Len(Table.rows) |->
                     [k \in 1..Len(schema) |-> cell(i, schema[k])]]]
  BY DEF CastColumns
<1> DEFINE physical(f) == Polars(KindsOf(f), whenEmpty)
           refusals == {k \in 1..Len(schema) : TypeRefused(schema[k], physical(schema[k]))}
           misfits == {k \in 1..Len(schema) : KindsOf(schema[k]) # {}
                                              /\ Refused(physical(schema[k]), schema[k].type)}
           bad == IF FirstIn(refusals) # 0 THEN FirstIn(refusals) ELSE FirstIn(misfits)
           cell(i, f) == IF ~IsBlank(CellKind(i, f)) /\ KeptByCast(physical(f), f.type, CellKind(i, f))
                         THEN Place(i, f) ELSE <<>>
           line(i) == [k \in 1..Len(schema) |-> cell(i, schema[k])]
           rows == [i \in 1..Len(Table.rows) |-> line(i)]
<1>6. IF bad # 0 THEN Fails(Error("parse", UserRow(source, 1), schema[bad].name))
      ELSE reading' = [reading EXCEPT !.phase = "done", !.rows = rows]
  <2>1. FirstWhere(LAMBDA f : TypeRefused(f, physical(f))) = FirstIn(refusals)
    BY DEF FirstWhere, SelectInSeq, FirstIn
  <2>2. FirstWhere(LAMBDA f : KindsOf(f) # {} /\ Refused(physical(f), f.type)) = FirstIn(misfits)
    BY DEF FirstWhere, SelectInSeq, FirstIn
  <2> QED
    BY <1>5, <2>1, <2>2
<1>7. /\ FirstIn(refusals) \in refusals \/ (FirstIn(refusals) = 0 /\ refusals = {})
      /\ FirstIn(misfits) \in misfits \/ (FirstIn(misfits) = 0 /\ misfits = {})
  <2>1. refusals \in SUBSET (1..Len(schema)) /\ misfits \in SUBSET (1..Len(schema))
    OBVIOUS
  <2> HIDE DEF refusals, misfits
  <2> QED
    BY <1>1, <2>1, FirstInIs
<1>8. ASSUME NEW k \in 1..Len(schema) PROVE schema[k].type \in CellTypes
  <2>1. schema[k] \in Fields
    BY <1>1
  <2> QED
    BY <2>1 DEF Fields
<1>9. CASE bad # 0
  <2>1. bad \in refusals \/ bad \in misfits
    <3> HIDE DEF refusals, misfits
    <3> QED
      BY <1>7, <1>9
  <2>2. bad \in 1..Len(schema)
    <3> HIDE DEF bad
    <3> QED
      BY <2>1
  <2>3. Fails(Error("parse", UserRow(source, 1), schema[bad].name))
    BY <1>6, <1>9
  <2> HIDE DEF bad
  <2>4. \/ KindsOf(schema[bad]) = {}
        \/ ~(KindsOf(schema[bad]) \subseteq OwnKinds[schema[bad].type])
    <3> SUFFICES ASSUME KindsOf(schema[bad]) # {},
                        KindsOf(schema[bad]) \subseteq OwnKinds[schema[bad].type]
                 PROVE  FALSE
      OBVIOUS
    <3> DEFINE kinds == KindsOf(schema[bad])
               type == schema[bad].type
    <3>1. /\ ~Refused(Polars(kinds, whenEmpty), type)
          /\ OneType(kinds) => Compatible(Polars(kinds, whenEmpty), type)
      <4>1. kinds # {} /\ kinds \subseteq OwnKinds[type] /\ type \in CellTypes
        BY <1>8, <2>2
      <4> HIDE DEF kinds, type
      <4> QED
        BY <4>1, OwnIsTaken
    <3>2. CASE bad \in misfits
      BY <3>1, <3>2
    <3>3. CASE bad \in refusals
      <4>1. source.format = "parquet" /\ ~Compatible(Polars(kinds, whenEmpty), type)
        BY <3>3 DEF TypeRefused
      <4>2. OneType(kinds)
        BY <1>1, <2>2, <4>1, ParquetKinds
      <4> QED
        BY <3>1, <4>1, <4>2
    <3> QED
      BY <2>1, <3>2, <3>3
  <2> QED
    BY <1>1, <2>2, <2>3, <2>4, ColumnsFail
<1>10. CASE bad = 0
  <2>1. reading' = [reading EXCEPT !.phase = "done", !.rows = rows]
    BY <1>6, <1>10
  <2>2. ASSUME NEW k \in 1..Len(schema)
        PROVE  source.format = "parquet" => Compatible(physical(schema[k]), schema[k].type)
    <3>1. refusals = {}
      <4>1. 0 \notin refusals
        BY <1>1
      <4> HIDE DEF refusals, misfits
      <4> QED
        BY <1>7, <1>10, <4>1
    <3>2. ~TypeRefused(schema[k], physical(schema[k]))
      BY <3>1
    <3> QED
      BY <3>2 DEF TypeRefused
  <2> HIDE DEF refusals, misfits, bad, physical
  <2>3. ASSUME NEW i \in 1..Len(Table.rows), NEW k \in 1..Len(schema)
        PROVE  CellIs(source, schema[k], cell(i, schema[k]), <<1, i>>)
               /\ cell(i, schema[k]) \in Seq(Nat)
    <3> DEFINE f == schema[k]
               kind == CellKind(i, f)
               c == cell(i, f)
    <3>1. kind \in Cells(source.format) /\ kind # "absent"
      BY <1>1, ColumnCell
    <3>2. \/ c = <<>> /\ Nullable(source, kind)
          \/ c = Place(i, f) /\ ~IsBlank(kind)
      <4>1. CASE IsBlank(kind)
        BY <4>1 DEF Nullable
      <4>2. CASE ~IsBlank(kind) /\ KeptByCast(physical(f), f.type, kind)
        BY <4>2
      <4>3. CASE ~IsBlank(kind) /\ ~KeptByCast(physical(f), f.type, kind)
        <5>1. Nullable(source, kind)
          <6> DEFINE p == physical(f)
                     type == f.type
          <6>1. /\ ~KeptByCast(p, type, kind) /\ type \in CellTypes
                /\ source.format = "parquet" => Compatible(p, type)
            BY <1>8, <2>2, <4>3
          <6> HIDE DEF p, type, kind, source
          <6> QED
            BY <1>1, <3>1, <6>1, DroppedIsNullable
        <5> QED
          BY <4>3, <5>1
      <4> QED
        BY <4>1, <4>2, <4>3
    <3>3. source.format \notin ByRow /\ i \in Nat
      BY <1>1 DEF ByRow, ByColumn
    <3> HIDE DEF c, f, kind, source
    <3>4. reading.source = source
      BY DEF source
    <3>5. CellIs(source, f, c, <<Selected(source)[reading.sheet], i>>) /\ c \in Seq(Nat)
      BY <1>2, <3>1, <3>2, <3>3, <3>4, CellOut DEF kind
    <3> QED
      BY <1>4, <3>5 DEF c, f
  <2> HIDE DEF cell
  <2>4. ASSUME NEW i \in 1..Len(Table.rows)
        PROVE  RowIs(source, schema, line(i), <<1, i>>) /\ line(i) \in Seq(Seq(Nat))
    <3>1. \A k \in 1..Len(schema) : cell(i, schema[k]) \in Seq(Nat)
      BY <2>3
    <3>2. line(i) \in Seq(Seq(Nat))
      <4> DEFINE A == Seq(Nat)
      <4>1. \A k \in 1..Len(schema) : cell(i, schema[k]) \in A
        BY <3>1
      <4> HIDE DEF A, schema
      <4> QED
        BY <1>1, <4>1 DEF A
    <3> QED
      BY <2>3, <3>2 DEF RowIs
  <2> HIDE DEF line
  <2>5. rows \in Seq(Seq(Seq(Nat))) /\ Len(rows) = Len(Table.rows)
    <3> DEFINE A == Seq(Seq(Nat))
               n == Len(Table.rows)
    <3>1. n \in Nat /\ rows = [i \in 1..n |-> line(i)] /\ \A i \in 1..n : line(i) \in A
      BY <1>2, <2>4
    <3> HIDE DEF A, n, rows
    <3> QED
      BY <3>1 DEF A, n
  <2>6. /\ reading'.source = source /\ reading'.sheet = reading.sheet /\ reading'.phase = "done"
        /\ reading'.rows = rows /\ reading'.schema = schema
    BY <1>1, <2>1 DEF ReadersTypeOK
  <2>7. ReadersTypeOK'
    BY <1>1, <2>1, <2>5 DEF ReadersTypeOK
  <2>8. PhasesInOrder'
    BY <1>1, <2>6 DEF PhasesInOrder
  <2>9. TypesHold' /\ ColumnsAreThere' /\ ErrorIsFirst' /\ InferredSchemaReads' /\ SchemaHolds'
    BY <2>6, NoErrorYet DEF TypesHold, ColumnsAreThere, SchemaHolds
  <2>10. RowsAre(source, schema, rows, DataRows(source, Selected(source)))
    <3> DEFINE n == Len(Table.rows)
               places == [i \in 1..n |-> <<1, i>>]
    <3>1. DataRows(source, Selected(source)) = places
      BY <1>2, <1>3, <1>4, OnlySheet
    <3>2. n \in Nat /\ Len(rows) = n /\ \A i \in 1..n : rows[i] = line(i)
      BY <1>2, <2>5
    <3>3. \A i \in 1..n : RowIs(source, schema, line(i), <<1, i>>)
      BY <2>4
    <3> HIDE DEF n, rows, source, schema
    <3>4. RowsAre(source, schema, rows, places)
      BY <3>2, <3>3 DEF RowsAre
    <3> QED
      BY <3>1, <3>4
  <2>11. ReadSoFar'
    BY <2>6, <2>10 DEF ReadSoFar
  <2> QED
    BY <2>7, <2>8, <2>9, <2>11 DEF ReadersIInv
<1> QED
  BY <1>9, <1>10

LEMMA ReadersStarts == ReadersInit => ReadersIInv
<1> SUFFICES ASSUME ReadersInit PROVE ReadersIInv
  OBVIOUS
<1>1. PICK source \in Sources :
        reading = [source |-> source, schema |-> source.schema, sheet |-> 1, at |-> 0,
                   phase |-> IF source.format = "json_text" THEN "text"
                             ELSE IF source.schema = <<>> THEN "infer" ELSE "open",
                   types |-> <<>>, rows |-> <<>>, error |-> NoError]
  BY DEF ReadersInit
<1>2. /\ reading.source = source /\ reading.schema = source.schema /\ reading.sheet = 1
      /\ reading.at = 0 /\ reading.types = <<>> /\ reading.rows = <<>>
      /\ reading.phase = IF source.format = "json_text" THEN "text"
                         ELSE IF source.schema = <<>> THEN "infer" ELSE "open"
  BY <1>1
<1>3. source.schema \in Seq(Fields) /\ (source.format = "json_text" => source.schema # <<>>)
  BY SourcesAssumption DEF Fields
<1>4. ReadersTypeOK
  <2>1. NoError \in ErrorTypes
    BY DEF NoError, Error, ErrorTypes
  <2>2. <<>> \in Seq(CellTypes \cup {"Unknown"}) /\ <<>> \in Seq(Seq(Seq(Nat)))
    OBVIOUS
  <2>3. reading.phase \in {"text", "infer", "open"}
    BY <1>2
  <2> QED
    BY <1>1, <1>2, <1>3, <2>1, <2>2, <2>3 DEF ReadersTypeOK
<1>5. Selected(source) # <<>> /\ reading.phase = "infer" => Len(Table.rows) \in Nat
  <2> SUFFICES ASSUME Selected(source) # <<>> PROVE Len(Table.rows) \in Nat
    OBVIOUS
  <2>1. Len(Selected(source)) \in Nat /\ Len(Selected(source)) >= 1
    <3>1. Selected(source) \in Seq(1..Len(source.tables))
      BY SelectedIs
    <3> QED
      BY <3>1
  <2>2. Table \in TablesIn(source.format)
    BY <1>2, <2>1, TableIs
  <2>3. Table.rows \in Seq(Seq(Cells(source.format)))
    BY <2>2 DEF TablesIn
  <2> QED
    BY <2>3
<1>6. PhasesInOrder
  BY <1>2, <1>3, <1>5 DEF PhasesInOrder
<1>7. ColumnsAreThere /\ TypesHold /\ SchemaHolds /\ ErrorIsFirst /\ InferredSchemaReads
  <2>1. SchemaHolds
    <3>1. reading.phase # "open" \/ source.schema # <<>>
      BY <1>2
    <3> QED
      BY <1>2, <3>1 DEF SchemaHolds
  <2>2. \A j : j \notin 1..0
    OBVIOUS
  <2>3. TypesHold
    BY <1>2, <2>2 DEF TypesHold
  <2> QED
    BY <1>2, <2>1, <2>3 DEF ColumnsAreThere, ErrorIsFirst, InferredSchemaReads
<1>8. ReadSoFar
  <2>1. RowsBefore = <<>>
    BY <1>2, NothingBefore DEF RowsBefore
  <2> QED
    BY <1>2, <2>1 DEF ReadSoFar, RowsAre
<1> QED
  BY <1>4, <1>6, <1>7, <1>8 DEF ReadersIInv

LEMMA ReadersStays == ReadersIInv /\ [ReadersNext]_reading => ReadersIInv'
<1> SUFFICES ASSUME ReadersIInv, [ReadersNext]_reading PROVE ReadersIInv'
  OBVIOUS
<1>1. CASE ParseText
  BY <1>1, ParseTextStep
<1>2. CASE NoSheets
  BY <1>2, NoSheetsStep
<1>3. CASE InferRow
  BY <1>3, InferRowStep
<1>4. CASE FinishInfer
  BY <1>4, FinishInferStep
<1>5. CASE OpenTable
  BY <1>5, OpenTableStep
<1>6. CASE ReadTableRow
  BY <1>6, ReadTableRowStep
<1>7. CASE FinishTable
  BY <1>7, FinishTableStep
<1>8. CASE CastColumns
  BY <1>8, CastColumnsStep
<1>9. CASE UNCHANGED reading
  <2>1. Table' = Table
    BY <1>9 DEF Table
  <2>2. (\A n, f : CellKind(n, f)' = CellKind(n, f)) /\ (\A f : KindsOf(f)' = KindsOf(f))
        /\ RowsBefore' = RowsBefore
    BY <1>9, <2>1 DEF CellKind, KindsOf, ColumnKinds, RowsBefore
  <2>3. ReadersTypeOK' /\ PhasesInOrder' /\ ColumnsAreThere'
    BY <1>9, <2>1 DEF ReadersIInv, ReadersTypeOK, PhasesInOrder, ColumnsAreThere
  <2>4. ReadSoFar' /\ SchemaHolds'
    BY <1>9, <2>1, <2>2 DEF ReadersIInv, ReadSoFar, SchemaHolds
  <2>5. TypesHold'
    BY <1>9, <2>1 DEF ReadersIInv, TypesHold
  <2>6. ErrorIsFirst'
    BY <1>9, <2>1, <2>2 DEF ReadersIInv, ErrorIsFirst
  <2>7. InferredSchemaReads'
    BY <1>9 DEF ReadersIInv, InferredSchemaReads
  <2> QED
    BY <2>3, <2>4, <2>5, <2>6, <2>7 DEF ReadersIInv
<1> QED
  BY <1>1, <1>2, <1>3, <1>4, <1>5, <1>6, <1>7, <1>8, <1>9 DEF ReadersNext

\* Reading keeps its place in the files, and what it has read so far is what
\* they hold: the inductive invariant of the readers.
THEOREM ReadersInvariance == ReadersSpec => []ReadersIInv
<1>1. ReadersInit => ReadersIInv
  BY ReadersStarts
<1>2. ReadersIInv /\ [ReadersNext]_reading => ReadersIInv'
  BY ReadersStays
<1> QED
  BY <1>1, <1>2, PTL DEF ReadersSpec

\* What is read is what the tables hold (read_csv, the row loops of json.rs and
\* excel.rs, and the casts of polars_bridge.rs), for tables of any size.
THEOREM RowsAreRead == ReadersSpec => []RowsAreTheFiles
<1>1. ReadersIInv => RowsAreTheFiles
  <2> SUFFICES ASSUME ReadersIInv, reading.phase \in {"rows", "done"} PROVE RowsAreTheFiles
    BY DEF RowsAreTheFiles
  <2> DEFINE expected == IF reading.phase = "done"
                         THEN DataRows(reading.source, Selected(reading.source))
                         ELSE RowsBefore
  <2>1. RowsAre(reading.source, reading.schema, reading.rows, expected)
    BY DEF ReadersIInv, ReadSoFar
  <2>2. /\ Len(reading.rows) = Len(expected)
        /\ \A i \in 1..Len(expected) : \A k \in 1..Len(reading.schema) :
             CellIs(reading.source, reading.schema[k], reading.rows[i][k], expected[i])
    <3> HIDE DEF expected
    <3> QED
      BY <2>1 DEF RowsAre, RowIs
  <2> QED
    BY <2>2 DEF RowsAreTheFiles, CellIs, KindUnder
<1> QED
  BY <1>1, ReadersInvariance, PTL

\* An error is that of the first cell that its field cannot hold, and names its
\* row as the readers count it: a sheet from its used range (excel.rs:105).
THEOREM FirstErrorIsTold == ReadersSpec => []ErrorIsFirst
<1>1. ReadersIInv => ErrorIsFirst
  BY DEF ReadersIInv
<1> QED
  BY <1>1, ReadersInvariance, PTL

\* A workbook's first sheet is readable with the schema inferred from it.
THEOREM InferredSchemaIsReadable == ReadersSpec => []InferredSchemaReads
<1>1. ReadersIInv => InferredSchemaReads
  BY DEF ReadersIInv
<1> QED
  BY <1>1, ReadersInvariance, PTL

-----------------------------------------------------------------------------
(* The order of the paths.                                                 *)

Paths == Seq(Int)

LEMMA PrefixIs ==
  ASSUME NEW p \in Paths, NEW q \in Paths
  PROVE  IsStrictPrefix(p, q) <=> Len(p) < Len(q) /\ \A i \in 1..Len(p) : p[i] = q[i]
<1>1. Len(p) \in Nat /\ Len(q) \in Nat /\ p \in Seq(Int) /\ q \in Seq(Int)
  BY DEF Paths
<1>2. SubSeq(p, 1, Len(p)) = p
  BY <1>1, SubSeqFull
<1>3. ASSUME Len(p) <= Len(q)
      PROVE  p = SubSeq(q, 1, Len(p)) <=> \A i \in 1..Len(p) : p[i] = q[i]
  <2> DEFINE m == Len(p)
             s == SubSeq(q, 1, m)
  <2>1. s \in Seq(Int) /\ Len(s) = m /\ \A i \in 1..m : s[i] = q[i]
    BY <1>1, <1>3
  <2> HIDE DEF s
  <2>2. (\A i \in 1..m : p[i] = s[i]) => p = s
    BY <1>1, <2>1, SeqEqual
  <2> QED
    BY <2>1, <2>2 DEF s
<1>4. ASSUME Len(p) = Len(q), \A i \in 1..Len(p) : p[i] = q[i] PROVE p = q
  BY <1>1, <1>4, SeqEqual
<1>5. p = q => Len(p) = Len(q)
  OBVIOUS
<1>6. IsStrictPrefix(p, q) <=> Len(p) <= Len(q) /\ p = SubSeq(q, 1, Len(p)) /\ p # q
  BY <1>2 DEF IsStrictPrefix, IsPrefix
<1> QED
  BY <1>1, <1>3, <1>4, <1>5, <1>6

\* p comes before q: where they first differ p is smaller, or p ends there.
LEMMA BeforeIs ==
  ASSUME NEW p \in Paths, NEW q \in Paths
  PROVE  PathBefore(p, q) <=>
           \E i \in 1..(Len(p) + 1) :
             /\ i <= Len(q) /\ \A j \in 1..(i - 1) : p[j] = q[j]
             /\ i <= Len(p) => p[i] < q[i]
<1>1. Len(p) \in Nat /\ Len(q) \in Nat
  BY DEF Paths
<1>2. ASSUME IsStrictPrefix(p, q)
      PROVE  \E i \in 1..(Len(p) + 1) :
               /\ i <= Len(q) /\ \A j \in 1..(i - 1) : p[j] = q[j]
               /\ i <= Len(p) => p[i] < q[i]
  <2> DEFINE i == Len(p) + 1
  <2>1. Len(p) < Len(q) /\ \A j \in 1..Len(p) : p[j] = q[j]
    BY <1>2, PrefixIs
  <2>2. i \in 1..(Len(p) + 1) /\ i <= Len(q) /\ i - 1 = Len(p) /\ ~(i <= Len(p))
    BY <1>1, <2>1
  <2>3. \A j \in 1..(i - 1) : p[j] = q[j]
    BY <2>1, <2>2
  <2> QED
    BY <2>2, <2>3
<1>3. ASSUME NEW i \in 1..(Len(p) + 1), i <= Len(q), \A j \in 1..(i - 1) : p[j] = q[j],
             i <= Len(p) => p[i] < q[i]
      PROVE  PathBefore(p, q)
  <2>1. CASE i <= Len(p)
    BY <1>1, <1>3, <2>1 DEF PathBefore
  <2>2. CASE ~(i <= Len(p))
    <3>1. i - 1 = Len(p) /\ Len(p) < Len(q)
      BY <1>1, <1>3, <2>2
    <3>2. IsStrictPrefix(p, q)
      BY <1>3, <3>1, PrefixIs
    <3> QED
      BY <3>2 DEF PathBefore
  <2> QED
    BY <2>1, <2>2
<1>4. ASSUME NEW i \in 1..Len(p), i <= Len(q), p[i] < q[i], \A j \in 1..(i - 1) : p[j] = q[j]
      PROVE  \E k \in 1..(Len(p) + 1) :
               /\ k <= Len(q) /\ \A j \in 1..(k - 1) : p[j] = q[j]
               /\ k <= Len(p) => p[k] < q[k]
  <2>1. i \in 1..(Len(p) + 1)
    BY <1>1
  <2> QED
    BY <1>4, <2>1
<1> QED
  BY <1>2, <1>3, <1>4 DEF PathBefore

LEMMA BeforeIsStrict ==
  ASSUME NEW p \in Paths
  PROVE  ~PathBefore(p, p)
<1> SUFFICES ASSUME NEW i \in 1..(Len(p) + 1), i <= Len(p), p[i] < p[i] PROVE FALSE
  BY BeforeIs
<1>1. i \in 1..Len(p)
  BY DEF Paths
<1>2. p[i] \in Int
  BY <1>1 DEF Paths
<1> QED
  BY <1>2

LEMMA BeforeIsTransitive ==
  ASSUME NEW p \in Paths, NEW q \in Paths, NEW r \in Paths, PathBefore(p, q), PathBefore(q, r)
  PROVE  PathBefore(p, r)
<1>1. /\ Len(p) \in Nat /\ Len(q) \in Nat /\ Len(r) \in Nat
      /\ \A k \in 1..Len(p) : p[k] \in Int
      /\ \A k \in 1..Len(q) : q[k] \in Int
      /\ \A k \in 1..Len(r) : r[k] \in Int
  BY DEF Paths
<1>2. PICK i \in 1..(Len(p) + 1) :
        /\ i <= Len(q) /\ \A k \in 1..(i - 1) : p[k] = q[k]
        /\ i <= Len(p) => p[i] < q[i]
  BY BeforeIs
<1>3. PICK j \in 1..(Len(q) + 1) :
        /\ j <= Len(r) /\ \A k \in 1..(j - 1) : q[k] = r[k]
        /\ j <= Len(q) => q[j] < r[j]
  BY BeforeIs
<1>4. CASE i <= j
  <2>1. i <= Len(r) /\ \A k \in 1..(i - 1) : p[k] = r[k]
    <3>1. i <= Len(r)
      BY <1>1, <1>3, <1>4
    <3>2. \A k \in 1..(i - 1) : k \in 1..(j - 1)
      BY <1>4
    <3> QED
      BY <1>2, <1>3, <3>1, <3>2
  <2>2. ASSUME i <= Len(p) PROVE p[i] < r[i]
    <3>1. p[i] < q[i] /\ i \in 1..Len(p) /\ i \in 1..Len(q) /\ i \in 1..Len(r)
      BY <1>1, <1>2, <2>1, <2>2
    <3>2. CASE i = j
      <4>1. q[i] < r[i]
        BY <1>3, <3>1, <3>2
      <4> QED
        BY <1>1, <3>1, <4>1
    <3>3. CASE i # j
      <4>1. i \in 1..(j - 1)
        BY <1>4, <3>3
      <4> QED
        BY <1>3, <3>1, <4>1
    <3> QED
      BY <3>2, <3>3
  <2> QED
    BY <2>1, <2>2, BeforeIs
<1>5. CASE ~(i <= j)
  <2>1. j \in 1..(i - 1) /\ j \in 1..(Len(p) + 1) /\ j <= Len(q)
    BY <1>1, <1>2, <1>5
  <2>2. \A k \in 1..(j - 1) : p[k] = r[k]
    <3>1. \A k \in 1..(j - 1) : k \in 1..(i - 1)
      BY <2>1
    <3> QED
      BY <1>2, <1>3, <3>1
  <2>3. p[j] < r[j]
    BY <1>2, <1>3, <2>1
  <2> QED
    BY <1>3, <2>1, <2>2, <2>3, BeforeIs
<1> QED
  BY <1>4, <1>5

LEMMA BeforeIsTotal ==
  ASSUME NEW p \in Paths, NEW q \in Paths, p # q
  PROVE  PathBefore(p, q) \/ PathBefore(q, p)
<1>1. /\ Len(p) \in Nat /\ Len(q) \in Nat
      /\ \A k \in 1..Len(p) : p[k] \in Int
      /\ \A k \in 1..Len(q) : q[k] \in Int
  BY DEF Paths
<1> DEFINE D == {k \in 1..Len(p) : k <= Len(q) /\ p[k] # q[k]}
<1>2. CASE D = {}
  <2>1. \A k \in 1..Len(p) : k <= Len(q) => p[k] = q[k]
    BY <1>2
  <2>2. CASE Len(p) = Len(q)
    <3>1. \A k \in 1..Len(p) : p[k] = q[k]
      BY <1>1, <2>1, <2>2
    <3>2. p = q
      BY <2>2, <3>1, SeqEqual DEF Paths
    <3> QED
      BY <3>2
  <2>3. CASE Len(p) < Len(q)
    <3>1. \A k \in 1..Len(p) : p[k] = q[k]
      BY <1>1, <2>1, <2>3
    <3> QED
      BY <2>3, <3>1, PrefixIs DEF PathBefore
  <2>4. CASE Len(q) < Len(p)
    <3>1. \A k \in 1..Len(q) : q[k] = p[k]
      BY <1>1, <2>1, <2>4
    <3> QED
      BY <2>4, <3>1, PrefixIs DEF PathBefore
  <2> QED
    BY <1>1, <2>2, <2>3, <2>4
<1>3. CASE D # {}
  <2>1. Min(D) \in D /\ \A x \in D : Min(D) <= x
    <3>1. D \in SUBSET (1..Len(p))
      OBVIOUS
    <3> HIDE DEF D
    <3> QED
      BY <1>1, <1>3, <3>1, LeastIs
  <2> DEFINE i == Min(D)
  <2>2. i \in 1..Len(p) /\ i <= Len(q) /\ p[i] # q[i] /\ i \in 1..Len(q)
    BY <1>1, <2>1
  <2>3. \A j \in 1..(i - 1) : p[j] = q[j]
    <3> SUFFICES ASSUME NEW j \in 1..(i - 1) PROVE j \notin D /\ j \in 1..Len(p) /\ j <= Len(q)
      OBVIOUS
    <3> HIDE DEF D
    <3> QED
      BY <1>1, <2>1, <2>2
  <2> HIDE DEF i
  <2>4. p[i] < q[i] \/ q[i] < p[i]
    BY <1>1, <2>2
  <2> QED
    BY <2>2, <2>3, <2>4 DEF PathBefore
<1> QED
  BY <1>2, <1>3

Ordered(t) == \A i, j \in 1..Len(t) : i < j => PathBefore(t[i], t[j])

\* One more path has its place in an ordered sequence.
LEMMA InsertedInOrder ==
  ASSUME NEW t \in Seq(Paths), Ordered(t), NEW x \in Paths, x \notin Elements(t)
  PROVE  \E u \in Seq(Paths) : Elements(u) = Elements(t) \cup {x} /\ Ordered(u)
<1> DEFINE m == Len(t)
           B == {i \in 1..m : PathBefore(x, t[i])}
           k == IF B = {} THEN m + 1 ELSE Min(B)
           u == [i \in 1..(m + 1) |-> IF i < k THEN t[i] ELSE IF i = k THEN x ELSE t[i - 1]]
<1>1. m \in Nat /\ \A i \in 1..m : t[i] \in Paths /\ t[i] # x
  BY DEF Elements
<1>2. k \in 1..(m + 1) /\ (\A i \in 1..(k - 1) : i \notin B) /\ (k <= m => k \in B)
  <2>1. CASE B = {}
    BY <1>1, <2>1
  <2>2. CASE B # {}
    <3>1. B \in SUBSET (1..m)
      OBVIOUS
    <3> HIDE DEF B
    <3>2. Min(B) \in B /\ \A i \in B : Min(B) <= i
      BY <1>1, <2>2, <3>1, LeastIs
    <3>3. k = Min(B)
      BY <2>2
    <3> HIDE DEF k
    <3>4. k \in B /\ k \in 1..m /\ \A i \in B : k <= i
      BY <3>1, <3>2, <3>3
    <3>5. \A i \in 1..(k - 1) : i \notin B
      BY <1>1, <3>4
    <3> QED
      BY <1>1, <3>4, <3>5
  <2> QED
    BY <2>1, <2>2
<1>3. ASSUME NEW i \in 1..m, i < k PROVE PathBefore(t[i], x)
  <2>1. i \notin B
    BY <1>2, <1>3
  <2>2. ~PathBefore(x, t[i]) /\ t[i] \in Paths /\ t[i] # x
    BY <1>1, <2>1
  <2> QED
    BY <2>2, BeforeIsTotal
<1>4. ASSUME NEW i \in 1..m, k <= i PROVE PathBefore(x, t[i])
  <2>1. k \in 1..m /\ PathBefore(x, t[k])
    BY <1>1, <1>2, <1>4
  <2>2. CASE i = k
    BY <2>1, <2>2
  <2>3. CASE i # k
    <3>1. PathBefore(t[k], t[i])
      BY <1>2, <1>4, <2>1, <2>3 DEF Ordered
    <3>2. t[k] \in Paths /\ t[i] \in Paths
      BY <1>1, <2>1
    <3> QED
      BY <2>1, <3>1, <3>2, BeforeIsTransitive
  <2> QED
    BY <2>2, <2>3
<1> HIDE DEF k, B
<1>5. u \in Seq(Paths) /\ Len(u) = m + 1
  <2>1. \A i \in 1..(m + 1) : (IF i < k THEN t[i] ELSE IF i = k THEN x ELSE t[i - 1]) \in Paths
    <3> SUFFICES ASSUME NEW i \in 1..(m + 1)
                 PROVE  (IF i < k THEN t[i] ELSE IF i = k THEN x ELSE t[i - 1]) \in Paths
      OBVIOUS
    <3>1. (i < k => i \in 1..m) /\ (~(i < k) /\ i # k => i - 1 \in 1..m)
      BY <1>1, <1>2
    <3> QED
      BY <1>1, <3>1
  <2> QED
    BY <1>1, <2>1
<1>6. \A i \in 1..(m + 1) : u[i] = IF i < k THEN t[i] ELSE IF i = k THEN x ELSE t[i - 1]
  OBVIOUS
<1> HIDE DEF u
<1>7. Elements(u) = Elements(t) \cup {x}
  <2>1. \A i \in 1..(m + 1) : u[i] \in Elements(t) \cup {x}
    <3> SUFFICES ASSUME NEW i \in 1..(m + 1) PROVE u[i] \in Elements(t) \cup {x}
      OBVIOUS
    <3>1. (i < k => i \in 1..m) /\ (~(i < k) /\ i # k => i - 1 \in 1..m)
      BY <1>1, <1>2
    <3> QED
      BY <1>6, <3>1 DEF Elements
  <2>2. x \in Elements(u)
    BY <1>1, <1>2, <1>5, <1>6 DEF Elements
  <2>3. ASSUME NEW i \in 1..m PROVE t[i] \in Elements(u)
    <3>1. CASE i < k
      <4>1. i \in 1..(m + 1) /\ u[i] = t[i]
        BY <1>1, <1>6, <3>1
      <4> QED
        BY <1>5, <4>1 DEF Elements
    <3>2. CASE ~(i < k)
      <4>1. i + 1 \in 1..(m + 1) /\ ~(i + 1 < k) /\ i + 1 # k /\ (i + 1) - 1 = i
        BY <1>1, <1>2, <3>2
      <4>2. u[i + 1] = t[i]
        BY <1>6, <4>1
      <4> QED
        BY <1>5, <4>1, <4>2 DEF Elements
    <3> QED
      BY <3>1, <3>2
  <2> QED
    BY <1>5, <2>1, <2>2, <2>3 DEF Elements
<1>8. ASSUME NEW i \in 1..(m + 1), NEW j \in 1..(m + 1), i < j PROVE PathBefore(u[i], u[j])
  <2>1. CASE j < k
    <3>1. i \in 1..m /\ j \in 1..m /\ i < k /\ u[i] = t[i] /\ u[j] = t[j]
      BY <1>1, <1>2, <1>6, <1>8, <2>1
    <3> QED
      BY <1>8, <3>1 DEF Ordered
  <2>2. CASE j = k
    <3>1. i \in 1..m /\ i < k /\ u[i] = t[i] /\ u[j] = x
      BY <1>1, <1>2, <1>6, <1>8, <2>2
    <3> QED
      BY <1>3, <3>1
  <2>3. CASE j > k
    <3>1. j - 1 \in 1..m /\ k <= j - 1 /\ u[j] = t[j - 1]
      BY <1>1, <1>2, <1>6, <2>3
    <3>2. PathBefore(x, t[j - 1])
      BY <1>4, <3>1
    <3>3. CASE i < k
      <4>1. i \in 1..m /\ i < j - 1 /\ u[i] = t[i]
        BY <1>1, <1>2, <1>6, <3>1, <3>3
      <4> QED
        BY <3>1, <4>1 DEF Ordered
    <3>4. CASE i = k
      BY <1>6, <3>1, <3>2, <3>4
    <3>5. CASE i > k
      <4>1. i - 1 \in 1..m /\ i - 1 < j - 1 /\ u[i] = t[i - 1]
        BY <1>1, <1>2, <1>6, <1>8, <3>5
      <4> QED
        BY <3>1, <4>1 DEF Ordered
    <3> QED
      BY <1>2, <3>3, <3>4, <3>5
  <2> QED
    BY <1>2, <2>1, <2>2, <2>3
<1>9. Ordered(u)
  BY <1>5, <1>8 DEF Ordered
<1> QED
  BY <1>5, <1>7, <1>9

LEMMA OrderExists ==
  ASSUME NEW s \in Seq(Paths)
  PROVE  \E t \in Seq(Paths) : Elements(t) = Elements(s) /\ Ordered(t)
<1> DEFINE n == Len(s)
           Upto(m) == {s[i] : i \in 1..m}
           T == {m \in 0..n : \E t \in Seq(Paths) : Elements(t) = Upto(m) /\ Ordered(t)}
<1>1. n \in Nat /\ \A i \in 1..n : s[i] \in Paths
  OBVIOUS
<1>2. 0 \in T
  <2>1. <<>> \in Seq(Paths) /\ Elements(<<>>) = Upto(0) /\ Ordered(<<>>)
    BY DEF Elements, Ordered
  <2>2. 0 \in 0..n
    BY <1>1
  <2> QED
    BY <2>1, <2>2
<1>3. ASSUME NEW m \in 1..n, m - 1 \in T PROVE m \in T
  <2>1. PICK t \in Seq(Paths) : Elements(t) = Upto(m - 1) /\ Ordered(t)
    BY <1>3
  <2>2. Upto(m) = Upto(m - 1) \cup {s[m]}
    <3>1. \A i \in 1..m : i \in 1..(m - 1) \/ i = m
      OBVIOUS
    <3>2. \A i \in 1..(m - 1) : i \in 1..m
      OBVIOUS
    <3>3. m \in 1..m
      OBVIOUS
    <3> QED
      BY <3>1, <3>2, <3>3
  <2> HIDE DEF Upto
  <2>3. \E u \in Seq(Paths) : Elements(u) = Upto(m) /\ Ordered(u)
    <3>1. CASE s[m] \in Elements(t)
      BY <2>1, <2>2, <3>1
    <3>2. CASE s[m] \notin Elements(t)
      BY <1>1, <2>1, <2>2, <3>2, InsertedInOrder
    <3> QED
      BY <3>1, <3>2
  <2>4. m \in 0..n
    OBVIOUS
  <2> QED
    BY <2>3, <2>4
<1> HIDE DEF T
<1>4. n \in T
  <2>1. 0..n \subseteq T
    BY <1>1, <1>2, <1>3, IntervalInduction
  <2> QED
    BY <1>1, <2>1
<1> QED
  BY <1>4 DEF T, Elements

\* A sequence in order lists its elements once.
LEMMA OrderedOnce ==
  ASSUME NEW t \in Seq(Paths), Ordered(t)
  PROVE  /\ \A i, j \in 1..Len(t) : i # j => t[i] # t[j]
         /\ IsFiniteSet(Elements(t)) /\ Cardinality(Elements(t)) = Len(t)
<1> DEFINE n == Len(t)
<1>1. n \in Nat /\ \A i \in 1..n : t[i] \in Paths
  OBVIOUS
<1>2. ASSUME NEW i \in 1..n, NEW j \in 1..n, i # j PROVE t[i] # t[j]
  <2>1. i < j \/ j < i
    BY <1>1, <1>2
  <2>2. PathBefore(t[i], t[j]) \/ PathBefore(t[j], t[i])
    BY <2>1 DEF Ordered
  <2> QED
    BY <1>1, <2>2, BeforeIsStrict
<1>3. t \in Bijection(1..n, Elements(t))
  <2>1. t \in [1..n -> Elements(t)] /\ \A y \in Elements(t) : \E i \in 1..n : t[i] = y
    BY <1>1 DEF Elements
  <2> QED
    BY <1>2, <2>1 DEF Bijection, Injection, Surjection, IsInjective
<1>4. IsFiniteSet(1..n) /\ Cardinality(1..n) = n
  <2>1. 1 \in Int /\ n \in Int
    BY <1>1
  <2>2. IsFiniteSet(1..n) /\ Cardinality(1..n) = IF 1 > n THEN 0 ELSE n - 1 + 1
    BY <2>1, FS_Interval
  <2> QED
    BY <1>1, <2>2
<1>5. ExistsBijection(1..n, Elements(t))
  BY <1>3 DEF ExistsBijection
<1>6. IsFiniteSet(Elements(t)) /\ Cardinality(Elements(t)) = n
  BY <1>4, <1>5, FS_Bijection
<1> QED
  BY <1>2, <1>6

LEMMA AllOf ==
  ASSUME NEW S, IsFiniteSet(S), NEW t \in SetToSeqs(S)
  PROVE  t \in Seq(S) /\ Elements(t) = S
<1> DEFINE n == Cardinality(S)
<1>1. n \in Nat /\ t \in [1..n -> S] /\ \A i, j \in 1..n : i # j => t[i] # t[j]
  BY FS_CardinalityType DEF SetToSeqs
<1>2. t \in Injection(1..n, S)
  BY <1>1 DEF Injection, IsInjective
<1>3. Cardinality(1..n) = n
  <2>1. 1 \in Int /\ n \in Int
    BY <1>1
  <2>2. Cardinality(1..n) = IF 1 > n THEN 0 ELSE n - 1 + 1
    BY <2>1, FS_Interval
  <2> QED
    BY <1>1, <2>2
<1>4. t \in Surjection(1..n, S)
  <2>1. Cardinality(1..n) = Cardinality(S) <=> t \in Surjection(1..n, S)
    BY <1>2, FS_Injection
  <2> QED
    BY <1>3, <2>1
<1>5. \A y \in S : \E i \in 1..n : t[i] = y
  BY <1>4 DEF Surjection
<1> HIDE DEF n
<1>6. t \in Seq(S) /\ Len(t) = n
  BY <1>1
<1> QED
  BY <1>1, <1>5, <1>6 DEF Elements

LEMMA SortedIs ==
  ASSUME NEW s \in Seq(Paths)
  PROVE  SortedPaths(s) \in Seq(Paths) /\ Elements(SortedPaths(s)) = Elements(s) /\ Ordered(SortedPaths(s))
<1> DEFINE S == Elements(s)
           n == Cardinality(S)
           t == SortedPaths(s)
<1>1. PICK u \in Seq(Paths) : Elements(u) = S /\ Ordered(u)
  BY OrderExists
<1>2. /\ \A i, j \in 1..Len(u) : i # j => u[i] # u[j]
      /\ IsFiniteSet(S) /\ n = Len(u) /\ n \in Nat
  BY <1>1, OrderedOnce
<1>3. u \in SetToSeqs(S)
  <2>1. u \in [1..n -> S]
    <3> HIDE DEF S, n
    <3>1. Len(u) = n /\ \A i \in 1..n : u[i] \in S
      BY <1>1, <1>2 DEF Elements
    <3>2. u = [i \in 1..Len(u) |-> u[i]]
      OBVIOUS
    <3> QED
      BY <3>1, <3>2
  <2> QED
    BY <1>2, <2>1 DEF SetToSeqs
<1>4. t \in SetToSeqs(S) /\ Ordered(t)
  <2>1. SortedPaths(s) = CHOOSE v \in SetToSeqs(S) : Ordered(v)
    BY DEF SortedPaths, Ordered
  <2> HIDE DEF S
  <2> QED
    BY <1>1, <1>3, <2>1
<1>6. S \subseteq Paths
  BY DEF Elements
<1> HIDE DEF t, S, n
<1>7. t \in Seq(Paths) /\ Elements(t) = S
  <2>1. t \in Seq(S) /\ Elements(t) = S
    BY <1>2, <1>4, AllOf
  <2> QED
    BY <1>6, <2>1
<1> QED
  BY <1>4, <1>7 DEF t, S

-----------------------------------------------------------------------------
(* A walk.                                                                 *)

WalkTypeOK ==
  /\ walk \in [op: Operations, tree: Trees, order: Seq(walk.tree), at: Nat,
               found: Seq(Paths), answer: {"walking", "error", "paths"}]
  /\ walk.at <= Len(walk.order)

\* Every entry below a root comes.
AllCome == walk.op # "list" => Elements(walk.order) = walk.tree

\* What has been found of the entries that came.
Come == {walk.order[i] : i \in 1..walk.at}
FirstsInOrder(found) == \A i, j \in 1..Len(found) : i < j => FirstAt(found[i]) < FirstAt(found[j])
FoundSoFar ==
  walk.answer = "walking" =>
    IF walk.op = "list"
    THEN /\ \A e \in Come : e.file /\ e.readable
         /\ Elements(walk.found) = {e.path : e \in Come}
         /\ FirstsInOrder(walk.found)
    ELSE /\ Elements(walk.found) = {e.path : e \in {d \in Come : Wanted(d) /\ d.readable}}
         /\ walk.op = "glob" => \A e \in Come : e.readable

DiscoveryIInv == WalkTypeOK /\ AllCome /\ FoundSoFar /\ OneSequence

LEMMA EntryIs ==
  ASSUME NEW tree \in Trees, NEW e \in tree
  PROVE  /\ e.path \in Paths /\ e.path # <<>>
         /\ e.file \in BOOLEAN /\ e.matches \in BOOLEAN /\ e.readable \in BOOLEAN
<1>1. e \in [path: Seq(Components) \ {<<>>}, file: BOOLEAN, matches: BOOLEAN, readable: BOOLEAN]
  BY TreesAssumption
<1>2. e.path \in Seq(Components) /\ e.path # <<>> /\ Components \subseteq Int
  BY <1>1, ComponentsAssumption
<1>3. e.path \in Paths
  BY <1>2, Widened DEF Paths
<1>4. e.file \in BOOLEAN /\ e.matches \in BOOLEAN /\ e.readable \in BOOLEAN
  BY <1>1
<1> QED
  BY <1>2, <1>3, <1>4

LEMMA OneMore ==
  ASSUME NEW A, NEW s \in Seq(A), NEW x \in A
  PROVE  Elements(Append(s, x)) = Elements(s) \cup {x}
<1> DEFINE t == Append(s, x)
           n == Len(s)
<1>1. n \in Nat /\ Len(t) = n + 1 /\ t[n + 1] = x /\ \A i \in 1..n : t[i] = s[i]
  OBVIOUS
<1> HIDE DEF t, n
<1>2. \A i \in 1..(n + 1) : i \in 1..n \/ i = n + 1
  BY <1>1
<1>3. n + 1 \in 1..(n + 1) /\ \A i \in 1..n : i \in 1..(n + 1)
  BY <1>1
<1>4. Elements(t) = {t[i] : i \in 1..(n + 1)} /\ Elements(s) = {s[i] : i \in 1..n}
  BY <1>1 DEF Elements, n
<1>5. {t[i] : i \in 1..(n + 1)} = {s[i] : i \in 1..n} \cup {x}
  BY <1>1, <1>2, <1>3
<1> QED
  BY <1>4, <1>5 DEF t

\* The entry that comes next.
LEMMA NextComes ==
  ASSUME WalkTypeOK, walk.at < Len(walk.order)
  PROVE  /\ walk.at + 1 \in 1..Len(walk.order) /\ walk.order[walk.at + 1] \in walk.tree
         /\ walk.tree \in Trees /\ walk.at \in Nat
         /\ {walk.order[i] : i \in 1..(walk.at + 1)} = Come \cup {walk.order[walk.at + 1]}
<1>1. walk.at \in Nat /\ walk.order \in Seq(walk.tree) /\ walk.tree \in Trees
  BY DEF WalkTypeOK
<1>2. walk.at + 1 \in 1..Len(walk.order)
  BY <1>1
<1>3. walk.order[walk.at + 1] \in walk.tree
  BY <1>1, <1>2
<1> DEFINE n == walk.at
           order == walk.order
<1>4. {order[i] : i \in 1..(n + 1)} = {order[i] : i \in 1..n} \cup {order[n + 1]}
  <2>1. n \in Nat
    BY <1>1
  <2> HIDE DEF n, order
  <2>2. \A i \in 1..(n + 1) : i \in 1..n \/ i = n + 1
    BY <2>1
  <2>3. n + 1 \in 1..(n + 1) /\ \A i \in 1..n : i \in 1..(n + 1)
    BY <2>1
  <2> QED
    BY <2>2, <2>3
<1> QED
  BY <1>1, <1>2, <1>3, <1>4 DEF Come

LEMMA FirstAtIs ==
  ASSUME WalkTypeOK, NEW i \in 1..Len(walk.order)
  PROVE  /\ FirstAt(walk.order[i].path) \in 1..Len(walk.order)
         /\ walk.order[FirstAt(walk.order[i].path)].path = walk.order[i].path
         /\ FirstAt(walk.order[i].path) <= i
<1> DEFINE path == walk.order[i].path
           n == Len(walk.order)
           S == {k \in 1..n : walk.order[k].path = path}
           Firsts(k) == walk.order[k].path = path /\ \A j \in 1..(k - 1) : walk.order[j].path # path
<1>1. n \in Nat
  BY DEF WalkTypeOK
<1>2. Min(S) \in S /\ \A k \in S : Min(S) <= k
  <2>1. S \in SUBSET (1..n) /\ S # {}
    OBVIOUS
  <2> HIDE DEF S
  <2> QED
    BY <1>1, <2>1, LeastIs
<1>3. Min(S) \in 1..n /\ Firsts(Min(S))
  <2> DEFINE m == Min(S)
  <2>1. m \in 1..n /\ walk.order[m].path = path
    BY <1>2
  <2>2. ASSUME NEW j \in 1..(m - 1) PROVE walk.order[j].path # path
    <3>1. j \in 1..n /\ ~(m <= j)
      BY <1>1, <2>1
    <3>2. j \notin S
      <4> HIDE DEF S
      <4> QED
        BY <1>2, <3>1
    <3> QED
      BY <3>1, <3>2
  <2> QED
    BY <2>1, <2>2
<1>4. FirstAt(path) = CHOOSE k \in 1..n : Firsts(k)
  BY DEF FirstAt
<1>5. FirstAt(path) \in 1..n /\ Firsts(FirstAt(path))
  <2> HIDE DEF Firsts, S
  <2> QED
    BY <1>3, <1>4
<1>6. FirstAt(path) <= i
  <2> DEFINE k == FirstAt(path)
  <2>1. k \in 1..n /\ \A j \in 1..(k - 1) : walk.order[j].path # path
    BY <1>5
  <2> HIDE DEF k
  <2>2. i \notin 1..(k - 1)
    BY <2>1
  <2> QED
    BY <1>1, <2>1, <2>2 DEF k
<1> QED
  BY <1>5, <1>6

LEMMA SameWalk ==
  ASSUME walk'.op = walk.op, walk'.order = walk.order
  PROVE  (\A e : Wanted(e)' = Wanted(e)) /\ (\A p : FirstAt(p)' = FirstAt(p))
BY DEF Wanted, FirstAt

LEMMA WalkMoves ==
  ASSUME WalkTypeOK, NEW found \in Seq(Paths), walk.at < Len(walk.order),
         walk' = [walk EXCEPT !.at = @ + 1, !.found = found]
  PROVE  WalkTypeOK'
<1>1. /\ walk.at \in Nat /\ Len(walk.order) \in Nat
      /\ walk \in [op: Operations, tree: Trees, order: Seq(walk.tree), at: Nat,
                  found: Seq(Paths), answer: {"walking", "error", "paths"}]
  BY DEF WalkTypeOK
<1>2. walk.at + 1 \in Nat /\ walk.at + 1 <= Len(walk.order)
  BY <1>1
<1>3. walk'.order = walk.order /\ walk'.tree = walk.tree /\ walk'.at = walk.at + 1
  BY <1>1
<1>4. walk' \in [op: Operations, tree: Trees, order: Seq(walk.tree), at: Nat,
                found: Seq(Paths), answer: {"walking", "error", "paths"}]
  BY <1>1, <1>2
<1> QED
  BY <1>2, <1>3, <1>4 DEF WalkTypeOK

LEMMA NoAnswerYet ==
  ASSUME walk'.answer # "paths"
  PROVE  OneSequence'
BY DEF OneSequence

LEMMA WalkFails ==
  ASSUME DiscoveryIInv, walk' = [walk EXCEPT !.answer = "error"]
  PROVE  DiscoveryIInv'
<1>1. /\ WalkTypeOK /\ AllCome /\ walk'.op = walk.op /\ walk'.order = walk.order
      /\ walk'.tree = walk.tree /\ walk'.at = walk.at /\ walk'.answer = "error"
      /\ walk'.found = walk.found
  BY DEF DiscoveryIInv, WalkTypeOK
<1>2. WalkTypeOK'
  <2>1. walk' \in [op: Operations, tree: Trees, order: Seq(walk.tree), at: Nat,
                   found: Seq(Paths), answer: {"walking", "error", "paths"}]
    BY <1>1 DEF WalkTypeOK
  <2> QED
    BY <1>1, <2>1 DEF WalkTypeOK
<1>3. AllCome' /\ FoundSoFar' /\ OneSequence'
  BY <1>1, NoAnswerYet DEF AllCome, FoundSoFar
<1> QED
  BY <1>2, <1>3 DEF DiscoveryIInv

LEMMA DiscoveryStarts == DiscoveryInit => DiscoveryIInv
<1> SUFFICES ASSUME DiscoveryInit PROVE DiscoveryIInv
  OBVIOUS
<1>1. PICK tree \in Trees, o \in Operations, valid \in BOOLEAN :
        \E order \in IF o = "list" THEN UNION {[1..n -> tree] : n \in 0..MaxListed}
                     ELSE SetToSeqs(tree) :
          walk = [op |-> o, tree |-> tree, order |-> order, at |-> 0, found |-> <<>>,
                  answer |-> IF valid \/ o = "list" THEN "walking" ELSE "error"]
  BY DEF DiscoveryInit
<1>2. PICK order : /\ order \in IF o = "list" THEN UNION {[1..n -> tree] : n \in 0..MaxListed}
                                ELSE SetToSeqs(tree)
                   /\ walk = [op |-> o, tree |-> tree, order |-> order, at |-> 0, found |-> <<>>,
                              answer |-> IF valid \/ o = "list" THEN "walking" ELSE "error"]
  BY <1>1
<1>3. IsFiniteSet(tree)
  BY TreesAssumption
<1>4. order \in Seq(tree) /\ (o # "list" => Elements(order) = tree)
  <2>1. CASE o = "list"
    <3>1. PICK n \in 0..MaxListed : order \in [1..n -> tree]
      BY <1>2, <2>1
    <3>2. n \in Nat
      BY TreesAssumption
    <3> QED
      BY <2>1, <3>1, <3>2
  <2>2. CASE o # "list"
    BY <1>2, <1>3, <2>2, AllOf
  <2> QED
    BY <2>1, <2>2
<1>5. /\ walk.op = o /\ walk.tree = tree /\ walk.order = order /\ walk.at = 0
      /\ walk.found = <<>> /\ walk.answer \in {"walking", "error"}
  BY <1>2
<1>6. WalkTypeOK
  <2>1. <<>> \in Seq(Paths) /\ Len(order) \in Nat
    BY <1>4
  <2> QED
    BY <1>2, <1>4, <1>5, <2>1 DEF WalkTypeOK
<1>7. Come = {} /\ Elements(walk.found) = {} /\ FirstsInOrder(walk.found)
  BY <1>5 DEF Come, Elements, FirstsInOrder
<1>8. AllCome /\ FoundSoFar /\ OneSequence
  BY <1>4, <1>5, <1>7 DEF AllCome, FoundSoFar, OneSequence
<1> QED
  BY <1>6, <1>8 DEF DiscoveryIInv

LEMMA VisitStep == DiscoveryIInv /\ Visit => DiscoveryIInv'
<1> SUFFICES ASSUME DiscoveryIInv, Visit PROVE DiscoveryIInv'
  OBVIOUS
<1> DEFINE e == walk.order[walk.at + 1]
           kept == e.readable /\ Wanted(e)
           after == IF kept THEN Append(walk.found, e.path) ELSE walk.found
<1>1. /\ WalkTypeOK /\ AllCome /\ walk.answer = "walking" /\ walk.op \in {"hive", "scan", "glob"}
      /\ walk.at < Len(walk.order)
  BY DEF DiscoveryIInv, Visit
<1>2. /\ walk.at + 1 \in 1..Len(walk.order) /\ e \in walk.tree /\ walk.tree \in Trees
      /\ {walk.order[i] : i \in 1..(walk.at + 1)} = Come \cup {e} /\ walk.at \in Nat
  BY <1>1, NextComes
<1>3. e.path \in Paths /\ e.readable \in BOOLEAN
  BY <1>2, EntryIs
<1>4. CASE ~e.readable /\ walk.op = "glob"
  BY <1>4, WalkFails DEF Visit
<1>5. CASE ~(~e.readable /\ walk.op = "glob")
  <2>1. walk' = [walk EXCEPT !.at = @ + 1, !.found = after]
    BY <1>5 DEF Visit
  <2>2. walk.found \in Seq(Paths) /\ Elements(after) = Elements(walk.found) \cup IF kept THEN {e.path} ELSE {}
    <3>1. walk.found \in Seq(Paths)
      BY <1>1 DEF WalkTypeOK
    <3>2. CASE kept
      BY <1>3, <3>1, <3>2, OneMore
    <3>3. CASE ~kept
      BY <3>1, <3>3
    <3> QED
      BY <3>2, <3>3
  <2>3. after \in Seq(Paths)
    BY <1>3, <2>2
  <2> HIDE DEF after
  <2>4. /\ walk'.op = walk.op /\ walk'.order = walk.order /\ walk'.tree = walk.tree
        /\ walk'.at = walk.at + 1 /\ walk'.found = after /\ walk'.answer = "walking"
    BY <1>1, <2>1 DEF WalkTypeOK
  <2>5. WalkTypeOK'
    BY <1>1, <2>1, <2>3, WalkMoves
  <2>6. AllCome' /\ OneSequence'
    BY <1>1, <2>4, NoAnswerYet DEF AllCome
  <2>7. Come' = Come \cup {e}
    BY <1>2, <2>4 DEF Come
  <2>8. \A d : Wanted(d)' = Wanted(d)
    BY <2>4, SameWalk
  <2>9. /\ Elements(walk.found) = {d.path : d \in {d \in Come : Wanted(d) /\ d.readable}}
        /\ walk.op = "glob" => \A d \in Come : d.readable
    BY <1>1 DEF DiscoveryIInv, FoundSoFar
  <2> HIDE DEF e
  <2>10. Elements(after) = {d.path : d \in {d \in Come \cup {e} : Wanted(d) /\ d.readable}}
    <3>1. CASE kept
      BY <2>2, <2>9, <3>1
    <3>2. CASE ~kept
      BY <2>2, <2>9, <3>2
    <3> QED
      BY <3>1, <3>2
  <2>11. walk.op = "glob" => \A d \in Come \cup {e} : d.readable
    BY <1>5, <2>9
  <2>12. FoundSoFar'
    BY <1>1, <2>4, <2>7, <2>8, <2>10, <2>11 DEF FoundSoFar
  <2> QED
    BY <2>5, <2>6, <2>12 DEF DiscoveryIInv
<1> QED
  BY <1>4, <1>5

LEMMA TakeListedStep == DiscoveryIInv /\ TakeListed => DiscoveryIInv'
<1> SUFFICES ASSUME DiscoveryIInv, TakeListed PROVE DiscoveryIInv'
  OBVIOUS
<1> DEFINE e == walk.order[walk.at + 1]
           after == FirstOccurrence(walk.found, e.path)
<1>1. /\ WalkTypeOK /\ AllCome /\ walk.answer = "walking" /\ walk.op = "list"
      /\ walk.at < Len(walk.order)
  BY DEF DiscoveryIInv, TakeListed
<1>2. /\ walk.at + 1 \in 1..Len(walk.order) /\ e \in walk.tree /\ walk.tree \in Trees
      /\ {walk.order[i] : i \in 1..(walk.at + 1)} = Come \cup {e} /\ walk.at \in Nat
      /\ walk.found \in Seq(Paths)
  BY <1>1, NextComes DEF WalkTypeOK
<1>3. e.path \in Paths
  BY <1>2, EntryIs
<1>4. CASE ~(e.file /\ e.readable)
  BY <1>4, WalkFails DEF TakeListed
<1>5. CASE e.file /\ e.readable
  <2>1. walk' = [walk EXCEPT !.at = @ + 1, !.found = after]
    BY <1>5 DEF TakeListed
  <2>2. after = IF e.path \in Elements(walk.found) THEN walk.found ELSE Append(walk.found, e.path)
    BY DEF FirstOccurrence, Elements
  <2>3. /\ after \in Seq(Paths) /\ Elements(after) = Elements(walk.found) \cup {e.path}
    <3>1. CASE e.path \in Elements(walk.found)
      BY <1>2, <2>2, <3>1
    <3>2. CASE e.path \notin Elements(walk.found)
      <4>1. after = Append(walk.found, e.path)
        BY <2>2, <3>2
      <4>2. Elements(Append(walk.found, e.path)) = Elements(walk.found) \cup {e.path}
        BY <1>2, <1>3, OneMore
      <4> QED
        BY <1>2, <1>3, <4>1, <4>2
    <3> QED
      BY <3>1, <3>2
  <2> HIDE DEF after
  <2>4. /\ walk'.op = walk.op /\ walk'.order = walk.order /\ walk'.tree = walk.tree
        /\ walk'.at = walk.at + 1 /\ walk'.found = after /\ walk'.answer = "walking"
    BY <1>1, <2>1 DEF WalkTypeOK
  <2>5. WalkTypeOK'
    BY <1>1, <2>1, <2>3, WalkMoves
  <2>6. AllCome' /\ OneSequence'
    BY <1>1, <2>4, NoAnswerYet DEF AllCome
  <2>7. Come' = Come \cup {e}
    BY <1>2, <2>4 DEF Come
  <2>8. /\ \A d \in Come : d.file /\ d.readable
        /\ Elements(walk.found) = {d.path : d \in Come}
        /\ FirstsInOrder(walk.found)
    BY <1>1 DEF DiscoveryIInv, FoundSoFar
  <2>9. Elements(after) = {d.path : d \in Come \cup {e}}
    <3> HIDE DEF e
    <3> QED
      BY <2>3, <2>8
  <2>10. FirstsInOrder(after)
    <3>1. CASE e.path \in Elements(walk.found)
      BY <2>2, <2>8, <3>1
    <3>2. CASE e.path \notin Elements(walk.found)
      <4> DEFINE n == Len(walk.found)
                 found == walk.found
      <4>1. /\ n \in Nat /\ after = Append(found, e.path) /\ Len(after) = n + 1
            /\ after[n + 1] = e.path /\ \A k \in 1..n : after[k] = found[k]
        BY <1>2, <1>3, <2>2, <3>2
      <4>2. FirstAt(e.path) = walk.at + 1
        <5> DEFINE first == FirstAt(e.path)
        <5>1. first \in 1..Len(walk.order) /\ walk.order[first].path = e.path /\ first <= walk.at + 1
          BY <1>1, <1>2, FirstAtIs
        <5>2. first \notin 1..walk.at
          <6>1. ASSUME first \in 1..walk.at PROVE FALSE
            <7>1. walk.order[first] \in Come
              BY <6>1 DEF Come
            <7>2. e.path \in Elements(walk.found)
              BY <2>8, <5>1, <7>1
            <7> QED
              BY <3>2, <7>2
          <6> QED
            BY <6>1
        <5> HIDE DEF first
        <5>3. first = walk.at + 1
          BY <1>2, <5>1, <5>2
        <5> QED
          BY <5>3 DEF first
      <4>3. ASSUME NEW k \in 1..n PROVE FirstAt(found[k]) < walk.at + 1
        <5>1. found[k] \in Elements(walk.found)
          BY DEF Elements
        <5>2. PICK i \in 1..walk.at : found[k] = walk.order[i].path
          BY <2>8, <5>1 DEF Come
        <5>3. i \in 1..Len(walk.order)
          BY <1>2
        <5>4. FirstAt(found[k]) <= i /\ FirstAt(found[k]) \in 1..Len(walk.order)
          BY <1>1, <5>2, <5>3, FirstAtIs
        <5> QED
          BY <1>2, <5>4
      <4> SUFFICES ASSUME NEW i \in 1..(n + 1), NEW j \in 1..(n + 1), i < j
                   PROVE  FirstAt(after[i]) < FirstAt(after[j])
        BY <4>1 DEF FirstsInOrder
      <4> HIDE DEF n, found, e
      <4>4. i \in 1..n
        BY <4>1
      <4>5. CASE j = n + 1
        BY <4>1, <4>2, <4>3, <4>4, <4>5
      <4>6. CASE j # n + 1
        <5>1. j \in 1..n
          BY <4>1, <4>6
        <5>2. FirstAt(found[i]) < FirstAt(found[j])
          BY <2>8, <4>4, <5>1 DEF FirstsInOrder, n, found
        <5> QED
          BY <4>1, <4>4, <5>1, <5>2
      <4> QED
        BY <4>5, <4>6
    <3> QED
      BY <3>1, <3>2
  <2>11. FirstsInOrder(walk.found)'
    <3>1. \A p : FirstAt(p)' = FirstAt(p)
      BY <2>4, SameWalk
    <3> QED
      BY <2>4, <2>10, <3>1 DEF FirstsInOrder
  <2> HIDE DEF e
  <2>12. FoundSoFar'
    BY <1>1, <1>5, <2>4, <2>7, <2>8, <2>9, <2>11 DEF FoundSoFar
  <2> QED
    BY <2>5, <2>6, <2>12 DEF DiscoveryIInv
<1> QED
  BY <1>4, <1>5

LEMMA FrontIs ==
  ASSUME NEW p \in Seq(Int), p # <<>>, \A i \in 1..(Len(p) - 1) : p[i] \in HiveNames
  PROVE  \A i \in 1..Len(Front(p)) : Front(p)[i] \in HiveNames
<1>1. Len(p) \in Nat /\ Len(p) # 0
  OBVIOUS
<1> DEFINE n == Len(p) - 1
<1>2. n \in Nat /\ n <= Len(p)
  BY <1>1
<1> HIDE DEF n
<1>3. Len(SubSeq(p, 1, n)) = n /\ \A i \in 1..n : SubSeq(p, 1, n)[i] = p[i]
  BY <1>1, <1>2
<1>4. Front(p) = SubSeq(p, 1, n)
  BY DEF Front, n
<1>5. \A i \in 1..n : p[i] \in HiveNames
  BY DEF n
<1> QED
  BY <1>3, <1>4, <1>5

LEMMA ReturnPathsStep == DiscoveryIInv /\ ReturnPaths => DiscoveryIInv'
<1> SUFFICES ASSUME DiscoveryIInv, ReturnPaths PROVE DiscoveryIInv'
  OBVIOUS
<1> DEFINE found == InPathOrder(walk.found)
<1>1. /\ WalkTypeOK /\ AllCome /\ FoundSoFar /\ walk.answer = "walking"
      /\ walk.at = Len(walk.order)
      /\ walk' = [walk EXCEPT !.answer = "paths", !.found = found]
  BY DEF DiscoveryIInv, ReturnPaths
<1>2. /\ walk.found \in Seq(Paths) /\ walk.order \in Seq(walk.tree) /\ walk.tree \in Trees
  BY <1>1 DEF WalkTypeOK
<1>3. /\ found \in Seq(Paths) /\ Elements(found) = Elements(walk.found)
      /\ walk.op # "list" => Ordered(found)
      /\ walk.op = "list" => found = walk.found
  BY <1>2, SortedIs DEF InPathOrder
<1> HIDE DEF found
<1>4. /\ walk'.op = walk.op /\ walk'.order = walk.order /\ walk'.tree = walk.tree
      /\ walk'.at = walk.at /\ walk'.found = found /\ walk'.answer = "paths"
  BY <1>1 DEF WalkTypeOK
<1>5. WalkTypeOK'
  <2>1. walk' \in [op: Operations, tree: Trees, order: Seq(walk.tree), at: Nat,
                   found: Seq(Paths), answer: {"walking", "error", "paths"}]
    BY <1>1, <1>3 DEF WalkTypeOK
  <2> QED
    BY <1>1, <1>4, <2>1 DEF WalkTypeOK
<1>6. AllCome' /\ FoundSoFar'
  BY <1>1, <1>4 DEF AllCome, FoundSoFar
<1>7. Come = Elements(walk.order)
  BY <1>1 DEF Come, Elements
<1>8. (\A e : Wanted(e)' = Wanted(e)) /\ (\A p : FirstAt(p)' = FirstAt(p))
  BY <1>4, SameWalk
<1>9. CASE walk.op = "list"
  <2>1. /\ \A e \in Elements(walk.order) : e.file /\ e.readable
        /\ Elements(found) = {e.path : e \in Elements(walk.order)}
        /\ \A i, j \in 1..Len(found) : i < j => FirstAt(found[i]) < FirstAt(found[j])
    BY <1>1, <1>3, <1>7, <1>9 DEF FoundSoFar, FirstsInOrder
  <2>2. OneSequence'
    BY <1>4, <1>8, <1>9, <2>1 DEF OneSequence
  <2> QED
    BY <1>5, <1>6, <2>2 DEF DiscoveryIInv
<1>10. CASE walk.op # "list"
  <2>1. /\ Elements(found) = {e.path : e \in {d \in walk.tree : Wanted(d) /\ d.readable}}
        /\ walk.op = "glob" => \A e \in walk.tree : e.readable
    BY <1>1, <1>3, <1>7, <1>10 DEF FoundSoFar, AllCome
  <2>2. \A i, j \in 1..Len(found) : i < j => PathBefore(found[i], found[j])
    BY <1>3, <1>10 DEF Ordered
  <2>3. ASSUME walk.op = "hive", NEW p \in Elements(found)
        PROVE  Elements(Front(p)) \subseteq HiveNames
    <3>1. PICK e \in walk.tree : p = e.path /\ Wanted(e)
      BY <2>1
    <3>2. \A i \in 1..(Len(p) - 1) : p[i] \in HiveNames
      BY <2>3, <3>1 DEF Wanted, AllHive
    <3>3. p \in Seq(Int) /\ p # <<>>
      BY <1>2, <3>1, EntryIs DEF Paths
    <3>4. \A i \in 1..Len(Front(p)) : Front(p)[i] \in HiveNames
      BY <3>2, <3>3, FrontIs
    <3> QED
      BY <3>4 DEF Elements
  <2>4. OneSequence'
    <3>1. {e \in walk.tree : Wanted(e) /\ e.readable} = {e \in walk.tree : Wanted(e)' /\ e.readable}
      BY <1>8
    <3> QED
      BY <1>4, <1>10, <2>1, <2>2, <2>3, <3>1 DEF OneSequence
  <2> QED
    BY <1>5, <1>6, <2>4 DEF DiscoveryIInv
<1> QED
  BY <1>9, <1>10

LEMMA DiscoveryStays == DiscoveryIInv /\ [DiscoveryNext]_walk => DiscoveryIInv'
<1> SUFFICES ASSUME DiscoveryIInv, [DiscoveryNext]_walk PROVE DiscoveryIInv'
  OBVIOUS
<1>1. CASE UNCHANGED walk
  <2>1. (\A e : Wanted(e)' = Wanted(e)) /\ (\A p : FirstAt(p)' = FirstAt(p)) /\ Come' = Come
    BY <1>1, SameWalk DEF Come
  <2>2. WalkTypeOK' /\ AllCome'
    BY <1>1 DEF DiscoveryIInv, WalkTypeOK, AllCome
  <2>3. FoundSoFar'
    BY <1>1, <2>1 DEF DiscoveryIInv, FoundSoFar, FirstsInOrder
  <2>4. OneSequence'
    BY <1>1, <2>1 DEF DiscoveryIInv, OneSequence
  <2> QED
    BY <2>2, <2>3, <2>4 DEF DiscoveryIInv
<1> QED
  BY <1>1, VisitStep, TakeListedStep, ReturnPathsStep DEF DiscoveryNext

\* Whatever order the entries come in, paths_from_directory_scan,
\* paths_from_glob and discover_hive_partitioned_files return one sequence,
\* and paths_from_explicit_list keeps the caller's.
THEOREM DiscoveryIsStable == DiscoverySpec => []OneSequence
<1>1. DiscoveryInit => DiscoveryIInv
  BY DiscoveryStarts
<1>2. DiscoveryIInv /\ [DiscoveryNext]_walk => DiscoveryIInv'
  BY DiscoveryStays
<1>3. DiscoveryIInv => OneSequence
  BY DEF DiscoveryIInv
<1> QED
  BY <1>1, <1>2, <1>3, PTL DEF DiscoverySpec

-----------------------------------------------------------------------------
(* Loads that follow one another.                                          *)

USE BoundsAssumption

IsFinite(row) == row.cell.kind = "finite"
HasBatch == call \in {"returned", "taken"}

\* A saved floor is the watermark of a row that has arrived.
FloorIsArrived ==
  floor = 0 \/ \E q \in AllRows : q.file <= published /\ IsFinite(q) /\ q.cell.v = floor

\* The rows read so far are of the files read so far.
ReadInOrder == call = "reading" => \A k \in DOMAIN batch :
  /\ batch[k].file < next
  /\ load.api = "single" => IsAbove(batch[k].cell, floor)

\* What is returned is above the floor, and maximum its greatest watermark.
BatchIsAbove == HasBatch => \A k \in DOMAIN batch :
  /\ batch[k].file <= listed /\ IsAbove(batch[k].cell, floor)
  /\ IsFinite(batch[k]) => batch[k].cell.v <= maximum
MaximumIsReached == (HasBatch /\ maximum # 0) =>
  \E k \in DOMAIN batch : IsFinite(batch[k]) /\ batch[k].cell.v = maximum

\* Before a crash, a row that was taken is behind the floor, or will be when
\* the caller has saved it.
TakenIsBehind == crashes = 0 => \A row \in AllRows :
  (IsFinite(row) /\ taken[row] > 0) =>
    row.cell.v <= floor \/ (call = "taken" /\ row.cell.v <= maximum)

IngestInv ==
  /\ TypeOK /\ FloorIsArrived /\ ReadInOrder /\ BatchIsAbove /\ MaximumIsReached
  /\ TakenIsBehind /\ TakenOnce

\* What is read and not yet returned is all there is to read.
ReadCompletely == call = "reading" =>
  /\ load.api = "ordered" => \A row \in AllRows : row.file < next => InBatch(row)
  /\ load.api = "single" => batch = IF next = 1 THEN <<>> ELSE LoadedAlone(1)

\* Nothing between the floor and the maximum is left out of the batch.
BatchIsComplete == HasBatch => \A row \in AllRows :
  (/\ row.file <= listed /\ IsFinite(row)
   /\ floor < row.cell.v /\ row.cell.v <= maximum) => InBatch(row)
BatchIsTaken == call = "taken" => \A k \in DOMAIN batch : taken[batch[k]] > 0

ArrivedAreTaken == \A row \in AllRows :
  (row.file <= published /\ IsFinite(row) /\ row.cell.v <= floor) => taken[row] > 0

ResumeInv == Resumable(load) =>
  ReadCompletely /\ BatchIsComplete /\ BatchIsTaken /\ ArrivedAreTaken
-----------------------------------------------------------------------------

(* Operators on rows                                                       *)

\* What apply_watermark_filter returns: the rows above the floor, in order.
LEMMA FilterFacts ==
  ASSUME NEW A, NEW rows \in Seq(A), NEW mark
  PROVE  /\ Filtered(rows, mark) \in Seq(A)
         /\ \A x : (\E k \in DOMAIN Filtered(rows, mark) : Filtered(rows, mark)[k] = x)
              <=> (\E i \in DOMAIN rows : rows[i] = x /\ IsAbove(x.cell, mark))
         /\ (\A i \in DOMAIN rows : rows[i].at = i) =>
              \A k, m \in DOMAIN Filtered(rows, mark) :
                k < m => Filtered(rows, mark)[k].at < Filtered(rows, mark)[m].at
<1> DEFINE n == Len(rows)
           next1(kept, i) ==
             IF i = 0 THEN <<>>
             ELSE IF IsAbove(rows[i].cell, mark) THEN Append(kept[i - 1], rows[i])
             ELSE kept[i - 1]
           IsKept(f) == f = [i \in 0..n |-> next1(f, i)]
           K == CHOOSE f : IsKept(f)
           step == [i \in 1..n |-> [k \in Seq(A) |->
                      IF IsAbove(rows[i].cell, mark) THEN Append(k, rows[i]) ELSE k]]
<1>1. n \in Nat /\ \A i \in 1..n : rows[i] \in A
  OBVIOUS
<1>2. step \in [1..n -> [Seq(A) -> Seq(A)]]
  <2> HIDE DEF n
  <2> QED
    BY <1>1
<1>3. PICK g : g \in Recursive(n, Seq(A), <<>>, step)
  <2>1. <<>> \in Seq(A)
    OBVIOUS
  <2> HIDE DEF step, n
  <2> QED
    BY <1>1, <1>2, <2>1, Recursion
<1>4. /\ g \in [0..n -> Seq(A)]
      /\ g[0] = <<>> /\ \A i \in 1..n : g[i] = step[i][g[i - 1]]
  BY <1>3 DEF Recursive
<1> HIDE DEF n
<1>5. \A i \in 0..n : g[i] = next1(g, i)
  <2> SUFFICES ASSUME NEW i \in 0..n, i # 0 PROVE g[i] = next1(g, i)
    BY <1>4
  <2>1. i \in 1..n /\ i - 1 \in 0..n /\ g[i - 1] \in Seq(A)
    BY <1>1, <1>4
  <2>2. step[i][g[i - 1]] = IF IsAbove(rows[i].cell, mark) THEN Append(g[i - 1], rows[i])
                            ELSE g[i - 1]
    BY <2>1
  <2> QED
    BY <1>4, <2>1, <2>2
<1>6. IsKept(g)
  <2> HIDE DEF next1
  <2> QED
    BY <1>4, <1>5
<1>7. IsKept(K)
  <2> HIDE DEF IsKept
  <2> QED
    BY <1>6
<1>8. Filtered(rows, mark) = K[n]
  BY DEF Filtered, n
<1>9. \A i \in 0..n : K[i] = next1(K, i)
  <2> HIDE DEF K, next1
  <2> QED
    BY <1>7
<1> HIDE DEF K
<1> DEFINE Good(s, i) ==
             /\ s \in Seq(A)
             /\ \A x : (\E k \in DOMAIN s : s[k] = x)
                  <=> (\E j \in 1..i : rows[j] = x /\ IsAbove(x.cell, mark))
             /\ (\A j \in 1..n : rows[j].at = j) =>
                  /\ \A k \in DOMAIN s : s[k].at \in 1..i
                  /\ \A k, m \in DOMAIN s : k < m => s[k].at < s[m].at
           S == {i \in 0..n : Good(K[i], i)}
<1>10. 0 \in S
  <2>1. K[0] = <<>> /\ 0 \in 0..n /\ 1..0 = {}
    BY <1>1, <1>9
  <2>2. Good(<<>>, 0)
    BY <2>1
  <2> HIDE DEF Good
  <2> QED
    BY <2>1, <2>2
<1>11. ASSUME NEW i \in 1..n, i - 1 \in S PROVE i \in S
  <2> DEFINE s == K[i - 1]
             x0 == rows[i]
  <2>1. Good(s, i - 1) /\ i - 1 \in 0..n /\ i \in 0..n /\ x0 \in A
    BY <1>1, <1>11
  <2>2. K[i] = IF IsAbove(x0.cell, mark) THEN Append(s, x0) ELSE s
    BY <1>1, <1>9, <2>1
  <2> HIDE DEF s
  <2>3. \A j : j \in 1..i <=> j \in 1..(i - 1) \/ j = i
    BY <1>1
  <2>4. CASE ~IsAbove(x0.cell, mark)
    <3>1. \A x : (\E j \in 1..i : rows[j] = x /\ IsAbove(x.cell, mark))
            <=> (\E j \in 1..(i - 1) : rows[j] = x /\ IsAbove(x.cell, mark))
      BY <2>3, <2>4
    <3>2. \A j : j \in 1..(i - 1) => j \in 1..i
      BY <2>3
    <3>3. Good(s, i)
      BY <2>1, <3>1, <3>2
    <3> HIDE DEF Good
    <3> QED
      BY <2>1, <2>2, <2>4, <3>3
  <2>5. CASE IsAbove(x0.cell, mark)
    <3> DEFINE t == Append(s, x0)
    <3>1. /\ s \in Seq(A) /\ Len(s) \in Nat /\ t \in Seq(A) /\ Len(t) = Len(s) + 1
          /\ DOMAIN s = 1..Len(s) /\ DOMAIN t = 1..(Len(s) + 1)
          /\ \A k \in 1..Len(s) : t[k] = s[k]
          /\ t[Len(s) + 1] = x0
      BY <2>1
    <3> HIDE DEF t
    <3>2. \A k : k \in 1..(Len(s) + 1) <=> k \in 1..Len(s) \/ k = Len(s) + 1
      BY <3>1
    <3>3. \A x : (\E k \in DOMAIN t : t[k] = x) <=> (\E k \in DOMAIN s : s[k] = x) \/ x = x0
      BY <3>1, <3>2
    <3>4. \A x : (\E j \in 1..i : rows[j] = x /\ IsAbove(x.cell, mark))
            <=> (\E j \in 1..(i - 1) : rows[j] = x /\ IsAbove(x.cell, mark)) \/ x = x0
      BY <2>3, <2>5
    <3>5. \A x : (\E k \in DOMAIN t : t[k] = x)
            <=> (\E j \in 1..i : rows[j] = x /\ IsAbove(x.cell, mark))
      BY <2>1, <3>3, <3>4
    <3>6. ASSUME \A j \in 1..n : rows[j].at = j
          PROVE  /\ \A k \in DOMAIN t : t[k].at \in 1..i
                 /\ \A k, m \in DOMAIN t : k < m => t[k].at < t[m].at
      <4>1. /\ \A k \in 1..Len(s) : s[k].at \in 1..(i - 1)
            /\ \A k, m \in 1..Len(s) : k < m => s[k].at < s[m].at
        BY <2>1, <3>1, <3>6
      <4>2. x0.at = i
        BY <3>6
      <4>3. \A k \in 1..Len(s) : t[k].at \in 1..(i - 1)
        BY <3>1, <4>1
      <4>4. t[Len(s) + 1].at = i
        BY <3>1, <4>2
      <4>5. \A k \in DOMAIN t : t[k].at \in 1..i
        BY <2>3, <3>1, <3>2, <4>3, <4>4, <1>1
      <4>6. ASSUME NEW k \in DOMAIN t, NEW m \in DOMAIN t, k < m
            PROVE  t[k].at < t[m].at
        <5>1. k \in 1..Len(s)
          BY <3>1, <3>2, <4>6
        <5>2. CASE m \in 1..Len(s)
          BY <3>1, <4>1, <4>6, <5>1, <5>2
        <5>3. CASE m = Len(s) + 1
          BY <4>3, <4>4, <5>1, <5>3, <1>1
        <5> QED
          BY <3>1, <3>2, <5>2, <5>3
      <4> QED
        BY <4>5, <4>6
    <3>7. Good(t, i)
      BY <3>1, <3>5, <3>6
    <3> HIDE DEF Good
    <3> QED
      BY <2>1, <2>2, <2>5, <3>7 DEF t
  <2> QED
    BY <2>4, <2>5
<1> HIDE DEF S
<1>12. 0..n \subseteq S
  BY <1>1, <1>10, <1>11, IntervalInduction
<1>13. n \in S
  BY <1>1, <1>12
<1>14. Good(K[n], n)
  <2> HIDE DEF Good
  <2> QED
    BY <1>13 DEF S
<1>15. DOMAIN rows = 1..n
  BY DEF n
<1> DEFINE F == Filtered(rows, mark)
<1>16. /\ F \in Seq(A)
       /\ \A x : (\E k \in DOMAIN F : F[k] = x)
            <=> (\E j \in 1..n : rows[j] = x /\ IsAbove(x.cell, mark))
       /\ (\A j \in 1..n : rows[j].at = j) =>
            \A k, m \in DOMAIN F : k < m => F[k].at < F[m].at
  <2> HIDE DEF F
  <2>1. F = K[n]
    BY <1>8 DEF F
  <2> QED
    BY <1>14, <2>1
<1> HIDE DEF F
<1>17. /\ F \in Seq(A)
       /\ \A x : (\E k \in DOMAIN F : F[k] = x)
            <=> (\E i \in DOMAIN rows : rows[i] = x /\ IsAbove(x.cell, mark))
       /\ (\A i \in DOMAIN rows : rows[i].at = i) =>
            \A k, m \in DOMAIN F : k < m => F[k].at < F[m].at
  BY <1>15, <1>16, Zenon
<1> QED
  BY <1>17, Zenon DEF F

\* What apply_max_rows returns: the first rows.
LEMMA TruncateFacts ==
  ASSUME NEW A, NEW rows \in Seq(A), NEW m \in Nat
  PROVE  /\ Truncated(rows, m) \in Seq(A)
         /\ \A k \in DOMAIN Truncated(rows, m) :
              k \in DOMAIN rows /\ Truncated(rows, m)[k] = rows[k]
         /\ \A k \in DOMAIN rows, l \in DOMAIN Truncated(rows, m) :
              k <= l => k \in DOMAIN Truncated(rows, m)
         /\ m = 0 => Truncated(rows, m) = rows
<1>1. CASE m = 0 \/ Len(rows) <= m
  <2>1. Truncated(rows, m) = rows
    BY <1>1 DEF Truncated
  <2> QED
    BY <2>1
<1>2. CASE m # 0 /\ ~(Len(rows) <= m)
  <2> DEFINE t == SubSeq(rows, 1, m)
  <2>1. Truncated(rows, m) = t
    BY <1>2 DEF Truncated
  <2>2. m \in 1..Len(rows) /\ Len(rows) \in Nat
    BY <1>2
  <2>3. t \in Seq(A) /\ DOMAIN t = 1..m /\ \A k \in 1..m : t[k] = rows[k]
    BY <2>2
  <2> HIDE DEF t
  <2> QED
    BY <1>2, <2>1, <2>2, <2>3
<1> QED
  BY <1>1, <1>2

\* What max_value_in_column returns.
LEMMA MaxFacts ==
  ASSUME NEW R, \A r \in R : r.cell \in Cell, NEW rows \in Seq(R)
  PROVE  /\ MaxValue(rows, 0) \in Int
         /\ \A k \in DOMAIN rows : IsFinite(rows[k]) => rows[k].cell.v <= MaxValue(rows, 0)
         /\ \/ MaxValue(rows, 0) = 0
            \/ \E k \in DOMAIN rows :
                 IsFinite(rows[k]) /\ rows[k].cell.v = MaxValue(rows, 0)
<1> DEFINE n == Len(rows)
           V == FiniteValues(rows)
           S == {i \in 0..n :
                  \/ \A k \in 1..i : ~IsFinite(rows[k])
                  \/ \E k \in 1..i : /\ IsFinite(rows[k])
                                     /\ \A l \in 1..i : IsFinite(rows[l]) =>
                                          rows[l].cell.v <= rows[k].cell.v}
<1>1. n \in Nat /\ DOMAIN rows = 1..n /\ \A k \in 1..n : rows[k].cell.v \in Int
  <2>1. \A k \in 1..n : rows[k].cell \in Cell
    OBVIOUS
  <2>2. \A k \in 1..n : rows[k].cell.v \in Int
    BY <2>1 DEF Cell
  <2> QED
    BY <2>2
<1> HIDE DEF n
<1>2. 0 \in S
  BY <1>1
<1>3. ASSUME NEW i \in 1..n, i - 1 \in S PROVE i \in S
  <2>1. i \in 0..n /\ \A k : k \in 1..i <=> k \in 1..(i - 1) \/ k = i
    BY <1>1
  <2>2. \A k \in 1..i : rows[k].cell.v \in Int
    BY <1>1
  <2>3. CASE \A k \in 1..(i - 1) : ~IsFinite(rows[k])
    <3>1. CASE IsFinite(rows[i])
      <4>1. \A l \in 1..i : IsFinite(rows[l]) => rows[l].cell.v <= rows[i].cell.v
        BY <2>1, <2>2, <2>3
      <4> QED
        BY <2>1, <3>1, <4>1
    <3>2. CASE ~IsFinite(rows[i])
      BY <2>1, <2>3, <3>2
    <3> QED
      BY <3>1, <3>2
  <2>4. CASE \E k \in 1..(i - 1) : /\ IsFinite(rows[k])
                                   /\ \A l \in 1..(i - 1) : IsFinite(rows[l]) =>
                                        rows[l].cell.v <= rows[k].cell.v
    <3>1. PICK k \in 1..(i - 1) : /\ IsFinite(rows[k])
                                  /\ \A l \in 1..(i - 1) : IsFinite(rows[l]) =>
                                       rows[l].cell.v <= rows[k].cell.v
      BY <2>4
    <3>2. k \in 1..i /\ rows[k].cell.v \in Int /\ rows[i].cell.v \in Int
      BY <2>1, <2>2
    <3>3. CASE IsFinite(rows[i]) /\ rows[i].cell.v > rows[k].cell.v
      <4>1. \A l \in 1..i : IsFinite(rows[l]) => rows[l].cell.v <= rows[i].cell.v
        BY <2>1, <2>2, <3>1, <3>2, <3>3
      <4> QED
        BY <2>1, <3>3, <4>1
    <3>4. CASE ~IsFinite(rows[i]) \/ rows[i].cell.v <= rows[k].cell.v
      <4>1. \A l \in 1..i : IsFinite(rows[l]) => rows[l].cell.v <= rows[k].cell.v
        BY <2>1, <3>1, <3>4
      <4> QED
        BY <2>1, <3>1, <3>2, <4>1
    <3>5. \/ IsFinite(rows[i]) /\ rows[i].cell.v > rows[k].cell.v
          \/ ~IsFinite(rows[i]) \/ rows[i].cell.v <= rows[k].cell.v
      BY <3>2 DEF IsFinite
    <3> QED
      BY <3>3, <3>4, <3>5
  <2> QED
    BY <1>3, <2>3, <2>4
<1> HIDE DEF S
<1>4. n \in S
  <2>1. 0..n \subseteq S
    BY <1>1, <1>2, <1>3, IntervalInduction
  <2> QED
    BY <1>1, <2>1
<1>5. V = {rows[k].cell.v : k \in {j \in 1..n : IsFinite(rows[j])}}
  BY <1>1 DEF FiniteValues, IsFinite
<1>6. MaxValue(rows, 0) = IF V = {} THEN 0 ELSE CHOOSE x \in V : \A y \in V : x >= y
  BY DEF MaxValue, Max
<1> HIDE DEF V
<1>7. CASE \A k \in 1..n : ~IsFinite(rows[k])
  <2>1. V = {}
    BY <1>5, <1>7
  <2> QED
    BY <1>1, <1>6, <1>7, <2>1
<1>8. CASE \E k \in 1..n : /\ IsFinite(rows[k])
                           /\ \A l \in 1..n : IsFinite(rows[l]) =>
                                rows[l].cell.v <= rows[k].cell.v
  <2>1. PICK k \in 1..n : /\ IsFinite(rows[k])
                          /\ \A l \in 1..n : IsFinite(rows[l]) =>
                               rows[l].cell.v <= rows[k].cell.v
    BY <1>8
  <2>2. rows[k].cell.v \in V
    BY <1>5, <2>1
  <2>3. \A y \in V : rows[k].cell.v >= y
    BY <1>1, <1>5, <2>1
  <2> DEFINE M == CHOOSE x \in V : \A y \in V : x >= y
  <2>4. M \in V /\ \A y \in V : M >= y
    BY <2>2, <2>3
  <2>5. MaxValue(rows, 0) = M
    BY <1>6, <2>2
  <2> HIDE DEF M
  <2>6. PICK l \in 1..n : IsFinite(rows[l]) /\ rows[l].cell.v = M
    BY <1>5, <2>4
  <2>7. \A j \in 1..n : IsFinite(rows[j]) => rows[j].cell.v <= M
    <3> SUFFICES ASSUME NEW j \in 1..n, IsFinite(rows[j]) PROVE rows[j].cell.v <= M
      OBVIOUS
    <3>1. rows[j].cell.v \in V /\ rows[j].cell.v \in Int /\ M \in Int
      BY <1>1, <1>5, <2>6
    <3> QED
      BY <2>4, <3>1
  <2> QED
    BY <1>1, <2>5, <2>6, <2>7
<1> QED
  BY <1>4, <1>7, <1>8 DEF S

-----------------------------------------------------------------------------
(* The rows of the files                                                   *)

LEMMA RowFacts ==
  ASSUME load \in Loads
  PROVE  /\ Len(content) \in Nat /\ DOMAIN content = 1..Len(content)
         /\ \A f \in 1..Len(content) :
              /\ RowsOf(f) \in Seq(AllRows) /\ Len(RowsOf(f)) \in Nat
              /\ \A i \in DOMAIN RowsOf(f) :
                   RowsOf(f)[i] \in AllRows /\ RowsOf(f)[i].file = f /\ RowsOf(f)[i].at = i
         /\ \A row \in AllRows :
              /\ row.file \in 1..Len(content) /\ row.cell \in Cell
              /\ row.at \in DOMAIN RowsOf(row.file)
              /\ RowsOf(row.file)[row.at] = row
              /\ row.at \in DOMAIN content[row.file]
              /\ row.cell = content[row.file][row.at]
         /\ \A row, n : row \in RowsOfFiles(1..n) /\ n \in 0..Len(content)
              => row \in AllRows /\ row.file <= n
<1>1. content \in Seq(Seq(Cell))
  BY LoadsAssumption DEF content
<1>2. DOMAIN content = 1..Len(content) /\ Len(content) \in Nat
  BY <1>1
<1>3. ASSUME NEW f \in 1..Len(content)
      PROVE  /\ content[f] \in Seq(Cell) /\ Len(content[f]) \in Nat
             /\ DOMAIN RowsOf(f) = 1..Len(content[f])
             /\ DOMAIN content[f] = 1..Len(content[f])
             /\ \A i \in 1..Len(content[f]) :
                  RowsOf(f)[i] = [file |-> f, at |-> i, cell |-> content[f][i]]
  <2>1. content[f] \in Seq(Cell)
    BY <1>1, <1>2
  <2> QED
    BY <2>1 DEF RowsOf
<1>4. \A row, F : row \in RowsOfFiles(F) <=>
        \E f \in F : \E i \in DOMAIN RowsOf(f) : row = RowsOf(f)[i]
  BY DEF RowsOfFiles
<1>5. \A row : row \in AllRows <=>
        \E f \in 1..Len(content) : \E i \in DOMAIN RowsOf(f) : row = RowsOf(f)[i]
  BY <1>2, <1>4 DEF AllRows
<1>6. ASSUME NEW f \in 1..Len(content)
      PROVE  /\ RowsOf(f) \in Seq(AllRows) /\ Len(RowsOf(f)) \in Nat
             /\ \A i \in DOMAIN RowsOf(f) :
                  RowsOf(f)[i] \in AllRows /\ RowsOf(f)[i].file = f /\ RowsOf(f)[i].at = i
  <2>1. \A i \in 1..Len(content[f]) : RowsOf(f)[i] \in AllRows
    BY <1>3, <1>5
  <2>2. RowsOf(f) = [i \in 1..Len(content[f]) |-> RowsOf(f)[i]]
    BY DEF RowsOf
  <2>3. RowsOf(f) \in [1..Len(content[f]) -> AllRows]
    BY <2>1, <2>2
  <2>4. RowsOf(f) \in Seq(AllRows) /\ Len(RowsOf(f)) \in Nat
    <3> DEFINE s == RowsOf(f)
               m == Len(content[f])
    <3>1. s \in [1..m -> AllRows] /\ m \in Nat
      BY <1>3, <2>3
    <3> HIDE DEF s, m
    <3>2. s \in Seq(AllRows)
      BY <3>1
    <3> QED
      BY <3>2 DEF s
  <2>5. \A i \in DOMAIN RowsOf(f) :
          RowsOf(f)[i] = [file |-> f, at |-> i, cell |-> content[f][i]]
    BY <1>3
  <2>6. \A i \in DOMAIN RowsOf(f) : RowsOf(f)[i].file = f /\ RowsOf(f)[i].at = i
    BY <2>5
  <2>7. \A i \in DOMAIN RowsOf(f) : RowsOf(f)[i] \in AllRows
    BY <1>3, <2>1
  <2> QED
    BY <2>4, <2>6, <2>7
<1>7. ASSUME NEW row \in AllRows
      PROVE  /\ row.file \in 1..Len(content) /\ row.cell \in Cell
             /\ row.at \in DOMAIN RowsOf(row.file)
             /\ RowsOf(row.file)[row.at] = row
             /\ row.at \in DOMAIN content[row.file]
             /\ row.cell = content[row.file][row.at]
  <2>0. PICK f \in 1..Len(content) : \E i \in DOMAIN RowsOf(f) : row = RowsOf(f)[i]
    BY <1>5
  <2>1. PICK i \in DOMAIN RowsOf(f) : row = RowsOf(f)[i]
    BY <2>0
  <2>2. /\ i \in 1..Len(content[f])
        /\ row = [file |-> f, at |-> i, cell |-> content[f][i]]
        /\ content[f][i] \in Cell
    <3>1. /\ i \in 1..Len(content[f]) /\ content[f] \in Seq(Cell)
          /\ RowsOf(f)[i] = [file |-> f, at |-> i, cell |-> content[f][i]]
      BY <1>3
    <3>2. content[f][i] \in Cell
      BY <3>1
    <3> QED
      BY <2>1, <3>1, <3>2
  <2>3. row.file = f /\ row.at = i /\ row.cell = content[f][i]
    BY <2>2
  <2> QED
    BY <1>3, <2>1, <2>2, <2>3
<1>8. ASSUME NEW row, NEW n \in 0..Len(content), row \in RowsOfFiles(1..n)
      PROVE  row \in AllRows /\ row.file <= n
  <2>1. PICK f \in 1..n : \E i \in DOMAIN RowsOf(f) : row = RowsOf(f)[i]
    BY <1>4, <1>8
  <2>2. f \in 1..Len(content) /\ f <= n
    BY <1>2
  <2> QED
    BY <1>5, <1>6, <2>1, <2>2
<1> QED
  BY <1>2, <1>6, <1>7, <1>8

\* What the producer promises.
LEMMA Produced ==
  ASSUME load \in Loads
  PROVE  /\ \A r \in AllRows : IsFinite(r) => r.cell.v >= 1
         /\ \A r, q \in AllRows :
              (IsFinite(r) /\ IsFinite(q) /\ r.file < q.file) => r.cell.v < q.cell.v
<1> SUFFICES ASSUME NEW r \in AllRows, NEW q \in AllRows, IsFinite(r), IsFinite(q)
             PROVE  r.cell.v >= 1 /\ (r.file < q.file => r.cell.v < q.cell.v)
  OBVIOUS
<1>1. /\ r.file \in DOMAIN content /\ q.file \in DOMAIN content
      /\ r.at \in DOMAIN content[r.file] /\ q.at \in DOMAIN content[q.file]
      /\ r.cell = content[r.file][r.at] /\ q.cell = content[q.file][q.at]
  BY RowFacts
<1>2. \A f \in DOMAIN content, g \in DOMAIN content :
        \A i \in DOMAIN content[f], j \in DOMAIN content[g] :
          (content[f][i].kind = "finite" /\ content[g][j].kind = "finite") =>
            content[f][i].v >= 1 /\ (f < g => content[f][i].v < content[g][j].v)
  BY ProducerAssumption DEF content
<1> QED
  BY <1>1, <1>2 DEF IsFinite

\* What ingest_from_path returns of one file.
LEMMA LoadedFacts ==
  ASSUME load \in Loads, NEW f \in 1..Len(content)
  PROVE  /\ Loaded(f) \in Seq(AllRows) /\ Len(Loaded(f)) \in Nat
         /\ \A k \in DOMAIN Loaded(f) :
              /\ Loaded(f)[k].file = f
              /\ load.api = "single" => IsAbove(Loaded(f)[k].cell, floor)
         /\ (load.api = "ordered" /\ load.max_rows = 0) => Loaded(f) = RowsOf(f)
         /\ load.api = "single" => Loaded(f) = LoadedAlone(f)
<1> DEFINE R == RowsOf(f)
           m == load.max_rows
           F == Filtered(R, floor)
<1>1. /\ R \in Seq(AllRows) /\ m \in Nat /\ load.api \in {"single", "ordered"}
      /\ \A i \in DOMAIN R : R[i].file = f
  BY RowFacts, LoadsAssumption
<1> HIDE DEF R, m
<1>2. /\ F \in Seq(AllRows)
      /\ \A k \in DOMAIN F : F[k].file = f /\ IsAbove(F[k].cell, floor)
  <2>1. F \in Seq(AllRows)
    BY <1>1, FilterFacts
  <2>2. \A k \in DOMAIN F :
          \E i \in DOMAIN R : R[i] = F[k] /\ IsAbove(F[k].cell, floor)
    BY <1>1, FilterFacts
  <2> QED
    BY <1>1, <2>1, <2>2
<1> HIDE DEF F
<1>3. CASE load.api = "single"
  <2>1. Loaded(f) = Truncated(F, m) /\ Loaded(f) = LoadedAlone(f)
    BY <1>3 DEF Loaded, LoadedAlone, F, R, m
  <2>2. /\ Truncated(F, m) \in Seq(AllRows)
        /\ \A k \in DOMAIN Truncated(F, m) : k \in DOMAIN F /\ Truncated(F, m)[k] = F[k]
    BY <1>1, <1>2, TruncateFacts
  <2>3. Len(Truncated(F, m)) \in Nat
    BY <2>2
  <2> QED
    BY <1>2, <1>3, <2>1, <2>2, <2>3
<1>4. CASE load.api = "ordered"
  <2>1. Loaded(f) = Truncated(R, m)
    BY <1>4 DEF Loaded, LoadedInBatch, R, m
  <2>2. /\ Truncated(R, m) \in Seq(AllRows) /\ (m = 0 => Truncated(R, m) = R)
        /\ \A k \in DOMAIN Truncated(R, m) : k \in DOMAIN R /\ Truncated(R, m)[k] = R[k]
    BY <1>1, TruncateFacts
  <2>3. Len(Truncated(R, m)) \in Nat
    BY <2>2
  <2> QED
    BY <1>1, <1>4, <2>1, <2>2, <2>3 DEF R, m
<1> QED
  BY <1>1, <1>3, <1>4

\* What ingest_from_ordered_paths makes of the rows of its files.
LEMMA ReturnedFacts ==
  ASSUME load \in Loads, batch \in Seq(AllRows)
  PROVE  /\ Returned \in Seq(AllRows)
         /\ \A k \in DOMAIN Returned :
              /\ IsAbove(Returned[k].cell, floor)
              /\ \E i \in DOMAIN batch : batch[i] = Returned[k]
         /\ load.max_rows = 0 =>
              \A i \in DOMAIN batch : IsAbove(batch[i].cell, floor) =>
                \E k \in DOMAIN Returned : Returned[k] = batch[i]
<1> DEFINE m == load.max_rows
           F == Filtered(batch, floor)
<1>1. m \in Nat
  BY LoadsAssumption
<1>2. /\ F \in Seq(AllRows)
      /\ \A x : (\E k \in DOMAIN F : F[k] = x)
           <=> (\E i \in DOMAIN batch : batch[i] = x /\ IsAbove(x.cell, floor))
  BY FilterFacts
<1> HIDE DEF m, F
<1>3. /\ Truncated(F, m) \in Seq(AllRows) /\ (m = 0 => Truncated(F, m) = F)
      /\ \A k \in DOMAIN Truncated(F, m) : k \in DOMAIN F /\ Truncated(F, m)[k] = F[k]
  BY <1>1, <1>2, TruncateFacts
<1>4. Returned = Truncated(F, m)
  BY DEF Returned, F, m
<1>5. \A k \in DOMAIN F :
        IsAbove(F[k].cell, floor) /\ \E i \in DOMAIN batch : batch[i] = F[k]
  BY <1>2
<1>6. \A i \in DOMAIN batch : IsAbove(batch[i].cell, floor) =>
        \E k \in DOMAIN F : F[k] = batch[i]
  BY <1>2
<1> QED
  BY <1>3, <1>4, <1>5, <1>6 DEF m

-----------------------------------------------------------------------------
(* Types                                                                   *)

LEMMA TypeStep ==
  ASSUME TypeOK, [Next]_vars
  PROVE  TypeOK'
<1>1. /\ load \in Loads /\ published \in 0..Len(content) /\ Len(content) \in Nat
      /\ call \in {"idle", "reading", "returned", "taken"}
      /\ listed \in 0..published /\ next \in 1..(listed + 1)
      /\ batch \in Seq(AllRows) /\ told \in Seq(Notices)
      /\ maximum \in Nat /\ floor \in Nat /\ taken \in [AllRows -> 0..2]
      /\ failures \in 0..MaxFailures /\ crashes \in 0..MaxCrashes
  BY RowFacts DEF TypeOK
<1>2. load' = load
  BY DEF Next, vars, Publish, CallStep, BeginCall, LoadFile, FinishBatch, TakeRows,
         SaveFloor, LoadFails, Crash
<1>3. AllRows' = AllRows /\ Len(content)' = Len(content) /\ DOMAIN content' = DOMAIN content
  BY <1>2 DEF AllRows, RowsOfFiles, RowsOf, content
<1>4. <<>> \in Seq(AllRows) /\ <<>> \in Seq(Notices)
  OBVIOUS
<1>5. CASE Publish
  BY <1>1, <1>2, <1>3, <1>5 DEF Publish, locals, TypeOK
<1>6. CASE BeginCall
  BY <1>1, <1>2, <1>3, <1>4, <1>6 DEF BeginCall, TypeOK
<1>7. CASE LoadFile
  <2>1. next \in 1..Len(content) /\ next <= listed
    BY <1>1, <1>7 DEF LoadFile
  <2>2. Loaded(next) \in Seq(AllRows) /\ Len(Loaded(next)) \in Nat
    BY <1>1, <2>1, LoadedFacts
  <2>3. batch' \in Seq(AllRows)
    BY <1>1, <1>7, <2>2 DEF LoadFile
  <2>4. Success(next, Loaded(next)) \in Notices
    BY <2>1, <2>2 DEF Success, Notices
  <2>5. told' \in Seq(Notices)
    BY <1>1, <1>7, <2>4 DEF LoadFile
  <2>6. next' \in 1..(listed + 1) /\ UNCHANGED <<published, call, listed, maximum, floor,
                                                 taken, failures, crashes>>
    BY <1>1, <1>7, <2>1 DEF LoadFile
  <2> QED
    BY <1>1, <1>2, <1>3, <2>3, <2>5, <2>6 DEF TypeOK
<1>8. CASE FinishBatch
  <2>1. batch' \in Seq(AllRows)
    BY <1>1, <1>8, ReturnedFacts DEF FinishBatch
  <2>2. maximum' \in Nat
    <3> DEFINE b == batch'
    <3>1. maximum' = MaxValue(b, 0)
      BY <1>8 DEF FinishBatch
    <3> HIDE DEF b
    <3>2. \A r \in AllRows : r.cell \in Cell
      BY <1>1, RowFacts
    <3>3. b \in Seq(AllRows)
      BY <2>1 DEF b
    <3>4. /\ MaxValue(b, 0) \in Int
          /\ \/ MaxValue(b, 0) = 0
             \/ \E k \in DOMAIN b : IsFinite(b[k]) /\ b[k].cell.v = MaxValue(b, 0)
      BY <3>2, <3>3, MaxFacts
    <3>5. \A k \in DOMAIN b : b[k] \in AllRows
      BY <3>3
    <3> QED
      BY <1>1, <3>1, <3>4, <3>5, Produced
  <2>3. call' = "returned" /\ UNCHANGED <<published, listed, next, told, floor, taken,
                                          failures, crashes>>
    BY <1>8 DEF FinishBatch
  <2> QED
    BY <1>1, <1>2, <1>3, <2>1, <2>2, <2>3 DEF TypeOK
<1>9. CASE TakeRows
  <2>1. taken' \in [AllRows -> 0..2]
    BY <1>1, <1>9 DEF TakeRows
  <2>2. call' = "taken" /\ UNCHANGED <<published, floor, failures, crashes>>
        /\ UNCHANGED locals
    BY <1>9 DEF TakeRows
  <2> QED
    BY <1>1, <1>2, <1>3, <2>1, <2>2 DEF TypeOK, locals
<1>10. CASE SaveFloor
  BY <1>1, <1>2, <1>3, <1>10 DEF SaveFloor, locals, TypeOK
<1>11. CASE LoadFails
  <2>1. next \in Nat
    BY <1>1
  <2>2. PICK severity \in {"error", "critical"} :
               told' = told \o Notifications(next, severity)
    BY <1>11 DEF LoadFails
  <2>3. Failure(next) \in Notices /\ Alert(next) \in Notices
    BY <2>1 DEF Failure, Alert, Notices
  <2>4. \/ Notifications(next, severity) = <<Failure(next)>> \o <<Alert(next)>>
        \/ Notifications(next, severity) = <<Failure(next)>> \o <<>>
    BY DEF Notifications
  <2>5. Notifications(next, severity) \in Seq(Notices)
    <3>1. <<Failure(next)>> \in Seq(Notices) /\ <<Alert(next)>> \in Seq(Notices)
      BY <2>3
    <3>2. \A s, t \in Seq(Notices) : s \o t \in Seq(Notices)
      OBVIOUS
    <3> QED
      BY <1>4, <2>4, <3>1, <3>2, Zenon
  <2>6. told' \in Seq(Notices)
    BY <1>1, <2>2, <2>5
  <2> QED
    BY <1>1, <1>2, <1>3, <1>4, <1>11, <2>6 DEF LoadFails, ReturnError, TypeOK
<1>12. CASE Crash
  BY <1>1, <1>2, <1>3, <1>4, <1>12 DEF Crash, TypeOK
<1>13. CASE UNCHANGED vars
  BY <1>1, <1>3, <1>13 DEF vars, TypeOK
<1> QED
  BY <1>5, <1>6, <1>7, <1>8, <1>9, <1>10, <1>11, <1>12, <1>13 DEF Next, CallStep

-----------------------------------------------------------------------------
(* Floors, batches and rows that are taken                                 *)

LEMMA Given ==
  ASSUME [Next]_vars
  PROVE  load' = load /\ AllRows' = AllRows /\ content' = content
<1>1. load' = load
  BY DEF Next, vars, Publish, CallStep, BeginCall, LoadFile, FinishBatch, TakeRows,
         SaveFloor, LoadFails, Crash
<1> QED
  BY <1>1 DEF AllRows, RowsOfFiles, RowsOf, content

\* Two sequences after one another.
LEMMA Joined ==
  ASSUME NEW A, NEW s \in Seq(A), NEW t \in Seq(A)
  PROVE  /\ \A k \in DOMAIN (s \o t) :
              \/ k \in DOMAIN s /\ (s \o t)[k] = s[k]
              \/ k - Len(s) \in DOMAIN t /\ (s \o t)[k] = t[k - Len(s)]
         /\ \A k \in DOMAIN s : k \in DOMAIN (s \o t) /\ (s \o t)[k] = s[k]
         /\ \A k \in DOMAIN t :
              k + Len(s) \in DOMAIN (s \o t) /\ (s \o t)[k + Len(s)] = t[k]
<1> DEFINE u == s \o t
<1>1. /\ Len(s) \in Nat /\ Len(t) \in Nat /\ DOMAIN s = 1..Len(s) /\ DOMAIN t = 1..Len(t)
      /\ DOMAIN u = 1..(Len(s) + Len(t))
      /\ \A k \in 1..(Len(s) + Len(t)) :
           u[k] = IF k <= Len(s) THEN s[k] ELSE t[k - Len(s)]
  OBVIOUS
<1> HIDE DEF u
<1>2. \A k \in DOMAIN u : \/ k \in DOMAIN s /\ u[k] = s[k]
                          \/ k - Len(s) \in DOMAIN t /\ u[k] = t[k - Len(s)]
  BY <1>1
<1>3. \A k \in DOMAIN s : k \in DOMAIN u /\ u[k] = s[k]
  BY <1>1
<1>4. \A k \in DOMAIN t : k + Len(s) \in DOMAIN u /\ u[k + Len(s)] = t[k]
  <2> SUFFICES ASSUME NEW k \in 1..Len(t)
               PROVE  k + Len(s) \in DOMAIN u /\ u[k + Len(s)] = t[k]
    BY <1>1
  <2>1. k + Len(s) \in 1..(Len(s) + Len(t)) /\ ~(k + Len(s) <= Len(s))
        /\ (k + Len(s)) - Len(s) = k
    BY <1>1
  <2> QED
    BY <1>1, <2>1
<1> QED
  BY <1>2, <1>3, <1>4 DEF u

LEMMA FloorStep ==
  ASSUME TypeOK, FloorIsArrived, BatchIsAbove, MaximumIsReached, [Next]_vars
  PROVE  FloorIsArrived'
<1>1. /\ AllRows' = AllRows /\ published' \in {published, published + 1}
      /\ published \in Nat /\ listed <= published /\ listed \in Nat
  <2>1. published \in Nat /\ listed <= published /\ listed \in Nat
    BY DEF TypeOK
  <2>2. published' = published \/ published' = published + 1
    BY DEF Next, vars, Publish, CallStep, BeginCall, LoadFile, FinishBatch, TakeRows,
           SaveFloor, LoadFails, Crash
  <2> QED
    BY <2>1, <2>2, Given
<1>2. \A q \in AllRows : q.file \in Nat
  BY RowFacts DEF TypeOK
<1>3. CASE floor' = floor
  BY <1>1, <1>2, <1>3 DEF FloorIsArrived
<1>4. CASE SaveFloor /\ maximum # 0
  <2>1. floor' = maximum /\ published' = published /\ HasBatch
    BY <1>4 DEF SaveFloor, HasBatch
  <2>2. PICK k \in DOMAIN batch : IsFinite(batch[k]) /\ batch[k].cell.v = maximum
    BY <1>4, <2>1 DEF MaximumIsReached
  <2>3. batch[k] \in AllRows /\ batch[k].file <= listed
    BY <2>1, <2>2 DEF BatchIsAbove, TypeOK
  <2>4. batch[k].file <= published
    BY <1>1, <1>2, <2>3
  <2> QED
    BY <1>1, <2>1, <2>2, <2>3, <2>4 DEF FloorIsArrived, IsFinite
<1>5. floor' = floor \/ (SaveFloor /\ maximum # 0)
  BY DEF Next, vars, Publish, CallStep, BeginCall, LoadFile, FinishBatch,
         TakeRows, SaveFloor, LoadFails, Crash
<1> QED
  BY <1>3, <1>4, <1>5

LEMMA ReadStep ==
  ASSUME TypeOK, ReadInOrder, [Next]_vars
  PROVE  ReadInOrder'
<1>1. /\ load' = load /\ load \in Loads /\ next \in Nat /\ listed \in Nat
      /\ batch \in Seq(AllRows) /\ listed <= Len(content) /\ Len(content) \in Nat
  BY Given, RowFacts DEF TypeOK
<1>2. CASE call' # "reading"
  BY <1>2 DEF ReadInOrder
<1>3. CASE BeginCall
  BY <1>3 DEF BeginCall, ReadInOrder
<1>4. CASE LoadFile
  <2> DEFINE L == Loaded(next)
  <2>1. /\ next \in 1..Len(content) /\ next' = next + 1 /\ batch' = batch \o L
        /\ floor' = floor /\ call = "reading"
    BY <1>1, <1>4 DEF LoadFile, TypeOK
  <2>2. /\ L \in Seq(AllRows)
        /\ \A k \in DOMAIN L :
             L[k].file = next /\ (load.api = "single" => IsAbove(L[k].cell, floor))
    BY <1>1, <2>1, LoadedFacts
  <2> HIDE DEF L
  <2> SUFFICES ASSUME NEW k \in DOMAIN (batch \o L)
               PROVE  /\ (batch \o L)[k].file < next + 1
                      /\ load.api = "single" => IsAbove((batch \o L)[k].cell, floor)
    BY <1>1, <2>1 DEF ReadInOrder, IsAbove
  <2>3. \/ k \in DOMAIN batch /\ (batch \o L)[k] = batch[k]
        \/ k - Len(batch) \in DOMAIN L /\ (batch \o L)[k] = L[k - Len(batch)]
    BY <1>1, <2>2, Joined
  <2>4. CASE k \in DOMAIN batch /\ (batch \o L)[k] = batch[k]
    <3>1. batch[k].file \in Nat
      BY <1>1, <2>4, RowFacts
    <3>2. batch[k].file < next /\ (load.api = "single" => IsAbove(batch[k].cell, floor))
      BY <2>1, <2>4 DEF ReadInOrder
    <3> QED
      BY <1>1, <2>4, <3>1, <3>2
  <2>5. CASE k - Len(batch) \in DOMAIN L /\ (batch \o L)[k] = L[k - Len(batch)]
    BY <1>1, <2>2, <2>5
  <2> QED
    BY <2>3, <2>4, <2>5
<1>5. CASE UNCHANGED <<call, next, batch, floor>>
  BY <1>1, <1>5 DEF ReadInOrder, IsAbove
<1>6. \/ call' # "reading" \/ BeginCall \/ LoadFile \/ UNCHANGED <<call, next, batch, floor>>
  BY DEF Next, vars, Publish, CallStep, FinishBatch, TakeRows, SaveFloor, LoadFails,
         ReturnError, Crash, locals
<1> QED
  BY <1>2, <1>3, <1>4, <1>5, <1>6

LEMMA BatchStep ==
  ASSUME TypeOK, ReadInOrder, BatchIsAbove, MaximumIsReached, [Next]_vars
  PROVE  BatchIsAbove' /\ MaximumIsReached'
<1>1. /\ load' = load /\ load \in Loads /\ next \in Nat /\ listed \in Nat
      /\ batch \in Seq(AllRows) /\ next <= listed + 1
  BY Given DEF TypeOK
<1>2. CASE ~HasBatch'
  BY <1>2 DEF BatchIsAbove, MaximumIsReached
<1>3. CASE FinishBatch
  <2> DEFINE b == batch'
  <2>1. /\ maximum' = MaxValue(b, 0) /\ call = "reading" /\ UNCHANGED <<listed, floor>>
        /\ b = IF load.api = "single" THEN batch ELSE Returned
    BY <1>3 DEF FinishBatch
  <2>2. b \in Seq(AllRows)
    BY <1>1, <2>1, ReturnedFacts
  <2> HIDE DEF b
  <2>3. \A r \in AllRows : r.cell \in Cell /\ r.file \in Nat
    BY <1>1, RowFacts
  <2>4. /\ \A k \in DOMAIN b : IsFinite(b[k]) => b[k].cell.v <= MaxValue(b, 0)
        /\ \/ MaxValue(b, 0) = 0
           \/ \E k \in DOMAIN b : IsFinite(b[k]) /\ b[k].cell.v = MaxValue(b, 0)
    BY <2>2, <2>3, MaxFacts
  <2>5. \A i \in DOMAIN batch : batch[i].file <= listed
    <3> SUFFICES ASSUME NEW i \in DOMAIN batch PROVE batch[i].file <= listed
      OBVIOUS
    <3>1. batch[i].file < next /\ batch[i].file \in Nat
      BY <1>1, <2>1, <2>3 DEF ReadInOrder
    <3> QED
      BY <1>1, <3>1
  <2>6. \A k \in DOMAIN b : b[k].file <= listed /\ IsAbove(b[k].cell, floor)
    <3>1. CASE load.api = "single"
      BY <2>1, <2>5, <3>1 DEF ReadInOrder
    <3>2. CASE load.api # "single"
      <4>1. \A k \in DOMAIN Returned :
              /\ IsAbove(Returned[k].cell, floor)
              /\ \E i \in DOMAIN batch : batch[i] = Returned[k]
        BY <1>1, ReturnedFacts
      <4> QED
        BY <2>1, <2>5, <3>2, <4>1
    <3> QED
      BY <3>1, <3>2
  <2>7. BatchIsAbove'
    BY <2>1, <2>4, <2>6 DEF BatchIsAbove, IsAbove, IsFinite, b
  <2>8. MaximumIsReached'
    BY <2>1, <2>4 DEF MaximumIsReached, IsFinite, b
  <2> QED
    BY <2>7, <2>8
<1>4. CASE UNCHANGED <<batch, maximum, floor, listed>> /\ HasBatch
  BY <1>4 DEF BatchIsAbove, MaximumIsReached, IsAbove, IsFinite, HasBatch
<1>5. \/ ~HasBatch' \/ FinishBatch
      \/ UNCHANGED <<batch, maximum, floor, listed>> /\ HasBatch
  BY DEF Next, vars, Publish, CallStep, BeginCall, LoadFile, TakeRows, SaveFloor, LoadFails,
         ReturnError, Crash, locals, HasBatch
<1> QED
  BY <1>2, <1>3, <1>4, <1>5

LEMMA TakenStep ==
  ASSUME IngestInv, [Next]_vars
  PROVE  TakenIsBehind' /\ TakenOnce'
<1>1. /\ AllRows' = AllRows /\ load \in Loads /\ taken \in [AllRows -> 0..2]
      /\ maximum \in Nat /\ floor \in Nat /\ crashes \in Nat
      /\ batch \in Seq(AllRows) /\ TakenIsBehind /\ TakenOnce
  BY Given DEF IngestInv, TypeOK
<1>2. \A row \in AllRows : row.cell.v \in Int /\ taken[row] \in 0..2
  BY <1>1, RowFacts DEF Cell
<1>3. \A row \in AllRows : IsFinite(row) => row.cell.v >= 1
  BY <1>1, Produced
<1>4. CASE TakeRows
  <2>1. /\ call = "returned" /\ call' = "taken" /\ UNCHANGED <<floor, crashes, maximum>>
        /\ taken' = [row \in AllRows |->
             IF InBatch(row) /\ taken[row] < 2 THEN taken[row] + 1 ELSE taken[row]]
    BY <1>4 DEF TakeRows, locals
  <2>2. ASSUME crashes = 0, NEW row \in AllRows, IsFinite(row)
        PROVE  /\ taken'[row] > 0 => row.cell.v <= floor \/ row.cell.v <= maximum
               /\ taken'[row] <= 1
    <3>1. taken[row] > 0 => row.cell.v <= floor
      BY <1>1, <2>1, <2>2 DEF TakenIsBehind
    <3>2. taken[row] <= 1
      BY <1>1, <2>2 DEF TakenOnce, IsFinite
    <3>3. ASSUME InBatch(row) PROVE row.cell.v <= maximum /\ row.cell.v > floor
      BY <2>1, <2>2, <3>3 DEF IngestInv, BatchIsAbove, HasBatch, InBatch, IsAbove, IsFinite
    <3>4. taken'[row] = IF InBatch(row) /\ taken[row] < 2 THEN taken[row] + 1 ELSE taken[row]
      BY <2>1
    <3>5. CASE InBatch(row)
      BY <1>1, <1>2, <3>1, <3>3, <3>4, <3>5
    <3>6. CASE ~InBatch(row)
      BY <3>1, <3>2, <3>4, <3>6
    <3> QED
      BY <3>5, <3>6
  <2> QED
    BY <1>1, <2>1, <2>2 DEF TakenIsBehind, TakenOnce, IsFinite
<1>5. CASE SaveFloor
  <2>1. /\ call = "taken" /\ UNCHANGED <<taken, crashes>>
        /\ floor' = IF maximum = 0 THEN floor ELSE maximum
    BY <1>5 DEF SaveFloor
  <2>2. maximum = 0 \/ maximum > floor
    BY <1>1, <2>1 DEF IngestInv, BatchIsAbove, MaximumIsReached, HasBatch, IsAbove, IsFinite
  <2>3. TakenOnce'
    BY <1>1, <2>1 DEF TakenOnce
  <2>4. ASSUME crashes = 0, NEW row \in AllRows, IsFinite(row), taken[row] > 0
        PROVE  row.cell.v <= floor'
    <3>1. row.cell.v <= floor \/ row.cell.v <= maximum
      BY <1>1, <2>4 DEF TakenIsBehind
    <3> QED
      BY <1>1, <1>2, <1>3, <2>1, <2>2, <2>4, <3>1
  <2> QED
    BY <1>1, <2>1, <2>3, <2>4 DEF TakenIsBehind, IsFinite
<1>6. CASE Crash
  BY <1>1, <1>6 DEF Crash, TakenIsBehind, TakenOnce
<1>7. CASE /\ UNCHANGED <<taken, floor, crashes>>
           /\ call = "taken" => UNCHANGED <<call, maximum>>
  BY <1>1, <1>7 DEF TakenIsBehind, TakenOnce, IsFinite
<1>8. \/ TakeRows \/ SaveFloor \/ Crash
      \/ /\ UNCHANGED <<taken, floor, crashes>>
         /\ call = "taken" => UNCHANGED <<call, maximum>>
  BY DEF Next, vars, Publish, CallStep, BeginCall, LoadFile, FinishBatch, LoadFails, locals
<1> QED
  BY <1>4, <1>5, <1>6, <1>7, <1>8

(***************************************************************************)
(* Types, and what a batch, a floor and the rows already taken have to do  *)
(* with each other, whatever files arrive, fail to load or are listed.     *)
(***************************************************************************)
THEOREM IngestInvariance == Spec => []IngestInv
<1>1. Init => IngestInv
  <2> SUFFICES ASSUME Init PROVE IngestInv
    OBVIOUS
  <2>1. TypeOK
    <3>1. Len(content) \in Nat /\ load \in Loads
      BY RowFacts DEF Init
    <3>2. <<>> \in Seq(AllRows) /\ <<>> \in Seq(Notices)
      OBVIOUS
    <3> QED
      BY <3>1, <3>2 DEF Init, TypeOK
  <2>2. TakenIsBehind /\ TakenOnce
    BY DEF Init, TakenIsBehind, TakenOnce
  <2> QED
    BY <2>1, <2>2 DEF Init, IngestInv, FloorIsArrived, ReadInOrder, BatchIsAbove,
                      MaximumIsReached, HasBatch
<1>2. IngestInv /\ [Next]_vars => IngestInv'
  BY TypeStep, FloorStep, ReadStep, BatchStep, TakenStep DEF IngestInv
<1> QED
  BY <1>1, <1>2, PTL DEF Spec

(***************************************************************************)
(* The types of the state of OrderedIngest.                                *)
(***************************************************************************)
THEOREM IngestTyped == Spec => []TypeOK
<1>1. IngestInv => TypeOK
  BY DEF IngestInv
<1> QED
  BY <1>1, IngestInvariance, PTL

(***************************************************************************)
(* No row with a watermark is taken twice by a caller that has not         *)
(* crashed, for every history of files, every max_rows and whatever fails. *)
(***************************************************************************)
THEOREM RowsAreTakenOnce == Spec => []TakenOnce
<1>1. IngestInv => TakenOnce
  BY DEF IngestInv
<1> QED
  BY <1>1, IngestInvariance, PTL

-----------------------------------------------------------------------------
(* Nothing is skipped                                                      *)

LEMMA OneFile ==
  ASSUME load \in Loads, load.api = "single"
  PROVE  Len(content) = 1
BY LoadsAssumption DEF content

LEMMA CompleteReadStep ==
  ASSUME TypeOK, Resumable(load), ReadCompletely, [Next]_vars
  PROVE  ReadCompletely'
<1>1. /\ load' = load /\ AllRows' = AllRows /\ load \in Loads /\ next \in Nat /\ next >= 1
      /\ listed \in Nat /\ batch \in Seq(AllRows) /\ listed <= Len(content)
      /\ Len(content) \in Nat /\ load.max_rows \in Nat
      /\ \A row \in AllRows : row.file \in Nat /\ row.file >= 1
  BY Given, RowFacts, LoadsAssumption DEF TypeOK
<1>2. CASE call' # "reading"
  BY <1>2 DEF ReadCompletely
<1>3. CASE BeginCall
  <2>1. next' = 1 /\ batch' = <<>>
    BY <1>3 DEF BeginCall
  <2> QED
    BY <1>1, <2>1 DEF ReadCompletely
<1>4. CASE LoadFile
  <2> DEFINE L == Loaded(next)
  <2>1. /\ next \in 1..Len(content) /\ next' = next + 1 /\ batch' = batch \o L
        /\ floor' = floor /\ call = "reading"
    BY <1>1, <1>4 DEF LoadFile, TypeOK
  <2>2. /\ L \in Seq(AllRows)
        /\ (load.api = "ordered" /\ load.max_rows = 0) => L = RowsOf(next)
        /\ load.api = "single" => L = LoadedAlone(next)
    BY <1>1, <2>1, LoadedFacts
  <2>3. LoadedAlone(1)' = LoadedAlone(1)
    BY <1>1, <2>1 DEF LoadedAlone, RowsOf, content
  <2> HIDE DEF L
  <2>4. ASSUME load.api = "single"
        PROVE  batch' = IF next' = 1 THEN <<>> ELSE LoadedAlone(1)'
    <3>1. next = 1
      <4>1. Len(content) = 1
        BY <1>1, <2>4, OneFile
      <4> QED
        BY <2>1, <4>1
    <3>2. batch = <<>> /\ L = LoadedAlone(1)
      BY <2>1, <2>2, <2>4, <3>1 DEF ReadCompletely
    <3>3. batch' = L
      BY <2>1, <2>2, <3>2
    <3> QED
      BY <2>1, <2>3, <3>1, <3>2, <3>3
  <2>5. ASSUME load.api = "ordered", NEW row \in AllRows, row.file < next + 1
        PROVE  \E i \in DOMAIN batch' : batch'[i] = row
    <3>1. L = RowsOf(next)
      BY <1>1, <2>2, <2>5 DEF Resumable
    <3>2. CASE row.file < next
      <4>1. PICK i \in DOMAIN batch : batch[i] = row
        BY <2>1, <2>5, <3>2 DEF ReadCompletely, InBatch
      <4>2. i \in DOMAIN (batch \o L) /\ (batch \o L)[i] = batch[i]
        BY <1>1, <2>2, Joined
      <4> QED
        BY <2>1, <4>1, <4>2
    <3>3. CASE row.file = next
      <4>1. row.at \in DOMAIN L /\ L[row.at] = row
        BY <1>1, <3>1, <3>3, RowFacts
      <4> DEFINE i == row.at + Len(batch)
      <4>2. i \in DOMAIN (batch \o L) /\ (batch \o L)[i] = L[row.at]
        BY <1>1, <2>2, <4>1, Joined
      <4> HIDE DEF i
      <4> QED
        BY <2>1, <4>1, <4>2
    <3> QED
      BY <1>1, <2>5, <3>2, <3>3
  <2> QED
    BY <1>1, <2>1, <2>4, <2>5 DEF ReadCompletely, InBatch
<1>5. CASE UNCHANGED <<call, next, batch, floor>>
  BY <1>1, <1>5 DEF ReadCompletely, InBatch, LoadedAlone, RowsOf, content
<1>6. \/ call' # "reading" \/ BeginCall \/ LoadFile \/ UNCHANGED <<call, next, batch, floor>>
  BY DEF Next, vars, Publish, CallStep, FinishBatch, TakeRows, SaveFloor, LoadFails,
         ReturnError, Crash, locals
<1> QED
  BY <1>2, <1>3, <1>4, <1>5, <1>6

\* One file that is read max_rows rows at a time: what is cut off is above.
LEMMA CutIsAbove ==
  ASSUME load \in Loads, Resumable(load), load.api = "single",
         NEW row \in AllRows, IsFinite(row), floor \in Int, floor < row.cell.v,
         NEW k \in DOMAIN LoadedAlone(1), IsFinite(LoadedAlone(1)[k]),
         row.cell.v <= LoadedAlone(1)[k].cell.v
  PROVE  \E i \in DOMAIN LoadedAlone(1) : LoadedAlone(1)[i] = row
<1> DEFINE R == RowsOf(1)
           m == load.max_rows
           F == Filtered(R, floor)
           T == Truncated(F, m)
<1>1. Len(content) = 1 /\ m \in Nat /\ row.file = 1
  <2>1. Len(content) = 1 /\ m \in Nat
    BY OneFile, LoadsAssumption
  <2> QED
    BY <2>1, RowFacts
<1>2. /\ R \in Seq(AllRows) /\ \A i \in DOMAIN R : R[i].at = i
      /\ row.at \in DOMAIN R /\ R[row.at] = row
  BY <1>1, RowFacts
<1>3. LoadedAlone(1) = T
  BY DEF LoadedAlone
<1> HIDE DEF R
<1>4. /\ F \in Seq(AllRows)
      /\ \E p \in DOMAIN F : F[p] = row
      /\ \A i, j \in DOMAIN F : i < j => F[i].at < F[j].at
  <2>1. IsAbove(row.cell, floor)
    BY DEF IsAbove, IsFinite
  <2>2. /\ F \in Seq(AllRows)
        /\ (\E p \in DOMAIN F : F[p] = row)
              <=> (\E i \in DOMAIN R : R[i] = row /\ IsAbove(row.cell, floor))
        /\ (\A i \in DOMAIN R : R[i].at = i) =>
              \A i, j \in DOMAIN F : i < j => F[i].at < F[j].at
    BY <1>2, FilterFacts
  <2> QED
    BY <1>2, <2>1, <2>2
<1> HIDE DEF F
<1>5. /\ \A i \in DOMAIN T : i \in DOMAIN F /\ T[i] = F[i]
      /\ \A i \in DOMAIN F, j \in DOMAIN T : i <= j => i \in DOMAIN T
      /\ m = 0 => T = F
  BY <1>1, <1>4, TruncateFacts
<1>6. PICK p \in DOMAIN F : F[p] = row
  BY <1>4
<1>7. k \in DOMAIN T /\ k \in DOMAIN F /\ T[k] = F[k] /\ IsFinite(F[k])
      /\ row.cell.v <= F[k].cell.v
  BY <1>3, <1>5
<1> HIDE DEF T, m
<1>8. CASE m = 0
  BY <1>3, <1>5, <1>6, <1>8
<1>9. CASE m # 0
  <2>1. InOrder(load.files[1])
    BY <1>1, <1>9 DEF Resumable, m
  <2>2. F[k] \in AllRows /\ p \in Nat /\ k \in Nat
    BY <1>4, <1>6, <1>7
  <2> DEFINE q == F[k]
  <2>3. /\ q \in AllRows /\ q.file = 1 /\ q.at \in DOMAIN content[1] /\ row.at \in DOMAIN content[1]
        /\ q.cell = content[1][q.at] /\ row.cell = content[1][row.at]
        /\ q.cell.v \in Int /\ row.cell.v \in Int
    <3>1. q \in AllRows /\ q.file = 1
      BY <1>1, <2>2, RowFacts
    <3>2. q.cell \in Cell /\ row.cell \in Cell
      BY <3>1, RowFacts
    <3> QED
      BY <1>1, <3>1, <3>2, RowFacts DEF Cell
  <2>4. ~(q.at < row.at)
    <3> SUFFICES ASSUME q.at < row.at PROVE FALSE
      OBVIOUS
    <3>1. q.cell.v < row.cell.v
      BY <1>7, <2>1, <2>3 DEF InOrder, content, IsFinite
    <3> QED
      BY <1>7, <2>3, <3>1
  <2>5. ~(k < p)
    BY <1>4, <1>6, <1>7, <2>4
  <2>6. p \in DOMAIN T /\ T[p] = row
    BY <1>5, <1>6, <1>7, <2>2, <2>5
  <2> QED
    BY <1>3, <2>6
<1> QED
  BY <1>8, <1>9

LEMMA CompleteBatchStep ==
  ASSUME TypeOK, Resumable(load), ReadCompletely, BatchIsComplete, MaximumIsReached',
         [Next]_vars
  PROVE  BatchIsComplete'
<1>1. /\ load' = load /\ AllRows' = AllRows /\ load \in Loads /\ next \in Nat
      /\ listed \in Nat /\ batch \in Seq(AllRows) /\ listed <= Len(content)
      /\ next <= listed + 1 /\ floor \in Nat /\ load.max_rows \in Nat
      /\ \A row \in AllRows : row.file \in Nat /\ row.file >= 1
      /\ load.api \in {"ordered", "single"}
  BY Given, RowFacts, LoadsAssumption DEF TypeOK
<1>2. CASE ~HasBatch'
  BY <1>2 DEF BatchIsComplete
<1>3. CASE FinishBatch
  <2>1. /\ call = "reading" /\ next > listed /\ UNCHANGED <<listed, floor>> /\ HasBatch'
        /\ batch' = IF load.api = "single" THEN batch ELSE Returned
    BY <1>3 DEF FinishBatch, HasBatch
  <2> SUFFICES ASSUME NEW row \in AllRows, row.file <= listed, IsFinite(row),
                      floor < row.cell.v, row.cell.v <= maximum'
               PROVE  \E i \in DOMAIN batch' : batch'[i] = row
    BY <1>1, <2>1 DEF BatchIsComplete, InBatch, IsFinite
  <2>2. CASE load.api = "ordered"
    <3>1. load.max_rows = 0
      BY <1>1, <2>2 DEF Resumable
    <3>2. PICK i \in DOMAIN batch : batch[i] = row
      BY <1>1, <2>1, <2>2 DEF ReadCompletely, InBatch
    <3>3. IsAbove(row.cell, floor)
      BY DEF IsAbove, IsFinite
    <3>4. \E k \in DOMAIN Returned : Returned[k] = batch[i]
      BY <1>1, <3>1, <3>2, <3>3, ReturnedFacts
    <3> QED
      BY <2>1, <2>2, <3>2, <3>4
  <2>3. CASE load.api = "single"
    <3>1. batch' = LoadedAlone(1)
      BY <1>1, <2>1, <2>3, OneFile DEF ReadCompletely
    <3>2. maximum' # 0
      <4>1. row.cell.v \in Int
        BY <1>1, RowFacts DEF Cell
      <4> QED
        BY <1>1, <4>1
    <3>3. PICK k \in DOMAIN batch' : IsFinite(batch'[k]) /\ batch'[k].cell.v = maximum'
      BY <2>1, <3>2 DEF MaximumIsReached, IsFinite
    <3> QED
      BY <1>1, <2>3, <3>1, <3>3, CutIsAbove
  <2> QED
    BY <1>1, <2>2, <2>3
<1>4. CASE UNCHANGED <<batch, maximum, floor, listed>> /\ HasBatch
  BY <1>1, <1>4 DEF BatchIsComplete, InBatch, IsFinite
<1>5. \/ ~HasBatch' \/ FinishBatch
      \/ UNCHANGED <<batch, maximum, floor, listed>> /\ HasBatch
  BY DEF Next, vars, Publish, CallStep, BeginCall, LoadFile, TakeRows, SaveFloor, LoadFails,
         ReturnError, Crash, locals, HasBatch
<1> QED
  BY <1>2, <1>3, <1>4, <1>5

LEMMA BatchTakenStep ==
  ASSUME TypeOK, BatchIsTaken, [Next]_vars
  PROVE  BatchIsTaken'
<1>1. batch \in Seq(AllRows) /\ taken \in [AllRows -> 0..2]
  BY DEF TypeOK
<1>2. CASE TakeRows
  <2>1. /\ batch' = batch
        /\ taken' = [row \in AllRows |->
             IF InBatch(row) /\ taken[row] < 2 THEN taken[row] + 1 ELSE taken[row]]
    BY <1>2 DEF TakeRows, locals
  <2>2. \A k \in DOMAIN batch :
          batch[k] \in AllRows /\ InBatch(batch[k]) /\ taken[batch[k]] \in 0..2
    BY <1>1 DEF InBatch
  <2> QED
    BY <2>1, <2>2 DEF BatchIsTaken
<1>3. CASE call' # "taken"
  BY <1>3 DEF BatchIsTaken
<1>4. CASE UNCHANGED <<call, batch, taken>>
  BY <1>4 DEF BatchIsTaken
<1>5. TakeRows \/ call' # "taken" \/ UNCHANGED <<call, batch, taken>>
  BY DEF Next, vars, Publish, CallStep, BeginCall, LoadFile, FinishBatch, SaveFloor, LoadFails,
         ReturnError, Crash, locals
<1> QED
  BY <1>2, <1>3, <1>4, <1>5

LEMMA ArrivedStep ==
  ASSUME IngestInv, BatchIsComplete, BatchIsTaken, ArrivedAreTaken, [Next]_vars
  PROVE  ArrivedAreTaken'
<1>1. /\ AllRows' = AllRows /\ load \in Loads /\ taken \in [AllRows -> 0..2]
      /\ maximum \in Nat /\ floor \in Nat /\ published \in Nat /\ listed \in Nat
      /\ batch \in Seq(AllRows)
      /\ \A row \in AllRows : row.cell.v \in Int /\ row.file \in Nat /\ taken[row] \in 0..2
  BY Given, RowFacts DEF IngestInv, TypeOK, Cell
<1>2. CASE Publish
  <2>1. published' = published + 1 /\ floor' = floor /\ taken' = taken
    BY <1>2 DEF Publish
  <2>2. ASSUME NEW row \in AllRows, row.file = published + 1, IsFinite(row)
        PROVE  row.cell.v > floor
    <3>1. CASE floor = 0
      BY <1>1, <2>2, <3>1, Produced
    <3>2. CASE floor # 0
      <4>1. PICK q \in AllRows : q.file <= published /\ IsFinite(q) /\ q.cell.v = floor
        BY <3>2 DEF IngestInv, FloorIsArrived
      <4>2. q.file < row.file
        BY <1>1, <2>2, <4>1
      <4> QED
        BY <1>1, <2>2, <4>1, <4>2, Produced
    <3> QED
      BY <3>1, <3>2
  <2> SUFFICES ASSUME NEW row \in AllRows, row.file <= published + 1, IsFinite(row),
                      row.cell.v <= floor
               PROVE  taken[row] > 0
    BY <1>1, <2>1 DEF ArrivedAreTaken, IsFinite
  <2>3. row.file # published + 1
    BY <1>1, <2>2
  <2>4. row.file <= published
    BY <1>1, <2>3
  <2> QED
    BY <2>4 DEF ArrivedAreTaken
<1>3. CASE TakeRows
  <2>1. /\ published' = published /\ floor' = floor
        /\ taken' = [row \in AllRows |->
             IF InBatch(row) /\ taken[row] < 2 THEN taken[row] + 1 ELSE taken[row]]
    BY <1>3 DEF TakeRows
  <2>2. ASSUME NEW row \in AllRows, taken[row] > 0 PROVE taken'[row] > 0
    <3>1. taken'[row] = taken[row] \/ taken'[row] = taken[row] + 1
      BY <2>1
    <3>2. taken[row] \in 0..2
      BY <1>1
    <3> QED
      BY <2>2, <3>1, <3>2
  <2> QED
    BY <1>1, <2>1, <2>2 DEF ArrivedAreTaken, IsFinite
<1>4. CASE SaveFloor
  <2>1. /\ call = "taken" /\ UNCHANGED <<taken, published>> /\ HasBatch
        /\ floor' = IF maximum = 0 THEN floor ELSE maximum
    BY <1>4 DEF SaveFloor, HasBatch
  <2> SUFFICES ASSUME NEW row \in AllRows, row.file <= published, IsFinite(row),
                      row.cell.v <= floor'
               PROVE  taken[row] > 0
    BY <1>1, <2>1 DEF ArrivedAreTaken, IsFinite
  <2>2. CASE row.cell.v <= floor
    BY <2>2 DEF ArrivedAreTaken
  <2>3. CASE row.cell.v > floor
    <3>1. maximum # 0 /\ row.cell.v <= maximum
      BY <1>1, <2>1, <2>3
    <3>2. PICK k \in DOMAIN batch : IsFinite(batch[k]) /\ batch[k].cell.v = maximum
      BY <2>1, <3>1 DEF IngestInv, MaximumIsReached
    <3>3. batch[k] \in AllRows /\ batch[k].file <= listed
      BY <1>1, <2>1, <3>2 DEF IngestInv, BatchIsAbove
    <3>4. row.file <= listed
      <4> SUFFICES ASSUME row.file > listed PROVE FALSE
        BY <1>1
      <4>1. batch[k].file < row.file
        BY <1>1, <3>3
      <4>2. maximum < row.cell.v
        BY <1>1, <3>2, <3>3, <4>1, Produced
      <4> QED
        BY <1>1, <3>1, <4>2
    <3>5. InBatch(row)
      BY <2>1, <2>3, <3>1, <3>4 DEF BatchIsComplete
    <3> QED
      BY <2>1, <3>5 DEF InBatch, BatchIsTaken
  <2> QED
    BY <1>1, <2>2, <2>3
<1>5. CASE UNCHANGED <<published, floor, taken>>
  BY <1>1, <1>5 DEF ArrivedAreTaken, IsFinite
<1>6. Publish \/ TakeRows \/ SaveFloor \/ UNCHANGED <<published, floor, taken>>
  BY DEF Next, vars, CallStep, BeginCall, LoadFile, FinishBatch, LoadFails, Crash
<1> QED
  BY <1>2, <1>3, <1>4, <1>5, <1>6

(***************************************************************************)
(* Nothing is left behind a saved floor, whatever arrives and fails and    *)
(* wherever the caller crashes, for every load whose max_rows cannot cut   *)
(* a row off below the maximum of what is returned: without max_rows, or   *)
(* of a single file in order.                                              *)
(***************************************************************************)
THEOREM NothingIsSkipped == Spec => [](Resumable(load) => NothingSkipped)
<1>1. Init => ResumeInv
  <2> SUFFICES ASSUME Init PROVE ResumeInv
    OBVIOUS
  <2>1. ASSUME NEW row \in AllRows PROVE ~(row.file <= published)
    BY RowFacts DEF Init
  <2> QED
    BY <2>1 DEF Init, ResumeInv, ReadCompletely, BatchIsComplete, BatchIsTaken, HasBatch,
                ArrivedAreTaken
<1>2. IngestInv /\ IngestInv' /\ ResumeInv /\ [Next]_vars => ResumeInv'
  <2> SUFFICES ASSUME IngestInv, IngestInv', ResumeInv, [Next]_vars, Resumable(load')
               PROVE  /\ ReadCompletely' /\ BatchIsComplete' /\ BatchIsTaken'
                      /\ ArrivedAreTaken'
    BY DEF ResumeInv
  <2>1. Resumable(load)
    BY Given
  <2> QED
    BY <2>1, CompleteReadStep, CompleteBatchStep, BatchTakenStep, ArrivedStep
    DEF ResumeInv, IngestInv
<1>3. IngestInv /\ ResumeInv => (Resumable(load) => NothingSkipped)
  <2> SUFFICES ASSUME IngestInv, ResumeInv, Resumable(load), NEW row \in Published,
                      row.cell.kind = "finite", row.cell.v <= floor
               PROVE  taken[row] > 0
    BY DEF NothingSkipped
  <2>1. row \in AllRows /\ row.file <= published
    BY RowFacts DEF IngestInv, TypeOK, Published
  <2> QED
    BY <2>1 DEF ResumeInv, ArrivedAreTaken, IsFinite
<1> QED
  BY <1>1, <1>2, <1>3, IngestInvariance, PTL DEF Spec

-----------------------------------------------------------------------------
(* What the observer is told                                               *)

\* The notices are in order: the first part of ObserverFollows.
ToldInOrder == \A i \in DOMAIN told :
  /\ told[i].on = "success" =>
       told[i].file = i /\ \A j \in 1..i : told[j].on = "success"
  /\ told[i].on = "failure" =>
       /\ told[i].file = i
       /\ i = Len(told) \/ (i + 1 = Len(told) /\ told[i + 1] = Alert(i))
  /\ told[i].on = "alert" => i > 1 /\ told[i - 1] = Failure(i - 1)
CountsAgree == call = "reading" =>
  /\ AllRead(next - 1)
  /\ \A f \in 1..(next - 1) : told[f].rows = Cardinality(FromFile(f))

LEMMA ObserverParts ==
  ReadInOrder =>
    (ObserverFollows <=> ToldInOrder /\ CountsAgree /\ (HasBatch => AllRead(listed)))
BY DEF ObserverFollows, ToldInOrder, CountsAgree, HasBatch, ReadInOrder

\* Where the elements of a concatenation are.
Positions(s, t) ==
  /\ s \o t \in Seq(Notices) /\ Len(s \o t) = Len(s) + Len(t)
  /\ DOMAIN (s \o t) = 1..(Len(s) + Len(t))
  /\ \A k \in 1..Len(s) : (s \o t)[k] = s[k]
  /\ \A k \in 1..Len(t) : (s \o t)[Len(s) + k] = t[k]

LEMMA PositionFacts ==
  ASSUME NEW s \in Seq(Notices), NEW t \in Seq(Notices)
  PROVE  Positions(s, t)
<1> DEFINE u == s \o t
<1>1. /\ Len(s) \in Nat /\ Len(t) \in Nat /\ u \in Seq(Notices)
      /\ DOMAIN u = 1..(Len(s) + Len(t)) /\ Len(u) = Len(s) + Len(t)
      /\ \A k \in 1..(Len(s) + Len(t)) :
           u[k] = IF k <= Len(s) THEN s[k] ELSE t[k - Len(s)]
  OBVIOUS
<1> HIDE DEF u
<1>2. \A k \in 1..Len(s) : u[k] = s[k]
  BY <1>1
<1>3. ASSUME NEW k \in 1..Len(t) PROVE u[Len(s) + k] = t[k]
  <2>1. /\ Len(s) + k \in 1..(Len(s) + Len(t)) /\ ~(Len(s) + k <= Len(s))
        /\ (Len(s) + k) - Len(s) = k
    BY <1>1
  <2> QED
    BY <1>1, <2>1
<1> QED
  BY <1>1, <1>2, <1>3, Zenon DEF u, Positions

\* on_failure, and the alert after it if there is one.
LEMMA FailureIsTold ==
  ASSUME TypeOK, AllRead(next - 1), ToldInOrder, LoadFails
  PROVE  ToldInOrder'
<1> DEFINE n == next - 1
<1>1. /\ told \in Seq(Notices) /\ next \in Nat /\ next >= 1 /\ n \in Nat
      /\ DOMAIN told = 1..n /\ Len(told) = n /\ \A i \in 1..n : told[i].on = "success"
      /\ next = n + 1
  BY DEF TypeOK, AllRead
<1>2. PICK severity \in {"error", "critical"} :
             told' = told \o Notifications(next, severity)
  BY DEF LoadFails
<1>3. \/ Notifications(next, severity) = <<Failure(next)>> \o <<Alert(next)>>
      \/ Notifications(next, severity) = <<Failure(next)>> \o <<>>
  BY DEF Notifications
<1>4. /\ Failure(next).on = "failure" /\ Failure(next).file = next
      /\ Alert(next).on = "alert"
  BY DEF Failure, Alert
<1>5. /\ \A i \in 1..n : told'[i] = told[i]
      /\ told'[next] = Failure(next)
      /\ \/ DOMAIN told' = 1..next /\ Len(told') = next
         \/ /\ DOMAIN told' = 1..(next + 1) /\ Len(told') = next + 1
            /\ told'[next + 1] = Alert(next)
  <2> DEFINE F == Failure(next)
             A == Alert(next)
  <2>1. F \in Notices /\ A \in Notices
    BY <1>1 DEF Failure, Alert, Notices
  <2> HIDE DEF F, A, n
  <2> DEFINE f == <<F>>
             a == <<A>>
             e == <<>>
  <2>2. /\ f \in Seq(Notices) /\ Len(f) = 1 /\ f[1] = F
        /\ a \in Seq(Notices) /\ Len(a) = 1 /\ a[1] = A
        /\ e \in Seq(Notices) /\ Len(e) = 0
    BY <2>1
  <2>3. told' = told \o (f \o a) \/ told' = told \o (f \o e)
    BY <1>2, <1>3 DEF F, A
  <2> HIDE DEF f, a, e
  <2>4. n + 2 = next + 1 /\ n + 1 = next
    BY <1>1
  <2>5. CASE told' = told \o (f \o a)
    <3> DEFINE u == f \o a
    <3>0. Positions(f, a)
      BY <2>2, PositionFacts, Zenon
    <3>1. /\ u \in Seq(Notices) /\ Len(u) = 1 + 1
          /\ \A k \in 1..1 : u[k] = f[k] /\ u[1 + k] = a[k]
      BY <2>2, <3>0 DEF Positions
    <3> HIDE DEF u
    <3>2. u \in Seq(Notices) /\ Len(u) = 2 /\ u[1] = F /\ u[2] = A
      BY <2>2, <3>1
    <3>7. Positions(told, u)
      BY <1>1, <3>2, PositionFacts, Zenon
    <3>3. /\ Len(told \o u) = n + 2 /\ DOMAIN (told \o u) = 1..(n + 2)
          /\ \A k \in 1..n : (told \o u)[k] = told[k]
          /\ \A k \in 1..2 : (told \o u)[n + k] = u[k]
      BY <1>1, <3>2, <3>7 DEF Positions
    <3>4. told' = told \o u
      BY <2>5 DEF u
    <3>5. (told \o u)[n + 1] = F /\ (told \o u)[n + 2] = A
      <4>1. 1 \in 1..2 /\ 2 \in 1..2
        OBVIOUS
      <4> QED
        BY <3>2, <3>3, <4>1, Zenon
    <3> QED
      BY <2>4, <3>3, <3>4, <3>5 DEF F, A
  <2>6. CASE told' = told \o (f \o e)
    <3> DEFINE u == f \o e
    <3>0. Positions(f, e)
      BY <2>2, PositionFacts, Zenon
    <3>1. u \in Seq(Notices) /\ Len(u) = 1 + 0 /\ \A k \in 1..1 : u[k] = f[k]
      BY <2>2, <3>0 DEF Positions
    <3> HIDE DEF u
    <3>2. u \in Seq(Notices) /\ Len(u) = 1 /\ u[1] = F
      BY <2>2, <3>1
    <3>7. Positions(told, u)
      BY <1>1, <3>2, PositionFacts, Zenon
    <3>3. /\ Len(told \o u) = n + 1 /\ DOMAIN (told \o u) = 1..(n + 1)
          /\ \A k \in 1..n : (told \o u)[k] = told[k]
          /\ \A k \in 1..1 : (told \o u)[n + k] = u[k]
      BY <1>1, <3>2, <3>7 DEF Positions
    <3>4. told' = told \o u
      BY <2>6 DEF u
    <3>5. (told \o u)[n + 1] = F
      <4>1. 1 \in 1..1
        OBVIOUS
      <4> QED
        BY <3>2, <3>3, <4>1, Zenon
    <3> QED
      BY <2>4, <3>3, <3>4, <3>5 DEF F
  <2> QED
    BY <2>3, <2>5, <2>6
<1> HIDE DEF n
<1>6. ASSUME NEW i \in 1..n
      PROVE  /\ told'[i].on = "success" /\ told'[i].file = i
             /\ \A j \in 1..i : told'[j].on = "success"
  BY <1>1, <1>5 DEF ToldInOrder
<1>7. \A i \in DOMAIN told' :
        \/ i \in 1..n \/ i = next
        \/ i = next + 1 /\ told'[i] = Alert(next) /\ Len(told') = next + 1
  BY <1>1, <1>5
<1>8. next = Len(told') \/ (next + 1 = Len(told') /\ told'[next + 1] = Alert(next))
  BY <1>5
<1> SUFFICES ASSUME NEW i \in DOMAIN told'
             PROVE  /\ told'[i].on = "success" =>
                         told'[i].file = i /\ \A j \in 1..i : told'[j].on = "success"
                    /\ told'[i].on = "failure" =>
                         /\ told'[i].file = i
                         /\ \/ i = Len(told')
                            \/ i + 1 = Len(told') /\ told'[i + 1] = Alert(i)
                    /\ told'[i].on = "alert" => i > 1 /\ told'[i - 1] = Failure(i - 1)
  BY DEF ToldInOrder, Alert, Failure
<1>9. CASE i \in 1..n
  BY <1>6, <1>9
<1>10. CASE i = next
  BY <1>4, <1>5, <1>8, <1>10
<1>11. CASE i = next + 1 /\ told'[i] = Alert(next)
  <2>1. i > 1 /\ i - 1 = next
    BY <1>1, <1>11
  <2> QED
    BY <1>4, <1>5, <1>11, <2>1
<1> QED
  BY <1>7, <1>9, <1>10, <1>11

\* on_success, with the rows that are joined to the batch.
LEMMA SuccessIsTold ==
  ASSUME TypeOK, ReadInOrder, ToldInOrder, CountsAgree, LoadFile
  PROVE  ToldInOrder' /\ CountsAgree'
<1> DEFINE n == next - 1
           L == Loaded(next)
           S == Success(next, L)
<1>1. /\ told \in Seq(Notices) /\ next \in Nat /\ next >= 1 /\ n \in Nat /\ next = n + 1
      /\ call = "reading" /\ load \in Loads /\ batch \in Seq(AllRows)
      /\ next \in 1..Len(content)
  BY RowFacts DEF TypeOK, LoadFile
<1>2. /\ told' = Append(told, S) /\ batch' = batch \o L /\ next' = next + 1
      /\ call' = call
  BY DEF LoadFile
<1>3. /\ DOMAIN told = 1..n /\ Len(told) = n /\ \A i \in 1..n : told[i].on = "success"
      /\ \A f \in 1..n : told[f].rows = Cardinality(FromFile(f))
  BY <1>1 DEF CountsAgree, AllRead
<1>4. L \in Seq(AllRows) /\ Len(L) \in Nat /\ \A k \in DOMAIN L : L[k].file = next
  BY <1>1, LoadedFacts
<1>5. S.on = "success" /\ S.file = next /\ S.rows = Len(L)
  BY DEF Success
<1> HIDE DEF n, L, S
<1>6. /\ DOMAIN told' = 1..next /\ Len(told') = next /\ told'[next] = S
      /\ \A i \in 1..n : told'[i] = told[i]
  BY <1>1, <1>2, <1>3
<1>7. \A i : i \in 1..next <=> i \in 1..n \/ i = next
  BY <1>1
<1>8. \A i \in 1..next : told'[i].on = "success" /\ told'[i].file = i
  BY <1>3, <1>5, <1>6, <1>7 DEF ToldInOrder
<1>9. ToldInOrder'
  <2> SUFFICES ASSUME NEW i \in 1..next
               PROVE  /\ told'[i].on = "success" /\ told'[i].file = i
                      /\ \A j \in 1..i : told'[j].on = "success"
    BY <1>6, <1>8 DEF ToldInOrder
  <2>1. \A j \in 1..i : j \in 1..next
    BY <1>1
  <2> QED
    BY <1>8, <2>1
<1>10. /\ \A k \in DOMAIN batch : batch[k].file < next /\ batch[k].file \in Nat
  <2>1. \A k \in DOMAIN batch : batch[k] \in AllRows
    BY <1>1
  <2> QED
    BY <1>1, <2>1, RowFacts DEF ReadInOrder
<1> DEFINE m == Len(batch)
           b == batch'
<1>11. /\ m \in Nat /\ DOMAIN batch = 1..m /\ DOMAIN L = 1..Len(L)
       /\ DOMAIN b = 1..(m + Len(L))
       /\ \A k \in 1..m : b[k] = batch[k]
       /\ \A k \in (m + 1)..(m + Len(L)) : b[k] = L[k - m]
  BY <1>1, <1>2, <1>4
<1> HIDE DEF m, b
<1>12. \A k \in (m + 1)..(m + Len(L)) : b[k].file = next
  <2> SUFFICES ASSUME NEW k \in (m + 1)..(m + Len(L)) PROVE b[k].file = next
    OBVIOUS
  <2>1. k - m \in 1..Len(L)
    BY <1>4, <1>11
  <2> QED
    BY <1>4, <1>11, <2>1
<1>13. \A k : k \in DOMAIN b <=> k \in 1..m \/ k \in (m + 1)..(m + Len(L))
  BY <1>4, <1>11
<1>14. \A k \in 1..m : b[k].file < next /\ b[k].file \in Nat
  BY <1>10, <1>11
<1>15. \A f : FromFile(f)' = {k \in DOMAIN b : b[k].file = f}
  BY DEF FromFile, b
<1>16. ASSUME NEW f \in 1..n PROVE FromFile(f)' = FromFile(f)
  <2>1. f # next /\ f \in Nat
    BY <1>1
  <2>2. {k \in DOMAIN b : b[k].file = f} = {k \in DOMAIN batch : batch[k].file = f}
    BY <1>11, <1>12, <1>13, <2>1
  <2> QED
    BY <1>15, <2>2 DEF FromFile
<1>17. ASSUME NEW f, f = next PROVE Cardinality(FromFile(f)') = Len(L)
  <2>1. {k \in DOMAIN b : b[k].file = next} = (m + 1)..(m + Len(L))
    BY <1>1, <1>12, <1>13, <1>14
  <2>2. Cardinality((m + 1)..(m + Len(L))) = Len(L)
    <3> DEFINE p == m + 1
               q == m + Len(L)
    <3>1. p \in Int /\ q \in Int /\ (IF p > q THEN 0 ELSE q - p + 1) = Len(L)
      BY <1>4, <1>11
    <3> HIDE DEF p, q
    <3>2. Cardinality(p..q) = IF p > q THEN 0 ELSE q - p + 1
      BY <3>1, FS_Interval
    <3> QED
      BY <3>1, <3>2 DEF p, q
  <2>3. FromFile(f)' = (m + 1)..(m + Len(L))
    BY <1>15, <1>17, <2>1
  <2> QED
    BY <2>2, <2>3
<1>18. \A f \in 1..next : told'[f].rows = Cardinality(FromFile(f)')
  <2> SUFFICES ASSUME NEW f \in 1..next PROVE told'[f].rows = Cardinality(FromFile(f)')
    OBVIOUS
  <2>1. CASE f = next
    BY <1>5, <1>6, <1>17, <2>1
  <2>2. CASE f \in 1..n
    BY <1>3, <1>6, <1>16, <2>2
  <2> QED
    BY <1>7, <2>1, <2>2
<1>19. CountsAgree'
  <2>1. next' - 1 = next
    BY <1>1, <1>2
  <2> QED
    BY <1>2, <1>6, <1>8, <1>18, <2>1 DEF CountsAgree, AllRead
<1> QED
  BY <1>9, <1>19

(***************************************************************************)
(* The observer of a call is told what the call has done, file by file and *)
(* with the rows of each, for every list of files and every error.         *)
(***************************************************************************)
THEOREM ObserverKeepsUp == Spec => []ObserverFollows
<1> DEFINE Follows == ToldInOrder /\ CountsAgree /\ (HasBatch => AllRead(listed))
<1>1. Init => Follows
  <2> SUFFICES ASSUME Init PROVE Follows
    OBVIOUS
  <2>1. told = <<>> /\ call = "idle"
    BY DEF Init
  <2> QED
    BY <2>1 DEF ToldInOrder, CountsAgree, HasBatch
<1>2. IngestInv /\ Follows /\ [Next]_vars => Follows'
  <2> SUFFICES ASSUME IngestInv, Follows, [Next]_vars PROVE Follows'
    OBVIOUS
  <2>1. TypeOK /\ ReadInOrder /\ next \in Nat /\ listed \in Nat /\ next <= listed + 1
    BY DEF IngestInv, TypeOK
  <2>2. CASE BeginCall
    <3>1. told' = <<>> /\ next' = 1 /\ call' = "reading"
      BY <2>2 DEF BeginCall
    <3>2. next' - 1 = 0 /\ 1..0 = {} /\ Len(told') = 0 /\ DOMAIN told' = {}
      BY <3>1
    <3> QED
      BY <3>1, <3>2 DEF ToldInOrder, CountsAgree, AllRead, HasBatch
  <2>3. CASE LoadFile
    <3>1. call' = "reading"
      BY <2>3 DEF LoadFile
    <3> QED
      BY <2>1, <2>3, <3>1, SuccessIsTold DEF HasBatch
  <2>4. CASE LoadFails
    <3>1. call = "reading" /\ call' = "idle"
      BY <2>4 DEF LoadFails, ReturnError
    <3>2. ToldInOrder'
      BY <2>1, <2>4, <3>1, FailureIsTold DEF CountsAgree
    <3> QED
      BY <3>1, <3>2 DEF CountsAgree, HasBatch
  <2>5. CASE FinishBatch
    <3>1. /\ call = "reading" /\ call' = "returned" /\ next > listed
          /\ UNCHANGED <<told, listed>>
      BY <2>5 DEF FinishBatch
    <3>2. next - 1 = listed
      BY <2>1, <3>1
    <3> QED
      BY <3>1, <3>2 DEF ToldInOrder, CountsAgree, AllRead, HasBatch, Alert, Failure
  <2>6. CASE UNCHANGED told /\ call' # "reading"
             /\ (HasBatch' => HasBatch /\ listed' = listed)
    BY <2>6 DEF ToldInOrder, CountsAgree, AllRead, Alert, Failure
  <2>7. CASE UNCHANGED <<told, call, next, batch, listed>>
    BY <2>7 DEF ToldInOrder, CountsAgree, AllRead, Alert, Failure, HasBatch, FromFile
  <2>8. \/ BeginCall \/ LoadFile \/ LoadFails \/ FinishBatch
        \/ UNCHANGED told /\ call' # "reading" /\ (HasBatch' => HasBatch /\ listed' = listed)
        \/ UNCHANGED <<told, call, next, batch, listed>>
    BY DEF Next, vars, Publish, CallStep, TakeRows, SaveFloor, Crash, locals, HasBatch
  <2> QED
    BY <2>2, <2>3, <2>4, <2>5, <2>6, <2>7, <2>8
<1>3. IngestInv /\ Follows => ObserverFollows
  BY ObserverParts DEF IngestInv
<1> HIDE DEF Follows
<1> QED
  BY <1>1, <1>2, <1>3, IngestInvariance, PTL DEF Spec
-----------------------------------------------------------------------------
(* XmlRecords.  What the reader has behind it begins the document: the     *)
(* prefix of the rows it is over with, then of the fields of the next row, *)
(* then of the texts of the next field.  The prefix says what comes next,  *)
(* and what the reader must have of each name by then.                     *)

\* The first k of some sequences, put together.
Upto(s, k) == FlattenSeq([i \in 1..k |-> s[i]])

LEMMA UptoChain ==
  ASSUME NEW A, NEW s \in Seq(Seq(A))
  PROVE  /\ \A k \in 0..Len(s) : Upto(s, k) \in Seq(A)
         /\ Upto(s, 0) = <<>> /\ Upto(s, Len(s)) = FlattenSeq(s)
         /\ \A k \in 1..Len(s) : Upto(s, k) = Upto(s, k - 1) \o s[k]
<1> DEFINE n == Len(s)
<1>1. n \in Nat /\ \A i \in 1..n : s[i] \in Seq(A)
  OBVIOUS
<1>2. PICK g \in [0..n -> Seq(A)] : g[0] = <<>> /\ \A i \in 1..n : g[i] = g[i - 1] \o s[i]
  BY FlattenGrows
<1>3. ASSUME NEW k \in 0..n PROVE Upto(s, k) = g[k]
  <2> DEFINE t == [i \in 1..k |-> s[i]]
             h == [i \in 0..k |-> g[i]]
  <2>1. t \in Seq(Seq(A)) /\ Len(t) = k /\ k \in Nat
    BY <1>1
  <2>2. h \in [0..k -> Seq(A)] /\ h[0] = <<>> /\ h[k] = g[k]
    BY <1>1, <1>2
  <2>3. ASSUME NEW i \in 1..k PROVE h[i] = h[i - 1] \o t[i]
    <3>1. i \in 1..n /\ i \in 0..k /\ i - 1 \in 0..k
      BY <1>1
    <3> QED
      BY <1>2, <3>1
  <2>4. Upto(s, k) = FlattenSeq(t)
    BY DEF Upto
  <2> HIDE DEF t, h
  <2>5. FlattenSeq(t) = h[k]
    BY <2>1, <2>2, <2>3, FlattenIs
  <2> QED
    BY <2>2, <2>4, <2>5
<1>4. FlattenSeq(s) = g[n]
  BY <1>1, <1>2, FlattenIs
<1>5. \A k \in 1..n : k \in 0..n /\ k - 1 \in 0..n
  BY <1>1
<1>6. 0 \in 0..n /\ n \in 0..n
  BY <1>1
<1> HIDE DEF n
<1>7. Upto(s, 0) = <<>> /\ Upto(s, n) = FlattenSeq(s)
  BY <1>2, <1>3, <1>4, <1>6
<1>8. \A k \in 1..n : Upto(s, k) = Upto(s, k - 1) \o s[k]
  BY <1>2, <1>3, <1>5
<1> QED
  BY <1>2, <1>3, <1>7, <1>8 DEF n

\* p begins doc.
Begins(p, doc) == Len(p) <= Len(doc) /\ \A i \in 1..Len(p) : doc[i] = p[i]

LEMMA BeginsOf ==
  ASSUME NEW A, NEW p \in Seq(A), NEW q \in Seq(A), NEW doc \in Seq(A), Begins(p \o q, doc)
  PROVE  Begins(p, doc)
<1> DEFINE w == p \o q
<1>1. Len(w) = Len(p) + Len(q) /\ Len(q) \in Nat /\ Len(p) \in Nat /\ Len(doc) \in Nat
  OBVIOUS
<1>2. \A i \in 1..Len(p) : w[i] = p[i]
  OBVIOUS
<1> HIDE DEF w
<1>3. Len(w) <= Len(doc) /\ \A i \in 1..Len(w) : doc[i] = w[i]
  BY DEF Begins, w
<1>4. \A i \in 1..Len(p) : i \in 1..Len(w)
  BY <1>1
<1> QED
  BY <1>1, <1>2, <1>3, <1>4 DEF Begins

\* What begins a document says what comes later in it.
LEMMA BeginsWith ==
  ASSUME NEW A, NEW p \in Seq(A), NEW e \in A, NEW doc \in Seq(A), Begins(p \o <<e>>, doc)
  PROVE  Len(p) + 1 \in 1..Len(doc) /\ doc[Len(p) + 1] = e /\ Len(p \o <<e>>) = Len(p) + 1
<1> DEFINE w == p \o <<e>>
<1>1. Len(w) = Len(p) + 1 /\ w[Len(p) + 1] = e /\ Len(p) \in Nat /\ Len(doc) \in Nat
  OBVIOUS
<1> HIDE DEF w
<1>2. Len(w) <= Len(doc) /\ \A i \in 1..Len(w) : doc[i] = w[i]
  BY DEF Begins, w
<1>3. Len(p) + 1 \in 1..Len(w)
  BY <1>1
<1> QED
  BY <1>1, <1>2, <1>3 DEF w

LEMMA BeginsLess ==
  ASSUME NEW A, NEW p \in Seq(A), NEW q \in Seq(A), NEW r \in Seq(A), NEW doc \in Seq(A),
         Begins(p \o (q \o r), doc)
  PROVE  Begins(p \o q, doc)
<1>1. (p \o q) \o r = p \o (q \o r) /\ p \o q \in Seq(A)
  BY SMTT(30)
<1>2. Begins((p \o q) \o r, doc)
  BY <1>1
<1> QED
  BY <1>1, <1>2, BeginsOf

LEMMA SubSeqGrows ==
  ASSUME NEW A, NEW t \in Seq(A), NEW j \in Nat, j + 1 \in 1..Len(t)
  PROVE  /\ SubSeq(t, 1, j) \in Seq(A) /\ t[j + 1] \in A
         /\ SubSeq(t, 1, j + 1) = SubSeq(t, 1, j) \o <<t[j + 1]>>
<1>1. SubSeq(t, 1, j) \in Seq(A) /\ t[j + 1] \in A
  OBVIOUS
<1>2. SubSeq(t, 1, j + 1) = SubSeq(t, 1, j) \o <<t[j + 1]>>
  OBVIOUS
<1> QED
  BY <1>1, <1>2

LEMMA UptoBegins ==
  ASSUME NEW A, NEW s \in Seq(Seq(A)), NEW p \in Seq(A), NEW doc \in Seq(A),
         Begins(p \o FlattenSeq(s), doc), NEW k \in 0..Len(s)
  PROVE  Begins(p \o Upto(s, k), doc)
<1> DEFINE n == Len(s)
           S == {d \in 0..n : Begins(p \o Upto(s, n - d), doc)}
<1>1. n \in Nat /\ \A i \in 1..n : s[i] \in Seq(A)
  OBVIOUS
<1>2. 0 \in S
  <2>1. n - 0 = n /\ 0 \in 0..n
    BY <1>1
  <2> HIDE DEF n
  <2>2. Upto(s, n) = FlattenSeq(s)
    BY UptoChain DEF n
  <2> QED
    BY <2>1, <2>2
<1>3. ASSUME NEW d \in 1..n, d - 1 \in S PROVE d \in S
  <2> DEFINE j == n - (d - 1)
  <2>1. j \in 1..n /\ j - 1 = n - d /\ d \in 0..n /\ j - 1 \in 0..n /\ j \in 0..n
    BY <1>1
  <2>2. Begins(p \o Upto(s, j), doc)
    BY <1>3
  <2> HIDE DEF j
  <2>3. Upto(s, j) = Upto(s, j - 1) \o s[j] /\ Upto(s, j - 1) \in Seq(A) /\ s[j] \in Seq(A)
    BY <1>1, <2>1, UptoChain
  <2> DEFINE u == Upto(s, j - 1)
             x == s[j]
  <2> HIDE DEF u, x
  <2>a. u \in Seq(A) /\ x \in Seq(A) /\ Upto(s, j) = u \o x
    BY <2>3 DEF u, x
  <2>5. Begins(p \o Upto(s, j - 1), doc)
    BY <2>2, <2>a, BeginsLess DEF u
  <2> QED
    BY <2>1, <2>5
<1>4. n - k \in 0..n /\ n - (n - k) = k
  BY <1>1
<1> HIDE DEF S
<1>5. 0..n \subseteq S
  BY <1>1, <1>2, <1>3, IntervalInduction
<1>6. n - k \in S
  BY <1>4, <1>5
<1> QED
  BY <1>4, <1>6 DEF S
-----------------------------------------------------------------------------
\* What may be in a document.
Texts == STRING \cup {"", Root, Record}
Events == [is : {"Start", "End", "Text", "Reference"}, name : Texts]
Fewest(s, t) == IF Len(s) < Len(t) THEN Len(s) ELSE Len(t)

\* What the reader has behind it between two records, after r of them; between
\* two fields of the later one, after i of them; and within the later field,
\* after j texts.
RecordsOf(set) == [r \in 1..Len(set.rows) |-> RowEvents(set.fields, set.rows[r])]
BeforeRow(set, r) == <<Open(Root)>> \o Upto(RecordsOf(set), r)
BeforeField(set, r, i) ==
  (BeforeRow(set, r) \o <<Open(Record)>>) \o Upto(FieldEvents(set.fields, set.rows[r + 1]), i)
Part(set, r, i) == CellEvents(set.rows[r + 1][i + 1])
BeforeText(set, r, i, j) ==
  (BeforeField(set, r, i) \o <<Open(set.fields[i + 1])>>) \o SubSeq(Part(set, r, i), 1, j)

\* What the assumption says of what is exported, part by part.
LEMMA RecordShape ==
  ASSUME NEW set \in Records
  PROVE  /\ Len(set.fields) \in Nat /\ Len(set.rows) \in Nat /\ Len(set.schema) \in Nat
         /\ \A i \in 1..Len(set.fields) : set.fields[i] \in Texts /\ set.fields[i] # ""
         /\ \A r \in 1..Len(set.rows) :
              /\ set.rows[r] \in Seq(RecordCells) /\ Len(set.rows[r]) \in Nat
              /\ \A i \in 1..Len(set.rows[r]) : set.rows[r][i].text \in Seq(Texts)
         /\ \A k \in 1..Len(set.schema) : set.schema[k] \in RecordColumns
<1>1. /\ set \in [fields : Seq(STRING), schema : Seq(RecordColumns), rows : Seq(Seq(RecordCells))]
      /\ \A i \in 1..Len(set.fields) : set.fields[i] # ""
  BY RecordsAssumption
<1> DEFINE f == set.fields
           w == set.rows
           s == set.schema
<1>2. f \in Seq(STRING) /\ w \in Seq(Seq(RecordCells)) /\ s \in Seq(RecordColumns)
  BY <1>1
<1>3. \A i \in 1..Len(f) : f[i] # ""
  BY <1>1
<1> HIDE DEF f, w, s
<1>4. Len(f) \in Nat /\ Len(w) \in Nat /\ Len(s) \in Nat
  BY <1>2
<1>5. ASSUME NEW i \in 1..Len(f) PROVE f[i] \in Texts
  <2>1. f[i] \in STRING
    BY <1>2
  <2> QED
    BY <2>1 DEF Texts
<1>6. \A r \in 1..Len(w) : w[r] \in Seq(RecordCells)
  BY <1>2
<1>7. ASSUME NEW r \in 1..Len(w), NEW i \in 1..Len(w[r]) PROVE w[r][i].text \in Seq(Texts)
  <2>1. w[r][i] \in RecordCells
    BY <1>6
  <2>2. w[r][i].text \in Seq(STRING \ {""}) /\ (STRING \ {""}) \subseteq Texts
    BY <2>1 DEF RecordCells, Texts
  <2> QED
    BY <2>2, Widened
<1>8. \A r \in 1..Len(w) : Len(w[r]) \in Nat
  BY <1>6
<1>9. \A k \in 1..Len(s) : s[k] \in RecordColumns
  BY <1>2
<1> QED
  BY <1>3, <1>4, <1>5, <1>6, <1>7, <1>8, <1>9 DEF f, w, s

LEMMA EventsOf ==
  ASSUME NEW name \in Texts
  PROVE  Open(name) \in Events /\ Close(name) \in Events /\ Root \in Texts /\ Record \in Texts
  BY DEF Open, Close, Events, Texts

LEMMA TextEventsShape ==
  ASSUME NEW parts \in Seq(Texts)
  PROVE  /\ TextEvents(parts) \in Seq(Events) /\ Len(TextEvents(parts)) = Len(parts)
         /\ \A j \in 1..Len(parts) :
              TextEvents(parts)[j] = IF parts[j] = "&" THEN [is |-> "Reference", name |-> ""]
                                     ELSE [is |-> "Text", name |-> parts[j]]
<1> DEFINE e(j) == IF parts[j] = "&" THEN [is |-> "Reference", name |-> ""]
                   ELSE [is |-> "Text", name |-> parts[j]]
           n == Len(parts)
<1>1. n \in Nat /\ \A j \in 1..n : parts[j] \in Texts
  OBVIOUS
<1>2. \A j \in 1..n : e(j) \in Events
  BY <1>1 DEF Events, Texts
<1>3. TextEvents(parts) = [j \in 1..n |-> e(j)]
  BY DEF TextEvents
<1> HIDE DEF e, n
<1>4. TextEvents(parts) \in Seq(Events) /\ Len(TextEvents(parts)) = n
  BY <1>1, <1>2, <1>3
<1>5. \A j \in 1..n : TextEvents(parts)[j] = e(j)
  BY <1>3
<1> QED
  BY <1>4, <1>5 DEF e, n

LEMMA FieldEventsShape ==
  ASSUME NEW set \in Records, NEW r \in 1..Len(set.rows)
  PROVE  LET s == FieldEvents(set.fields, set.rows[r])
         IN  /\ s \in Seq(Seq(Events)) /\ Len(s) = Fewest(set.fields, set.rows[r])
             /\ Fewest(set.fields, set.rows[r]) \in Nat
             /\ \A i \in 1..Fewest(set.fields, set.rows[r]) :
                  /\ i \in 1..Len(set.fields) /\ i \in 1..Len(set.rows[r])
                  /\ CellEvents(set.rows[r][i]) = TextEvents(set.rows[r][i].text)
                  /\ CellEvents(set.rows[r][i]) \in Seq(Events)
                  /\ s[i] = <<Open(set.fields[i])>> \o CellEvents(set.rows[r][i])
                              \o <<Close(set.fields[i])>>
<1> DEFINE f == set.fields
           c == set.rows[r]
           m == Fewest(f, c)
           e(i) == <<Open(f[i])>> \o CellEvents(c[i]) \o <<Close(f[i])>>
<1>1. /\ Len(f) \in Nat /\ Len(c) \in Nat
      /\ \A i \in 1..Len(f) : f[i] \in Texts
      /\ \A i \in 1..Len(c) : c[i].text \in Seq(Texts)
  BY RecordShape
<1>2. FieldEvents(f, c) = [i \in 1..m |-> e(i)]
  BY DEF FieldEvents, Fewest
<1> HIDE DEF f, c
<1>3. m \in Nat /\ \A i \in 1..m : i \in 1..Len(f) /\ i \in 1..Len(c)
  BY <1>1 DEF Fewest
<1>4. ASSUME NEW i \in 1..m
      PROVE  /\ CellEvents(c[i]) = TextEvents(c[i].text) /\ CellEvents(c[i]) \in Seq(Events)
             /\ e(i) \in Seq(Events)
  <2>1. CellEvents(c[i]) = TextEvents(c[i].text)
    BY DEF CellEvents
  <2>2. CellEvents(c[i]) \in Seq(Events)
    BY <1>1, <1>3, <2>1, TextEventsShape
  <2>3. Open(f[i]) \in Events /\ Close(f[i]) \in Events
    BY <1>1, <1>3, EventsOf
  <2> DEFINE o == Open(f[i])
             x == CellEvents(c[i])
             z == Close(f[i])
  <2> HIDE DEF o, x, z
  <2>4. <<o>> \o x \o <<z>> \in Seq(Events)
    BY <2>2, <2>3 DEF o, x, z
  <2> QED
    BY <2>1, <2>2, <2>4 DEF o, x, z
<1> HIDE DEF e, m
<1>5. /\ FieldEvents(f, c) \in Seq(Seq(Events)) /\ Len(FieldEvents(f, c)) = m
      /\ \A i \in 1..m : FieldEvents(f, c)[i] = e(i)
  BY <1>2, <1>3, <1>4
<1> QED
  BY <1>3, <1>4, <1>5 DEF f, c, e, m

\* The document is the rows one after the other ...
LEMMA RowsLayout ==
  ASSUME NEW set \in Records
  PROVE  /\ Exported(set) \in Seq(Events)
         /\ \A r \in 0..Len(set.rows) :
              BeforeRow(set, r) \in Seq(Events) /\ Begins(BeforeRow(set, r), Exported(set))
         /\ BeforeRow(set, 0) = <<Open(Root)>>
         /\ Exported(set) = BeforeRow(set, Len(set.rows)) \o <<Close(Root)>>
         /\ \A r \in 1..Len(set.rows) :
              BeforeRow(set, r) =
                BeforeRow(set, r - 1) \o RowEvents(set.fields, set.rows[r])
<1> DEFINE n == Len(set.rows)
           w == RecordsOf(set)
           o == <<Open(Root)>>
           z == <<Close(Root)>>
<1>1. n \in Nat
  BY RecordShape
<1>2. o \in Seq(Events) /\ z \in Seq(Events)
  <2>1. Open(Root) \in Events /\ Close(Root) \in Events
    BY EventsOf DEF Texts
  <2> QED
    BY <2>1
<1>3. ASSUME NEW r \in 1..n PROVE RowEvents(set.fields, set.rows[r]) \in Seq(Events)
  <2> DEFINE a == <<Open(Record)>>
             b == FlattenSeq(FieldEvents(set.fields, set.rows[r]))
             c == <<Close(Record)>>
  <2>1. Open(Record) \in Events /\ Close(Record) \in Events
    BY EventsOf DEF Texts
  <2>2. FieldEvents(set.fields, set.rows[r]) \in Seq(Seq(Events))
    BY FieldEventsShape
  <2>3. a \in Seq(Events) /\ c \in Seq(Events)
    BY <2>1
  <2>4. b \in Seq(Events)
    BY <2>2, FlattenFrom
  <2>5. RowEvents(set.fields, set.rows[r]) = a \o b \o c
    BY DEF RowEvents
  <2> HIDE DEF a, b, c
  <2> QED
    BY <2>3, <2>4, <2>5
<1>4. w = [r \in 1..n |-> RowEvents(set.fields, set.rows[r])]
  BY DEF RecordsOf
<1> HIDE DEF n, w, o, z
<1>5. w \in Seq(Seq(Events)) /\ Len(w) = n
      /\ \A r \in 1..n : w[r] = RowEvents(set.fields, set.rows[r])
  BY <1>1, <1>3, <1>4
<1>6. /\ \A k \in 0..n : Upto(w, k) \in Seq(Events)
      /\ Upto(w, 0) = <<>> /\ Upto(w, n) = FlattenSeq(w)
      /\ \A k \in 1..n : Upto(w, k) = Upto(w, k - 1) \o w[k]
  BY <1>5, UptoChain
<1>7. \A r : BeforeRow(set, r) = o \o Upto(w, r)
  BY DEF BeforeRow, o, w
<1>8. ASSUME NEW r \in 0..n PROVE BeforeRow(set, r) \in Seq(Events)
  <2> DEFINE u == Upto(w, r)
  <2>1. u \in Seq(Events)
    BY <1>6
  <2> HIDE DEF u
  <2>2. o \o u \in Seq(Events)
    BY <1>2, <2>1
  <2> QED
    BY <1>7, <2>2 DEF u
<1>9. BeforeRow(set, 0) = o
  <2>1. BeforeRow(set, 0) = o \o <<>>
    BY <1>6, <1>7
  <2>2. o \o <<>> = o
    BY <1>2
  <2> QED
    BY <2>1, <2>2
<1>10. 0 \in 0..n /\ n \in 0..n
  BY <1>1
<1>11. Exported(set) = BeforeRow(set, n) \o z
  BY <1>6, <1>7, <1>4 DEF Exported, o, z, n
<1>12. Exported(set) \in Seq(Events)
  BY <1>2, <1>8, <1>10, <1>11
<1>13. Begins(BeforeRow(set, n) \o z, Exported(set))
  BY <1>11, <1>12 DEF Begins
<1>14. Begins(o \o FlattenSeq(w), Exported(set))
  BY <1>2, <1>6, <1>7, <1>8, <1>10, <1>12, <1>13, BeginsOf
<1>15. \A r \in 0..n : Begins(BeforeRow(set, r), Exported(set))
  BY <1>2, <1>5, <1>7, <1>12, <1>14, UptoBegins
<1>16. ASSUME NEW r \in 1..n
       PROVE  BeforeRow(set, r) = BeforeRow(set, r - 1) \o RowEvents(set.fields, set.rows[r])
  <2>1. r - 1 \in 0..n
    BY <1>1
  <2> DEFINE u == Upto(w, r - 1)
             x == w[r]
  <2>2. u \in Seq(Events) /\ x \in Seq(Events) /\ Upto(w, r) = u \o x
    BY <1>5, <1>6, <2>1
  <2> HIDE DEF u, x
  <2>3. o \o (u \o x) = (o \o u) \o x
    BY <1>2, <2>2, SMTT(30)
  <2>4. BeforeRow(set, r - 1) = o \o u /\ BeforeRow(set, r) = o \o (u \o x)
    BY <1>7, <2>2 DEF u
  <2>5. x = RowEvents(set.fields, set.rows[r])
    BY <1>5 DEF x
  <2> QED
    BY <2>3, <2>4, <2>5
<1> QED
  BY <1>8, <1>9, <1>11, <1>12, <1>15, <1>16 DEF n, o, z

\* ... a row is its fields ...
FieldsLie(set, r) ==
  LET m == Fewest(set.fields, set.rows[r + 1])
      s == FieldEvents(set.fields, set.rows[r + 1])
  IN  /\ \A i \in 0..m : /\ BeforeField(set, r, i) \in Seq(Events)
                         /\ Begins(BeforeField(set, r, i), Exported(set))
      /\ BeforeField(set, r, 0) = BeforeRow(set, r) \o <<Open(Record)>>
      /\ BeforeRow(set, r + 1) = BeforeField(set, r, m) \o <<Close(Record)>>
      /\ \A i \in 1..m : BeforeField(set, r, i) = BeforeField(set, r, i - 1) \o s[i]

LEMMA FieldsLayout ==
  ASSUME NEW set \in Records, NEW r \in Nat, r + 1 \in 1..Len(set.rows)
  PROVE  FieldsLie(set, r)
<1> DEFINE m == Fewest(set.fields, set.rows[r + 1])
           s == FieldEvents(set.fields, set.rows[r + 1])
           o == <<Open(Record)>>
           z == <<Close(Record)>>
           b == BeforeRow(set, r)
           doc == Exported(set)
<1>1. m \in Nat /\ s \in Seq(Seq(Events)) /\ Len(s) = m
  BY FieldEventsShape
<1>2. o \in Seq(Events) /\ z \in Seq(Events)
  <2>1. Open(Record) \in Events /\ Close(Record) \in Events
    BY EventsOf DEF Texts
  <2> QED
    BY <2>1
<1>3. /\ doc \in Seq(Events) /\ b \in Seq(Events) /\ BeforeRow(set, r + 1) \in Seq(Events)
      /\ Begins(BeforeRow(set, r + 1), doc)
      /\ BeforeRow(set, r + 1) = b \o RowEvents(set.fields, set.rows[r + 1])
  <2>0. Len(set.rows) \in Nat
    BY RecordShape
  <2>1. r \in 0..Len(set.rows) /\ r + 1 \in 0..Len(set.rows) /\ (r + 1) - 1 = r
    BY <2>0
  <2> HIDE DEF b, doc
  <2> QED
    BY <2>1, RowsLayout DEF b, doc
<1>4. RowEvents(set.fields, set.rows[r + 1]) = o \o FlattenSeq(s) \o z
  BY DEF RowEvents
<1>5. \A i : BeforeField(set, r, i) = (b \o o) \o Upto(s, i)
  BY DEF BeforeField
<1> HIDE DEF m, s, o, z, b, doc
<1>6. /\ \A k \in 0..m : Upto(s, k) \in Seq(Events)
      /\ Upto(s, 0) = <<>> /\ Upto(s, m) = FlattenSeq(s)
      /\ \A k \in 1..m : Upto(s, k) = Upto(s, k - 1) \o s[k]
  BY <1>1, UptoChain
<1> DEFINE p == b \o o
           x == FlattenSeq(s)
<1>7. p \in Seq(Events) /\ x \in Seq(Events) /\ m \in 0..m /\ 0 \in 0..m
  <2>1. m \in 0..m /\ 0 \in 0..m
    BY <1>1
  <2> QED
    BY <1>2, <1>3, <1>6, <2>1
<1>8. BeforeRow(set, r + 1) = (p \o x) \o z
  <2> HIDE DEF x
  <2>1. BeforeRow(set, r + 1) = b \o ((o \o x) \o z)
    BY <1>3, <1>4 DEF x
  <2>2. b \in Seq(Events) /\ x \in Seq(Events)
    BY <1>3, <1>7
  <2>3. b \o ((o \o x) \o z) = ((b \o o) \o x) \o z
    BY <1>2, <2>2, SMTT(30)
  <2> QED
    BY <2>1, <2>3
<1> HIDE DEF p, x
<1>9. BeforeField(set, r, m) = p \o x
  BY <1>5, <1>6 DEF p, x
<1>10. BeforeField(set, r, 0) = p
  <2>1. BeforeField(set, r, 0) = p \o <<>>
    BY <1>5, <1>6 DEF p
  <2>2. p \o <<>> = p
    BY <1>7
  <2> QED
    BY <2>1, <2>2
<1>11. ASSUME NEW i \in 0..m PROVE BeforeField(set, r, i) \in Seq(Events)
  <2> DEFINE u == Upto(s, i)
  <2>1. u \in Seq(Events)
    BY <1>6
  <2> HIDE DEF u
  <2>2. p \o u \in Seq(Events)
    BY <1>7, <2>1
  <2> QED
    BY <1>5, <2>2 DEF u, p
<1>12. Begins(p \o x, doc)
  <2>0. Begins((p \o x) \o z, doc)
    BY <1>3, <1>8
  <2>00. p \o x \in Seq(Events)
    BY <1>7
  <2>1. p \o x \in Seq(Events) /\ Begins((p \o x) \o z, doc)
    BY <2>0, <2>00
  <2> QED
    BY <1>2, <1>3, <2>1, BeginsOf
<1>13. ASSUME NEW i \in 0..m PROVE Begins(BeforeField(set, r, i), doc)
  <2>1. Begins(p \o Upto(s, i), doc)
    BY <1>1, <1>3, <1>7, <1>12, UptoBegins DEF x
  <2> QED
    BY <1>5, <2>1 DEF p
<1>14. ASSUME NEW i \in 1..m PROVE BeforeField(set, r, i) = BeforeField(set, r, i - 1) \o s[i]
  <2>1. i - 1 \in 0..m
    BY <1>1
  <2> DEFINE u == Upto(s, i - 1)
             y == s[i]
  <2>a. s[i] \in Seq(Events)
    BY <1>1
  <2>b. Upto(s, i - 1) \in Seq(Events) /\ Upto(s, i) = Upto(s, i - 1) \o s[i]
    BY <1>6, <2>1
  <2>2. u \in Seq(Events) /\ y \in Seq(Events) /\ Upto(s, i) = u \o y
    BY <2>a, <2>b
  <2> HIDE DEF u, y
  <2>c. p \in Seq(Events) /\ u \in Seq(Events) /\ y \in Seq(Events)
    BY <1>7, <2>2
  <2>3. p \o (u \o y) = (p \o u) \o y
    BY <2>c, SMTT(30)
  <2>4. BeforeField(set, r, i - 1) = p \o u /\ BeforeField(set, r, i) = p \o (u \o y)
    BY <1>5, <2>2 DEF u, p
  <2> QED
    BY <2>3, <2>4 DEF y
<1> QED
  BY <1>8, <1>9, <1>10, <1>11, <1>13, <1>14 DEF m, s, o, z, b, doc, p, FieldsLie

\* ... and a field is its texts.
TextsLie(set, r, i) ==
  LET parts == set.rows[r + 1][i + 1].text
  IN  /\ Part(set, r, i) = TextEvents(parts) /\ parts \in Seq(Texts)
      /\ Len(parts) \in Nat /\ TextEvents(parts) \in Seq(Events)
      /\ \A j \in 0..Len(parts) :
           /\ BeforeText(set, r, i, j) \in Seq(Events)
           /\ Begins(BeforeText(set, r, i, j), Exported(set))
      /\ BeforeText(set, r, i, 0) =
           BeforeField(set, r, i) \o <<Open(set.fields[i + 1])>>
      /\ \A j \in 0..(Len(parts) - 1) :
           BeforeText(set, r, i, j + 1) =
             BeforeText(set, r, i, j) \o <<TextEvents(parts)[j + 1]>>
      /\ BeforeField(set, r, i + 1) =
           BeforeText(set, r, i, Len(parts)) \o <<Close(set.fields[i + 1])>>

LEMMA TextsLayout ==
  ASSUME NEW set \in Records, NEW r \in Nat, r + 1 \in 1..Len(set.rows),
         NEW i \in Nat, i + 1 \in 1..Fewest(set.fields, set.rows[r + 1])
  PROVE  TextsLie(set, r, i)
<1> DEFINE parts == set.rows[r + 1][i + 1].text
           t == TextEvents(parts)
           n == Len(parts)
           a == Open(set.fields[i + 1])
           c == Close(set.fields[i + 1])
           b == BeforeField(set, r, i)
           doc == Exported(set)
<1>1. /\ i + 1 \in 1..Len(set.fields) /\ i + 1 \in 1..Len(set.rows[r + 1])
      /\ Part(set, r, i) = t
      /\ FieldEvents(set.fields, set.rows[r + 1])[i + 1] = <<a>> \o t \o <<c>>
  BY FieldEventsShape DEF Part
<1>2. parts \in Seq(Texts) /\ a \in Events /\ c \in Events
  <2>1. set.fields[i + 1] \in Texts /\ parts \in Seq(Texts)
    BY <1>1, RecordShape
  <2> QED
    BY <2>1, EventsOf
<1>3. /\ b \in Seq(Events) /\ BeforeField(set, r, i + 1) \in Seq(Events)
      /\ Begins(BeforeField(set, r, i + 1), doc) /\ doc \in Seq(Events)
      /\ BeforeField(set, r, i + 1) = b \o (<<a>> \o t \o <<c>>)
  <2> DEFINE m == Fewest(set.fields, set.rows[r + 1])
  <2>1. m \in Nat
    BY FieldEventsShape
  <2>2. i \in 0..m /\ i + 1 \in 0..m /\ (i + 1) - 1 = i
    BY <2>1
  <2>a. FieldsLie(set, r)
    BY FieldsLayout
  <2>3. doc \in Seq(Events)
    BY RowsLayout
  <2>4. /\ b \in Seq(Events) /\ BeforeField(set, r, i + 1) \in Seq(Events)
        /\ Begins(BeforeField(set, r, i + 1), doc)
    BY <2>2, <2>a DEF FieldsLie
  <2>5. BeforeField(set, r, i + 1) =
          BeforeField(set, r, (i + 1) - 1) \o FieldEvents(set.fields, set.rows[r + 1])[i + 1]
    BY <2>a DEF FieldsLie
  <2> QED
    BY <1>1, <2>2, <2>3, <2>4, <2>5
<1>4. \A j : BeforeText(set, r, i, j) = (b \o <<a>>) \o SubSeq(t, 1, j)
  BY <1>1 DEF BeforeText
<1>5. t \in Seq(Events) /\ Len(t) = n /\ n \in Nat
  <2>1. n \in Nat
    BY <1>2
  <2>2. t \in Seq(Events) /\ Len(t) = n
    BY <1>2, TextEventsShape
  <2> QED
    BY <2>1, <2>2
<1> HIDE DEF t, n, a, c, b, doc
<1> DEFINE p == b \o <<a>>
<1>6. p \in Seq(Events)
  BY <1>2, <1>3
<1>7. BeforeField(set, r, i + 1) = (p \o t) \o <<c>>
  <2>1. b \in Seq(Events) /\ <<a>> \in Seq(Events) /\ t \in Seq(Events) /\ <<c>> \in Seq(Events)
    BY <1>2, <1>3, <1>5
  <2>2. b \o (<<a>> \o t \o <<c>>) = ((b \o <<a>>) \o t) \o <<c>>
    BY <2>1, SMTT(30)
  <2> QED
    BY <1>3, <2>2
<1> HIDE DEF p
<1>8. \A j \in 0..n : SubSeq(t, 1, j) \in Seq(Events)
  BY <1>5
<1>9. SubSeq(t, 1, 0) = <<>> /\ SubSeq(t, 1, n) = t
  BY <1>5
<1>10. ASSUME NEW j \in 0..n PROVE BeforeText(set, r, i, j) \in Seq(Events)
  <2> DEFINE u == SubSeq(t, 1, j)
  <2>1. u \in Seq(Events)
    BY <1>8
  <2> HIDE DEF u
  <2>2. p \o u \in Seq(Events)
    BY <1>6, <2>1
  <2> QED
    BY <1>4, <2>2 DEF u, p
<1>11. BeforeText(set, r, i, 0) = p /\ BeforeText(set, r, i, n) = p \o t
  <2>1. BeforeText(set, r, i, 0) = p \o <<>> /\ BeforeText(set, r, i, n) = p \o t
    BY <1>4, <1>9 DEF p
  <2>2. p \o <<>> = p
    BY <1>6
  <2> QED
    BY <2>1, <2>2
<1>12. ASSUME NEW j \in 0..(n - 1)
       PROVE  BeforeText(set, r, i, j + 1) = BeforeText(set, r, i, j) \o <<t[j + 1]>>
  <2> DEFINE u == SubSeq(t, 1, j)
             e == t[j + 1]
  <2>1. u \in Seq(Events) /\ e \in Events /\ SubSeq(t, 1, j + 1) = u \o <<e>>
    <3>1. j \in Nat /\ j + 1 \in 1..Len(t)
      BY <1>5
    <3> QED
      BY <1>5, <3>1, SubSeqGrows
  <2> HIDE DEF u, e
  <2>2. p \o (u \o <<e>>) = (p \o u) \o <<e>>
    BY <1>6, <2>1, SMTT(30)
  <2>3. BeforeText(set, r, i, j) = p \o u /\ BeforeText(set, r, i, j + 1) = p \o (u \o <<e>>)
    BY <1>4, <2>1 DEF p, u
  <2> QED
    BY <2>2, <2>3 DEF e
<1>13. ASSUME NEW j \in 0..n PROVE Begins(BeforeText(set, r, i, j), doc)
  <2> DEFINE u == SubSeq(t, 1, j)
             v == SubSeq(t, j + 1, n)
  <2>1. u \in Seq(Events) /\ v \in Seq(Events) /\ t = u \o v
    BY <1>5
  <2> HIDE DEF u, v
  <2>a. <<c>> \in Seq(Events)
    BY <1>2
  <2>d. u \in Seq(Events) /\ v \in Seq(Events)
    BY <2>1
  <2>b. (p \o (u \o v)) \o <<c>> = (p \o u) \o (v \o <<c>>)
    <3>1. p \o (u \o v) = (p \o u) \o v
      BY <1>6, <2>d, SMTT(30)
    <3> DEFINE q == p \o u
    <3>2. q \in Seq(Events)
      BY <1>6, <2>d
    <3> HIDE DEF q
    <3>3. (q \o v) \o <<c>> = q \o (v \o <<c>>)
      BY <2>a, <2>d, <3>2, SMTT(30)
    <3> QED
      BY <3>1, <3>3 DEF q
  <2>c. p \o u \in Seq(Events) /\ v \o <<c>> \in Seq(Events)
    BY <1>6, <2>d, <2>a
  <2>2. (p \o t) \o <<c>> = (p \o u) \o (v \o <<c>>) /\ p \o u \in Seq(Events)
        /\ v \o <<c>> \in Seq(Events)
    BY <2>1, <2>b, <2>c
  <2>3. Begins((p \o u) \o (v \o <<c>>), doc)
    BY <1>3, <1>7, <2>2
  <2>4. Begins(p \o u, doc)
    BY <1>3, <2>2, <2>3, BeginsOf
  <2> QED
    BY <1>4, <2>4 DEF p, u
<1> QED
  BY <1>1, <1>2, <1>5, <1>7, <1>10, <1>11, <1>12, <1>13 DEF t, n, a, c, b, doc, p, TextsLie

-----------------------------------------------------------------------------
\* What the reader has of a name, and what was written under it, as sequences
\* of what each text adds.
Named == [name : Texts, word : Texts]
TextsBy(values, name) ==
  [v \in 1..Len(values) |-> IF values[v].name = name THEN <<values[v].word>> ELSE <<>>]
WordsBy(text) == [i \in 1..Len(text) |-> IF text[i] = "&" THEN <<>> ELSE <<text[i]>>]
WrittenBy(set, row, name) ==
  [i \in 1..Len(row) |->
    IF i <= Len(set.fields) /\ set.fields[i] = name THEN Words(row[i].text) ELSE <<>>]

LEMMA AppendIs ==
  ASSUME NEW A, NEW s \in Seq(A), NEW x \in A
  PROVE  Append(s, x) = [i \in 1..(Len(s) + 1) |-> IF i = Len(s) + 1 THEN x ELSE s[i]]
<1> DEFINE n == Len(s)
           t == [i \in 1..(n + 1) |-> IF i = n + 1 THEN x ELSE s[i]]
           a == Append(s, x)
<1>1. n \in Nat /\ \A i \in 1..n : s[i] \in A
  OBVIOUS
<1>2. t \in Seq(A) /\ Len(t) = n + 1
  BY <1>1
<1>3. a \in Seq(A) /\ Len(a) = n + 1 /\ a[n + 1] = x /\ \A i \in 1..n : a[i] = s[i]
  OBVIOUS
<1>4. \A i \in 1..(n + 1) : i = n + 1 \/ i \in 1..n
  BY <1>1
<1>5. \A i \in 1..(n + 1) : t[i] = IF i = n + 1 THEN x ELSE s[i]
  OBVIOUS
<1> HIDE DEF t, a
<1>6. \A i \in 1..(n + 1) : a[i] = t[i]
  BY <1>3, <1>4, <1>5
<1>7. a = t
  BY <1>2, <1>3, <1>6, SeqEqual
<1> QED
  BY <1>7 DEF a, t

LEMMA TextOfAppend ==
  ASSUME NEW values \in Seq(Named), NEW name
  PROVE  /\ TextOf(values, name) \in Seq(Texts) /\ TextOf(<<>>, name) = <<>>
         /\ \A v \in Named :
              TextOf(Append(values, v), name) =
                TextOf(values, name) \o (IF v.name = name THEN <<v.word>> ELSE <<>>)
<1> DEFINE own(v) == IF v.name = name THEN <<v.word>> ELSE <<>>
           n == Len(values)
           s == TextsBy(values, name)
<1>1. \A v \in Named : own(v) \in Seq(Texts)
  BY DEF Named
<1>2. n \in Nat /\ \A i \in 1..n : values[i] \in Named
  OBVIOUS
<1>3. s = [i \in 1..n |-> own(values[i])] /\ TextOf(values, name) = FlattenSeq(s)
  BY DEF TextsBy, TextOf
<1> HIDE DEF own, n, s
<1>4. s \in Seq(Seq(Texts)) /\ Len(s) = n
  BY <1>1, <1>2, <1>3
<1>5. TextOf(values, name) \in Seq(Texts)
  BY <1>3, <1>4, FlattenFrom
<1>6. TextOf(<<>>, name) = <<>>
  <2> DEFINE e == [v \in 1..0 |-> IF <<>>[v].name = name THEN <<<<>>[v].word>> ELSE <<>>]
  <2>1. TextOf(<<>>, name) = FlattenSeq(e)
    BY DEF TextOf
  <2>2. e = <<>>
    OBVIOUS
  <2> HIDE DEF e
  <2> QED
    BY <2>1, <2>2 DEF FlattenSeq
<1>7. ASSUME NEW v \in Named
      PROVE  TextOf(Append(values, v), name) = TextOf(values, name) \o own(v)
  <2> DEFINE w == Append(values, v)
             t == TextsBy(w, name)
  <2>1. Len(w) = n + 1 /\ w[n + 1] = v /\ \A i \in 1..n : w[i] = values[i]
    BY <1>2 DEF n
  <2>2. TextOf(w, name) = FlattenSeq(t)
    BY DEF TextsBy, TextOf
  <2>3. t = [i \in 1..Len(w) |-> own(w[i])]
    BY DEF TextsBy, own
  <2> HIDE DEF w, t
  <2>4. Append(s, own(v)) = [i \in 1..(n + 1) |-> IF i = n + 1 THEN own(v) ELSE s[i]]
    <3> DEFINE x == own(v)
    <3>1. x \in Seq(Texts)
      BY <1>1
    <3> HIDE DEF x
    <3>2. Append(s, x) = [i \in 1..(n + 1) |-> IF i = n + 1 THEN x ELSE s[i]]
      BY <1>4, <3>1, AppendIs
    <3> QED
      BY <3>2 DEF x
  <2>5. ASSUME NEW i \in 1..(n + 1) PROVE own(w[i]) = IF i = n + 1 THEN own(v) ELSE s[i]
    <3>1. CASE i = n + 1
      BY <2>1, <3>1
    <3>2. CASE i # n + 1
      <4>1. i \in 1..n
        BY <1>2, <3>2
      <4>2. s[i] = own(values[i]) /\ w[i] = values[i]
        BY <1>3, <2>1, <4>1
      <4> QED
        BY <3>2, <4>2
    <3> QED
      BY <3>1, <3>2
  <2>6. t = Append(s, own(v))
    BY <2>1, <2>3, <2>4, <2>5
  <2>7. FlattenSeq(Append(s, own(v))) = FlattenSeq(s) \o own(v)
    BY <1>1, <1>4, FlattenAppend
  <2> QED
    BY <1>3, <2>2, <2>6, <2>7 DEF w
<1> QED
  BY <1>5, <1>6, <1>7 DEF own

LEMMA WordsShape ==
  ASSUME NEW text \in Seq(Texts)
  PROVE  /\ WordsBy(text) \in Seq(Seq(Texts)) /\ Len(WordsBy(text)) = Len(text)
         /\ Words(text) = FlattenSeq(WordsBy(text)) /\ Words(text) \in Seq(Texts)
         /\ \A i \in 1..Len(text) :
              WordsBy(text)[i] = IF text[i] = "&" THEN <<>> ELSE <<text[i]>>
<1> DEFINE e(i) == IF text[i] = "&" THEN <<>> ELSE <<text[i]>>
           n == Len(text)
<1>1. n \in Nat /\ \A i \in 1..n : e(i) \in Seq(Texts)
  OBVIOUS
<1>2. WordsBy(text) = [i \in 1..n |-> e(i)] /\ Words(text) = FlattenSeq(WordsBy(text))
  BY DEF WordsBy, Words
<1> HIDE DEF e, n
<1>3. WordsBy(text) \in Seq(Seq(Texts)) /\ Len(WordsBy(text)) = n
  BY <1>1, <1>2
<1>4. \A i \in 1..n : WordsBy(text)[i] = e(i)
  BY <1>2
<1>5. Words(text) \in Seq(Texts)
  BY <1>2, <1>3, FlattenFrom
<1> QED
  BY <1>2, <1>3, <1>4, <1>5 DEF e, n

LEMMA WrittenField ==
  ASSUME NEW set \in Records, NEW r \in 1..Len(set.rows), NEW name,
         NEW i \in 1..Fewest(set.fields, set.rows[r])
  PROVE  /\ set.fields[i] = name =>
              WrittenBy(set, set.rows[r], name)[i] = Words(set.rows[r][i].text)
         /\ set.fields[i] # name => WrittenBy(set, set.rows[r], name)[i] = <<>>
<1>1. i \in 1..Len(set.fields) /\ i \in 1..Len(set.rows[r])
  BY FieldEventsShape
<1> DEFINE e(k) == IF k <= Len(set.fields) /\ set.fields[k] = name
                   THEN Words(set.rows[r][k].text) ELSE <<>>
<1>2. WrittenBy(set, set.rows[r], name) = [k \in 1..Len(set.rows[r]) |-> e(k)]
  BY DEF WrittenBy
<1>3. e(i) = IF set.fields[i] = name THEN Words(set.rows[r][i].text) ELSE <<>>
  BY <1>1
<1> HIDE DEF e
<1>4. WrittenBy(set, set.rows[r], name)[i] = e(i)
  BY <1>1, <1>2
<1> QED
  BY <1>3, <1>4

LEMMA WrittenShape ==
  ASSUME NEW set \in Records, NEW r \in 1..Len(set.rows), NEW name
  PROVE  LET row == set.rows[r]
             s == WrittenBy(set, row, name)
             m == Fewest(set.fields, row)
         IN  /\ s \in Seq(Seq(Texts)) /\ Len(s) = Len(row)
             /\ m \in 0..Len(s) /\ Upto(s, m) = WrittenAs(set, row, name)
<1> DEFINE row == set.rows[r]
           f == set.fields
           n == Len(row)
           m == Fewest(f, row)
           s == WrittenBy(set, row, name)
           e(i) == IF i <= Len(f) /\ f[i] = name THEN Words(row[i].text) ELSE <<>>
<1>1. Len(f) \in Nat /\ n \in Nat /\ \A i \in 1..n : row[i].text \in Seq(Texts)
  BY RecordShape
<1>2. s = [i \in 1..n |-> e(i)] /\ WrittenAs(set, row, name) = FlattenSeq(s)
  BY DEF WrittenBy, WrittenAs
<1> HIDE DEF row, f, n, s
<1>3. \A i \in 1..n : e(i) \in Seq(Texts)
  <2> SUFFICES ASSUME NEW i \in 1..n PROVE e(i) \in Seq(Texts)
    OBVIOUS
  <2>1. Words(row[i].text) \in Seq(Texts)
    BY <1>1, WordsShape
  <2>2. <<>> \in Seq(Texts)
    OBVIOUS
  <2> QED
    BY <2>1, <2>2
<1>4. m \in 0..n /\ m <= Len(f) /\ (m = n \/ m = Len(f))
  BY <1>1 DEF Fewest, n
<1>6. ASSUME NEW i \in 1..n, i > m PROVE e(i) = <<>>
  BY <1>1, <1>4, <1>6
<1> HIDE DEF e, m
<1>7. s \in Seq(Seq(Texts)) /\ Len(s) = n /\ \A i \in 1..n : s[i] = e(i)
  BY <1>1, <1>2, <1>3
<1>8. /\ \A k \in 0..n : Upto(s, k) \in Seq(Texts)
      /\ Upto(s, n) = FlattenSeq(s)
      /\ \A k \in 1..n : Upto(s, k) = Upto(s, k - 1) \o s[k]
  BY <1>7, UptoChain
<1> DEFINE T == {k \in 0..n : k <= m \/ Upto(s, k) = Upto(s, m)}
<1>9. 0 \in T
  BY <1>1, <1>4
<1>10. ASSUME NEW k \in 1..n, k - 1 \in T PROVE k \in T
  <2>0. k \in 0..n /\ k - 1 \in 0..n
    BY <1>1
  <2>1. CASE k <= m
    BY <2>0, <2>1
  <2>2. CASE k > m
    <3>1. s[k] = <<>>
      BY <1>6, <1>7, <2>2
    <3>2. Upto(s, k) = Upto(s, k - 1) \o <<>> /\ Upto(s, k - 1) \in Seq(Texts)
      BY <1>8, <2>0, <3>1
    <3> DEFINE u == Upto(s, k - 1)
    <3> HIDE DEF u
    <3>3. u \in Seq(Texts)
      BY <3>2 DEF u
    <3>4. u \o <<>> = u
      BY <3>3
    <3>5. Upto(s, k) = Upto(s, k - 1)
      BY <3>2, <3>4 DEF u
    <3>6. CASE k - 1 <= m
      <4>1. k - 1 = m
        BY <1>4, <2>2, <3>6
      <4> QED
        BY <2>0, <3>5, <4>1
    <3>7. CASE ~(k - 1 <= m)
      BY <1>10, <2>0, <3>5, <3>7
    <3> QED
      BY <3>6, <3>7
  <2> QED
    BY <1>4, <2>1, <2>2
<1> HIDE DEF T
<1>11. 0..n \subseteq T
  BY <1>1, <1>9, <1>10, IntervalInduction
<1>12. n \in T /\ n \in 0..n
  BY <1>1, <1>11
<1>13. Upto(s, m) = FlattenSeq(s)
  <2>1. n <= m => n = m
    BY <1>1, <1>4
  <2>2. n <= m \/ Upto(s, n) = Upto(s, m)
    BY <1>12 DEF T
  <2> QED
    BY <1>8, <2>1, <2>2
<1> QED
  BY <1>2, <1>4, <1>7, <1>13 DEF row, f, n, m, s

\* What the reader has of a name when it is j texts into the field after the
\* i-th of the record after the r-th.
Written(set, r, i, name) == Upto(WrittenBy(set, set.rows[r + 1], name), i)
Collected(set, r, i, j, name) ==
  Written(set, r, i, name)
    \o (IF set.fields[i + 1] = name THEN Upto(WordsBy(set.rows[r + 1][i + 1].text), j)
        ELSE <<>>)

OneMoreText(set, r, i, j, name) ==
  LET word == set.rows[r + 1][i + 1].text[j + 1]
  IN  Collected(set, r, i, j + 1, name) =
        IF set.fields[i + 1] = name /\ word # "&"
        THEN Collected(set, r, i, j, name) \o <<word>> ELSE Collected(set, r, i, j, name)

Grows(set, r, i, name) ==
  LET text == set.rows[r + 1][i + 1].text
  IN  /\ Collected(set, r, i, 0, name) = Written(set, r, i, name)
      /\ Collected(set, r, i, Len(text), name) = Written(set, r, i + 1, name)
      /\ \A j \in 0..(Len(text) - 1) : OneMoreText(set, r, i, j, name)

LEMMA CollectedGrows ==
  ASSUME NEW set \in Records, NEW r \in Nat, r + 1 \in 1..Len(set.rows), NEW name,
         NEW i \in Nat, i + 1 \in 1..Fewest(set.fields, set.rows[r + 1])
  PROVE  Grows(set, r, i, name)
<1> DEFINE row == set.rows[r + 1]
           m == Fewest(set.fields, row)
           text == row[i + 1].text
           n == Len(text)
           w == WordsBy(text)
           a == Written(set, r, i, name)
           own == set.fields[i + 1] = name
<1>1. /\ m \in Nat /\ i + 1 \in 1..Len(row)
  BY FieldEventsShape
<1>2. text \in Seq(Texts)
  BY <1>1, RecordShape
<1>3. /\ n \in Nat /\ w \in Seq(Seq(Texts)) /\ Len(w) = n /\ Words(text) = FlattenSeq(w)
      /\ Words(text) \in Seq(Texts)
      /\ \A j \in 1..n : w[j] = IF text[j] = "&" THEN <<>> ELSE <<text[j]>>
  <2>1. n \in Nat
    BY <1>2
  <2> QED
    BY <1>2, <2>1, WordsShape
<1>4. a \in Seq(Texts)
      /\ Written(set, r, i + 1, name) = a \o (IF own THEN Words(text) ELSE <<>>)
  <2> DEFINE s == WrittenBy(set, row, name)
  <2>0. s[i + 1] = IF own THEN Words(text) ELSE <<>>
    <3> DEFINE q == r + 1
               k == i + 1
    <3> HIDE DEF q, k
    <3>1. q \in 1..Len(set.rows) /\ k \in 1..Fewest(set.fields, set.rows[q])
      BY DEF q, k
    <3>2. /\ set.fields[k] = name =>
                WrittenBy(set, set.rows[q], name)[k] = Words(set.rows[q][k].text)
          /\ set.fields[k] # name => WrittenBy(set, set.rows[q], name)[k] = <<>>
      BY <3>1, WrittenField
    <3> QED
      BY <3>2 DEF q, k
  <2>00. s \in Seq(Seq(Texts)) /\ m \in 0..Len(s)
    BY WrittenShape
  <2>1. s \in Seq(Seq(Texts)) /\ m \in 0..Len(s)
        /\ s[i + 1] = IF own THEN Words(text) ELSE <<>>
    BY <2>0, <2>00
  <2> HIDE DEF s
  <2>2. i \in 0..Len(s) /\ i + 1 \in 1..Len(s) /\ (i + 1) - 1 = i
    <3>1. Len(s) \in Nat
      BY <2>00
    <3>2. m \in 0..Len(s) /\ i + 1 \in 1..m
      BY <2>00
    <3> HIDE DEF m
    <3> QED
      BY <3>1, <3>2
  <2>3. Upto(s, i) \in Seq(Texts) /\ Upto(s, i + 1) = Upto(s, (i + 1) - 1) \o s[i + 1]
    BY <2>1, <2>2, UptoChain
  <2> QED
    BY <2>1, <2>2, <2>3 DEF Written, s
<1>5. \A j : Collected(set, r, i, j, name) = a \o (IF own THEN Upto(w, j) ELSE <<>>)
  BY DEF Collected
<1> HIDE DEF row, m, text, n, w, a, own
<1>6. /\ \A k \in 0..n : Upto(w, k) \in Seq(Texts)
      /\ Upto(w, 0) = <<>> /\ Upto(w, n) = FlattenSeq(w)
      /\ \A k \in 1..n : Upto(w, k) = Upto(w, k - 1) \o w[k]
  BY <1>3, UptoChain
<1>7. a \o <<>> = a
  BY <1>4
<1>8. Collected(set, r, i, 0, name) = a
  BY <1>5, <1>6, <1>7
<1>9. Collected(set, r, i, n, name) = Written(set, r, i + 1, name)
  BY <1>3, <1>4, <1>5, <1>6
<1>10. ASSUME NEW j \in 0..(n - 1)
       PROVE  Collected(set, r, i, j + 1, name) =
                IF own /\ text[j + 1] # "&"
                THEN Collected(set, r, i, j, name) \o <<text[j + 1]>>
                ELSE Collected(set, r, i, j, name)
  <2> DEFINE u == Upto(w, j)
             x == w[j + 1]
             e == <<text[j + 1]>>
  <2>1. j \in 0..n /\ j + 1 \in 1..n /\ (j + 1) - 1 = j
    BY <1>3
  <2>2. u \in Seq(Texts) /\ e \in Seq(Texts) /\ x = IF text[j + 1] = "&" THEN <<>> ELSE e
    <3>1. text[j + 1] \in Texts
      BY <1>2, <2>1 DEF n
    <3>2. u \in Seq(Texts)
      BY <1>6, <2>1
    <3>3. x = IF text[j + 1] = "&" THEN <<>> ELSE e
      BY <1>3, <2>1
    <3>4. e \in Seq(Texts)
      BY <3>1
    <3> QED
      BY <3>2, <3>3, <3>4
  <2>3. Upto(w, j + 1) = u \o x
    BY <1>6, <2>1
  <2>a. u \in Seq(Texts) /\ e \in Seq(Texts)
    BY <2>2
  <2> HIDE DEF u, x, e
  <2>4. u \o <<>> = u
    BY <2>a
  <2>b. a \in Seq(Texts)
    BY <1>4
  <2>5. a \o (u \o e) = (a \o u) \o e
    BY <2>a, <2>b, SMTT(30)
  <2>6. CASE ~own
    BY <1>5, <2>6
  <2>7. CASE own /\ text[j + 1] = "&"
    <3>1. Upto(w, j + 1) = u
      BY <2>2, <2>3, <2>4, <2>7
    <3> QED
      BY <1>5, <2>7, <3>1 DEF u
  <2>8. CASE own /\ text[j + 1] # "&"
    <3>1. Upto(w, j + 1) = u \o e
      BY <2>2, <2>3, <2>8
    <3>2. Collected(set, r, i, j + 1, name) = a \o (u \o e)
      BY <1>5, <2>8, <3>1
    <3>3. Collected(set, r, i, j, name) = a \o u
      BY <1>5, <2>8 DEF u
    <3> QED
      BY <2>5, <2>8, <3>2, <3>3 DEF e
  <2> QED
    BY <2>6, <2>7, <2>8
<1> QED
  BY <1>8, <1>9, <1>10 DEF row, text, n, a, own, OneMoreText, Grows

-----------------------------------------------------------------------------
ReadCells == [type : {"Null", "Int64", "Utf8"}, text : Seq(Texts)]
XmlStates ==
  [set : Records, doc : Seq(Events), at : Nat \ {0}, in_record : BOOLEAN, active : Texts,
   values : Seq(Named), rows : Seq(Seq(ReadCells)),
   error : BOOLEAN]
XmlSpec == XmlInit /\ [][XmlNext]_xml

LEMMA XmlStarts ==
  ASSUME XmlInit
  PROVE  /\ xml \in XmlStates /\ xml.doc = Exported(xml.set) /\ xml.at = 1
         /\ ~xml.in_record /\ xml.active = "" /\ xml.rows = <<>> /\ ~xml.error
<1>1. PICK set \in Records :
        xml = [set |-> set, doc |-> Exported(set), at |-> 1, in_record |-> FALSE,
               active |-> "", values |-> <<>>, rows |-> <<>>, error |-> FALSE]
  BY DEF XmlInit
<1>2. Exported(set) \in Seq(Events)
  BY RowsLayout
<1> DEFINE none == <<>>
           R == Seq(ReadCells)
<1>3. none \in Seq(Named) /\ none \in Seq(R) /\ "" \in Texts /\ 1 \in Nat \ {0} /\ FALSE \in BOOLEAN
  BY DEF Texts
<1>4. xml = [set |-> set, doc |-> Exported(set), at |-> 1, in_record |-> FALSE,
             active |-> "", values |-> none, rows |-> none, error |-> FALSE]
  BY <1>1
<1> HIDE DEF none, R
<1>5. xml \in XmlStates
  BY <1>2, <1>3, <1>4 DEF XmlStates, R
<1>6. /\ xml.doc = Exported(xml.set) /\ xml.at = 1 /\ xml.in_record = FALSE
      /\ xml.active = "" /\ xml.rows = none /\ xml.error = FALSE
  BY <1>4
<1> QED
  BY <1>5, <1>6 DEF none

\* Which step it is, by the event that is read.
LEMMA XmlKinds ==
  ASSUME xml \in XmlStates, XmlNext
  PROVE  /\ ~xml.error /\ xml.at \in 1..Len(xml.doc) /\ Event \in Events
         /\ Event.is = "Start" => ReadStart
         /\ Event.is = "Text" => ReadText
         /\ Event.is = "Reference" => SkipReference
         /\ Event.is = "End" => ReadEnd
<1>1. \E kind \in {"Start", "Text", "Reference", "End"} : Reads(kind)
  BY DEF XmlNext, ReadStart, ReadText, SkipReference, ReadEnd
<1>2. ~xml.error /\ xml.at <= Len(xml.doc)
  BY <1>1 DEF Reads
<1>3. xml.doc \in Seq(Events) /\ xml.at \in Nat \ {0}
  BY DEF XmlStates
<1>4. xml.at \in 1..Len(xml.doc)
  BY <1>2, <1>3
<1>5. Event \in Events
  BY <1>3, <1>4 DEF Event
<1>6. /\ Event.is = "Start" => ReadStart
      /\ Event.is = "Text" => ReadText
      /\ Event.is = "Reference" => SkipReference
      /\ Event.is = "End" => ReadEnd
  BY DEF XmlNext, ReadStart, ReadText, SkipReference, ReadEnd, Reads
<1> QED
  BY <1>2, <1>4, <1>5, <1>6

SameRecords == xml'.set = xml.set /\ xml'.doc = xml.doc

\* What each step does to the parts of the state.
LEMMA StartStep ==
  ASSUME xml \in XmlStates, Event \in Events, ReadStart, ~xml.error
  PROVE  /\ xml' \in XmlStates /\ SameRecords /\ xml'.at = xml.at + 1
         /\ xml'.rows = xml.rows /\ ~xml'.error
         /\ Event.name = Record => /\ xml'.in_record /\ xml'.values = <<>>
                                  /\ xml'.active = xml.active
         /\ Event.name # Record =>
              /\ xml'.in_record = xml.in_record /\ xml'.values = xml.values
              /\ xml'.active = IF xml.in_record /\ Event.name # Root THEN Event.name
                               ELSE xml.active
<1>1. Event.name \in Texts /\ xml.active \in Texts /\ xml.at + 1 \in Nat \ {0}
  BY DEF Events, XmlStates
<1>2. CASE Event.name = Record
  <2> DEFINE none == <<>>
  <2>1. none \in Seq(Named)
    OBVIOUS
  <2>2. xml' = [xml EXCEPT !.at = @ + 1, !.in_record = TRUE, !.values = none]
    BY <1>2 DEF ReadStart
  <2> HIDE DEF none
  <2>3. /\ xml' \in XmlStates /\ xml'.set = xml.set /\ xml'.doc = xml.doc
        /\ xml'.at = xml.at + 1 /\ xml'.rows = xml.rows /\ xml'.error = xml.error
        /\ xml'.in_record = TRUE /\ xml'.values = none /\ xml'.active = xml.active
    BY <1>1, <2>1, <2>2 DEF XmlStates
  <2> QED
    BY <1>2, <2>3 DEF SameRecords, none
<1>3. CASE Event.name # Record
  <2> DEFINE later == IF xml.in_record /\ Event.name # Root THEN Event.name ELSE xml.active
  <2>1. later \in Texts
    BY <1>1
  <2>2. xml' = [xml EXCEPT !.at = @ + 1, !.active = later]
    BY <1>3 DEF ReadStart
  <2> HIDE DEF later
  <2>3. /\ xml' \in XmlStates /\ xml'.set = xml.set /\ xml'.doc = xml.doc
        /\ xml'.at = xml.at + 1 /\ xml'.rows = xml.rows /\ xml'.error = xml.error
        /\ xml'.in_record = xml.in_record /\ xml'.values = xml.values /\ xml'.active = later
    BY <1>1, <2>1, <2>2 DEF XmlStates
  <2> QED
    BY <1>3, <2>3 DEF SameRecords, later
<1> QED
  BY <1>2, <1>3

LEMMA TextStep ==
  ASSUME xml \in XmlStates, Event \in Events, ReadText, ~xml.error
  PROVE  /\ xml' \in XmlStates /\ SameRecords /\ xml'.at = xml.at + 1
         /\ xml'.rows = xml.rows /\ ~xml'.error /\ xml'.in_record = xml.in_record
         /\ xml'.active = xml.active /\ [name |-> xml.active, word |-> Event.name] \in Named
         /\ xml.active # "" =>
              xml'.values = Append(xml.values, [name |-> xml.active, word |-> Event.name])
<1>1. Event.name \in Texts /\ xml.active \in Texts /\ xml.at + 1 \in Nat \ {0}
      /\ xml.values \in Seq(Named)
  BY DEF Events, XmlStates
<1> DEFINE v == [name |-> xml.active, word |-> Event.name]
           later == IF xml.active = "" THEN xml.values ELSE Append(xml.values, v)
<1>2. v \in Named
  BY <1>1 DEF Named
<1>3. xml' = [xml EXCEPT !.at = @ + 1, !.values = later]
  BY DEF ReadText, JoinedText
<1> HIDE DEF v
<1>4. later \in Seq(Named)
  <2> DEFINE values == xml.values
  <2>1. values \in Seq(Named)
    BY <1>1
  <2> HIDE DEF values
  <2>2. Append(values, v) \in Seq(Named)
    BY <1>2, <2>1
  <2> QED
    BY <1>1, <2>2 DEF values
<1>5. xml.active # "" => later = Append(xml.values, v)
  OBVIOUS
<1> HIDE DEF later
<1>6. /\ xml' \in XmlStates /\ xml'.set = xml.set /\ xml'.doc = xml.doc
      /\ xml'.at = xml.at + 1 /\ xml'.rows = xml.rows /\ xml'.error = xml.error
      /\ xml'.in_record = xml.in_record /\ xml'.values = later /\ xml'.active = xml.active
  BY <1>1, <1>3, <1>4 DEF XmlStates
<1> QED
  BY <1>2, <1>5, <1>6 DEF SameRecords, v

LEMMA ReferenceStep ==
  ASSUME xml \in XmlStates, SkipReference, ~xml.error
  PROVE  /\ xml' \in XmlStates /\ SameRecords /\ xml'.at = xml.at + 1
         /\ xml'.rows = xml.rows /\ ~xml'.error /\ xml'.in_record = xml.in_record
         /\ xml'.active = xml.active /\ xml'.values = xml.values
<1>0. xml.at + 1 \in Nat \ {0}
  BY DEF XmlStates
<1>1. xml' = [xml EXCEPT !.at = @ + 1]
  BY DEF SkipReference
<1>2. /\ xml' \in XmlStates /\ xml'.set = xml.set /\ xml'.doc = xml.doc
      /\ xml'.at = xml.at + 1 /\ xml'.rows = xml.rows /\ xml'.error = xml.error
      /\ xml'.in_record = xml.in_record /\ xml'.values = xml.values /\ xml'.active = xml.active
  BY <1>0, <1>1 DEF XmlStates
<1> QED
  BY <1>2 DEF SameRecords

\* The text that is read of a column of the schema, and of what type it is.
TextAt(k) == TextOf(xml.values, xml.set.schema[k].name)
TypeAt(k) == xml.set.schema[k].type
RowRefused == \E k \in 1..Len(xml.set.schema) : Unparsable(TextAt(k), TypeAt(k))

LEMMA FieldEndStep ==
  ASSUME xml \in XmlStates, ReadEnd, ~xml.error, ~(Event.name = Record /\ xml.in_record)
  PROVE  /\ xml' \in XmlStates /\ SameRecords /\ xml'.at = xml.at + 1
         /\ xml'.rows = xml.rows /\ ~xml'.error /\ xml'.in_record = xml.in_record
         /\ xml'.values = xml.values
         /\ xml'.active = IF xml.active = Event.name THEN "" ELSE xml.active
<1> DEFINE later == IF xml.active = Event.name THEN "" ELSE xml.active
<1>1. xml' = [xml EXCEPT !.at = @ + 1, !.active = later]
  BY DEF ReadEnd, EndOfField
<1>0. later \in Texts
  BY DEF XmlStates, Texts
<1>00. xml.at + 1 \in Nat \ {0}
  BY DEF XmlStates
<1>2. later \in Texts /\ xml.at + 1 \in Nat \ {0}
  BY <1>0, <1>00
<1> HIDE DEF later
<1>3. /\ xml' \in XmlStates /\ xml'.set = xml.set /\ xml'.doc = xml.doc
      /\ xml'.at = xml.at + 1 /\ xml'.rows = xml.rows /\ xml'.error = xml.error
      /\ xml'.in_record = xml.in_record /\ xml'.values = xml.values /\ xml'.active = later
  BY <1>1, <1>2 DEF XmlStates
<1> QED
  BY <1>3 DEF SameRecords, later

LEMMA RecordEndStep ==
  ASSUME xml \in XmlStates, ReadEnd, ~xml.error, Event.name = Record, xml.in_record
  PROVE  /\ xml' \in XmlStates /\ SameRecords
         /\ RowRefused => /\ xml'.error /\ xml'.at = xml.at /\ xml'.rows = xml.rows
                       /\ xml'.in_record /\ xml'.values = xml.values
                       /\ xml'.active = xml.active
         /\ ~RowRefused => /\ ~xml'.error /\ xml'.at = xml.at + 1 /\ ~xml'.in_record
                        /\ xml'.active = "" /\ xml'.rows = Append(xml.rows, RowFromFields)
         /\ \A k \in 1..Len(xml.set.schema) : RowFromFields[k].text = TextAt(k)
         /\ RowFromFields \in Seq(ReadCells)
<1>1. xml.set \in Records /\ xml.values \in Seq(Named) /\ xml.rows \in Seq(Seq(ReadCells))
  BY DEF XmlStates
<1> DEFINE n == Len(xml.set.schema)
           cell(k) == Parsed(TextAt(k), TypeAt(k))
<1>2. n \in Nat /\ \A k \in 1..n : xml.set.schema[k] \in RecordColumns
  BY <1>1, RecordShape
<1>3. ASSUME NEW k \in 1..n PROVE cell(k) \in ReadCells /\ cell(k).text = TextAt(k)
  <2>1. TextAt(k) \in Seq(Texts)
    BY <1>1, TextOfAppend DEF TextAt
  <2>2. TypeAt(k) \in {"Int64", "Utf8"}
    BY <1>2 DEF TypeAt, RecordColumns
  <2> DEFINE none == <<>>
  <2>3. none \in Seq(Texts)
    OBVIOUS
  <2>4. cell(k) = IF TextAt(k) = none THEN [type |-> "Null", text |-> none]
                  ELSE [type |-> TypeAt(k), text |-> TextAt(k)]
    BY DEF Parsed, NullCell
  <2> HIDE DEF none, cell
  <2> QED
    BY <2>1, <2>2, <2>3, <2>4 DEF ReadCells
<1>4. RowFromFields = [k \in 1..n |-> cell(k)]
  BY DEF RowFromFields, TextAt, TypeAt
<1> HIDE DEF n, cell
<1>5. RowFromFields \in Seq(ReadCells) /\ \A k \in 1..n : RowFromFields[k].text = TextAt(k)
  BY <1>2, <1>3, <1>4
<1>6. CASE RowRefused
  <2>1. xml' = [xml EXCEPT !.error = TRUE]
    BY <1>6 DEF ReadEnd, RowRefused, TextAt, TypeAt
  <2>2. /\ xml' \in XmlStates /\ xml'.set = xml.set /\ xml'.doc = xml.doc
        /\ xml'.at = xml.at /\ xml'.rows = xml.rows /\ xml'.error = TRUE
        /\ xml'.in_record = xml.in_record /\ xml'.values = xml.values
        /\ xml'.active = xml.active
    BY <2>1 DEF XmlStates
  <2> QED
    BY <1>5, <1>6, <2>2 DEF SameRecords, n
<1>7. CASE ~RowRefused
  <2> DEFINE later == Append(xml.rows, RowFromFields)
  <2>1. xml' = [xml EXCEPT !.at = @ + 1, !.rows = later, !.in_record = FALSE, !.active = ""]
    BY <1>7 DEF ReadEnd, RowRefused, TextAt, TypeAt
  <2>a. xml.at + 1 \in Nat \ {0}
    BY DEF XmlStates
  <2>2. later \in Seq(Seq(ReadCells)) /\ "" \in Texts
    BY <1>1, <1>5 DEF Texts
  <2> HIDE DEF later
  <2>3. /\ xml' \in XmlStates /\ xml'.set = xml.set /\ xml'.doc = xml.doc
        /\ xml'.at = xml.at + 1 /\ xml'.rows = later /\ xml'.error = xml.error
        /\ xml'.in_record = FALSE /\ xml'.values = xml.values /\ xml'.active = ""
    BY <2>a, <2>1, <2>2 DEF XmlStates
  <2> QED
    BY <1>5, <1>7, <2>3 DEF SameRecords, later, n
<1> QED
  BY <1>6, <1>7

-----------------------------------------------------------------------------
\* No field bears the name of a record or of the whole.
Sound(set) == \A i \in 1..Len(set.fields) : set.fields[i] \notin {Record, Root}
RowsRead(r) ==
  /\ r \in 0..Len(xml.set.rows) /\ Len(xml.rows) = r
  /\ \A q \in 1..r : \A k \in 1..Len(xml.set.schema) :
       xml.rows[q][k].text = WrittenAs(xml.set, xml.set.rows[q], xml.set.schema[k].name)
FieldsOf(r) == Fewest(xml.set.fields, xml.set.rows[r + 1])

\* Where the reader is, and what it has by then.  An error is at the end of a
\* record that it stays in.
NotYet ==
  xml.at = 1 /\ ~xml.in_record /\ xml.active = "" /\ xml.rows = <<>> /\ ~xml.error
Outside(r) ==
  /\ RowsRead(r) /\ xml.at = Len(BeforeRow(xml.set, r)) + 1
  /\ ~xml.in_record /\ xml.active = "" /\ ~xml.error
Between(r, i) ==
  /\ RowsRead(r) /\ r < Len(xml.set.rows) /\ i \in 0..FieldsOf(r)
  /\ xml.at = Len(BeforeField(xml.set, r, i)) + 1
  /\ xml.in_record /\ xml.active = ""
  /\ \A k \in 1..Len(xml.set.schema) : TextAt(k) = Written(xml.set, r, i, xml.set.schema[k].name)
  /\ xml.error => i = FieldsOf(r) /\ RowRefused
Within(r, i, j) ==
  /\ RowsRead(r) /\ r < Len(xml.set.rows) /\ i \in 0..(FieldsOf(r) - 1)
  /\ j \in 0..Len(xml.set.rows[r + 1][i + 1].text)
  /\ xml.at = Len(BeforeText(xml.set, r, i, j)) + 1
  /\ xml.in_record /\ xml.active = xml.set.fields[i + 1] /\ ~xml.error
  /\ \A k \in 1..Len(xml.set.schema) :
       TextAt(k) = Collected(xml.set, r, i, j, xml.set.schema[k].name)
Over ==
  RowsRead(Len(xml.set.rows)) /\ xml.at = Len(xml.doc) + 1 /\ ~xml.error

Located ==
  \/ NotYet \/ Over
  \/ \E r \in Nat : Outside(r)
  \/ \E r \in Nat, i \in Nat : Between(r, i)
  \/ \E r \in Nat, i \in Nat, j \in Nat : Within(r, i, j)
Shape == xml \in XmlStates /\ xml.doc = Exported(xml.set)
XmlIInv == Shape /\ (Sound(xml.set) => Located)

\* What comes later, where the reader has p behind it.
LEMMA NextEvent ==
  ASSUME Shape, NEW p \in Seq(Events), NEW e \in Events,
         Begins(p \o <<e>>, Exported(xml.set)), xml.at = Len(p) + 1
  PROVE  Event = e /\ xml.at \in 1..Len(xml.doc) /\ Len(p \o <<e>>) + 1 = xml.at + 1
<1>1. Exported(xml.set) \in Seq(Events) /\ xml.doc = Exported(xml.set)
  BY RowsLayout DEF Shape, XmlStates
<1>2. /\ Len(p) + 1 \in 1..Len(xml.doc) /\ xml.doc[Len(p) + 1] = e
      /\ Len(p \o <<e>>) = Len(p) + 1
  BY <1>1, BeginsWith
<1> QED
  BY <1>1, <1>2 DEF Event

LEMMA AllBegins ==
  ASSUME NEW A, NEW doc \in Seq(A)
  PROVE  Begins(doc, doc)
  BY DEF Begins

\* A step leads from each place to the next one.
LEMMA FromNotYet ==
  ASSUME Shape, NotYet, XmlNext
  PROVE  Outside(0)'
<1> DEFINE set == xml.set
           none == <<>>
<1>1. set \in Records
  BY DEF Shape, XmlStates
<1>2. none \in Seq(Events) /\ Open(Root) \in Events /\ <<Open(Root)>> = none \o <<Open(Root)>>
      /\ Len(none) = 0
  <2>1. Open(Root) \in Events
    BY EventsOf DEF Texts
  <2> QED
    BY <2>1
<1>3. /\ BeforeRow(set, 0) = <<Open(Root)>> /\ Begins(BeforeRow(set, 0), Exported(set))
  <2>0. Len(set.rows) \in Nat
    BY <1>1, RecordShape
  <2>1. 0 \in 0..Len(set.rows)
    BY <2>0
  <2> QED
    BY <1>1, <2>1, RowsLayout
<1> HIDE DEF none
<1>4. Begins(none \o <<Open(Root)>>, Exported(xml.set)) /\ xml.at = Len(none) + 1
  <2>1. Begins(<<Open(Root)>>, Exported(set))
    BY <1>3
  <2>3. xml.at = 1
    BY DEF NotYet
  <2>2. xml.at = 0 + 1
    BY <2>3
  <2> QED
    BY <1>2, <2>1, <2>2
<1>5. Event = Open(Root) /\ Len(none \o <<Open(Root)>>) + 1 = xml.at + 1
  BY <1>2, <1>4, NextEvent
<1>6. Event.is = "Start" /\ Event.name = Root /\ Root # Record
  BY <1>5 DEF Open, Root, Record
<1>7. /\ xml.set' = xml.set /\ xml'.at = xml.at + 1
      /\ xml'.rows = xml.rows /\ ~xml'.error /\ xml'.in_record = xml.in_record
      /\ xml'.active = xml.active
  <2>1. xml \in XmlStates
    BY DEF Shape
  <2>2. ReadStart /\ Event \in Events /\ ~xml.error
    BY <1>6, <2>1, XmlKinds
  <2> QED
    BY <1>6, <2>1, <2>2, StartStep DEF SameRecords, NotYet
<1>8. Len(BeforeRow(set, 0)) + 1 = xml.at + 1
  BY <1>2, <1>3, <1>5
<1>9. RowsRead(0)'
  <2>1. Len(xml.set.rows) \in Nat
    BY <1>1, RecordShape
  <2>2. xml'.rows = <<>>
    BY <1>7 DEF NotYet
  <2>3. Len(xml'.rows) = 0 /\ 0 \in 0..Len(xml'.set.rows)
    BY <1>7, <2>1, <2>2
  <2> QED
    BY <2>3 DEF RowsRead
<1> QED
  BY <1>7, <1>8, <1>9 DEF Outside, NotYet

LEMMA FromOutside ==
  ASSUME Shape, NEW r \in Nat, Outside(r), XmlNext
  PROVE  Between(r, 0)' \/ Over'
<1> DEFINE set == xml.set
           n == Len(set.rows)
           p == BeforeRow(set, r)
<1>1. set \in Records /\ n \in Nat /\ xml \in XmlStates /\ xml.doc = Exported(set)
  <2>1. set \in Records /\ xml \in XmlStates /\ xml.doc = Exported(set)
    BY DEF Shape, XmlStates
  <2> QED
    BY <2>1, RecordShape
<1>2. /\ r \in 0..n /\ RowsRead(r) /\ xml.at = Len(p) + 1 /\ ~xml.in_record
      /\ xml.active = "" /\ ~xml.error
  BY DEF Outside, RowsRead
<1>3. p \in Seq(Events)
  BY <1>1, <1>2, RowsLayout
<1>a. n \in Nat /\ r \in 0..n
  <2>1. n \in Nat
    BY <1>1
  <2>2. r \in 0..n
    BY <1>2
  <2> QED
    BY <2>1, <2>2
<1>4. ASSUME r < n PROVE Between(r, 0)'
  <2> DEFINE e == Open(Record)
  <2>1. r + 1 \in 1..n
    BY <1>a, <1>4
  <2>2. e \in Events /\ e.is = "Start" /\ e.name = Record
    BY EventsOf DEF Texts, Open
  <2>3. /\ BeforeField(set, r, 0) = p \o <<e>> /\ FieldsOf(r) \in Nat
        /\ Begins(BeforeField(set, r, 0), Exported(set))
    <3>1. FieldsOf(r) \in Nat
      BY <1>1, <2>1, FieldEventsShape DEF FieldsOf
    <3>2. 0 \in 0..FieldsOf(r)
      BY <3>1
    <3>3. FieldsLie(set, r)
      BY <1>1, <2>1, FieldsLayout
    <3> QED
      BY <3>1, <3>2, <3>3 DEF FieldsOf, FieldsLie
  <2> HIDE DEF e, p
  <2>4. Event = e /\ Len(p \o <<e>>) + 1 = xml.at + 1
    BY <1>2, <1>3, <2>2, <2>3, NextEvent
  <2>5. ReadStart /\ Event \in Events /\ Event.name = Record
    BY <1>1, <2>2, <2>4, XmlKinds
  <2>6. /\ xml'.set = set /\ xml'.at = xml.at + 1 /\ xml'.rows = xml.rows /\ ~xml'.error
        /\ xml'.in_record /\ xml'.values = <<>> /\ xml'.active = ""
    BY <1>1, <1>2, <2>5, StartStep DEF SameRecords
  <2>7. RowsRead(r)'
    BY <1>2, <2>6 DEF RowsRead
  <2>8. xml'.at = Len(BeforeField(set, r, 0)) + 1
    BY <2>3, <2>4, <2>6
  <2>9. ASSUME NEW k \in 1..Len(set.schema)
        PROVE  TextOf(xml'.values, set.schema[k].name)
                 = Written(set, r, 0, set.schema[k].name)
    <3> DEFINE name == set.schema[k].name
               none == <<>>
    <3>1. TextOf(<<>>, name) = <<>>
      <4>1. none \in Seq(Named)
        OBVIOUS
      <4> QED
        BY <4>1, TextOfAppend
    <3>2. WrittenBy(set, set.rows[r + 1], name) \in Seq(Seq(Texts))
      BY <1>1, <2>1, WrittenShape
    <3>3. Written(set, r, 0, name) = <<>>
      BY <3>2, UptoChain DEF Written
    <3> QED
      BY <2>6, <3>1, <3>3
  <2>a. xml'.set = xml.set
    BY <2>6
  <2>b. FieldsOf(r)' = FieldsOf(r)
    BY <2>a DEF FieldsOf
  <2>c. 0 \in 0..FieldsOf(r)
    BY <2>3
  <2>10. FieldsOf(r)' = FieldsOf(r) /\ 0 \in 0..FieldsOf(r)
    BY <2>b, <2>c
  <2>11. \A k \in 1..Len(xml'.set.schema) :
           TextAt(k)' = Written(xml'.set, r, 0, xml'.set.schema[k].name)
    BY <2>6, <2>9 DEF TextAt
  <2>12. r < Len(xml'.set.rows) /\ xml'.at = Len(BeforeField(xml'.set, r, 0)) + 1
    BY <1>4, <2>6, <2>8
  <2> QED
    BY <2>6, <2>7, <2>10, <2>11, <2>12 DEF Between
<1>5. ASSUME ~(r < n) PROVE Over'
  <2> DEFINE e == Close(Root)
  <2>1. r = n
    BY <1>a, <1>5
  <2>2. e \in Events /\ e.is = "End" /\ e.name = Root /\ Root # Record
    BY EventsOf DEF Texts, Close, Root, Record
  <2>3. Exported(set) = p \o <<e>> /\ Exported(set) \in Seq(Events)
    BY <1>1, <2>1, RowsLayout
  <2>4. Begins(p \o <<e>>, Exported(set))
    BY <2>3, AllBegins
  <2> HIDE DEF e, p
  <2>5. Event = e /\ Len(p \o <<e>>) + 1 = xml.at + 1
    BY <1>2, <1>3, <2>2, <2>4, NextEvent
  <2>6. ReadEnd /\ Event.name # Record
    BY <1>1, <2>2, <2>5, XmlKinds
  <2>7. /\ xml'.set = set /\ xml'.doc = xml.doc /\ xml'.at = xml.at + 1
        /\ xml'.rows = xml.rows /\ ~xml'.error
    BY <1>1, <1>2, <2>6, FieldEndStep DEF SameRecords
  <2>8. RowsRead(n)'
    BY <1>2, <2>1, <2>7 DEF RowsRead
  <2> QED
    BY <1>1, <2>3, <2>5, <2>7, <2>8 DEF Over
<1> QED
  BY <1>4, <1>5

LEMMA RowsStay ==
  ASSUME NEW r, RowsRead(r), xml'.set = xml.set, xml'.rows = xml.rows
  PROVE  RowsRead(r)'
  BY DEF RowsRead

LEMMA FromBetween ==
  ASSUME Shape, Sound(xml.set), NEW r \in Nat, NEW i \in Nat, Between(r, i), XmlNext
  PROVE  Within(r, i, 0)' \/ Between(r, i)' \/ Outside(r + 1)'
<1> DEFINE set == xml.set
           n == Len(set.rows)
           m == FieldsOf(r)
           p == BeforeField(set, r, i)
<1>1. set \in Records /\ n \in Nat /\ xml \in XmlStates /\ xml.doc = Exported(set)
  <2>1. set \in Records /\ xml \in XmlStates /\ xml.doc = Exported(set)
    BY DEF Shape, XmlStates
  <2> QED
    BY <2>1, RecordShape
<1>2. /\ RowsRead(r) /\ r < n /\ i \in 0..m /\ xml.at = Len(p) + 1
      /\ xml.in_record /\ xml.active = ""
      /\ \A k \in 1..Len(set.schema) : TextAt(k) = Written(set, r, i, set.schema[k].name)
  BY DEF Between
<1>3. ~xml.error
  BY <1>1, XmlKinds
<1>a. r + 1 \in 1..n
  <2>1. n \in Nat
    BY <1>1
  <2>2. r < n
    BY <1>2
  <2> QED
    BY <2>1, <2>2
<1>b. m \in Nat
  BY <1>1, <1>a, FieldEventsShape DEF FieldsOf
<1>c. i \in 0..m
  BY <1>2
<1>d. FieldsLie(set, r)
  BY <1>1, <1>a, FieldsLayout
<1>4. p \in Seq(Events)
  BY <1>c, <1>d DEF FieldsOf, FieldsLie
<1>5. ASSUME i < m PROVE Within(r, i, 0)'
  <2> DEFINE name == set.fields[i + 1]
             e == Open(name)
             text == set.rows[r + 1][i + 1].text
  <2>1. i + 1 \in 1..m
    BY <1>b, <1>5
  <2>a. TextsLie(set, r, i)
    BY <1>1, <1>a, <2>1, TextsLayout DEF FieldsOf
  <2>2. i + 1 \in 1..Len(set.fields)
    BY <1>1, <1>a, <2>1, FieldEventsShape DEF FieldsOf
  <2>3. name \in Texts /\ name # Record /\ name # Root
    BY <1>1, <2>2, RecordShape DEF Sound
  <2>4. e \in Events /\ e.is = "Start" /\ e.name = name
    BY <2>3, EventsOf DEF Open
  <2>5. text \in Seq(Texts)
    BY <2>a DEF TextsLie
  <2>6. 0 \in 0..Len(text)
    <3>1. Len(text) \in Nat
      BY <2>a DEF TextsLie
    <3> QED
      BY <3>1
  <2>7. /\ BeforeText(set, r, i, 0) = p \o <<e>>
        /\ Begins(BeforeText(set, r, i, 0), Exported(set))
    BY <2>6, <2>a DEF TextsLie
  <2> HIDE DEF e, p, name
  <2>8. Event = e /\ Len(p \o <<e>>) + 1 = xml.at + 1
    BY <1>2, <1>4, <2>4, <2>7, NextEvent
  <2>9. ReadStart /\ Event \in Events /\ Event.name = name
    BY <1>1, <2>4, <2>8, XmlKinds
  <2>10. /\ xml'.set = set /\ xml'.at = xml.at + 1 /\ xml'.rows = xml.rows /\ ~xml'.error
         /\ xml'.in_record /\ xml'.values = xml.values /\ xml'.active = name
    BY <1>1, <1>2, <1>3, <2>3, <2>9, StartStep DEF SameRecords
  <2>11. RowsRead(r)'
    BY <1>2, <2>10, RowsStay
  <2>12. xml'.at = Len(BeforeText(set, r, i, 0)) + 1
    BY <2>7, <2>8, <2>10
  <2>13. ASSUME NEW k \in 1..Len(set.schema)
         PROVE  TextAt(k)' = Collected(set, r, i, 0, set.schema[k].name)
    <3> DEFINE own == set.schema[k].name
    <3> HIDE DEF own
    <3>0. Grows(set, r, i, own)
      BY <1>1, <1>a, <2>1, CollectedGrows DEF FieldsOf
    <3>1. Collected(set, r, i, 0, own) = Written(set, r, i, own)
      BY <3>0 DEF Grows
    <3>2. TextAt(k)' = TextAt(k)
      BY <2>10 DEF TextAt
    <3> QED
      BY <1>2, <3>1, <3>2 DEF own
  <2>14. xml'.set = xml.set
    BY <2>10
  <2>15. FieldsOf(r)' = m
    BY <2>14 DEF FieldsOf
  <2>16. i \in 0..(m - 1)
    BY <1>b, <1>5
  <2>17. /\ r < Len(xml'.set.rows) /\ i \in 0..(FieldsOf(r)' - 1)
         /\ 0 \in 0..Len(xml'.set.rows[r + 1][i + 1].text)
         /\ xml'.at = Len(BeforeText(xml'.set, r, i, 0)) + 1
         /\ xml'.active = xml'.set.fields[i + 1]
    BY <1>2, <2>6, <2>10, <2>12, <2>14, <2>15, <2>16 DEF name
  <2>18. \A k \in 1..Len(xml'.set.schema) :
           TextAt(k)' = Collected(xml'.set, r, i, 0, xml'.set.schema[k].name)
    BY <2>13, <2>14
  <2> QED
    BY <2>10, <2>11, <2>17, <2>18 DEF Within
<1>6. ASSUME ~(i < m) PROVE Between(r, i)' \/ Outside(r + 1)'
  <2> DEFINE e == Close(Record)
  <2>1. i = m
    BY <1>b, <1>c, <1>6
  <2>2. e \in Events /\ e.is = "End" /\ e.name = Record
    BY EventsOf DEF Texts, Close
  <2>3. r + 1 \in 0..n
    BY <1>1, <1>a
  <2>4. BeforeRow(set, r + 1) = p \o <<e>>
    BY <1>d, <2>1 DEF FieldsOf, FieldsLie
  <2>5. Begins(BeforeRow(set, r + 1), Exported(set))
    BY <1>1, <2>3, RowsLayout
  <2> HIDE DEF e, p
  <2>6. Event = e /\ Len(p \o <<e>>) + 1 = xml.at + 1
    BY <1>2, <1>4, <2>2, <2>4, <2>5, NextEvent
  <2>7. ReadEnd /\ Event.name = Record
    BY <1>1, <2>2, <2>6, XmlKinds
  <2>8. CASE RowRefused
    <3>1. /\ xml'.set = set /\ xml'.at = xml.at /\ xml'.rows = xml.rows
          /\ xml'.in_record /\ xml'.values = xml.values /\ xml'.active = xml.active
      BY <1>1, <1>2, <1>3, <2>7, <2>8, RecordEndStep DEF SameRecords
    <3>2. RowsRead(r)'
      BY <1>2, <3>1, RowsStay
    <3>3. xml'.set = xml.set
      BY <3>1
    <3>4. FieldsOf(r)' = m
      BY <3>3 DEF FieldsOf
    <3>5. \A k : TextAt(k)' = TextAt(k) /\ TypeAt(k)' = TypeAt(k)
      BY <3>1 DEF TextAt, TypeAt
    <3>6. RowRefused'
      BY <2>8, <3>3, <3>5 DEF RowRefused
    <3>7. /\ r < Len(xml'.set.rows) /\ i \in 0..FieldsOf(r)'
          /\ xml'.at = Len(BeforeField(xml'.set, r, i)) + 1
      BY <1>2, <3>1, <3>3, <3>4 DEF p
    <3>8. \A k \in 1..Len(xml'.set.schema) :
            TextAt(k)' = Written(xml'.set, r, i, xml'.set.schema[k].name)
      BY <1>2, <3>3, <3>5
    <3>9. Between(r, i)'
      BY <1>2, <2>1, <3>1, <3>2, <3>4, <3>6, <3>7, <3>8 DEF Between
    <3> QED
      BY <3>9
  <2>9. CASE ~RowRefused
    <3>1. /\ xml'.set = set /\ xml'.at = xml.at + 1 /\ ~xml'.error
          /\ ~xml'.in_record /\ xml'.active = "" /\ xml'.rows = Append(xml.rows, RowFromFields)
          /\ RowFromFields \in Seq(ReadCells)
          /\ \A k \in 1..Len(set.schema) : RowFromFields[k].text = TextAt(k)
      BY <1>1, <1>2, <1>3, <2>7, <2>9, RecordEndStep DEF SameRecords
    <3>2. xml'.at = Len(BeforeRow(set, r + 1)) + 1
      BY <2>4, <2>6, <3>1
    <3>3. ASSUME NEW k \in 1..Len(set.schema)
          PROVE  RowFromFields[k].text = WrittenAs(set, set.rows[r + 1], set.schema[k].name)
      <4> DEFINE name == set.schema[k].name
      <4>1. Upto(WrittenBy(set, set.rows[r + 1], name), m) = WrittenAs(set, set.rows[r + 1], name)
        BY <1>1, <1>a, WrittenShape DEF FieldsOf
      <4> QED
        BY <1>2, <2>1, <3>1, <4>1 DEF Written
    <3> DEFINE rows == xml.rows
               later == Append(rows, RowFromFields)
    <3>4. rows \in Seq(Seq(ReadCells)) /\ Len(rows) = r
      BY <1>1, <1>2 DEF XmlStates, RowsRead
    <3> HIDE DEF rows
    <3> DEFINE x == RowFromFields
    <3>a. x \in Seq(ReadCells)
      BY <3>1
    <3> HIDE DEF x
    <3>b. /\ Len(Append(rows, x)) = r + 1 /\ Append(rows, x)[r + 1] = x
          /\ \A q \in 1..r : Append(rows, x)[q] = rows[q]
      BY <3>4, <3>a
    <3>5. Len(later) = r + 1 /\ later[r + 1] = RowFromFields /\ \A q \in 1..r : later[q] = rows[q]
      BY <3>b DEF x
    <3>6. xml'.rows = later
      BY <3>1 DEF rows
    <3> HIDE DEF later
    <3>7. ASSUME NEW q \in 1..(r + 1), NEW k \in 1..Len(set.schema)
          PROVE  later[q][k].text = WrittenAs(set, set.rows[q], set.schema[k].name)
      <4>1. CASE q = r + 1
        BY <3>3, <3>5, <4>1
      <4>2. CASE q # r + 1
        <5>1. q \in 1..r
          BY <4>2
        <5>2. rows[q][k].text = WrittenAs(set, set.rows[q], set.schema[k].name)
          BY <1>2, <5>1 DEF RowsRead, rows
        <5> QED
          BY <3>5, <5>1, <5>2
      <4> QED
        BY <4>1, <4>2
    <3>8. xml'.set = xml.set
      BY <3>1
    <3>9. RowsRead(r + 1)'
      BY <2>3, <3>5, <3>6, <3>7, <3>8 DEF RowsRead
    <3>10. xml'.at = Len(BeforeRow(xml'.set, r + 1)) + 1
      BY <3>2, <3>8
    <3>11. Outside(r + 1)'
      BY <3>1, <3>9, <3>10 DEF Outside
    <3> QED
      BY <3>11
  <2> QED
    BY <2>8, <2>9
<1> QED
  BY <1>5, <1>6

LEMMA FromWithin ==
  ASSUME Shape, Sound(xml.set), NEW r \in Nat, NEW i \in Nat, NEW j \in Nat,
         Within(r, i, j), XmlNext
  PROVE  Within(r, i, j + 1)' \/ Between(r, i + 1)'
<1> DEFINE set == xml.set
           n == Len(set.rows)
           m == FieldsOf(r)
           own == set.fields[i + 1]
           text == set.rows[r + 1][i + 1].text
           l == Len(text)
           p == BeforeText(set, r, i, j)
<1>1. set \in Records /\ n \in Nat /\ xml \in XmlStates /\ xml.doc = Exported(set)
  <2>1. set \in Records /\ xml \in XmlStates /\ xml.doc = Exported(set)
    BY DEF Shape, XmlStates
  <2> QED
    BY <2>1, RecordShape
<1>2. /\ RowsRead(r) /\ r < n /\ i \in 0..(m - 1) /\ j \in 0..l /\ xml.at = Len(p) + 1
      /\ xml.in_record /\ xml.active = own /\ ~xml.error
      /\ \A k \in 1..Len(set.schema) : TextAt(k) = Collected(set, r, i, j, set.schema[k].name)
  BY DEF Within
<1>a. r + 1 \in 1..n
  <2>1. n \in Nat
    BY <1>1
  <2>2. r < n
    BY <1>2
  <2> QED
    BY <2>1, <2>2
<1>b. m \in Nat
  BY <1>1, <1>a, FieldEventsShape DEF FieldsOf
<1>c. i + 1 \in 1..m
  <2>1. i \in 0..(m - 1)
    BY <1>2
  <2> QED
    BY <1>b, <2>1
<1>d. own \in Texts /\ own # "" /\ own # Record
  <2>1. i + 1 \in 1..Len(set.fields)
    BY <1>1, <1>a, <1>c, FieldEventsShape DEF FieldsOf
  <2> QED
    BY <1>1, <2>1, RecordShape DEF Sound
<1>g. FieldsLie(set, r) /\ TextsLie(set, r, i)
  BY <1>1, <1>a, <1>c, FieldsLayout, TextsLayout DEF FieldsOf
<1>e. text \in Seq(Texts)
  BY <1>g DEF TextsLie
<1>f. l \in Nat /\ j \in 0..l
  <2>1. l \in Nat
    BY <1>g DEF TextsLie
  <2> QED
    BY <1>2, <2>1
<1>4. p \in Seq(Events)
  BY <1>f, <1>g DEF TextsLie
<1>5. ASSUME j < l PROVE Within(r, i, j + 1)'
  <2> DEFINE w == text[j + 1]
             e == TextEvents(text)[j + 1]
  <2>1. j + 1 \in 1..l /\ j + 1 \in 0..l /\ j \in 0..(l - 1)
    BY <1>f, <1>5
  <2>2. TextEvents(text) \in Seq(Events) /\ Len(TextEvents(text)) = l
        /\ e = IF w = "&" THEN [is |-> "Reference", name |-> ""] ELSE [is |-> "Text", name |-> w]
    BY <1>e, <2>1, TextEventsShape
  <2>3. e \in Events
    <3> DEFINE s == TextEvents(text)
    <3>1. s \in Seq(Events) /\ Len(s) = l
      BY <2>2
    <3> HIDE DEF s, l
    <3>2. s[j + 1] \in Events
      BY <2>1, <3>1
    <3> QED
      BY <3>2 DEF s
  <2>4. /\ BeforeText(set, r, i, j + 1) = p \o <<e>>
        /\ Begins(BeforeText(set, r, i, j + 1), Exported(set))
    BY <1>g, <2>1 DEF TextsLie
  <2>5. ASSUME NEW name
        PROVE  Collected(set, r, i, j + 1, name) =
                  IF own = name /\ w # "&" THEN Collected(set, r, i, j, name) \o <<w>>
                  ELSE Collected(set, r, i, j, name)
    <3>0. Grows(set, r, i, name)
      BY <1>1, <1>a, <1>c, CollectedGrows DEF FieldsOf
    <3>1. OneMoreText(set, r, i, j, name)
      BY <2>1, <3>0 DEF Grows
    <3> QED
      BY <3>1 DEF OneMoreText
  <2> HIDE DEF e, p, w, own
  <2>6. Event = e /\ Len(p \o <<e>>) + 1 = xml.at + 1
    BY <1>2, <1>4, <2>3, <2>4, NextEvent
  <2>7. /\ xml'.set = set /\ xml'.at = xml.at + 1 /\ xml'.rows = xml.rows /\ ~xml'.error
        /\ xml'.in_record /\ xml'.active = own
        /\ \A k \in 1..Len(set.schema) :
             TextAt(k)' = IF own = set.schema[k].name /\ w # "&" THEN TextAt(k) \o <<w>>
                          ELSE TextAt(k)
    <3>1. CASE w = "&"
      <4>1. SkipReference
        BY <1>1, <2>2, <2>6, <3>1, XmlKinds
      <4>2. /\ xml'.set = set /\ xml'.at = xml.at + 1 /\ xml'.rows = xml.rows /\ ~xml'.error
            /\ xml'.in_record = xml.in_record /\ xml'.active = xml.active
            /\ xml'.values = xml.values
        BY <1>1, <1>2, <4>1, ReferenceStep DEF SameRecords
      <4>3. \A k : TextAt(k)' = TextAt(k)
        BY <4>2 DEF TextAt
      <4> QED
        BY <1>2, <3>1, <4>2, <4>3
    <3>2. CASE w # "&"
      <4> DEFINE v == [name |-> own, word |-> w]
      <4>1. ReadText /\ Event.name = w /\ Event \in Events
        BY <1>1, <2>2, <2>3, <2>6, <3>2, XmlKinds
      <4>2. /\ xml'.set = set /\ xml'.at = xml.at + 1 /\ xml'.rows = xml.rows /\ ~xml'.error
            /\ xml'.in_record = xml.in_record /\ xml'.active = xml.active
            /\ v \in Named /\ xml'.values = Append(xml.values, v)
        BY <1>1, <1>2, <1>d, <4>1, TextStep DEF SameRecords
      <4>3. xml.values \in Seq(Named) /\ v.name = own /\ v.word = w
        BY <1>1 DEF XmlStates
      <4> HIDE DEF v
      <4>4. ASSUME NEW k \in 1..Len(set.schema)
            PROVE  TextAt(k)' = IF own = set.schema[k].name THEN TextAt(k) \o <<w>>
                                ELSE TextAt(k)
        <5> DEFINE name == set.schema[k].name
                   values == xml.values
        <5> HIDE DEF name, values
        <5>1. /\ TextOf(Append(values, v), name) =
                   TextOf(values, name) \o (IF v.name = name THEN <<v.word>> ELSE <<>>)
              /\ TextOf(values, name) \in Seq(Texts)
          BY <4>2, <4>3, TextOfAppend DEF values
        <5> DEFINE u == TextOf(values, name)
        <5> HIDE DEF u
        <5>2. u \o <<>> = u
          <6>1. u \in Seq(Texts)
            BY <5>1 DEF u
          <6> QED
            BY <6>1
        <5>3. TextOf(Append(values, v), name) = IF own = name THEN u \o <<w>> ELSE u
          BY <4>3, <5>1, <5>2 DEF u
        <5>4. TextAt(k) = u
          BY DEF TextAt, u, name, values
        <5>5. TextAt(k)' = TextOf(Append(values, v), name)
          BY <4>2 DEF TextAt, name, values
        <5> QED
          BY <5>3, <5>4, <5>5 DEF name
      <4> QED
        BY <1>2, <3>2, <4>2, <4>4
    <3> QED
      BY <3>1, <3>2
  <2>8. RowsRead(r)'
    BY <1>2, <2>7, RowsStay
  <2>9. xml'.set = xml.set
    BY <2>7
  <2>10. FieldsOf(r)' = m
    BY <2>9 DEF FieldsOf
  <2>11. xml'.at = Len(BeforeText(set, r, i, j + 1)) + 1
    BY <2>4, <2>6, <2>7
  <2>12. \A k \in 1..Len(xml'.set.schema) :
           TextAt(k)' = Collected(xml'.set, r, i, j + 1, xml'.set.schema[k].name)
    BY <1>2, <2>5, <2>7, <2>9
  <2>13. /\ r < Len(xml'.set.rows) /\ i \in 0..(FieldsOf(r)' - 1)
         /\ j + 1 \in 0..Len(xml'.set.rows[r + 1][i + 1].text)
         /\ xml'.at = Len(BeforeText(xml'.set, r, i, j + 1)) + 1
         /\ xml'.active = xml'.set.fields[i + 1]
    BY <1>2, <2>1, <2>7, <2>9, <2>10, <2>11 DEF own
  <2> QED
    BY <2>7, <2>8, <2>12, <2>13 DEF Within
<1>6. ASSUME ~(j < l) PROVE Between(r, i + 1)'
  <2> DEFINE e == Close(own)
  <2>1. j = l
    BY <1>f, <1>6
  <2>2. e \in Events /\ e.is = "End" /\ e.name = own
    BY <1>d, EventsOf DEF Close
  <2>3. i + 1 \in 0..m
    BY <1>b, <1>c
  <2>4. BeforeField(set, r, i + 1) = p \o <<e>>
    BY <1>g, <2>1 DEF TextsLie
  <2>5. Begins(BeforeField(set, r, i + 1), Exported(set))
    BY <1>g, <2>3 DEF FieldsOf, FieldsLie
  <2>6. ASSUME NEW name
        PROVE  Collected(set, r, i, j, name) = Written(set, r, i + 1, name)
    <3>0. Grows(set, r, i, name)
      BY <1>1, <1>a, <1>c, CollectedGrows DEF FieldsOf
    <3>1. Collected(set, r, i, l, name) = Written(set, r, i + 1, name)
      BY <3>0 DEF Grows
    <3> QED
      BY <2>1, <3>1
  <2> HIDE DEF e, p, own
  <2>7. Event = e /\ Len(p \o <<e>>) + 1 = xml.at + 1
    BY <1>2, <1>4, <2>2, <2>4, <2>5, NextEvent
  <2>8. ReadEnd /\ Event.name = own
    BY <1>1, <2>2, <2>7, XmlKinds
  <2>9. /\ xml'.set = set /\ xml'.at = xml.at + 1 /\ xml'.rows = xml.rows /\ ~xml'.error
        /\ xml'.in_record = xml.in_record /\ xml'.values = xml.values /\ xml'.active = ""
    BY <1>1, <1>2, <1>d, <2>8, FieldEndStep DEF SameRecords
  <2>10. RowsRead(r)'
    BY <1>2, <2>9, RowsStay
  <2>11. xml'.set = xml.set
    BY <2>9
  <2>12. FieldsOf(r)' = m
    BY <2>11 DEF FieldsOf
  <2>13. \A k : TextAt(k)' = TextAt(k)
    BY <2>9 DEF TextAt
  <2>14. \A k \in 1..Len(xml'.set.schema) :
           TextAt(k)' = Written(xml'.set, r, i + 1, xml'.set.schema[k].name)
    BY <1>2, <2>6, <2>11, <2>13
  <2>15. /\ r < Len(xml'.set.rows) /\ i + 1 \in 0..FieldsOf(r)'
         /\ xml'.at = Len(BeforeField(xml'.set, r, i + 1)) + 1
    BY <1>2, <2>3, <2>4, <2>7, <2>9, <2>11, <2>12
  <2> QED
    BY <1>2, <2>9, <2>10, <2>14, <2>15 DEF Between
<1> QED
  BY <1>5, <1>6

LEMMA XmlKeepsShape ==
  ASSUME Shape, XmlNext
  PROVE  Shape' /\ xml'.set = xml.set
<1>1. xml \in XmlStates /\ xml.doc = Exported(xml.set)
  BY DEF Shape
<1>2. xml' \in XmlStates /\ SameRecords
  <2>1. ~xml.error /\ Event \in Events
    BY <1>1, XmlKinds
  <2>2. CASE Event.is = "Start"
    BY <1>1, <2>1, <2>2, XmlKinds, StartStep
  <2>3. CASE Event.is = "Text"
    BY <1>1, <2>1, <2>3, XmlKinds, TextStep
  <2>4. CASE Event.is = "Reference"
    BY <1>1, <2>1, <2>4, XmlKinds, ReferenceStep
  <2>5. CASE Event.is = "End"
    <3>1. ReadEnd
      BY <1>1, <2>5, XmlKinds
    <3>2. CASE Event.name = Record /\ xml.in_record
      BY <1>1, <2>1, <3>1, <3>2, RecordEndStep
    <3>3. CASE ~(Event.name = Record /\ xml.in_record)
      BY <1>1, <2>1, <3>1, <3>3, FieldEndStep
    <3> QED
      BY <3>2, <3>3
  <2> QED
    BY <2>1, <2>2, <2>3, <2>4, <2>5 DEF Events
<1> QED
  BY <1>1, <1>2 DEF Shape, SameRecords

\* The reader is always at one of the places, with what was written before it.
LEMMA XmlIInvHolds == XmlSpec => []XmlIInv
<1>1. ASSUME XmlInit PROVE XmlIInv
  BY <1>1, XmlStarts DEF XmlIInv, Shape, Located, NotYet
<1>2. ASSUME XmlIInv, [XmlNext]_xml PROVE XmlIInv'
  <2>1. CASE UNCHANGED xml
    <3>0. xml' = xml
      BY <2>1
    <3>1. /\ Shape' /\ xml'.set = xml.set
          /\ (NotYet <=> NotYet') /\ (RowRefused <=> RowRefused')
          /\ \A r : (RowsRead(r) <=> RowsRead(r)') /\ FieldsOf(r) = FieldsOf(r)'
          /\ \A k : TextAt(k) = TextAt(k)'
      BY <1>2, <3>0 DEF XmlIInv, Shape, NotYet, RowRefused, RowsRead, FieldsOf, TextAt, TypeAt
    <3>2. (Over <=> Over') /\ \A r : Outside(r) <=> Outside(r)'
      BY <3>0, <3>1 DEF Over, Outside
    <3>3. \A r, i : Between(r, i) <=> Between(r, i)'
      BY <3>0, <3>1 DEF Between
    <3>4. \A r, i, j : Within(r, i, j) <=> Within(r, i, j)'
      BY <3>0, <3>1 DEF Within
    <3>5. Located <=> Located'
      BY <3>1, <3>2, <3>3, <3>4 DEF Located
    <3> QED
      BY <1>2, <3>1, <3>5 DEF XmlIInv
  <2>2. CASE XmlNext
    <3>1. Shape /\ Shape' /\ xml'.set = xml.set
      BY <1>2, <2>2, XmlKeepsShape DEF XmlIInv
    <3> SUFFICES ASSUME Sound(xml.set) PROVE Located'
      BY <3>1 DEF XmlIInv
    <3>2. CASE NotYet
      <4>1. Outside(0)' /\ 0 \in Nat
        BY <2>2, <3>1, <3>2, FromNotYet
      <4> QED
        BY <4>1 DEF Located
    <3>3. ASSUME NEW r \in Nat, Outside(r) PROVE Located'
      <4>1. Between(r, 0)' \/ Over'
        BY <2>2, <3>1, <3>3, FromOutside
      <4> QED
        BY <4>1 DEF Located
    <3>4. ASSUME NEW r \in Nat, NEW i \in Nat, Between(r, i) PROVE Located'
      <4>1. Within(r, i, 0)' \/ Between(r, i)' \/ Outside(r + 1)'
        BY <2>2, <3>1, <3>4, FromBetween
      <4>2. r + 1 \in Nat /\ 0 \in Nat
        OBVIOUS
      <4> QED
        BY <4>1, <4>2 DEF Located
    <3>5. ASSUME NEW r \in Nat, NEW i \in Nat, NEW j \in Nat, Within(r, i, j) PROVE Located'
      <4>1. Within(r, i, j + 1)' \/ Between(r, i + 1)'
        BY <2>2, <3>1, <3>5, FromWithin
      <4>2. i + 1 \in Nat /\ j + 1 \in Nat
        OBVIOUS
      <4> QED
        BY <4>1, <4>2 DEF Located
    <3>6. ~Over
      <4>1. xml.doc \in Seq(Events) /\ xml.at \in 1..Len(xml.doc)
        BY <2>2, <3>1, XmlKinds DEF Shape, XmlStates
      <4>2. xml.at # Len(xml.doc) + 1
        BY <4>1
      <4> QED
        BY <4>2 DEF Over
    <3> QED
      BY <1>2, <3>2, <3>3, <3>4, <3>5, <3>6 DEF XmlIInv, Located
  <2> QED
    BY <1>2, <2>1, <2>2
<1> QED
  BY <1>1, <1>2, PTL DEF XmlSpec

\* Before the end of the document something is still to be read.
LEMMA NotAtEnd ==
  ASSUME Shape, Located
  PROVE  Over \/ ~AtEnd
<1> DEFINE set == xml.set
           n == Len(set.rows)
           doc == Exported(set)
<1>1. set \in Records /\ xml.doc = doc
  BY DEF Shape, XmlStates
<1>2. n \in Nat
  BY <1>1, RecordShape
<1>3. doc \in Seq(Events) /\ \A name \in Texts : Open(name) \in Events /\ Close(name) \in Events
  BY <1>1, RowsLayout, EventsOf
<1>4. Root \in Texts /\ Record \in Texts
  BY DEF Texts
<1>5. doc = BeforeRow(set, n) \o <<Close(Root)>> /\ Begins(doc, doc)
  BY <1>1, <1>3, RowsLayout, AllBegins
<1> HIDE DEF doc
<1> DEFINE Goes(p) == \E e \in Events : p \in Seq(Events) /\ Begins(p \o <<e>>, doc)
<1>6. ASSUME NEW p, Goes(p), xml.at = Len(p) + 1 PROVE ~AtEnd
  <2>1. PICK e \in Events : p \in Seq(Events) /\ Begins(p \o <<e>>, doc)
    BY <1>6
  <2>2. Len(p) + 1 \in 1..Len(doc) /\ Len(doc) \in Nat
    BY <1>3, <2>1, BeginsWith
  <2> QED
    BY <1>1, <1>6, <2>2 DEF AtEnd
<1>7. CASE NotYet
  <2>1. 0 \in 0..n
    BY <1>2
  <2>2. BeforeRow(set, 0) = <<Open(Root)>> /\ Begins(BeforeRow(set, 0), doc)
    BY <1>1, <2>1, RowsLayout DEF doc
  <2>3. Len(<<Open(Root)>>) = 1
    OBVIOUS
  <2>4. 1 <= Len(doc) /\ Len(doc) \in Nat
    BY <1>3, <2>2, <2>3 DEF Begins
  <2>5. xml.at = 1
    BY <1>7 DEF NotYet
  <2> QED
    BY <1>1, <2>4, <2>5 DEF AtEnd
<1>8. ASSUME NEW r \in Nat, Outside(r) PROVE ~AtEnd
  <2> DEFINE p == BeforeRow(set, r)
  <2>1. r \in 0..n /\ xml.at = Len(p) + 1
    BY <1>8 DEF Outside, RowsRead
  <2>2. p \in Seq(Events)
    BY <1>1, <2>1, RowsLayout
  <2>3. CASE r = n
    BY <1>3, <1>4, <1>5, <1>6, <2>1, <2>2, <2>3
  <2>4. CASE r # n
    <3>1. r + 1 \in 1..n
      BY <1>2, <2>1, <2>4
    <3>2. FieldsOf(r) \in Nat
      BY <1>1, <3>1, FieldEventsShape DEF FieldsOf
    <3>3. 0 \in 0..FieldsOf(r)
      BY <3>2
    <3>4. BeforeField(set, r, 0) = p \o <<Open(Record)>> /\ Begins(BeforeField(set, r, 0), doc)
      <4>1. FieldsLie(set, r)
        BY <1>1, <3>1, FieldsLayout
      <4> QED
        BY <3>3, <4>1 DEF FieldsOf, FieldsLie, doc
    <3> HIDE DEF p
    <3> QED
      BY <1>3, <1>4, <1>6, <2>1, <2>2, <3>4
  <2> QED
    BY <2>3, <2>4
<1>9. ASSUME NEW r \in Nat, r < n PROVE r + 1 \in 1..n /\ FieldsOf(r) \in Nat
  <2>1. r + 1 \in 1..n
    BY <1>2, <1>9
  <2> QED
    BY <1>1, <2>1, FieldEventsShape DEF FieldsOf
<1>f. ASSUME NEW r \in Nat, r + 1 \in 1..n PROVE FieldsLie(set, r)
  BY <1>1, <1>f, FieldsLayout
<1>t. ASSUME NEW r \in Nat, r + 1 \in 1..n, NEW i \in Nat, i + 1 \in 1..FieldsOf(r)
      PROVE  TextsLie(set, r, i)
  BY <1>1, <1>t, TextsLayout DEF FieldsOf
<1>10. ASSUME NEW r \in Nat, r < n, NEW i \in Nat, i + 1 \in 1..FieldsOf(r)
       PROVE  set.fields[i + 1] \in Texts
  <2>1. i + 1 \in 1..Len(set.fields)
    BY <1>1, <1>9, <1>10, FieldEventsShape DEF FieldsOf
  <2> QED
    BY <1>1, <2>1, RecordShape
<1>11. ASSUME NEW r \in Nat, NEW i \in Nat, Between(r, i) PROVE ~AtEnd
  <2> DEFINE p == BeforeField(set, r, i)
             m == FieldsOf(r)
  <2>1. r < n /\ i \in 0..m /\ xml.at = Len(p) + 1
    BY <1>11 DEF Between
  <2>2. r + 1 \in 1..n /\ m \in Nat
    BY <1>9, <2>1
  <2>a. FieldsLie(set, r)
    BY <1>f, <2>2
  <2>3. p \in Seq(Events)
    BY <2>1, <2>a DEF FieldsOf, FieldsLie
  <2>4. CASE i = m
    <3>1. r + 1 \in 0..n
      BY <1>2, <2>2
    <3>2. BeforeRow(set, r + 1) = p \o <<Close(Record)>>
      BY <2>4, <2>a DEF FieldsOf, FieldsLie
    <3>3. Begins(BeforeRow(set, r + 1), doc)
      BY <1>1, <3>1, RowsLayout DEF doc
    <3> HIDE DEF p
    <3> QED
      BY <1>3, <1>4, <1>6, <2>1, <2>3, <3>2, <3>3
  <2>5. CASE i # m
    <3>1. i + 1 \in 1..m
      BY <2>1, <2>2, <2>5
    <3> DEFINE text == set.rows[r + 1][i + 1].text
    <3>a. TextsLie(set, r, i)
      BY <1>t, <2>2, <3>1
    <3>2. Len(text) \in Nat
      BY <3>a DEF TextsLie
    <3>3. 0 \in 0..Len(text)
      BY <3>2
    <3>4. /\ BeforeText(set, r, i, 0) = p \o <<Open(set.fields[i + 1])>>
          /\ Begins(BeforeText(set, r, i, 0), doc)
      BY <3>3, <3>a DEF TextsLie, doc
    <3>5. Open(set.fields[i + 1]) \in Events
      BY <1>3, <1>10, <2>1, <3>1
    <3> HIDE DEF p
    <3> QED
      BY <1>6, <2>1, <2>3, <3>4, <3>5
  <2> QED
    BY <2>4, <2>5
<1>12. ASSUME NEW r \in Nat, NEW i \in Nat, NEW j \in Nat, Within(r, i, j) PROVE ~AtEnd
  <2> DEFINE p == BeforeText(set, r, i, j)
             m == FieldsOf(r)
             text == set.rows[r + 1][i + 1].text
             l == Len(text)
  <2>1. r < n /\ i \in 0..(m - 1) /\ j \in 0..l /\ xml.at = Len(p) + 1
    BY <1>12 DEF Within
  <2>2. r + 1 \in 1..n /\ m \in Nat
    BY <1>9, <2>1
  <2>3. i + 1 \in 1..m /\ i + 1 \in 0..m
    BY <2>1, <2>2
  <2>a. FieldsLie(set, r) /\ TextsLie(set, r, i)
    BY <1>f, <1>t, <2>2, <2>3
  <2>4. l \in Nat
    BY <2>a DEF TextsLie
  <2>5. p \in Seq(Events)
    BY <2>1, <2>a DEF TextsLie
  <2>6. CASE j = l
    <3>1. BeforeField(set, r, i + 1) = p \o <<Close(set.fields[i + 1])>>
      BY <2>6, <2>a DEF TextsLie
    <3>2. Begins(BeforeField(set, r, i + 1), doc)
      BY <2>3, <2>a DEF FieldsOf, FieldsLie, doc
    <3>3. Close(set.fields[i + 1]) \in Events
      BY <1>3, <1>10, <2>1, <2>3
    <3> HIDE DEF p
    <3> QED
      BY <1>6, <2>1, <2>5, <3>1, <3>2, <3>3
  <2>7. CASE j # l
    <3> DEFINE e == TextEvents(text)[j + 1]
    <3>1. j \in 0..(l - 1) /\ j + 1 \in 0..l /\ j + 1 \in 1..l
      BY <2>1, <2>4, <2>7
    <3>2. /\ BeforeText(set, r, i, j + 1) = p \o <<e>>
          /\ Begins(BeforeText(set, r, i, j + 1), doc)
      BY <2>a, <3>1 DEF TextsLie, doc
    <3>3. e \in Events
      <4> DEFINE s == TextEvents(text)
      <4>1. text \in Seq(Texts)
        BY <2>a DEF TextsLie
      <4>2. s \in Seq(Events) /\ Len(s) = l
        BY <4>1, TextEventsShape
      <4> HIDE DEF s, l
      <4>3. s[j + 1] \in Events
        BY <3>1, <4>2
      <4> QED
        BY <4>3 DEF s
    <3> HIDE DEF p, e
    <3> QED
      BY <1>6, <2>1, <2>5, <3>2, <3>3
  <2> QED
    BY <2>6, <2>7
<1> QED
  BY <1>7, <1>8, <1>11, <1>12 DEF Located

(***************************************************************************)
(* Whatever is exported is read back as the same rows in the same order,   *)
(* the words that were written under each name in each of them, or the     *)
(* first row that cannot be is the error: export_dataset_to_xml and        *)
(* ingest_xml_from_path, for every dataset whose fields have a name other  *)
(* than those of the elements around them, and every schema.               *)
(***************************************************************************)
THEOREM RecordsReadBack == XmlSpec => []ReadsBackWords
<1>1. ASSUME XmlIInv PROVE ReadsBackWords
  <2> DEFINE set == xml.set
  <2> SUFFICES ASSUME Sound(set)
               PROVE  /\ AtEnd => Len(xml.rows) = Len(set.rows)
                      /\ \A r \in 1..Len(xml.rows) : \A k \in 1..Len(set.schema) :
                           xml.rows[r][k].text = WrittenAs(set, set.rows[r], set.schema[k].name)
                      /\ xml.error => \E k \in 1..Len(set.schema) :
                           Unparsable(WrittenAs(set, set.rows[Len(xml.rows) + 1],
                                                set.schema[k].name),
                                      set.schema[k].type)
    BY DEF ReadsBackWords, Sound
  <2>1. Shape /\ Located /\ set \in Records
    BY <1>1 DEF XmlIInv, Shape, XmlStates
  <2>2. AtEnd => Len(xml.rows) = Len(set.rows)
    <3>1. AtEnd => Over
      BY <2>1, NotAtEnd
    <3> QED
      BY <3>1 DEF Over, RowsRead
  <2>3. NotYet \/ \E r \in Nat : RowsRead(r)
    <3>1. Len(set.rows) \in Nat
      BY <2>1, RecordShape
    <3> QED
      BY <2>1, <3>1 DEF Located, Over, Outside, Between, Within
  <2>4. ASSUME NEW r \in 1..Len(xml.rows), NEW k \in 1..Len(set.schema)
        PROVE  xml.rows[r][k].text = WrittenAs(set, set.rows[r], set.schema[k].name)
    <3>1. CASE NotYet
      <4>0. xml.rows = <<>>
        BY <3>1 DEF NotYet
      <4>1. Len(xml.rows) = 0
        BY <4>0
      <4> QED
        BY <4>1
    <3>2. CASE \E q \in Nat : RowsRead(q)
      BY <2>4, <3>2 DEF RowsRead
    <3> QED
      BY <2>3, <3>1, <3>2
  <2>5. ASSUME xml.error
        PROVE  \E k \in 1..Len(set.schema) :
                 Unparsable(WrittenAs(set, set.rows[Len(xml.rows) + 1], set.schema[k].name),
                            set.schema[k].type)
    <3>1. PICK r \in Nat, i \in Nat : Between(r, i)
      BY <2>1, <2>5 DEF Located, NotYet, Over, Outside, Within
    <3>2. /\ r < Len(set.rows) /\ Len(xml.rows) = r /\ i = FieldsOf(r) /\ RowRefused
          /\ \A k \in 1..Len(set.schema) :
               TextAt(k) = Written(set, r, i, set.schema[k].name)
      BY <2>5, <3>1 DEF Between, RowsRead
    <3>3. PICK k \in 1..Len(set.schema) : Unparsable(TextAt(k), TypeAt(k))
      BY <3>2 DEF RowRefused
    <3>4. Len(set.rows) \in Nat
      BY <2>1, RecordShape
    <3>5. r + 1 \in 1..Len(set.rows)
      BY <3>2, <3>4
    <3> DEFINE name == set.schema[k].name
    <3>6. Upto(WrittenBy(set, set.rows[r + 1], name), FieldsOf(r))
            = WrittenAs(set, set.rows[r + 1], name)
      BY <2>1, <3>5, WrittenShape DEF FieldsOf
    <3>7. TextAt(k) = WrittenAs(set, set.rows[r + 1], name)
      BY <3>2, <3>6 DEF Written
    <3> QED
      BY <3>2, <3>3, <3>7 DEF TypeAt
  <2> QED
    BY <2>2, <2>4, <2>5
<1> QED
  BY <1>1, XmlIInvHolds, PTL
=============================================================================
