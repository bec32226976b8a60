----------------------------- MODULE XmlRecords -----------------------------
(***************************************************************************)
(* src/ingestion/xml.rs: a dataset is written as <rdp_records> and read    *)
(* back, an event per step.  quick_xml (external) escapes what it writes   *)
(* and, reading, reports a reference such as &amp; as an event of its own. *)
(***************************************************************************)
EXTENDS Integers, Sequences, SequencesExt, FiniteSets

CONSTANT Records   \* what is exported, and with which fields it is read

RecordCells == [type : {"Null", "Int64", "Utf8"}, text : Seq(STRING \ {""})]
RecordColumns == [name : STRING, type : {"Int64", "Utf8"}]

\* An element has a name, and no event is an empty text.
ASSUME RecordsAssumption ==
  \A set \in Records :
    /\ set \in [fields : Seq(STRING), schema : Seq(RecordColumns), rows : Seq(Seq(RecordCells))]
    /\ \A i \in 1..Len(set.fields) : set.fields[i] # ""

VARIABLE xml   \* [set, doc, at, in_record, active, values, rows, error]

Root == "rdp_records"
Record == "record"

\* A cell is Null, a number, or a text: a sequence of words and, as "&",
\* characters that XML escapes.
NullCell == [type |-> "Null", text |-> <<>>]
NumberCell(digits) == [type |-> "Int64", text |-> <<digits>>]
TextCell(parts) == [type |-> "Utf8", text |-> parts]
Digits == {"1", "2"}

Open(name) == [is |-> "Start", name |-> name]
Close(name) == [is |-> "End", name |-> name]

\* External: the events of a text.  Spaces are trimmed from each of them.
TextEvents(parts) ==
  [i \in 1..Len(parts) |->
     IF parts[i] = "&" THEN [is |-> "Reference", name |-> ""]
     ELSE [is |-> "Text", name |-> parts[i]]]

\* Mutant: a null is written as a word.
NullAsWord(cell) ==
  TextEvents(IF cell = NullCell THEN <<"null">> ELSE cell.text)

CellEvents(cell) == TextEvents(cell.text)

\* export_dataset_to_xml: zip stops at the shorter of fields and cells.
FieldEvents(fields, cells) ==
  [i \in 1..(IF Len(fields) < Len(cells) THEN Len(fields) ELSE Len(cells)) |->
     <<Open(fields[i])>> \o CellEvents(cells[i]) \o <<Close(fields[i])>>]
RowEvents(fields, cells) ==
  <<Open(Record)>> \o FlattenSeq(FieldEvents(fields, cells)) \o <<Close(Record)>>
Exported(set) ==
  <<Open(Root)>>
    \o FlattenSeq([r \in 1..Len(set.rows) |-> RowEvents(set.fields, set.rows[r])])
    \o <<Close(Root)>>

XmlInit ==
  \E set \in Records :
    xml = [set |-> set, doc |-> Exported(set), at |-> 1, in_record |-> FALSE,
           active |-> "", values |-> <<>>, rows |-> <<>>, error |-> FALSE]

Event == xml.doc[xml.at]
Reads(kind) == ~xml.error /\ xml.at <= Len(xml.doc) /\ Event.is = kind

\* An element inside a record that is not a field of the schema is active too.
ReadStart ==
  /\ Reads("Start")
  /\ xml' = IF Event.name = Record
            THEN [xml EXCEPT !.at = @ + 1, !.in_record = TRUE, !.values = <<>>]
            ELSE [xml EXCEPT !.at = @ + 1,
                    !.active = IF xml.in_record /\ Event.name # Root THEN Event.name ELSE @]

\* The texts of one field are joined by a space.
JoinedText(values, name, word) == Append(values, [name |-> name, word |-> word])

ReadText ==
  /\ Reads("Text")
  /\ xml' = [xml EXCEPT !.at = @ + 1,
               !.values = IF xml.active = "" THEN @ ELSE JoinedText(@, xml.active, Event.name)]

SkipReference == Reads("Reference") /\ xml' = [xml EXCEPT !.at = @ + 1]

\* parse_text_to_value: an empty text is Null, whatever the type.
TextOf(values, name) ==
  FlattenSeq([v \in 1..Len(values) |->
    IF values[v].name = name THEN <<values[v].word>> ELSE <<>>])
Parsed(text, type) ==
  IF text = <<>> THEN NullCell ELSE [type |-> type, text |-> text]
Unparsable(text, type) ==
  type = "Int64" /\ text # <<>> /\ (Len(text) > 1 \/ text[1] \notin Digits)

RowFromFields ==
  [k \in 1..Len(xml.set.schema) |->
     Parsed(TextOf(xml.values, xml.set.schema[k].name), xml.set.schema[k].type)]

EndOfField ==
  xml' = [xml EXCEPT !.at = @ + 1,
                     !.active = IF @ = Event.name THEN "" ELSE @]

ReadEnd ==
  /\ Reads("End")
  /\ IF ~(Event.name = Record /\ xml.in_record) THEN EndOfField
     ELSE IF \E k \in 1..Len(xml.set.schema) :
               Unparsable(TextOf(xml.values, xml.set.schema[k].name), xml.set.schema[k].type)
     THEN xml' = [xml EXCEPT !.error = TRUE]
     ELSE xml' = [xml EXCEPT !.at = @ + 1, !.rows = Append(@, RowFromFields),
                             !.in_record = FALSE, !.active = ""]

XmlNext == ReadStart \/ ReadText \/ SkipReference \/ ReadEnd
-----------------------------------------------------------------------------

\* What was exported under a name: the cells of all the fields of that name.
Words(text) ==
  FlattenSeq([i \in 1..Len(text) |-> IF text[i] = "&" THEN <<>> ELSE <<text[i]>>])
WrittenAs(set, row, name) ==
  FlattenSeq([i \in 1..Len(row) |->
    IF i <= Len(set.fields) /\ set.fields[i] = name THEN Words(row[i].text) ELSE <<>>])
AtEnd == xml.at > Len(xml.doc)

(***************************************************************************)
(* What is exported reads back as the same rows in the same order, and     *)
(* nothing of one record gets into the next: each field has the words that *)
(* were written under its name, or Null.  Equal to what was written are    *)
(* Null, numbers and texts of one word without a character XML escapes:    *)
(* such characters are lost and split the text.  A field called "record"   *)
(* ends its row instead (it is left out here).                             *)
(***************************************************************************)
ReadsBackWords ==
  LET set == xml.set
      sound == \A i \in 1..Len(set.fields) : set.fields[i] \notin {Record, Root}
  IN  sound =>
        /\ AtEnd => Len(xml.rows) = Len(set.rows)
        /\ \A r \in 1..Len(xml.rows) : \A k \in 1..Len(set.schema) :
             xml.rows[r][k].text = WrittenAs(set, set.rows[r], set.schema[k].name)
        /\ xml.error => \E k \in 1..Len(set.schema) :
             LET text == WrittenAs(set, set.rows[Len(xml.rows) + 1], set.schema[k].name)
             IN  Unparsable(text, set.schema[k].type)
=============================================================================
