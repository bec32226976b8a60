---------------------------- MODULE Interchange ----------------------------
(***************************************************************************)
(* How a dataset enters and leaves the library: rows of Python objects     *)
(* (convert.rs and PyDataSet of the Python package) and Arrow record       *)
(* batches (arrow_interop of src/transform.rs).  A trip begins with Python *)
(* rows, with a dataset of the caller's or with batches of another         *)
(* program, goes through a batch, and ends as Python rows.                 *)
(*                                                                         *)
(* A cell is a pair of a kind and an identity, so that two cells of one    *)
(* kind can be told apart.  Null is "Null" in the library, "None" in       *)
(* Python; the kinds of the library's cells are its types.                 *)
(***************************************************************************)
EXTENDS Integers, Sequences, SequencesExt, FiniteSets

\* [enters, fields, rows, target]: fields and rows as they come in; rows is a
\* sequence of batches if they come as batches.  target: the schema asked for,
\* or <<>> for that of the first batch.
CONSTANT Trips

LibraryTypes == {"Int64", "Float64", "Bool", "Utf8"}
LibraryCells == (LibraryTypes \cup {"Null"}) \X Nat
PyObjects == {o \in STRING \X Nat : o[1] = "None" => o[2] = 0}
Schemas(types) == Seq([name: STRING, type: types])
ArrowTypes == STRING \cup LibraryTypes
RecordBatches == [fields: Schemas(ArrowTypes), rows: Seq(Seq(LibraryCells))]

\* Each row of a batch has its columns: Arrow's columns are of one length.
RowsFit(batch) == \A i \in 1..Len(batch.rows) : Len(batch.rows[i]) = Len(batch.fields)

ASSUME TripsAssumption ==
  \A job \in Trips :
    /\ job.enters \in {"python", "rust", "arrow"} /\ job.target \in Schemas(LibraryTypes)
    /\ job.enters # "arrow" => job.fields \in Schemas(LibraryTypes)
    /\ job.enters = "python" => job.rows \in Seq(Seq(PyObjects))
    /\ job.enters = "rust" => job.rows \in Seq(Seq(LibraryCells))
    /\ job.enters = "arrow" =>
         job.rows \in Seq(RecordBatches) /\ \A b \in 1..Len(job.rows) : RowsFit(job.rows[b])

VARIABLE trip   \* [job, at, fields, rows, batches, error]

TripInit == \E job \in Trips :
  trip = [job |-> job, at |-> job.enters, fields |-> <<>>, rows |-> <<>>,
          batches |-> <<>>, error |-> "none"]

FailsWith(error) == trip' = [trip EXCEPT !.at = "failed", !.error = error]
Goes(at, fields, rows) ==
  trip' = [trip EXCEPT !.at = at, !.fields = fields, !.rows = rows]
-----------------------------------------------------------------------------
(* Python.  PyO3 reads an int past an i64 as the nearest float, a bool as  *)
(* an integer or a float too, and nothing as a bool that is not one.       *)

ReadsAs(kind) ==
  IF kind = "bool" THEN {"Bool", "Int64", "Float64"}
  ELSE IF kind = "int" THEN {"Int64", "Float64"}
  ELSE IF kind \in {"float", "big int"} THEN {"Float64"}
  ELSE IF kind = "str" THEN {"Utf8"} ELSE {}

\* Mutant: integers are tried first.
IntegersFirst == <<"Int64", "Bool", "Float64", "Utf8">>

Attempts == <<"Bool", "Int64", "Float64", "Utf8">>
Attempt(kind) == SelectInSeq(Attempts, LAMBDA t : t \in ReadsAs(kind))

IsValue(object) == object[1] = "None" \/ Attempt(object[1]) # 0
value_from_py(object) ==
  IF object[1] = "None" THEN <<"Null", 0>>
  ELSE <<Attempts[Attempt(object[1])], IF object[1] = "big int" THEN 0 ELSE object[2]>>

PythonKind ==
  [Null |-> "None", Int64 |-> "int", Float64 |-> "float", Bool |-> "bool", Utf8 |-> "str"]
value_to_py(cell) == <<PythonKind[cell[1]], cell[2]>>

\* The type of a field is not compared with the cells.
DatasetFromRows ==
  /\ trip.at = "python"
  /\ LET fields == trip.job.fields
         rows == trip.job.rows
     IN  IF \E i \in 1..Len(rows) : Len(rows[i]) # Len(fields)
                                     \/ \E j \in 1..Len(rows[i]) : ~IsValue(rows[i][j])
         THEN FailsWith("ValueError")
         ELSE Goes("dataset", fields,
                [i \in 1..Len(rows) |-> [j \in 1..Len(fields) |-> value_from_py(rows[i][j])]])

\* DataSet::new checks nothing.
NewDataset == trip.at = "rust" /\ Goes("dataset", trip.job.fields, trip.job.rows)

ToRows ==
  /\ trip.at = "read"
  /\ Goes("returned", trip.fields,
          [i \in 1..Len(trip.rows) |->
             [j \in 1..Len(trip.rows[i]) |-> value_to_py(trip.rows[i][j])]])
-----------------------------------------------------------------------------
(* Arrow.                                                                  *)

\* A row that is too short ends in Nulls, one too long is cut.
CellOf(row, j) == IF j <= Len(row) THEN row[j] ELSE <<"Null", 0>>
Fits(cell, type) == cell[1] \in {"Null", type}

dataset_to_record_batch ==
  /\ trip.at = "dataset"
  /\ LET fields == trip.fields
         cells == [i \in 1..Len(trip.rows) |->
                     [j \in 1..Len(fields) |-> CellOf(trip.rows[i], j)]]
     IN  IF \E i \in 1..Len(cells) : \E j \in 1..Len(fields) : ~Fits(cells[i][j], fields[j].type)
         THEN FailsWith("ParseError")
         ELSE IF fields = <<>> THEN FailsWith("Engine")   \* RecordBatch::try_new
         ELSE trip' = [trip EXCEPT !.at = "batches",
                         !.batches = <<[fields |-> fields, rows |-> cells]>>]

TakeBatches ==
  /\ trip.at = "arrow"
  /\ trip' = [trip EXCEPT !.at = "batches", !.batches = trip.job.rows]

Supported == {"Int64", "Float64", "Bool", "Utf8", "LargeUtf8"}
schema_from_record_batch ==
  /\ trip.at = "batches"
  /\ LET own == trip.batches[1].fields
     IN  IF trip.job.target # <<>> \/ trip.batches = <<>> THEN Goes("to read", trip.job.target, <<>>)
         ELSE IF \E j \in 1..Len(own) : own[j].type \notin Supported
         THEN FailsWith("SchemaMismatch")
         ELSE Goes("to read", [j \in 1..Len(own) |->
                [own[j] EXCEPT !.type = IF @ = "LargeUtf8" THEN "Utf8" ELSE @]], <<>>)

\* Mutant: a column by its position.
ByPosition(fields, target, k) == k

\* Schema::index_of: the first of that name.
IndexOf(fields, target, k) == SelectInSeq(fields, LAMBDA f : f.name = target[k].name)

Downcasts(arrow, type) == arrow = type \/ (arrow = "LargeUtf8" /\ type = "Utf8")

\* The types are compared at each cell: never where there is no row.
record_batches_to_dataset ==
  /\ trip.at = "to read"
  /\ LET bs == trip.batches
         fields == bs[1].fields
         rows == FlattenSeq([b \in 1..Len(bs) |-> bs[b].rows])
         index == [k \in 1..Len(trip.fields) |-> IndexOf(fields, trip.fields, k)]
     IN  IF bs = <<>> THEN Goes("read", trip.fields, <<>>)
         ELSE IF \/ \E b \in 1..Len(bs) : bs[b].fields # fields
                 \/ \E k \in 1..Len(index) : index[k] \notin 1..Len(fields)
                 \/ /\ rows # <<>>
                    /\ \E k \in 1..Len(index) :
                         ~Downcasts(fields[index[k]].type, trip.fields[k].type)
         THEN FailsWith("SchemaMismatch")
         ELSE Goes("read", trip.fields,
                [i \in 1..Len(rows) |-> [k \in 1..Len(index) |-> rows[i][index[k]]]])

TripNext ==
  \/ DatasetFromRows \/ NewDataset \/ dataset_to_record_batch \/ TakeBatches
  \/ schema_from_record_batch \/ record_batches_to_dataset \/ ToRows

TripSpec == TripInit /\ [][TripNext]_trip
-----------------------------------------------------------------------------
\* What enters, whatever it comes as: its fields and its rows.
Entered ==
  IF trip.job.enters # "arrow" THEN [fields |-> trip.job.fields, rows |-> trip.job.rows]
  ELSE [fields |-> IF trip.job.rows = <<>> THEN <<>> ELSE trip.job.rows[1].fields,
        rows |-> FlattenSeq([b \in 1..Len(trip.job.rows) |-> trip.job.rows[b].rows])]
FirstNamed(name) == CHOOSE j \in 1..Len(Entered.fields) :
  Entered.fields[j].name = name /\ \A i \in 1..(j - 1) : Entered.fields[i].name # name

Asked == IF trip.job.target = <<>> THEN Entered.fields ELSE trip.job.target
PythonType == [Int64 |-> "int", Float64 |-> "float", Bool |-> "bool", Utf8 |-> "str"]

\* What Python gets for it.  An int past an i64 is a float of its size.
SameInPython(cell) ==
  IF trip.job.enters = "python"
  THEN IF cell[1] = "big int" THEN <<"float", 0>> ELSE cell
  ELSE value_to_py(cell)

(***************************************************************************)
(* A trip that ends returns the rows that entered, in their order, each    *)
(* column under the name asked for: the cell that comes out is the object  *)
(* that went in, of the same kind, in the first column of that name (two   *)
(* columns of one name come out as the first of them, twice).  A trip that *)
(* fails had a cell not of the type of its column, an object that is no    *)
(* value, a row of another length, no column, or a name or type asked for  *)
(* that is not there.                                                      *)
(***************************************************************************)
InterchangeKeepsCells ==
  /\ trip.at = "returned" =>
       /\ Len(trip.rows) = Len(Entered.rows)
       /\ trip.job.target = <<>> => Len(trip.fields) = Len(Entered.fields)
       /\ \A i \in 1..Len(trip.rows) : \A k \in 1..Len(trip.fields) :
            trip.rows[i][k] =
              SameInPython(CellOf(Entered.rows[i], FirstNamed(trip.fields[k].name)))
  /\ (trip.at = "failed" /\ trip.job.enters = "python") =>
       \/ Entered.fields = <<>>
       \/ \E i \in 1..Len(Entered.rows) :
            \/ Len(Entered.rows[i]) # Len(Entered.fields)
            \/ \E j \in 1..Len(Entered.fields) :
                 Entered.rows[i][j][1] \notin {"None", PythonType[Entered.fields[j].type]}
       \/ \E k \in 1..Len(Asked) :
            \/ ~\E j \in 1..Len(Entered.fields) : Entered.fields[j].name = Asked[k].name
            \/ Entered.fields[FirstNamed(Asked[k].name)].type # Asked[k].type
=============================================================================
