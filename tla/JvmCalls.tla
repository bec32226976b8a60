------------------------------ MODULE JvmCalls ------------------------------
(***************************************************************************)
(* src/bindings: calls of a JVM on the native library, from the C strings  *)
(* to the JSON slice and back (jvm-sys: ingest_path.rs, kafka.rs,          *)
(* parity.rs, parity_support.rs; Java: RdpNativeJson), and what the Spark  *)
(* module makes of an answer (RdpSparkMaterializer).  Calls of different   *)
(* threads share the heap and the directory of temporary files.            *)
(*                                                                         *)
(* What the library computes is a parameter: the rows, or a failure.       *)
(***************************************************************************)
EXTENDS Integers, Sequences, FiniteSets, SequencesExt

CONSTANTS
  JvmThreads,   \* threads of the host, each with one call
  Invocations,  \* what they call: see below
  Clock,        \* readings of the clock, which names files
  DefaultCap    \* DEFAULT_MAX_DATASET_ROWS

VARIABLES
  jvm,    \* of each thread: its call, where it is, and what it has got
  slices, \* of each thread: how often its slice was made and freed
  temps   \* the temporary files: the rows of each path
jvmVars == <<jvm, slices, temps>>

Takes ==
  [path |-> <<"path", "schema", "options">>, ordered |-> <<"payload">>,
   load |-> <<"records", "schema">>, poll |-> <<"config">>,
   poll_loaded |-> <<"config", "schema">>, export |-> <<"config", "dataset">>,
   excel |-> <<"path", "sheet">>, sample |-> <<>>]

\* A row is its watermark, an Int64, and a cell of a Utf8 column: Null, the
\* empty text, or a text that looks like a value of some type or like none
\* ("word").  Line ends and quotes in a text are left out.
Looks == {"number", "boolean", "time"}
Rows == [n : Int, text : Looks \cup {"Null", "", "word"}]

\* An invocation.  args are "null", "bytes" (no UTF-8), "text" (no JSON of the
\* type) or "good"; mode is response.mode, or the format of the export; cap is
\* an Option; wide says whether the dataset has the watermark's column too;
\* spark, that the answer goes to the materializer.
Modes(entry) ==
  IF entry = "ordered" THEN {"dataset", "parquet", "arrow", "unknown"}
  ELSE IF entry = "sample" THEN {"parquet", "arrow", "polars"} ELSE {"dataset"}
Invocation ==
  [entry : DOMAIN Takes, args : Seq({"null", "bytes", "text", "good"}),
   rows : Seq(Rows), wide : BOOLEAN, fails : BOOLEAN, cap : Seq(Nat),
   out : {"null", "given"},
   mode : {"dataset", "parquet", "arrow", "polars", "unknown"}, spark : BOOLEAN]

\* The Excel entry reads its strings without asking for null (parity.rs:120),
\* which is undefined: no host may do that.
ASSUME InvocationsAssumption ==
  /\ DefaultCap \in Nat /\ Invocations \subseteq Invocation
  /\ \A call \in Invocations :
       /\ Len(call.args) = Len(Takes[call.entry]) /\ Len(call.cap) <= 1
       /\ call.mode \in Modes(call.entry)
       /\ call.entry = "ordered" => call.wide
       /\ call.entry = "excel" => ~Contains(call.args, "null")

\* The library parses the records itself, opens the path and finds the sheet.
Parses(entry) == SelectSeq(Takes[entry], LAMBDA a : a \notin {"path", "sheet", "records"})

NoTemp == <<>>
Failure ==
  [ok |-> FALSE, kind |-> "error", rows |-> <<>>, total |-> 0, floor |-> 0, file |-> NoTemp]

\* A DataFrame: its rows, and the type of its other column.
Frame(rows, type) == [rows |-> rows, type |-> type]

JvmInit ==
  /\ \E what \in [JvmThreads -> Invocations] :
       jvm = [t \in JvmThreads |->
                [call |-> what[t], at |-> "ready", acted |-> FALSE, file |-> NoTemp,
                 shared |-> FALSE, answer |-> Failure, data |-> Frame(<<>>, "Utf8")]]
  /\ slices = [t \in JvmThreads |-> [made |-> 0, freed |-> 0]]
  /\ temps = <<>>
-----------------------------------------------------------------------------
(* The native side.                                                        *)

At(t, place) == jvm[t].at = place
EntryOf(t) == jvm[t].call.entry
Moves(t, place) == jvm' = [jvm EXCEPT ![t].at = place]
Answers(t, answer) == jvm' = [jvm EXCEPT ![t].at = "slice", ![t].answer = answer]
AnyArgument(t, names, how) ==
  \E i \in 1..Len(Takes[EntryOf(t)]) :
    Contains(names, Takes[EntryOf(t)][i]) /\ jvm[t].call.args[i] \in how

Invoke(t) == At(t, "ready") /\ Moves(t, "decode") /\ UNCHANGED <<slices, temps>>

\* cstr_to_str of every argument, then the JSON of every one that is JSON, and
\* what its fields must be: all before the library is called.
DecodeStrings(t) ==
  /\ At(t, "decode")
  /\ IF AnyArgument(t, Takes[EntryOf(t)], {"null", "bytes"}) THEN Answers(t, Failure)
     ELSE Moves(t, "parse")
  /\ UNCHANGED <<slices, temps>>

ParseArguments(t) ==
  /\ At(t, "parse")
  /\ IF AnyArgument(t, Parses(EntryOf(t)), {"text"}) THEN Answers(t, Failure)
     ELSE Moves(t, "act")
  /\ UNCHANGED <<slices, temps>>

\* The names of the answers, which the materializer goes by.
KindOf(call) ==
  IF call.entry = "ordered"
  THEN [dataset |-> "ingest_ordered_paths_dataset",
        parquet |-> "ingest_ordered_paths_parquet_temp",
        arrow |-> "ingest_ordered_paths_arrow_ipc_temp"][call.mode]
  ELSE IF call.entry = "sample"
  THEN [parquet |-> "parquet_export_temp", arrow |-> "arrow_ipc_export_temp",
        polars |-> "polars_parquet_export_temp"][call.mode]
  ELSE call.entry

Floor(rows) ==
  IF rows = <<>> THEN 0
  ELSE CHOOSE n \in {rows[i].n : i \in 1..Len(rows)} : \A i \in 1..Len(rows) : rows[i].n <= n

\* Mutant: the batch is cut before its metadata is taken.
CutBatch(rows, cap) == SubSeq(rows, 1, IF cap < Len(rows) THEN cap ELSE Len(rows))

\* The rows whose maximum is max_watermark_value: all of the batch.
FloorRows(rows, cap) == rows

Cap(call) ==
  LET asked == IF call.cap = <<>> THEN DefaultCap ELSE call.cap[1]
  IN  IF asked < 1 THEN 1 ELSE asked

\* The envelope of a dataset; that of ordered paths is cut, and says so by
\* returned_row_count and total_row_count.
DatasetAnswer(call) ==
  LET n == IF call.entry = "ordered" THEN Cap(call) ELSE Len(call.rows)
  IN  [Failure EXCEPT !.ok = TRUE, !.kind = KindOf(call), !.total = Len(call.rows),
         !.rows = SubSeq(call.rows, 1, IF n < Len(call.rows) THEN n ELSE Len(call.rows)),
         !.floor = IF call.entry = "ordered" THEN Floor(FloorRows(call.rows, n)) ELSE 0]

\* One call of the library.  An unknown response.mode is seen after it only.
InTempFile(call) == call.entry \in {"ordered", "sample"} /\ call.mode # "dataset"
Act(t) ==
  LET call == jvm[t].call
      next == IF call.fails \/ call.mode = "unknown"
              THEN [at |-> "slice", answer |-> Failure]
              ELSE IF InTempFile(call) THEN [at |-> "name", answer |-> Failure]
              ELSE [at |-> "slice", answer |-> DatasetAnswer(call)]
  IN  /\ At(t, "act")
      /\ jvm' = [jvm EXCEPT ![t].at = next.at, ![t].answer = next.answer, ![t].acted = TRUE]
      /\ UNCHANGED <<slices, temps>>

\* A directory for each kind of answer, and in it a name made of the clock.
\* Two calls may read the same clock: then they share the file.
ChooseTempName(t) ==
  /\ At(t, "name")
  /\ \E stamp \in Clock :
       LET path == <<KindOf(jvm[t].call), stamp>>
           others == {u \in JvmThreads \ {t} : jvm[u].file = path}
       IN  jvm' = [u \in JvmThreads |->
                     IF u = t THEN [jvm[t] EXCEPT !.at = "write", !.file = path,
                                                  !.shared = others # {}]
                     ELSE IF u \in others THEN [jvm[u] EXCEPT !.shared = TRUE] ELSE jvm[u]]
  /\ UNCHANGED <<slices, temps>>

TempAnswer(t) ==
  [Failure EXCEPT !.ok = TRUE, !.kind = KindOf(jvm[t].call), !.file = jvm[t].file,
                  !.total = Len(jvm[t].call.rows)]

\* Mutant: the materializer leaves the file.
KeepTemp(path) == temps

TempsWithout(path) == [p \in DOMAIN temps \ {path} |-> temps[p]]

Holding(path, rows) ==
  [p \in DOMAIN temps \cup {path} |-> IF p = path THEN rows ELSE temps[p]]

\* File::create and the writer of the format, which may fail with a file left.
WriteTemp(t) ==
  /\ At(t, "write")
  /\ \/ /\ temps' = Holding(jvm[t].file, jvm[t].call.rows)
        /\ Answers(t, TempAnswer(t))
     \/ /\ temps' \in {temps, Holding(jvm[t].file, <<>>)}
        /\ Answers(t, Failure)
  /\ UNCHANGED slices

\* Mutant: write_slice does not free what it cannot hand over.
Forgotten(t) == [slices EXCEPT ![t].made = @ + 1]

\* json_ok or json_err forgets a Vec, and write_slice frees it if there is no out.
WrittenSlices(t) ==
  [slices EXCEPT ![t].made = @ + 1, ![t].freed = @ + IF jvm[t].call.out = "null" THEN 1 ELSE 0]
WriteSlice(t) ==
  /\ At(t, "slice")
  /\ slices' = WrittenSlices(t)
  /\ Moves(t, IF jvm[t].call.out = "null" THEN "over" ELSE "out")
  /\ UNCHANGED temps
-----------------------------------------------------------------------------
(* The Java side: the JSON is copied, the slice freed, and only then is the *)
(* JSON parsed.                                                            *)

ReadSlice(t) == At(t, "out") /\ Moves(t, "copied") /\ UNCHANGED <<slices, temps>>

FreeSlice(t) ==
  /\ At(t, "copied")
  /\ slices' = [slices EXCEPT ![t].freed = @ + 1]
  /\ Moves(t, IF jvm[t].call.spark THEN "spark" ELSE "over")
  /\ UNCHANGED temps

\* The temporary files that the materializer knows.
SparkReads == {"parquet_export_temp", "polars_parquet_export_temp", "arrow_ipc_export_temp"}
HasDataset(answer) ==
  answer.kind \in {"path", "excel", "load", "poll_loaded", "ingest_ordered_paths_dataset"}

\* A Null is written as the empty text.  External: Spark's CSV reader skips
\* empty lines, reads the empty text as Null, and infers the type of a column
\* from its other texts.
IsLine(row) == row.text \notin {"Null", ""}
Lines(rows, wide) ==
  FlattenSeq([i \in 1..Len(rows) |->
    IF wide \/ IsLine(rows[i]) THEN <<rows[i]>> ELSE <<>>])
SparkRow(row) == [row EXCEPT !.text = IF @ = "" THEN "Null" ELSE @]

TextsOf(rows) == {rows[i].text : i \in 1..Len(rows)} \ {"Null", ""}
InferredAs(rows) ==
  IF \E look \in Looks : TextsOf(rows) = {look} THEN CHOOSE look \in TextsOf(rows) : TRUE
  ELSE "Utf8"

\* Mutant: no header is written, and the first row is read as one.
WithoutHeader(rows, wide) == IF rows = <<>> THEN <<>> ELSE Tail(rows)

ThroughCsv(rows, wide) ==
  LET lines == Lines(rows, wide) IN [i \in 1..Len(lines) |-> SparkRow(lines[i])]

Materializes(t, frame, place) == jvm' = [jvm EXCEPT ![t].data = frame, ![t].at = place]
SparkFails(t) == Moves(t, "failed")

\* cacheCountAndDelete: the file is read, and then deleted; a failure leaves it.
\* The CSV of a dataset has a name of its own and is deleted in every case.
MaterializeFile(t) ==
  /\ At(t, "spark") /\ jvm[t].answer.ok /\ jvm[t].answer.kind \in SparkReads
  /\ \/ /\ jvm[t].file \in DOMAIN temps
        /\ Materializes(t, Frame(temps[jvm[t].file], "Utf8"), "delete")
     \/ SparkFails(t)
  /\ UNCHANGED <<slices, temps>>

DeleteTemp(t) ==
  /\ At(t, "delete")
  /\ temps' = TempsWithout(jvm[t].file)
  /\ Moves(t, "over") /\ UNCHANGED slices

MaterializeDataset(t) ==
  /\ At(t, "spark") /\ jvm[t].answer.ok /\ HasDataset(jvm[t].answer)
  /\ LET rows == jvm[t].answer.rows
         read == Frame(ThroughCsv(rows, jvm[t].call.wide), InferredAs(rows))
     IN  Materializes(t, read, "over") \/ SparkFails(t)
  /\ UNCHANGED <<slices, temps>>

\* ok is false, or the kind is none of those: an exception.
RefuseAnswer(t) ==
  /\ At(t, "spark")
  /\ ~jvm[t].answer.ok \/ ~(jvm[t].answer.kind \in SparkReads \/ HasDataset(jvm[t].answer))
  /\ SparkFails(t) /\ UNCHANGED <<slices, temps>>

JvmNext == \E t \in JvmThreads :
  \/ Invoke(t) \/ DecodeStrings(t) \/ ParseArguments(t) \/ Act(t) \/ ChooseTempName(t)
  \/ WriteTemp(t) \/ WriteSlice(t) \/ ReadSlice(t) \/ FreeSlice(t)
  \/ MaterializeFile(t) \/ DeleteTemp(t) \/ MaterializeDataset(t) \/ RefuseAnswer(t)
-----------------------------------------------------------------------------
(***************************************************************************)
(* Each call makes one slice, which is freed once: by the native side if   *)
(* there is nobody to hand it to, by the host after it has copied it, and  *)
(* never while the host still reads.                                       *)
(***************************************************************************)
SlicesAreFreedOnce == \A t \in JvmThreads :
  LET over == jvm[t].at \in {"spark", "delete", "failed", "over"}
      held == jvm[t].at \in {"out", "copied"}
  IN  slices[t] = [made |-> IF over \/ held THEN 1 ELSE 0, freed |-> IF over THEN 1 ELSE 0]

(***************************************************************************)
(* An error about the arguments means that the library was not called.  An *)
(* answer of ordered paths returns the first rows of the batch, and less   *)
(* than all only if its counts say so; whatever it returns, a host that    *)
(* goes on from its max_watermark_value gets no row of the batch again.    *)
(***************************************************************************)
JvmAnswerIsTrue == \A t \in JvmThreads :
  LET call == jvm[t].call
      answer == jvm[t].answer
  IN  /\ jvm[t].acted => ~AnyArgument(t, Takes[call.entry], {"null", "bytes"})
                           /\ ~AnyArgument(t, Parses(call.entry), {"text"})
      /\ answer.ok =>
           /\ jvm[t].acted /\ answer.total = Len(call.rows)
           /\ IsPrefix(answer.rows, call.rows)
           /\ answer.file = NoTemp /\ call.entry # "ordered" => answer.rows = call.rows
           /\ answer.file = NoTemp /\ call.entry = "ordered" =>
                /\ call.rows # <<>> => answer.rows # <<>>
                /\ \A i \in 1..Len(call.rows) : call.rows[i].n <= answer.floor

(***************************************************************************)
(* What Spark gets is the batch, or the part the answer returned, even     *)
(* though the file is deleted at once and names are clock readings, unless *)
(* another call got the same name.  That of a temporary file comes as it   *)
(* is.  A dataset that goes through a CSV keeps its rows and their order,  *)
(* but for those of a single column that are Null or empty; an empty text  *)
(* becomes Null and a Null nothing else; and a Utf8 column is one no more  *)
(* only where all its texts look like values of one other type.            *)
(***************************************************************************)
SparkGetsItsRows == \A t \in JvmThreads :
  (jvm[t].at \in {"delete", "over"} /\ jvm[t].call.spark /\ jvm[t].answer.ok) =>
    LET csv == jvm[t].file = NoTemp
        sent == IF csv THEN Lines(jvm[t].answer.rows, jvm[t].call.wide)
                ELSE jvm[t].call.rows
        got == jvm[t].data
        same(a, b) == a.n = b.n /\ (a.text = b.text \/ (csv /\ a.text = "Null" /\ b.text = ""))
    IN  \/ jvm[t].shared \/ jvm[t].call.out = "null"
        \/ /\ Len(got.rows) = Len(sent)
           /\ \A i \in 1..Len(sent) : same(got.rows[i], sent[i])
           /\ got.type # "Utf8" =>
                csv /\ \A i \in 1..Len(sent) : sent[i].text \in {"Null", "", got.type}

(***************************************************************************)
(* A temporary file that is left belongs to a call that is under way, that *)
(* failed to write it, whose host reads it itself or could not: that of an *)
(* ordered batch always, since the materializer does not know its kind.    *)
(***************************************************************************)
LeftFilesAreKnown == \A path \in DOMAIN temps :
  \E t \in JvmThreads :
    /\ jvm[t].file = path
    /\ jvm[t].at = "over" =>
         ~jvm[t].call.spark \/ jvm[t].call.out = "null" \/ jvm[t].shared

(***************************************************************************)
(* Nothing the native side hands out is lost, neither slices of memory nor *)
(* temporary files, and nothing is freed twice.                            *)
(***************************************************************************)
NothingLeaks == SlicesAreFreedOnce /\ LeftFilesAreKnown
=============================================================================
