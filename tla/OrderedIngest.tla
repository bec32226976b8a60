--------------------------- MODULE OrderedIngest ---------------------------
(***************************************************************************)
(* src/ingestion/unified.rs: incremental loading with a watermark.  Files  *)
(* arrive one after the other; a caller lists those that are there, loads  *)
(* them with ingest_from_ordered_paths (or the one file with               *)
(* ingest_from_path), takes the rows, and saves the maximum watermark to   *)
(* pass as the floor of its next call.  A file may fail to load, and the   *)
(* caller may crash between any two of its steps and start again from the  *)
(* floor it saved.  The files, the crashes and the caller are outside the  *)
(* repository, as its documentation describes them (docs/python/README.md: *)
(* "checkpointing the next run").                                          *)
(***************************************************************************)
EXTENDS Watermark, SequencesExt

CONSTANTS
  Loads,        \* what a history may be given: see LoadsAssumption
  MaxFailures,  \* bound on the loads that fail
  MaxCrashes    \* bound on the crashes of the caller

\* A load: "ordered" for ingest_from_ordered_paths or "single" for
\* ingest_from_path; IngestionOptions.max_rows, 0 for None; alert_at_or_above;
\* and the files that arrive, each a sequence of cells.
Cell == [kind : {"null", "finite", "nonfinite"}, v : Int]
ASSUME LoadsAssumption == \A load \in Loads :
  /\ load.files \in Seq(Seq(Cell))
  /\ load.api \in {"ordered", "single"} /\ load.max_rows \in Nat
  /\ load.alert_at \in {"error", "critical"}
  /\ load.api = "single" => Len(load.files) = 1
ASSUME BoundsAssumption == MaxFailures \in Nat /\ MaxCrashes \in Nat

\* A load whose max_rows cannot cut off a row below the maximum watermark of
\* what is returned: there is none, or one file that is in order.
InOrder(cells) == \A i \in DOMAIN cells, j \in DOMAIN cells :
  (i < j /\ cells[i].kind = "finite" /\ cells[j].kind = "finite") =>
    cells[i].v < cells[j].v
Resumable(load) ==
  load.max_rows > 0 => load.api = "single" /\ InOrder(load.files[1])

\* The producer's side: watermarks start at 1, and a file has only greater
\* ones than the files before it.
ASSUME ProducerAssumption == \A load \in Loads :
  LET h == load.files IN
  \A f \in DOMAIN h, g \in DOMAIN h : \A i \in DOMAIN h[f], j \in DOMAIN h[g] :
    (h[f][i].kind = "finite" /\ h[g][j].kind = "finite") =>
      h[f][i].v >= 1 /\ (f < g => h[f][i].v < h[g][j].v)

VARIABLES
  load,       \* the load chosen
  published,  \* how many files are there
  call,       \* "idle", "reading", "returned" or "taken"
  listed,     \* the call's paths are files 1..listed
  next,       \* the path ingest_from_ordered_paths is at
  batch,      \* all_rows, and then the rows of the DataSet returned
  maximum,    \* OrderedBatchIngestMetadata.max_watermark_value, 0 for None
  told,       \* what the call's observer was told
  floor,      \* what the caller saved: its next watermark_exclusive_above
  taken,      \* how often the caller has taken each row, up to 2
  failures, crashes

vars == <<load, published, call, listed, next, batch, maximum, told, floor,
          taken, failures, crashes>>
locals == <<listed, next, batch, maximum, told>>

content == load.files

\* The rows of file f; a row is known by its file and place.
RowsOf(f) == [i \in 1..Len(content[f]) |->
                [file |-> f, at |-> i, cell |-> content[f][i]]]
RowsOfFiles(files) ==
  UNION {{RowsOf(f)[i] : i \in DOMAIN RowsOf(f)} : f \in files}
Published == RowsOfFiles(1..published)
AllRows == RowsOfFiles(DOMAIN content)

Init ==
  /\ load \in Loads
  /\ published = 0
  /\ call = "idle"
  /\ listed = 0 /\ next = 1 /\ batch = <<>> /\ maximum = 0 /\ told = <<>>
  /\ floor = 0
  /\ taken = [row \in AllRows |-> 0]
  /\ failures = 0 /\ crashes = 0

\* A file arrives, complete.
Publish ==
  /\ published < Len(content)
  /\ published' = published + 1
  /\ UNCHANGED <<load, call, floor, taken, failures, crashes>>
  /\ UNCHANGED locals
-----------------------------------------------------------------------------
(* The call.  validate_watermark_config lets it pass: the column and a     *)
(* floor of its type are both given.  An empty list is refused at once.    *)

BeginCall ==
  /\ call = "idle" /\ published > 0
  /\ call' = "reading"
  /\ listed' = published /\ next' = 1
  /\ batch' = <<>> /\ maximum' = 0 /\ told' = <<>>
  /\ UNCHANGED <<load, published, floor, taken, failures, crashes>>

Success(f, rows) == [on |-> "success", file |-> f, rows |-> Len(rows)]
Failure(f) == [on |-> "failure", file |-> f, rows |-> 0]
Alert(f) == [on |-> "alert", file |-> f, rows |-> 0]

\* What ingest_from_path makes of a file's rows: filter, then truncate.  In an
\* ordered batch its options have no watermark, and still have max_rows.
\* Mutant: truncate, then filter.
TruncatedFirst(f) == Filtered(Truncated(RowsOf(f), load.max_rows), floor)
LoadedAlone(f) == Truncated(Filtered(RowsOf(f), floor), load.max_rows)
LoadedInBatch(f) == Truncated(RowsOf(f), load.max_rows)
Loaded(f) == IF load.api = "single" THEN LoadedAlone(f) ELSE LoadedInBatch(f)

LoadFile ==
  /\ call = "reading" /\ next <= listed
  /\ batch' = batch \o Loaded(next)
  /\ told' = Append(told, Success(next, Loaded(next)))
  /\ next' = next + 1
  /\ UNCHANGED <<load, published, call, listed, maximum, floor, taken,
                 failures, crashes>>

\* Mutant: a caller's threshold silences on_failure too.
AlertInstead(f, severity) ==
  IF severity = "critical" \/ load.alert_at = "error" THEN <<Alert(f)>>
  ELSE <<Failure(f)>>

\* An I/O error is critical, a parse error is not; see severity_for_error.
Notifications(f, severity) ==
  <<Failure(f)>> \o
  (IF severity = "critical" \/ load.alert_at = "error" THEN <<Alert(f)>> ELSE <<>>)

\* Mutant: a file that fails is left out of the batch.
SkipTheFile == next' = next + 1 /\ UNCHANGED <<call, batch>>

\* `?`: the whole call returns the error, with none of the rows.
ReturnError == call' = "idle" /\ batch' = <<>> /\ UNCHANGED next

LoadFails ==
  /\ call = "reading" /\ next <= listed
  /\ failures < MaxFailures /\ failures' = failures + 1
  /\ \E severity \in {"error", "critical"} :
       told' = told \o Notifications(next, severity)
  /\ ReturnError
  /\ UNCHANGED <<load, published, listed, maximum, floor, taken, crashes>>

\* Once over the whole batch: filter, truncate, maximum of what is left.
Returned == Truncated(Filtered(batch, floor), load.max_rows)

FinishBatch ==
  /\ call = "reading" /\ next > listed
  /\ batch' = IF load.api = "single" THEN batch ELSE Returned
  /\ maximum' = MaxValue(batch', 0)
  /\ call' = "returned"
  /\ UNCHANGED <<load, published, listed, next, told, floor, taken, failures,
                 crashes>>
-----------------------------------------------------------------------------
(* The caller.                                                             *)

InBatch(row) == \E i \in DOMAIN batch : batch[i] = row

TakeRows ==
  /\ call = "returned"
  /\ taken' = [row \in AllRows |->
       IF InBatch(row) /\ taken[row] < 2 THEN taken[row] + 1 ELSE taken[row]]
  /\ call' = "taken"
  /\ UNCHANGED <<load, published, floor, failures, crashes>>
  /\ UNCHANGED locals

\* max_watermark_value is None when no row is above the floor: keep the floor.
SaveFloor ==
  /\ call = "taken"
  /\ floor' = IF maximum = 0 THEN floor ELSE maximum
  /\ call' = "idle"
  /\ UNCHANGED <<load, published, taken, failures, crashes>>
  /\ UNCHANGED locals

Crash ==
  /\ call # "idle"
  /\ crashes < MaxCrashes /\ crashes' = crashes + 1
  /\ call' = "idle" /\ batch' = <<>>
  /\ UNCHANGED <<load, published, listed, next, maximum, told, floor, taken,
                 failures>>
-----------------------------------------------------------------------------
CallStep == BeginCall \/ LoadFile \/ FinishBatch \/ TakeRows \/ SaveFloor

Next == Publish \/ CallStep \/ LoadFails \/ Crash

\* The caller goes on calling, and every step of a call ends.
Spec == Init /\ [][Next]_vars /\ WF_vars(CallStep)
-----------------------------------------------------------------------------
Notices == [on : {"success", "failure", "alert"}, file : Nat, rows : Nat]
TypeOK ==
  /\ load \in Loads
  /\ published \in 0..Len(content)
  /\ call \in {"idle", "reading", "returned", "taken"}
  /\ listed \in 0..published /\ next \in 1..(listed + 1)
  /\ batch \in Seq(AllRows) /\ told \in Seq(Notices)
  /\ maximum \in Nat /\ floor \in Nat
  /\ taken \in [AllRows -> 0..2]
  /\ failures \in 0..MaxFailures /\ crashes \in 0..MaxCrashes

(***************************************************************************)
(* A floor leaves nothing behind: every row that is not above the floor    *)
(* the caller saved has been taken, whatever files arrived or failed to    *)
(* load in between and wherever the caller crashed (rows with a null are   *)
(* never returned).                                                        *)
(***************************************************************************)
NothingSkipped == \A row \in Published :
  (row.cell.kind = "finite" /\ row.cell.v <= floor) => taken[row] > 0

(***************************************************************************)
(* Nothing with a finite watermark is taken twice, except when the caller  *)
(* crashed.                                                                *)
(***************************************************************************)
TakenOnce == \A row \in AllRows :
  (row.cell.kind = "finite" /\ crashes = 0) => taken[row] <= 1

(***************************************************************************)
(* Every row that has arrived is taken in the end, unless its watermark is *)
(* null.                                                                   *)
(***************************************************************************)
EverythingTaken ==
  <>[](\A row \in Published : row.cell.kind # "null" => taken[row] > 0)

(***************************************************************************)
(* What the observer has been told is what the call has done: a success    *)
(* for each file, in the order of the paths, with as many rows as the      *)
(* batch has of it; and of a call that failed, one failure after those, at *)
(* the end, or with the alert after it if the severity asks for one.       *)
(***************************************************************************)
AllRead(n) == Len(told) = n /\ \A i \in 1..n : told[i].on = "success"
FromFile(f) == {k \in DOMAIN batch : batch[k].file = f}
ObserverFollows ==
  /\ \A i \in DOMAIN told :
       /\ told[i].on = "success" =>
            told[i].file = i /\ \A j \in 1..i : told[j].on = "success"
       /\ told[i].on = "failure" =>
            /\ told[i].file = i
            /\ i = Len(told) \/ (i + 1 = Len(told) /\ told[i + 1] = Alert(i))
       /\ told[i].on = "alert" => i > 1 /\ told[i - 1] = Failure(i - 1)
  /\ call = "reading" =>
       /\ AllRead(next - 1)
       /\ \A f \in 1..(next - 1) : told[f].rows = Cardinality(FromFile(f))
       /\ \A k \in DOMAIN batch : batch[k].file < next
  /\ call \in {"returned", "taken"} => AllRead(listed)

(***************************************************************************)
(* What IngestionOptions says of max_rows: "After ingest (and watermark    *)
(* filter), keep at most this many rows from the start of the dataset".    *)
(***************************************************************************)
MaxRowsAfterFilter == call = "returned" =>
  batch = Truncated(Filtered(FlattenSeq([f \in 1..listed |-> RowsOf(f)]), floor),
                    load.max_rows)
=============================================================================
