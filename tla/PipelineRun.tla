---------------------------- MODULE PipelineRun ----------------------------
(***************************************************************************)
(* bindings/jvm-sys/src/pipeline_run.rs: rdp_run_pipeline_json.  One       *)
(* request goes through its stages (parse, ingest, transform, and its      *)
(* sinks one by one), with the deadline checked between them; a sink has   *)
(* effects that outlast the call.  The host may submit the same request    *)
(* again, whether it got an answer, an error or, after a crash, nothing.   *)
(*                                                                         *)
(* The rows a sink is given are 1..n; a table is how often it has each of  *)
(* them.  The databases and stores are outside the repository: a call to   *)
(* one is refused when its own rules say so, and may also fail, before or  *)
(* after it took effect.                                                   *)
(***************************************************************************)
EXTENDS Integers, Sequences, FiniteSets, FiniteSetsExt, SequencesExt

CONSTANTS
  Requests,     \* see RequestsAssumption
  MaxRow,       \* bound on the rows given to a sink
  MaxAttempts,  \* bound on how often the request is submitted
  MaxFaults     \* bound on the calls that fail for an outside reason

Databases == {"postgresql", "mssql", "oracle"}
Files == {"file", "handoff"}
Kinds == Databases \cup Files \cup {"staged", "pending"}

\* A request: flaw is the stage of the error its validation ends in, or
\* "none"; limit is max_ingested_rows, 0 for none; timeout says whether there
\* is a deadline.  A sink: rows is what its SQL leaves; absent, whether its
\* table or file is not there at first.
AllSources == [rows : Nat, from : {"path", "other"}]
AllSinks == [kind : Kinds, create : BOOLEAN, truncate : BOOLEAN,
             absent : BOOLEAN, rows : 0..MaxRow]
Submissions == [flaw : {"none", "parse", "ingest"}, limit : Nat,
                timeout : BOOLEAN, sources : Seq(AllSources),
                sinks : Seq(AllSinks) \ {<<>>}]
ASSUME RequestsAssumption == Requests \subseteq Submissions
ASSUME BoundsAssumption ==
  MaxRow \in Nat /\ MaxAttempts \in Nat /\ MaxFaults \in Nat

VARIABLES
  request,   \* what is submitted, every time
  attempts,  \* how often it has been
  run,       \* the locals of the call under way, or of the last one
  target,    \* what each sink's table, file or object holds
  before,    \* what it held when the call began
  faults

vars == <<request, attempts, run, target, before, faults>>

NoRows == [row \in 1..MaxRow |-> 0]
Absent == [state |-> "absent", count |-> NoRows]
New == [state |-> "there", count |-> NoRows]
BrokenFile == [state |-> "broken", count |-> NoRows]
Added(count, first, last) == [row \in 1..MaxRow |->
  IF row \in first..last THEN count[row] + 1 ELSE count[row]]
With(table, first, last) == [table EXCEPT !.count = Added(@, first, last)]

\* answer: "none", "ok", or the stage of the error.  ignored: sinks whose
\* failed DROP TABLE went unnoticed.
Fresh == [pc |-> "parse", late |-> FALSE, at |-> 1, rows |-> 0,
          step |-> "none", sent |-> 0, results |-> <<>>, answer |-> "none",
          faulty |-> FALSE, ignored |-> {}]

Init ==
  /\ request \in Requests
  /\ attempts = 0
  /\ run = [Fresh EXCEPT !.pc = "idle"]
  /\ target = [i \in DOMAIN request.sinks |->
                 IF request.sinks[i].absent THEN Absent ELSE New]
  /\ before = target
  /\ faults = 0

Sinks == request.sinks
Sink == Sinks[run.at]
Target == target[run.at]
SinksLeft == run.at <= Len(Sinks)
-----------------------------------------------------------------------------
Submit ==
  /\ run.pc = "idle" /\ attempts < MaxAttempts
  /\ attempts' = attempts + 1
  /\ run' = Fresh /\ before' = target
  /\ UNCHANGED <<request, target, faults>>

Advance(state) ==
  /\ run' = state
  /\ UNCHANGED <<request, attempts, target, before, faults>>

\* A step that fails for a reason outside the program.
Fault ==
  /\ faults < MaxFaults /\ faults' = faults + 1
  /\ UNCHANGED <<request, attempts, before>>

At(pc) == [run EXCEPT !.pc = pc]
Failed(stage) == [run EXCEPT !.pc = "idle", !.answer = stage]
Faulty(state) == [state EXCEPT !.faulty = TRUE]

PassDeadline ==
  /\ run.pc # "idle" /\ request.timeout /\ ~run.late
  /\ Advance([run EXCEPT !.late = TRUE])

\* check_deadline: where it is called, and the stage it names.
Checks == [parsed |-> "parse", ingested |-> "ingest", framed |-> "transform",
           sinks |-> "sink"]
InTime == ~run.late
TimeOut ==
  /\ run.pc \in DOMAIN Checks /\ ~InTime
  /\ run.pc = "sinks" => SinksLeft
  /\ Advance(Failed(Checks[run.pc]))

Parse ==
  /\ run.pc = "parse"
  /\ Advance(IF request.flaw = "none" THEN At("parsed")
             ELSE Failed(request.flaw))

(* Ingest, source by source.                                               *)

BeginIngest == run.pc = "parsed" /\ InTime /\ Advance(At("ingest"))

SourcesLeft == run.at <= Len(request.sources)
LoadSource ==
  /\ run.pc = "ingest" /\ SourcesLeft
  /\ Advance([run EXCEPT !.at = @ + 1,
                         !.rows = @ + request.sources[run.at].rows])

SourceFails ==
  /\ run.pc = "ingest" /\ SourcesLeft
  /\ Fault /\ run' = Faulty(Failed("ingest")) /\ UNCHANGED target

\* An empty result is an error, and that before the deadline is checked.
FinishIngest ==
  /\ run.pc = "ingest" /\ ~SourcesLeft
  /\ Advance(IF run.rows = 0 THEN Failed("ingest") ELSE At("ingested"))

\* Mutant: each source has the budget to itself.
EachOverBudget ==
  /\ request.limit > 0
  /\ \E i \in DOMAIN request.sources : request.sources[i].rows > request.limit

\* The rows of all the sources, not only those of the ordered paths.
OverBudget == request.limit > 0 /\ run.rows > request.limit

CheckBudget ==
  /\ run.pc = "ingested" /\ InTime
  /\ Advance(IF OverBudget THEN Failed("ingest") ELSE At("framing"))

(* Transform: DataFrame::from_dataset, the deadline, the SQL.              *)

MakeFrame == run.pc = "framing" /\ Advance(At("framed"))

Transform ==
  /\ run.pc = "framed" /\ InTime
  /\ Advance([At("sinks") EXCEPT !.at = 1])

TransformFails ==
  /\ run.pc = "framing" \/ (run.pc = "framed" /\ InTime)
  /\ Fault /\ run' = Faulty(Failed("transform")) /\ UNCHANGED target
-----------------------------------------------------------------------------
(* The loop over the sinks.                                                *)

\* The sink's result is pushed, and the loop goes on.
Recorded(status) ==
  [run EXCEPT !.pc = "sinks", !.at = @ + 1, !.step = "none", !.sent = 0,
     !.results = Append(@, status)]

\* Iceberg, Delta on a cloud warehouse, and drivers that are not built in.
Pending == Sink.kind = "pending"

BeginSink ==
  /\ run.pc = "sinks" /\ SinksLeft /\ InTime
  /\ Advance(IF Pending THEN Recorded("pending")
             ELSE [At("write") EXCEPT !.step = "connect"])

\* The sink's SQL, or the collect of its rows, fails: the whole call does.
SinkQueryFails ==
  /\ run.pc = "sinks" /\ SinksLeft /\ InTime
  /\ \E stage \in {"sink_sql", "sink"} :
       run' = Faulty(Failed(stage)) /\ (Pending => stage = "sink_sql")
  /\ Fault /\ UNCHANGED target

FinishRun ==
  /\ run.pc = "sinks" /\ ~SinksLeft
  /\ Advance([At("idle") EXCEPT !.answer = "ok"])

(* Files and objects are replaced as a whole.  A local file that fails in  *)
(* between is left as it was or broken, and fails the call, or the sink if *)
(* it is a Spark handoff.  The put of an object happens or does not, and   *)
(* its error is the sink's.                                                *)

Whole == With(New, 1, Sink.rows)
Writing(kinds) == run.pc = "write" /\ Sink.kind \in kinds

WriteWhole ==
  /\ Writing(Files \cup {"staged"})
  /\ target' = [target EXCEPT ![run.at] = Whole]
  /\ run' = Recorded("ok")
  /\ UNCHANGED <<request, attempts, before, faults>>

WriteFileFails ==
  /\ Writing(Files)
  /\ \E left \in {Target, BrokenFile} : target' = [target EXCEPT ![run.at] = left]
  /\ run' = Faulty(IF Sink.kind = "file" THEN Failed("sink")
                   ELSE Recorded("error"))
  /\ Fault

PutObjectFails ==
  /\ Writing({"staged"})
  /\ \E left \in {Target, Whole} : target' = [target EXCEPT ![run.at] = left]
  /\ run' = Faulty(Recorded("error"))
  /\ Fault
-----------------------------------------------------------------------------
(* postgres_copy_sink, mssql_row_sink, oracle_row_sink: the statements a   *)
(* sink sends, one at a time.  PostgreSQL's COPY and Oracle's transaction  *)
(* show their rows at the end, SQL Server's inserts one by one.            *)

\* Mutant: the table is cleared after the rows.
ClearLast(kind) == <<"connect", "create", "insert", "clear", "commit">>

Statements(kind) ==
  IF kind = "oracle" THEN <<"connect", "clear", "create", "insert", "commit">>
  ELSE <<"connect", "create", "clear", "insert", "commit">>

StepAfter(step) ==
  LET s == Statements(Sink.kind)
  IN  s[1 + CHOOSE i \in DOMAIN s : s[i] = step]

Exists == Target.state = "there"
RowsToSend == run.sent < Sink.rows

NoTable == run.step = "insert" /\ RowsToSend /\ ~Exists

\* Mutant: the DDL for PostgreSQL has no IF NOT EXISTS.
CreatedTwice ==
  \/ run.step = "create" /\ Sink.create /\ Exists
  \/ run.step = "clear" /\ Sink.truncate /\ ~Exists
  \/ NoTable

\* The statement is refused.  PostgreSQL: CREATE TABLE IF NOT EXISTS, but
\* TRUNCATE wants a table.  SQL Server: both ask for the table first.  Oracle:
\* CREATE TABLE does not ask, and a DROP may fail.
PostgresRefuses ==
  \/ run.step = "clear" /\ Sink.truncate /\ ~Exists
  \/ NoTable
MssqlRefuses == NoTable
OracleRefuses ==
  \/ run.step = "create" /\ Sink.create /\ Exists
  \/ NoTable

\* Mutant: every insert is committed.
CommittedByRow ==
  CASE run.step = "clear" /\ Sink.truncate -> Absent
    [] run.step = "create" /\ Sink.create -> New
    [] run.step = "insert" /\ RowsToSend ->
         With(Target, run.sent + 1, run.sent + 1)
    [] OTHER -> Target

\* What the table holds after the statement.
PostgresEffect ==
  CASE run.step = "create" /\ Sink.create /\ ~Exists -> New
    [] run.step = "clear" /\ Sink.truncate -> New
    [] run.step = "commit" -> With(Target, 1, Sink.rows)
    [] OTHER -> Target

MssqlEffect ==
  CASE run.step = "create" /\ Sink.create /\ ~Exists -> New
    [] run.step = "clear" /\ Sink.truncate /\ Exists -> New
    [] run.step = "insert" /\ RowsToSend ->
         With(Target, run.sent + 1, run.sent + 1)
    [] OTHER -> Target

OracleEffect ==
  CASE run.step = "clear" /\ Sink.truncate -> Absent
    [] run.step = "create" /\ Sink.create -> New
    [] run.step = "commit" -> With(Target, 1, Sink.rows)
    [] OTHER -> Target

Refused == CASE Sink.kind = "postgresql" -> PostgresRefuses
             [] Sink.kind = "mssql" -> MssqlRefuses
             [] Sink.kind = "oracle" -> OracleRefuses
Effect == CASE Sink.kind = "postgresql" -> PostgresEffect
            [] Sink.kind = "mssql" -> MssqlEffect
            [] Sink.kind = "oracle" -> OracleEffect

Executed ==
  CASE run.step = "commit" -> Recorded("ok")
    [] run.step = "insert" /\ RowsToSend -> [run EXCEPT !.sent = @ + 1]
    [] OTHER -> [run EXCEPT !.step = StepAfter(@)]

AtDatabase == Writing(Databases)

Execute ==
  /\ AtDatabase /\ ~Refused
  /\ target' = [target EXCEPT ![run.at] = Effect]
  /\ run' = Executed
  /\ UNCHANGED <<request, attempts, before, faults>>

\* An error of a database is the sink's result, and the call goes on; what
\* was not committed is gone with the connection.
StatementRefused == AtDatabase /\ Refused /\ Advance(Recorded("error"))

Dropping == run.step = "clear" /\ Sink.truncate /\ Sink.kind = "oracle"

\* Whether the step sends anything: an option that is off, no rows, and the
\* end of SQL Server's inserts do not.
Sends ==
  \/ run.step = "connect"
  \/ run.step = "create" /\ Sink.create
  \/ run.step = "clear" /\ Sink.truncate /\ ~Dropping
  \/ run.step = "insert" /\ RowsToSend
  \/ run.step = "commit" /\ (Sink.kind = "oracle"
                               \/ (Sink.kind = "postgresql" /\ Sink.rows > 0))

StatementFails ==
  /\ AtDatabase /\ ~Refused /\ Sends
  /\ \E left \in {Target, Effect} : target' = [target EXCEPT ![run.at] = left]
  /\ run' = Faulty(Recorded("error"))
  /\ Fault

\* `let _ = conn.execute("DROP TABLE ...")`
DropFails ==
  /\ AtDatabase /\ Dropping /\ Exists
  /\ run' = Faulty([Executed EXCEPT !.ignored = @ \cup {run.at}])
  /\ Fault /\ UNCHANGED target
-----------------------------------------------------------------------------
\* The process dies.  The connections close; a file may be cut short.
Crash ==
  /\ run.pc # "idle"
  /\ run' = Faulty(Failed("none"))
  /\ target' \in {target} \cup
       (IF run.pc = "write" /\ Sink.kind \in Files
        THEN {[target EXCEPT ![run.at] = BrokenFile]} ELSE {})
  /\ Fault

Next ==
  \/ Submit \/ PassDeadline \/ TimeOut \/ Crash
  \/ Parse \/ BeginIngest \/ LoadSource \/ SourceFails \/ FinishIngest
  \/ CheckBudget \/ MakeFrame \/ Transform \/ TransformFails
  \/ BeginSink \/ SinkQueryFails \/ FinishRun \/ WriteWhole
  \/ WriteFileFails \/ PutObjectFails
  \/ Execute \/ StatementRefused \/ StatementFails \/ DropFails

Spec == Init /\ [][Next]_vars
-----------------------------------------------------------------------------
Pcs == {"idle", "parse", "parsed", "ingest", "ingested", "framing", "framed",
        "sinks", "write"}
Steps == {"none", "connect", "create", "clear", "insert", "commit"}
Stages == {"parse", "ingest", "transform", "sink_sql", "sink"}

Results == {"ok", "error", "pending"}
Runs == [pc : Pcs, late : BOOLEAN, at : Nat, rows : Nat, step : Steps,
         sent : Nat, results : Seq(Results), answer : {"none", "ok"} \cup Stages,
         faulty : BOOLEAN, ignored : SUBSET Nat]
Tables == [state : {"absent", "there", "broken"}, count : [1..MaxRow -> Nat]]

TypeOK ==
  /\ request \in Requests /\ run \in Runs
  /\ attempts \in 0..MaxAttempts /\ faults \in 0..MaxFaults
  /\ Len(run.results) <= Len(Sinks) /\ run.ignored \subseteq DOMAIN Sinks
  /\ target \in [DOMAIN Sinks -> Tables] /\ before \in [DOMAIN Sinks -> Tables]

Answered == run.pc = "idle" /\ run.answer # "none"
InKind(kinds) == {i \in DOMAIN Sinks : Sinks[i].kind \in kinds}

\* The load a result of "ok" stands for: once and alone in what is replaced
\* or truncated, else on top of what was there.
Replaces(i) == Sinks[i].kind \notin Databases
               \/ (Sinks[i].truncate /\ i \notin run.ignored)
Load(i) == With(IF Replaces(i) THEN New ELSE before[i], 1, Sinks[i].rows).count

(***************************************************************************)
(* What an answer says has happened.  A result of "ok" means exactly one   *)
(* load of this call's rows, and only those after truncate_before_load,    *)
(* whatever earlier calls, errors and crashes left; a sink with an error   *)
(* of PostgreSQL or Oracle is as before, emptied, or loaded; and an error  *)
(* of the call leaves the sinks behind the one that failed alone.          *)
(***************************************************************************)
AnswerIsTrue == Answered =>
  /\ run.answer = "ok" => Len(run.results) = Len(Sinks)
  /\ \A i \in DOMAIN run.results :
       /\ run.results[i] = "ok" =>
            /\ target[i].count = Load(i)
            /\ Sinks[i].rows > 0 => target[i].state = "there"
       /\ run.results[i] = "pending" => target[i] = before[i]
       /\ (run.results[i] = "error" /\ Sinks[i].kind \in {"postgresql", "oracle"})
            => target[i].count \in {before[i].count, NoRows, Load(i)}
  /\ \A i \in DOMAIN Sinks \ DOMAIN run.results :
       target[i] # before[i] =>
         /\ i = Len(run.results) + 1 /\ run.answer = "sink"
         /\ Sinks[i].kind = "file" /\ target[i] = BrokenFile

(***************************************************************************)
(* At every moment, also in the middle of a call and after a crash, a      *)
(* PostgreSQL or Oracle table holds whole loads and a readable file or     *)
(* object one whole load or what was there first; a SQL Server table may   *)
(* hold the first rows of a load.                                          *)
(***************************************************************************)
IsWhole(sink, table) ==
  /\ sink.kind \in {"postgresql", "oracle"} =>
       \A r \in 1..sink.rows : table.count[r] = table.count[1]
  /\ sink.kind = "mssql" =>
       \A r \in 2..MaxRow : table.count[r] <= table.count[r - 1]
  /\ sink.kind \in Files \cup {"staged"} /\ table.state = "there" =>
       table \in {New, With(New, 1, sink.rows)}
WholeLoads == \A i \in DOMAIN Sinks : IsWhole(Sinks[i], target[i])

(***************************************************************************)
(* A request that is refused, has no rows, or has more of them from all    *)
(* its sources than max_ingested_rows (documented as a cap on those from   *)
(* ordered paths: see BudgetIsOfPaths), never touches a sink.              *)
(***************************************************************************)
RowsOf(sources) ==
  LET upto[n \in 0..Len(sources)] ==
        IF n = 0 THEN 0 ELSE upto[n - 1] + sources[n].rows
  IN  upto
RowsGiven == RowsOf(request.sources)[Len(request.sources)]
Admitted ==
  /\ request.flaw = "none" /\ RowsGiven > 0
  /\ request.limit > 0 => RowsGiven <= request.limit
NothingUnlessAdmitted ==
  (\E i \in DOMAIN Sinks :
     target[i] # (IF Sinks[i].absent THEN Absent ELSE New)) => Admitted

(***************************************************************************)
(* What the sinks hold, whenever one looks: whole loads of rows that were  *)
(* admitted.                                                               *)
(***************************************************************************)
SinksAreSound == WholeLoads /\ NothingUnlessAdmitted

(***************************************************************************)
(* What OrchestrationSpec says of max_ingested_rows: "Hard cap on ingested *)
(* row count from ordered paths" (docs/adr/006: "cap on rows from          *)
(* ordered-path ingest").  With rows, without a deadline and with nothing  *)
(* gone wrong, a request is refused only if its paths have more.           *)
(***************************************************************************)
OfPaths == SelectSeq(request.sources, LAMBDA source : source.from = "path")
BudgetIsOfPaths ==
  (/\ run.pc = "idle" /\ run.answer = "ingest" /\ request.flaw = "none"
   /\ RowsGiven > 0 /\ ~request.timeout /\ ~run.faulty) =>
    RowsOf(OfPaths)[Len(OfPaths)] > request.limit

(***************************************************************************)
(* Without faults, a database sink whose table is there or may be created  *)
(* is loaded, by the first call and by every later one.                    *)
(***************************************************************************)
LoadsWhenHealthy(kinds) ==
  (run.pc = "idle" /\ run.answer = "ok" /\ ~run.faulty) =>
    \A i \in InKind(kinds) :
      (Sinks[i].create \/ before[i].state = "there") => run.results[i] = "ok"

PostgresAndMssqlLoad == LoadsWhenHealthy({"postgresql", "mssql"})

(***************************************************************************)
(* The same of Oracle, as the options promise: "create_table_if_missing",  *)
(* "truncate_before_load", "same pattern as PostgreSQL sink".              *)
(***************************************************************************)
OracleLoads == LoadsWhenHealthy({"oracle"})
=============================================================================
