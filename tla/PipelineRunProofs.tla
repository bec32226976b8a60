------------------------- MODULE PipelineRunProofs -------------------------
(***************************************************************************)
(* Proofs about module PipelineRun, for every set of requests and every    *)
(* number of attempts and faults: what an answer says has happened, what   *)
(* the sinks hold at any moment, and that a healthy sink is loaded.        *)
(***************************************************************************)
EXTENDS PipelineRun, Induction

\* What a load adds its rows to, and whether a step has got there.
Base(s, b, ign) == IF s.kind \notin Databases \/ (s.truncate /\ ~ign)
                   THEN NoRows ELSE b.count
Cleared(kind, step) ==
  step \in {"insert", "commit"} \/ (kind = "oracle" /\ step = "create")
MustLoad(s, b) ==
  s.kind \in {"postgresql", "mssql"} /\ (s.create \/ b.state = "there")

\* A sink half way: t is what its table holds, and b what it held when the
\* call began; ign says that a DROP TABLE went wrong unnoticed.
Progress(s, t, b, step, sent, ign) ==
  LET base == IF Cleared(s.kind, step) THEN Base(s, b, ign) ELSE b.count
  IN  /\ step # "none" /\ (s.kind \notin Databases => step = "connect")
      /\ step = "connect" \/ (step = "create" /\ s.kind # "oracle") => t = b
      /\ sent <= s.rows /\ (sent > 0 => t.state = "there")
      /\ step \notin {"insert", "commit"} => sent = 0
      /\ step = "commit" => sent = s.rows
      /\ t.count = IF s.kind = "mssql" THEN Added(base, 1, sent) ELSE base
      /\ (MustLoad(s, b) /\ step \in {"clear", "insert", "commit"}) =>
           t.state = "there"
      /\ ign => s.kind = "oracle" /\ step \in {"create", "insert", "commit"}

\* A sink whose result is known.
Outcome(s, t, b, result, ign, faulty) ==
  LET loaded == Added(Base(s, b, ign), 1, s.rows)
  IN  /\ result = "ok" =>
           t.count = loaded /\ (s.rows > 0 => t.state = "there")
      /\ result = "pending" => t = b
      /\ (result = "error" /\ s.kind \in {"postgresql", "oracle"}) =>
           t.count \in {b.count, NoRows, loaded}
      /\ ~faulty /\ MustLoad(s, b) => result = "ok"

IsTable(s, t) ==
  /\ IsWhole(s, t)
  /\ s.kind \in Databases => t.state # "broken"
  /\ t.state = "absent" => t.count = NoRows

(***************************************************************************)
(* The invariant.  What is known of the tables, of the call's progress, of *)
(* the sinks that have a result, of those that have none, of the one that  *)
(* is being written, and of the rows that were read for them.              *)
(***************************************************************************)
TablesInv == \A i \in DOMAIN Sinks :
  IsTable(Sinks[i], target[i]) /\ IsTable(Sinks[i], before[i])

RunInv ==
  /\ run.pc \notin {"idle", "sinks", "write"} =>
       run.results = <<>> /\ run.ignored = {} /\ target = before
  /\ run.pc \notin {"idle", "write"} => run.sent = 0
  /\ run.pc \in {"sinks", "write"} => run.at = Len(run.results) + 1
  /\ run.pc = "write" => run.at <= Len(Sinks) /\ Sink.kind # "pending"
  /\ run.pc = "sinks" => \A i \in run.ignored : i < run.at
  /\ run.pc = "write" => \A i \in run.ignored : i <= run.at
  /\ run.pc # "idle" => run.answer = "none"
  /\ run.answer = "ok" => Len(run.results) = Len(Sinks)

Done == \A i \in DOMAIN run.results :
  Outcome(Sinks[i], target[i], before[i], run.results[i],
          i \in run.ignored, run.faulty)

MayDiffer(i) ==
  \/ run.pc = "write" /\ i = run.at
  \/ run.pc = "idle" /\ run.answer = "none"
  \/ /\ run.pc = "idle" /\ run.answer = "sink"
     /\ i = Len(run.results) + 1 /\ Sinks[i].kind = "file" /\ target[i] = BrokenFile
Rest == \A i \in DOMAIN Sinks :
  i > Len(run.results) /\ target[i] # before[i] => MayDiffer(i)

Current == run.pc = "write" =>
  Progress(Sink, Target, before[run.at], run.step, run.sent,
           run.at \in run.ignored)

ReadingOf(pc, at, rows) ==
  /\ pc \in {"parse", "parsed"} => rows = 0 /\ at = 1
  /\ pc \in Pcs \ {"idle", "parse"} => request.flaw = "none"
  /\ pc = "ingest" =>
       /\ at \in 1..(Len(request.sources) + 1)
       /\ rows = RowsOf(request.sources)[at - 1]
  /\ pc = "ingested" => rows = RowsGiven /\ RowsGiven > 0
  /\ pc \in {"framing", "framed", "sinks", "write"} => Admitted
Reading == ReadingOf(run.pc, run.at, run.rows)

SinksInv == /\ TypeOK /\ TablesInv /\ RunInv /\ Done /\ Rest /\ Current
            /\ Reading /\ NothingUnlessAdmitted
-----------------------------------------------------------------------------
LEMMA RequestFacts ==
  \A q \in Requests :
    /\ q.flaw \in {"none", "parse", "ingest"} /\ q.limit \in Nat
    /\ q.sources \in Seq(AllSources)
    /\ q.sinks \in Seq(AllSinks) /\ Len(q.sinks) > 0
<1> SUFFICES ASSUME NEW q \in Requests
             PROVE  /\ q.flaw \in {"none", "parse", "ingest"} /\ q.limit \in Nat
                    /\ q.sources \in Seq(AllSources)
                    /\ q.sinks \in Seq(AllSinks) /\ Len(q.sinks) > 0
  OBVIOUS
<1>1. q \in Submissions
  BY RequestsAssumption
<1>2. /\ q.flaw \in {"none", "parse", "ingest"} /\ q.limit \in Nat
      /\ q.sources \in Seq(AllSources)
      /\ q.sinks \in Seq(AllSinks) \ {<<>>}
  BY <1>1 DEF Submissions
<1>3. Len(q.sinks) > 0
  BY <1>2
<1> QED
  BY <1>2, <1>3

Counts == [1..MaxRow -> Nat]

\* What adding rows to a table does.
LEMMA AddedFacts ==
  ASSUME NEW count \in Counts, NEW last \in Nat
  PROVE  /\ Added(count, 1, last) \in Counts
         /\ \A r \in 1..MaxRow :
              Added(count, 1, last)[r] = IF r <= last THEN count[r] + 1 ELSE count[r]
<1> DEFINE a == Added(count, 1, last)
<1>1. a = [row \in 1..MaxRow |-> IF row \in 1..last THEN count[row] + 1 ELSE count[row]]
  BY DEF Added
<1> HIDE DEF a
<1>2. \A r \in 1..MaxRow : a[r] = IF r <= last THEN count[r] + 1 ELSE count[r]
  BY <1>1, BoundsAssumption
<1>3. a \in Counts
  BY <1>1, BoundsAssumption DEF Counts
<1> QED
  BY <1>2, <1>3 DEF a

LEMMA NothingAdded ==
  ASSUME NEW count \in Counts PROVE Added(count, 1, 0) = count
BY BoundsAssumption DEF Added, Counts

\* One row more, after those up to n.
LEMMA OneMoreAdded ==
  ASSUME NEW count \in Counts, NEW n \in Nat
  PROVE  Added(Added(count, 1, n), n + 1, n + 1) = Added(count, 1, n + 1)
<1> DEFINE a == Added(count, 1, n)
<1>1. a \in Counts /\ \A r \in 1..MaxRow : a[r] = IF r <= n THEN count[r] + 1 ELSE count[r]
  BY AddedFacts
<1> HIDE DEF a
<1>2. \A r \in 1..MaxRow :
        (IF r \in (n + 1)..(n + 1) THEN a[r] + 1 ELSE a[r])
          = IF r \in 1..(n + 1) THEN count[r] + 1 ELSE count[r]
  BY <1>1, BoundsAssumption
<1>3. Added(a, n + 1, n + 1) = Added(count, 1, n + 1)
  BY <1>2, Zenon DEF Added
<1> QED
  BY <1>3 DEF a

LEMMA TableFacts ==
  /\ NoRows \in Counts /\ \A r \in 1..MaxRow : NoRows[r] = 0
  /\ Absent \in Tables /\ Absent.state = "absent" /\ Absent.count = NoRows
  /\ New \in Tables /\ New.state = "there" /\ New.count = NoRows
  /\ BrokenFile \in Tables /\ BrokenFile.state = "broken" /\ BrokenFile.count = NoRows
BY BoundsAssumption DEF NoRows, Counts, Absent, New, BrokenFile, Tables

LEMMA WithFacts ==
  ASSUME NEW t \in Tables, NEW f, NEW l, Added(t.count, f, l) \in Counts
  PROVE  /\ With(t, f, l) \in Tables /\ With(t, f, l).state = t.state
         /\ With(t, f, l).count = Added(t.count, f, l)
BY DEF With, Tables, Counts

\* The order of the statements.
LEMMA Order ==
  ASSUME NEW step
  PROVE  /\ step = "connect" =>
              StepAfter(step) = IF Sink.kind = "oracle" THEN "clear" ELSE "create"
         /\ step = "create" =>
              StepAfter(step) = IF Sink.kind = "oracle" THEN "insert" ELSE "clear"
         /\ step = "clear" =>
              StepAfter(step) = IF Sink.kind = "oracle" THEN "create" ELSE "insert"
         /\ step = "insert" => StepAfter(step) = "commit"
<1> DEFINE s == Statements(Sink.kind)
           i == CHOOSE i \in DOMAIN s : s[i] = step
<1>1. CASE Sink.kind = "oracle"
  <2>1. s = <<"connect", "clear", "create", "insert", "commit">>
    BY <1>1 DEF Statements
  <2> HIDE DEF s
  <2>2. DOMAIN s = 1..5 /\ s[1] = "connect" /\ s[2] = "clear" /\ s[3] = "create"
        /\ s[4] = "insert" /\ s[5] = "commit"
    BY <2>1
  <2>3. step = "connect" => i = 1
    BY <2>2
  <2>4. step = "clear" => i = 2
    BY <2>2
  <2>5. step = "create" => i = 3
    BY <2>2
  <2>6. step = "insert" => i = 4
    BY <2>2
  <2>7. StepAfter(step) = s[1 + i]
    BY DEF StepAfter, s
  <2> HIDE DEF i
  <2> QED
    BY <1>1, <2>2, <2>3, <2>4, <2>5, <2>6, <2>7
<1>2. CASE Sink.kind # "oracle"
  <2>1. s = <<"connect", "create", "clear", "insert", "commit">>
    BY <1>2 DEF Statements
  <2> HIDE DEF s
  <2>2. DOMAIN s = 1..5 /\ s[1] = "connect" /\ s[2] = "create" /\ s[3] = "clear"
        /\ s[4] = "insert" /\ s[5] = "commit"
    BY <2>1
  <2>3. step = "connect" => i = 1
    BY <2>2
  <2>4. step = "create" => i = 2
    BY <2>2
  <2>5. step = "clear" => i = 3
    BY <2>2
  <2>6. step = "insert" => i = 4
    BY <2>2
  <2>7. StepAfter(step) = s[1 + i]
    BY DEF StepAfter, s
  <2> HIDE DEF i
  <2> QED
    BY <1>2, <2>2, <2>3, <2>4, <2>5, <2>6, <2>7
<1> QED
  BY <1>1, <1>2

-----------------------------------------------------------------------------
\* What a database's table may count: whole loads, or, for SQL Server, some
\* first rows more of the last one.
WholeCount(s, c) ==
  /\ s.kind \in {"postgresql", "oracle"} => \A r \in 1..s.rows : c[r] = c[1]
  /\ s.kind = "mssql" => \A r \in 2..MaxRow : c[r] <= c[r - 1]

LEMMA WholeAdded ==
  ASSUME NEW s \in AllSinks, NEW c \in Counts, WholeCount(s, c), NEW n \in Nat,
         s.kind = "mssql" \/ n = s.rows \/ n = 0
  PROVE  WholeCount(s, Added(c, 1, n))
<1> DEFINE a == Added(c, 1, n)
<1>1. \A r \in 1..MaxRow : a[r] = IF r <= n THEN c[r] + 1 ELSE c[r]
  BY AddedFacts
<1>2. \A r \in 1..MaxRow : c[r] \in Nat
  BY DEF Counts
<1>3. MaxRow \in Nat /\ s.rows \in 0..MaxRow
  BY BoundsAssumption DEF AllSinks
<1> HIDE DEF a
<1>4. ASSUME s.kind \in {"postgresql", "oracle"}, NEW r \in 1..s.rows
      PROVE  a[r] = a[1]
  <2>1. r \in 1..MaxRow /\ 1 \in 1..MaxRow /\ 1 \in 1..s.rows
    BY <1>3, <1>4
  <2>2. c[r] = c[1] /\ (n = s.rows \/ n = 0)
    BY <1>4 DEF WholeCount
  <2> QED
    BY <1>1, <1>2, <1>3, <2>1, <2>2
<1>5. ASSUME s.kind = "mssql", NEW r \in 2..MaxRow PROVE a[r] <= a[r - 1]
  <2>1. r \in 1..MaxRow /\ r - 1 \in 1..MaxRow /\ r \in Nat
    BY <1>3
  <2>2. c[r] <= c[r - 1]
    BY <1>5 DEF WholeCount
  <2> QED
    BY <1>1, <1>2, <2>1, <2>2
<1> QED
  BY <1>4, <1>5 DEF WholeCount, a

LEMMA WholeBase ==
  ASSUME NEW s \in AllSinks, NEW b \in Tables, IsTable(s, b), s.kind \in Databases
  PROVE  /\ b.count \in Counts /\ WholeCount(s, b.count)
         /\ WholeCount(s, NoRows)
         /\ \A ign \in BOOLEAN :
              Base(s, b, ign) = NoRows \/ Base(s, b, ign) = b.count
<1>1. b.count \in Counts
  BY DEF Tables, Counts
<1>2. WholeCount(s, b.count)
  BY DEF IsTable, IsWhole, WholeCount
<1>3. WholeCount(s, NoRows)
  <2>1. MaxRow \in Nat /\ s.rows \in 0..MaxRow
    BY BoundsAssumption DEF AllSinks
  <2> QED
    BY <2>1, TableFacts DEF WholeCount
<1>4. \A ign \in BOOLEAN : Base(s, b, ign) = NoRows \/ Base(s, b, ign) = b.count
  BY DEF Base
<1> QED
  BY <1>1, <1>2, <1>3, <1>4

LEMMA IsDatabaseTable ==
  ASSUME NEW s \in AllSinks, NEW t \in Tables, s.kind \in Databases,
         WholeCount(s, t.count), t.state # "broken",
         t.state = "absent" => t.count = NoRows
  PROVE  IsTable(s, t)
BY DEF IsTable, IsWhole, WholeCount, Databases, Files

\* The table of a sink half way is one, and an error then says the truth.
LEMMA ProgressFacts ==
  ASSUME NEW s \in AllSinks, NEW t \in Tables, NEW b \in Tables, IsTable(s, b),
         s.kind \in Databases, NEW step, NEW sent \in Nat, NEW ign \in BOOLEAN,
         Progress(s, t, b, step, sent, ign),
         t.state # "broken", t.state = "absent" => t.count = NoRows
  PROVE  /\ IsTable(s, t)
         /\ Outcome(s, t, b, "error", ign, TRUE)
<1> DEFINE base == IF Cleared(s.kind, step) THEN Base(s, b, ign) ELSE b.count
<1>1. base = NoRows \/ base = b.count
  BY WholeBase
<1>2. base \in Counts /\ WholeCount(s, base)
  BY <1>1, WholeBase, TableFacts
<1>3. t.count = IF s.kind = "mssql" THEN Added(base, 1, sent) ELSE base
  BY DEF Progress
<1> HIDE DEF base
<1>4. WholeCount(s, t.count)
  <2>1. CASE s.kind = "mssql"
    BY <1>2, <1>3, <2>1, WholeAdded
  <2>2. CASE s.kind # "mssql"
    BY <1>2, <1>3, <2>2
  <2> QED
    BY <2>1, <2>2
<1>5. IsTable(s, t)
  BY <1>4, IsDatabaseTable
<1>6. s.kind \in {"postgresql", "oracle"} => t.count \in {b.count, NoRows}
  BY <1>1, <1>3
<1>7. Outcome(s, t, b, "error", ign, TRUE)
  BY <1>6 DEF Outcome
<1> QED
  BY <1>5, <1>7

\* After the commit all rows of the sink are there, once.
LEMMA CommitFacts ==
  ASSUME NEW s \in AllSinks, NEW t \in Tables, NEW b \in Tables, NEW e \in Tables,
         IsTable(s, b), s.kind \in Databases, NEW sent \in Nat, NEW ign \in BOOLEAN,
         Progress(s, t, b, "commit", sent, ign),
         t.state # "broken", t.state = "absent" => t.count = NoRows,
         e = IF s.kind = "mssql" THEN t ELSE With(t, 1, s.rows)
  PROVE  /\ IsTable(s, e)
         /\ \A faulty \in BOOLEAN : Outcome(s, e, b, "ok", ign, faulty)
         /\ Outcome(s, e, b, "error", ign, TRUE)
<1> DEFINE base == Base(s, b, ign)
           loaded == Added(base, 1, s.rows)
<1>1. base \in Counts /\ WholeCount(s, base)
  BY WholeBase, TableFacts
<1>2. s.rows \in Nat
  BY DEF AllSinks
<1>3. /\ t.count = IF s.kind = "mssql" THEN Added(base, 1, sent) ELSE base
      /\ sent = s.rows /\ (s.rows > 0 => t.state = "there")
  BY DEF Progress, Cleared
<1>4. loaded \in Counts /\ WholeCount(s, loaded)
  BY <1>1, <1>2, AddedFacts, WholeAdded
<1>5. e.count = loaded /\ e.state = t.state
  <2>1. CASE s.kind = "mssql"
    BY <1>3, <2>1
  <2>2. CASE s.kind # "mssql"
    <3>1. t.count = base /\ e = With(t, 1, s.rows)
      BY <1>3, <2>2
    <3> QED
      BY <1>4, <3>1, WithFacts
  <2> QED
    BY <2>1, <2>2
<1>6. e.state = "absent" => e.count = NoRows
  <2> SUFFICES ASSUME e.state = "absent" PROVE e.count = NoRows
    OBVIOUS
  <2>1. s.rows = 0 /\ t.count = NoRows
    BY <1>2, <1>3, <1>5
  <2>2. CASE s.kind = "mssql"
    BY <2>1, <2>2
  <2>3. CASE s.kind # "mssql"
    BY <1>1, <1>3, <1>5, <2>1, <2>3, NothingAdded
  <2> QED
    BY <2>2, <2>3
<1>7. IsTable(s, e)
  BY <1>4, <1>5, <1>6, IsDatabaseTable
<1>8. \A faulty \in BOOLEAN : Outcome(s, e, b, "ok", ign, faulty)
  BY <1>3, <1>5 DEF Outcome
<1>9. Outcome(s, e, b, "error", ign, TRUE)
  BY <1>5 DEF Outcome
<1> QED
  BY <1>7, <1>8, <1>9

\* What a statement leaves behind, where it succeeds and where it fails.
Moves(e, b, ign) ==
  /\ e \in Tables /\ IsTable(Sink, e)
  /\ Outcome(Sink, e, b, "error", ign, TRUE)
  /\ run.step = "commit" =>
       \A faulty \in BOOLEAN : Outcome(Sink, e, b, "ok", ign, faulty)
  /\ run.step = "insert" /\ RowsToSend =>
       Progress(Sink, e, b, "insert", run.sent + 1, ign)
  /\ run.step # "commit" /\ ~(run.step = "insert" /\ RowsToSend) =>
       Progress(Sink, e, b, StepAfter(run.step), run.sent, ign)

\* It is enough to know where the sink is after a statement.
LEMMA MovesFrom ==
  ASSUME Sink \in AllSinks, Sink.kind \in Databases,
         NEW e \in Tables, NEW b \in Tables, IsTable(Sink, b), NEW ign \in BOOLEAN,
         NEW step, NEW sent \in Nat, Progress(Sink, e, b, step, sent, ign),
         e.state # "broken", e.state = "absent" => e.count = NoRows,
         run.step # "commit",
         IF run.step = "insert" /\ RowsToSend
         THEN step = "insert" /\ sent = run.sent + 1
         ELSE step = StepAfter(run.step) /\ sent = run.sent
  PROVE  Moves(e, b, ign)
<1>1. IsTable(Sink, e) /\ Outcome(Sink, e, b, "error", ign, TRUE)
  BY ProgressFacts
<1> QED
  BY <1>1 DEF Moves

AtStatement(b, ign) ==
  /\ Sink \in AllSinks /\ Sink.kind \in Databases /\ run \in Runs
  /\ Target \in Tables /\ b \in Tables /\ ign \in BOOLEAN
  /\ IsTable(Sink, Target) /\ IsTable(Sink, b)
  /\ Progress(Sink, Target, b, run.step, run.sent, ign)

\* The statements of postgres_copy_sink, each where it is not refused.
LEMMA PostgresStep ==
  ASSUME NEW b, NEW ign, AtStatement(b, ign), Sink.kind = "postgresql",
         ~PostgresRefuses
  PROVE  Moves(PostgresEffect, b, ign)
<1> DEFINE e == PostgresEffect
<1> USE DEF AtStatement
<1>1. /\ run.step \in Steps /\ run.step # "none" /\ run.sent \in Nat
      /\ Sink.rows \in Nat /\ Sink.create \in BOOLEAN /\ Sink.truncate \in BOOLEAN
      /\ Target.state \in {"absent", "there"} /\ ~ign
      /\ Target.state = "absent" => Target.count = NoRows
      /\ run.sent <= Sink.rows
  BY BoundsAssumption DEF Runs, AllSinks, Tables, IsTable, Progress, Databases
<1>2. CASE run.step = "connect"
  <2>1. e = Target /\ StepAfter(run.step) = "create" /\ Target = b /\ run.sent = 0
    BY <1>1, <1>2, Order DEF PostgresEffect, Progress
  <2>2. Progress(Sink, e, b, "create", run.sent, ign)
    BY <1>1, <2>1 DEF Progress, Cleared
  <2> QED
    BY <1>1, <1>2, <2>1, <2>2, MovesFrom
<1>3. CASE run.step = "create"
  <2>1. StepAfter(run.step) = "clear" /\ Target = b /\ run.sent = 0
    BY <1>1, <1>3, Order DEF Progress
  <2>2. e = IF Sink.create /\ ~Exists THEN New ELSE Target
    BY <1>3 DEF PostgresEffect
  <2>3. /\ e \in Tables /\ e.state # "broken" /\ e.count = b.count
        /\ e.state = "absent" => e.count = NoRows
        /\ MustLoad(Sink, b) => e.state = "there"
    BY <1>1, <2>1, <2>2, TableFacts DEF Exists, MustLoad
  <2>4. Progress(Sink, e, b, "clear", run.sent, ign)
    BY <1>1, <2>1, <2>3 DEF Progress, Cleared
  <2> HIDE DEF e
  <2> QED
    BY <1>1, <1>3, <2>1, <2>3, <2>4, MovesFrom DEF e
<1>4. CASE run.step = "clear"
  <2>1. /\ StepAfter(run.step) = "insert" /\ run.sent = 0 /\ Target.count = b.count
        /\ MustLoad(Sink, b) => Target.state = "there"
    BY <1>1, <1>4, Order DEF Progress, Cleared
  <2>2. e = IF Sink.truncate THEN New ELSE Target
    BY <1>4 DEF PostgresEffect
  <2>3. /\ e \in Tables /\ e.state # "broken" /\ e.count = Base(Sink, b, ign)
        /\ e.state = "absent" => e.count = NoRows
        /\ MustLoad(Sink, b) => e.state = "there"
    BY <1>1, <2>1, <2>2, TableFacts DEF Base
  <2>4. Progress(Sink, e, b, "insert", run.sent, ign)
    BY <1>1, <2>1, <2>3 DEF Progress, Cleared
  <2> HIDE DEF e
  <2> QED
    BY <1>1, <1>4, <2>1, <2>3, <2>4, MovesFrom DEF e
<1>5. CASE run.step = "insert"
  <2>1. e = Target /\ StepAfter(run.step) = "commit"
    BY <1>5, Order DEF PostgresEffect
  <2>2. CASE RowsToSend
    <3>1. Target.state = "there" /\ run.sent + 1 <= Sink.rows
      BY <1>1, <1>5, <2>2 DEF PostgresRefuses, NoTable, Exists, RowsToSend
    <3>2. Progress(Sink, e, b, "insert", run.sent + 1, ign)
      BY <1>1, <1>5, <2>1, <3>1 DEF Progress, Cleared
    <3> QED
      BY <1>1, <1>5, <2>1, <2>2, <3>2, MovesFrom
  <2>3. CASE ~RowsToSend
    <3>1. run.sent = Sink.rows
      BY <1>1, <2>3 DEF RowsToSend
    <3>2. Progress(Sink, e, b, "commit", run.sent, ign)
      BY <1>1, <1>5, <2>1, <3>1 DEF Progress, Cleared
    <3> QED
      BY <1>1, <1>5, <2>1, <2>3, <3>2, MovesFrom
  <2> QED
    BY <2>2, <2>3
<1>6. CASE run.step = "commit"
  <2>1. e = With(Target, 1, Sink.rows)
    BY <1>6 DEF PostgresEffect
  <2>2. e \in Tables
    BY <1>1, <2>1, AddedFacts, WithFacts DEF Tables, Counts
  <2>3. Progress(Sink, Target, b, "commit", run.sent, ign)
    BY <1>6
  <2>5. e = IF Sink.kind = "mssql" THEN Target ELSE With(Target, 1, Sink.rows)
    BY <2>1
  <2>6. Target.state # "broken" /\ (Target.state = "absent" => Target.count = NoRows)
    BY <1>1
  <2> HIDE DEF e
  <2>4. /\ IsTable(Sink, e) /\ Outcome(Sink, e, b, "error", ign, TRUE)
        /\ \A faulty \in BOOLEAN : Outcome(Sink, e, b, "ok", ign, faulty)
    BY <1>1, <2>2, <2>3, <2>5, <2>6, CommitFacts
  <2> QED
    BY <1>6, <2>2, <2>4 DEF Moves, e
<1> QED
  BY <1>1, <1>2, <1>3, <1>4, <1>5, <1>6 DEF Steps

\* The statements of mssql_row_sink: the rows are there one by one.
LEMMA MssqlStep ==
  ASSUME NEW b, NEW ign, AtStatement(b, ign), Sink.kind = "mssql", ~MssqlRefuses
  PROVE  Moves(MssqlEffect, b, ign)
<1> DEFINE e == MssqlEffect
<1> USE DEF AtStatement
<1>1. /\ run.step \in Steps /\ run.step # "none" /\ run.sent \in Nat
      /\ Sink.rows \in Nat /\ Sink.create \in BOOLEAN /\ Sink.truncate \in BOOLEAN
      /\ Target.state \in {"absent", "there"} /\ ~ign
      /\ Target.state = "absent" => Target.count = NoRows
      /\ run.sent <= Sink.rows
  BY BoundsAssumption DEF Runs, AllSinks, Tables, IsTable, Progress, Databases
<1>9. /\ b.count \in Counts /\ Base(Sink, b, ign) \in Counts
      /\ Added(b.count, 1, 0) = b.count
      /\ Added(Base(Sink, b, ign), 1, 0) = Base(Sink, b, ign)
  BY WholeBase, NothingAdded, TableFacts
<1>2. CASE run.step = "connect"
  <2>1. e = Target /\ StepAfter(run.step) = "create" /\ Target = b /\ run.sent = 0
    BY <1>1, <1>2, Order DEF MssqlEffect, Progress
  <2>2. Progress(Sink, e, b, "create", run.sent, ign)
    BY <1>1, <1>9, <2>1 DEF Progress, Cleared
  <2> QED
    BY <1>1, <1>2, <2>1, <2>2, MovesFrom
<1>3. CASE run.step = "create"
  <2>1. StepAfter(run.step) = "clear" /\ Target = b /\ run.sent = 0
    BY <1>1, <1>3, Order DEF Progress
  <2>2. e = IF Sink.create /\ ~Exists THEN New ELSE Target
    BY <1>3 DEF MssqlEffect
  <2>3. /\ e \in Tables /\ e.state # "broken" /\ e.count = b.count
        /\ e.state = "absent" => e.count = NoRows
        /\ MustLoad(Sink, b) => e.state = "there"
    BY <1>1, <2>1, <2>2, TableFacts DEF Exists, MustLoad
  <2>4. Progress(Sink, e, b, "clear", run.sent, ign)
    BY <1>1, <1>9, <2>1, <2>3 DEF Progress, Cleared
  <2> HIDE DEF e
  <2> QED
    BY <1>1, <1>3, <2>1, <2>3, <2>4, MovesFrom DEF e
<1>4. CASE run.step = "clear"
  <2>1. /\ StepAfter(run.step) = "insert" /\ run.sent = 0 /\ Target.count = b.count
        /\ MustLoad(Sink, b) => Target.state = "there"
    BY <1>1, <1>4, <1>9, Order DEF Progress, Cleared
  <2>2. e = IF Sink.truncate /\ Exists THEN New ELSE Target
    BY <1>4 DEF MssqlEffect
  <2>3. /\ e \in Tables /\ e.state # "broken" /\ e.count = Base(Sink, b, ign)
        /\ e.state = "absent" => e.count = NoRows
        /\ MustLoad(Sink, b) => e.state = "there"
    BY <1>1, <2>1, <2>2, TableFacts DEF Base, Exists
  <2>4. Progress(Sink, e, b, "insert", run.sent, ign)
    BY <1>1, <1>9, <2>1, <2>3 DEF Progress, Cleared
  <2> HIDE DEF e
  <2> QED
    BY <1>1, <1>4, <2>1, <2>3, <2>4, MovesFrom DEF e
<1>5. CASE run.step = "insert" /\ RowsToSend
  <2>1. Target.state = "there" /\ run.sent + 1 <= Sink.rows
    BY <1>1, <1>5 DEF MssqlRefuses, NoTable, Exists, RowsToSend
  <2>2. e = With(Target, run.sent + 1, run.sent + 1)
    BY <1>5 DEF MssqlEffect
  <2>3. Target.count = Added(Base(Sink, b, ign), 1, run.sent)
    BY <1>5 DEF Progress, Cleared
  <2>4. Added(Target.count, run.sent + 1, run.sent + 1)
          = Added(Base(Sink, b, ign), 1, run.sent + 1)
    BY <1>1, <1>9, <2>3, OneMoreAdded
  <2>5. run.sent + 1 \in Nat
    BY <1>1
  <2>6. Added(Base(Sink, b, ign), 1, run.sent + 1) \in Counts
    BY <1>9, <2>5, AddedFacts
  <2>7. /\ e \in Tables /\ e.state = "there"
        /\ e.count = Added(Base(Sink, b, ign), 1, run.sent + 1)
    BY <2>1, <2>2, <2>4, <2>6, WithFacts
  <2> HIDE DEF e
  <2>8. Progress(Sink, e, b, "insert", run.sent + 1, ign)
    BY <1>1, <1>5, <2>1, <2>7 DEF Progress, Cleared
  <2> QED
    BY <1>1, <1>5, <2>5, <2>7, <2>8, MovesFrom DEF e
<1>6. CASE run.step = "insert" /\ ~RowsToSend
  <2>1. e = Target /\ StepAfter(run.step) = "commit"
    BY <1>6, Order DEF MssqlEffect
  <2>2. run.sent = Sink.rows
    BY <1>1, <1>6 DEF RowsToSend
  <2>3. Progress(Sink, e, b, "commit", run.sent, ign)
    BY <1>1, <1>6, <2>1, <2>2 DEF Progress, Cleared
  <2> QED
    BY <1>1, <1>6, <2>1, <2>3, MovesFrom
<1>7. CASE run.step = "commit"
  <2>1. e = Target
    BY <1>7 DEF MssqlEffect
  <2>2. Progress(Sink, Target, b, "commit", run.sent, ign)
    BY <1>7
  <2> HIDE DEF e
  <2>4. /\ e = IF Sink.kind = "mssql" THEN Target ELSE With(Target, 1, Sink.rows)
        /\ e \in Tables
    BY <2>1
  <2>5. Target.state # "broken" /\ (Target.state = "absent" => Target.count = NoRows)
    BY <1>1
  <2>3. /\ IsTable(Sink, e) /\ Outcome(Sink, e, b, "error", ign, TRUE)
        /\ \A faulty \in BOOLEAN : Outcome(Sink, e, b, "ok", ign, faulty)
    BY <1>1, <2>2, <2>4, <2>5, CommitFacts
  <2> QED
    BY <1>7, <2>1, <2>3 DEF Moves, e
<1> QED
  BY <1>1, <1>2, <1>3, <1>4, <1>5, <1>6, <1>7 DEF Steps

\* The statements of oracle_row_sink, which drops the table it clears.
LEMMA OracleStep ==
  ASSUME NEW b, NEW ign, AtStatement(b, ign), Sink.kind = "oracle", ~OracleRefuses
  PROVE  Moves(OracleEffect, b, ign)
<1> DEFINE e == OracleEffect
<1> USE DEF AtStatement
<1>1. /\ run.step \in Steps /\ run.step # "none" /\ run.sent \in Nat
      /\ Sink.rows \in Nat /\ Sink.create \in BOOLEAN /\ Sink.truncate \in BOOLEAN
      /\ Target.state \in {"absent", "there"} /\ ign \in BOOLEAN
      /\ Target.state = "absent" => Target.count = NoRows
      /\ run.sent <= Sink.rows /\ ~MustLoad(Sink, b)
  BY BoundsAssumption
     DEF Runs, AllSinks, Tables, IsTable, Progress, Databases, MustLoad
<1>2. CASE run.step = "connect"
  <2>1. e = Target /\ StepAfter(run.step) = "clear" /\ Target = b /\ run.sent = 0
    BY <1>1, <1>2, Order DEF OracleEffect, Progress
  <2>2. Progress(Sink, e, b, "clear", run.sent, ign)
    BY <1>1, <1>2, <2>1 DEF Progress, Cleared
  <2> QED
    BY <1>1, <1>2, <2>1, <2>2, MovesFrom
<1>3. CASE run.step = "clear"
  <2>1. /\ StepAfter(run.step) = "create" /\ Target.count = b.count /\ run.sent = 0
        /\ ~ign
    BY <1>1, <1>3, Order DEF Progress, Cleared
  <2>2. e = IF Sink.truncate THEN Absent ELSE Target
    BY <1>3 DEF OracleEffect
  <2>3. /\ e \in Tables /\ e.state # "broken" /\ e.count = Base(Sink, b, ign)
        /\ e.state = "absent" => e.count = NoRows
    BY <1>1, <2>1, <2>2, TableFacts DEF Base
  <2>4. Progress(Sink, e, b, "create", run.sent, ign)
    BY <1>1, <2>1, <2>3 DEF Progress, Cleared
  <2> HIDE DEF e
  <2> QED
    BY <1>1, <1>3, <2>1, <2>3, <2>4, MovesFrom DEF e
<1>4. CASE run.step = "create"
  <2>1. /\ StepAfter(run.step) = "insert" /\ run.sent = 0
        /\ Target.count = Base(Sink, b, ign)
    BY <1>1, <1>4, Order DEF Progress, Cleared
  <2>2. e = IF Sink.create THEN New ELSE Target
    BY <1>4 DEF OracleEffect
  <2>3. Sink.create => Target.state = "absent"
    BY <1>1, <1>4 DEF OracleRefuses, Exists
  <2>4. /\ e \in Tables /\ e.state # "broken" /\ e.count = Base(Sink, b, ign)
        /\ e.state = "absent" => e.count = NoRows
    BY <1>1, <2>1, <2>2, <2>3, TableFacts
  <2>5. Progress(Sink, e, b, "insert", run.sent, ign)
    BY <1>1, <1>4, <2>1, <2>4 DEF Progress, Cleared
  <2> HIDE DEF e
  <2> QED
    BY <1>1, <1>4, <2>1, <2>4, <2>5, MovesFrom DEF e
<1>5. CASE run.step = "insert"
  <2>1. e = Target /\ StepAfter(run.step) = "commit"
    BY <1>5, Order DEF OracleEffect
  <2>2. CASE RowsToSend
    <3>1. Target.state = "there" /\ run.sent + 1 <= Sink.rows
      BY <1>1, <1>5, <2>2 DEF OracleRefuses, NoTable, Exists, RowsToSend
    <3>2. Progress(Sink, e, b, "insert", run.sent + 1, ign)
      BY <1>1, <1>5, <2>1, <3>1 DEF Progress, Cleared
    <3> QED
      BY <1>1, <1>5, <2>1, <2>2, <3>2, MovesFrom
  <2>3. CASE ~RowsToSend
    <3>1. run.sent = Sink.rows
      BY <1>1, <2>3 DEF RowsToSend
    <3>2. Progress(Sink, e, b, "commit", run.sent, ign)
      BY <1>1, <1>5, <2>1, <3>1 DEF Progress, Cleared
    <3> QED
      BY <1>1, <1>5, <2>1, <2>3, <3>2, MovesFrom
  <2> QED
    BY <2>2, <2>3
<1>6. CASE run.step = "commit"
  <2>1. e = With(Target, 1, Sink.rows)
    BY <1>6 DEF OracleEffect
  <2>2. e \in Tables
    BY <1>1, <2>1, AddedFacts, WithFacts DEF Tables, Counts
  <2>3. Progress(Sink, Target, b, "commit", run.sent, ign)
    BY <1>6
  <2>5. e = IF Sink.kind = "mssql" THEN Target ELSE With(Target, 1, Sink.rows)
    BY <2>1
  <2>6. Target.state # "broken" /\ (Target.state = "absent" => Target.count = NoRows)
    BY <1>1
  <2> HIDE DEF e
  <2>4. /\ IsTable(Sink, e) /\ Outcome(Sink, e, b, "error", ign, TRUE)
        /\ \A faulty \in BOOLEAN : Outcome(Sink, e, b, "ok", ign, faulty)
    BY <1>1, <2>2, <2>3, <2>5, <2>6, CommitFacts
  <2> QED
    BY <1>6, <2>2, <2>4 DEF Moves, e
<1> QED
  BY <1>1, <1>2, <1>3, <1>4, <1>5, <1>6 DEF Steps

LEMMA StatementStep ==
  ASSUME NEW b, NEW ign, AtStatement(b, ign), ~Refused
  PROVE  Moves(Effect, b, ign)
<1>1. Sink.kind \in Databases
  BY DEF AtStatement
<1>2. CASE Sink.kind = "postgresql"
  <2>1. ~PostgresRefuses /\ Effect = PostgresEffect
    BY <1>2 DEF Refused, Effect
  <2> QED
    BY <1>2, <2>1, PostgresStep
<1>3. CASE Sink.kind = "mssql"
  <2>1. ~MssqlRefuses /\ Effect = MssqlEffect
    BY <1>3 DEF Refused, Effect
  <2> QED
    BY <1>3, <2>1, MssqlStep
<1>4. CASE Sink.kind = "oracle"
  <2>1. ~OracleRefuses /\ Effect = OracleEffect
    BY <1>4 DEF Refused, Effect
  <2> QED
    BY <1>4, <2>1, OracleStep
<1> QED
  BY <1>1, <1>2, <1>3, <1>4 DEF Databases

-----------------------------------------------------------------------------
(* What the locals of the call are after a step.                           *)

LEMMA RunFacts ==
  ASSUME run \in Runs
  PROVE  /\ run.pc \in Pcs /\ run.late \in BOOLEAN /\ run.at \in Nat
         /\ run.rows \in Nat /\ run.step \in Steps /\ run.sent \in Nat
         /\ run.results \in Seq(Results) /\ run.faulty \in BOOLEAN
         /\ run.answer \in {"none", "ok"} \cup Stages /\ run.ignored \subseteq Nat
BY DEF Runs

\* The record after a step, field by field.
Has(q, pc, at, rows, step, sent, results, answer, ignored) ==
  /\ q \in Runs /\ q.pc = pc /\ q.at = at /\ q.rows = rows /\ q.step = step
  /\ q.sent = sent /\ q.results = results /\ q.answer = answer
  /\ q.ignored = ignored

\* The only remaining fields are late and faulty; faulty never goes back.
Keeps(q) == run.faulty => q.faulty

LEMMA AtFacts ==
  ASSUME run \in Runs, NEW pc \in Pcs
  PROVE  /\ Has(At(pc), pc, run.at, run.rows, run.step, run.sent, run.results,
                run.answer, run.ignored)
         /\ Keeps(At(pc))
BY DEF Runs, At, Has, Keeps

LEMMA FailedFacts ==
  ASSUME run \in Runs, NEW stage \in {"none"} \cup Stages
  PROVE  /\ Has(Failed(stage), "idle", run.at, run.rows, run.step, run.sent,
                run.results, stage, run.ignored)
         /\ Keeps(Failed(stage))
         /\ Has(Faulty(Failed(stage)), "idle", run.at, run.rows, run.step,
                run.sent, run.results, stage, run.ignored)
         /\ Keeps(Faulty(Failed(stage)))
<1> DEFINE q == Failed(stage)
<1>1. q \in Runs /\ "idle" \in Pcs
  BY DEF Runs, Failed, Pcs
<1>2. /\ q.pc = "idle" /\ q.at = run.at /\ q.rows = run.rows /\ q.step = run.step
      /\ q.sent = run.sent /\ q.results = run.results /\ q.answer = stage
      /\ q.ignored = run.ignored /\ q.faulty = run.faulty
  BY DEF Runs, Failed
<1> HIDE DEF q
<1>3. /\ Faulty(q) \in Runs /\ Faulty(q).faulty
      /\ Has(Faulty(q), q.pc, q.at, q.rows, q.step, q.sent, q.results, q.answer,
             q.ignored)
  BY <1>1 DEF Runs, Faulty, Has
<1> QED
  BY <1>1, <1>2, <1>3 DEF Has, Keeps, q

LEMMA RecordedFacts ==
  ASSUME run \in Runs, NEW status \in Results
  PROVE  /\ Has(Recorded(status), "sinks", run.at + 1, run.rows, "none", 0,
                Append(run.results, status), run.answer, run.ignored)
         /\ Recorded(status).faulty = run.faulty
         /\ Has(Faulty(Recorded(status)), "sinks", run.at + 1, run.rows, "none",
                0, Append(run.results, status), run.answer, run.ignored)
         /\ Faulty(Recorded(status)).faulty
<1> DEFINE q == Recorded(status)
<1>1. /\ q.pc = "sinks" /\ q.at = run.at + 1 /\ q.rows = run.rows /\ q.step = "none"
      /\ q.sent = 0 /\ q.results = Append(run.results, status)
      /\ q.answer = run.answer /\ q.ignored = run.ignored /\ q.faulty = run.faulty
  BY DEF Runs, Recorded
<1>2. q \in Runs
  <2>1. /\ "sinks" \in Pcs /\ "none" \in Steps /\ run.at + 1 \in Nat /\ 0 \in Nat
        /\ Append(run.results, status) \in Seq(Results)
    BY RunFacts DEF Pcs, Steps
  <2> QED
    BY <2>1, Zenon DEF Runs, Recorded
<1> HIDE DEF q
<1>3. /\ Faulty(q) \in Runs /\ Faulty(q).faulty
      /\ Has(Faulty(q), q.pc, q.at, q.rows, q.step, q.sent, q.results, q.answer,
             q.ignored)
  BY <1>2 DEF Runs, Faulty, Has
<1> QED
  BY <1>1, <1>2, <1>3 DEF Has, q

-----------------------------------------------------------------------------
(* What keeps the invariant, whatever action does it.                      *)

LEMMA SinkFacts ==
  ASSUME TypeOK
  PROVE  /\ Sinks \in Seq(AllSinks) /\ Len(Sinks) \in Nat /\ Len(Sinks) > 0
         /\ DOMAIN Sinks = 1..Len(Sinks)
         /\ \A i \in DOMAIN Sinks : /\ Sinks[i] \in AllSinks
                                    /\ target[i] \in Tables /\ before[i] \in Tables
         /\ run.results \in Seq(Results) /\ Len(run.results) \in Nat
         /\ DOMAIN run.results = 1..Len(run.results)
         /\ DOMAIN run.results \subseteq DOMAIN Sinks
<1>1. request.sinks \in Seq(AllSinks) /\ Len(request.sinks) > 0
  BY RequestFacts DEF TypeOK
<1>2. run.results \in Seq(Results)
  BY RunFacts DEF TypeOK
<1> QED
  BY <1>1, <1>2 DEF TypeOK, Sinks

\* A step within a call keeps the request and what was there before it.
Frame == /\ request' = request /\ before' = before
         /\ attempts' \in 0..MaxAttempts /\ faults' \in 0..MaxFaults

LEMMA ReadingStep ==
  ASSUME Frame, NEW pc, NEW at, NEW rows, NEW step, NEW sent, NEW results,
         NEW answer, NEW ignored,
         Has(run', pc, at, rows, step, sent, results, answer, ignored),
         ReadingOf(pc, at, rows)
  PROVE  Reading'
<1>1. run'.pc = pc /\ run'.at = at /\ run'.rows = rows
  BY DEF Has
<1>2. request' = request
  BY DEF Frame
<1>3. RowsOf(request.sources)' = RowsOf(request.sources)
  BY <1>2
<1>4. RowsGiven' = RowsGiven
  BY <1>2 DEF RowsGiven
<1>5. Admitted' <=> Admitted
  BY <1>2, <1>4 DEF Admitted
<1>6. CASE pc = "ingest"
  BY <1>1, <1>2, <1>3, <1>6 DEF Reading, ReadingOf
<1>7. CASE pc # "ingest"
  BY <1>1, <1>2, <1>4, <1>5, <1>7 DEF Reading, ReadingOf
<1> QED
  BY <1>6, <1>7

\* A call that has not come to its sinks.
LEMMA EarlyStep ==
  ASSUME SinksInv, Frame, target' = target,
         run.pc \notin {"idle", "sinks", "write"},
         NEW pc, NEW at, NEW rows, NEW step, NEW answer,
         Has(run', pc, at, rows, step, run.sent, run.results, answer, run.ignored),
         pc # "write", pc # "idle" => answer = run.answer, answer # "ok",
         pc = "sinks" => at = 1,
         ReadingOf(pc, at, rows)
  PROVE  SinksInv'
<1>1. /\ run.results = <<>> /\ run.ignored = {} /\ target = before /\ run.sent = 0
      /\ run.answer = "none"
  BY DEF SinksInv, RunInv
<1>2. TypeOK'
  BY DEF SinksInv, TypeOK, Frame, Has, Sinks
<1>3. TablesInv'
  BY DEF SinksInv, TablesInv, Frame, Sinks
<1>4. Len(run'.results) = 0 /\ DOMAIN run'.results = {}
  BY <1>1 DEF Has
<1>5. RunInv'
  BY <1>1, <1>4 DEF RunInv, Has, Frame
<1>6. Done'
  BY <1>4 DEF Done
<1>7. Rest'
  BY <1>1 DEF Rest, Frame
<1>8. Current'
  BY DEF Current, Has
<1>9. NothingUnlessAdmitted'
  BY DEF SinksInv, NothingUnlessAdmitted, Admitted, RowsGiven, Sinks, Frame
<1>10. Reading'
  BY ReadingStep
<1> QED
  BY <1>2, <1>3, <1>5, <1>6, <1>7, <1>8, <1>9, <1>10 DEF SinksInv

\* What the results say stays true of the sinks they are about.
LEMMA DoneStep ==
  ASSUME SinksInv, request' = request, before' = before,
         run'.results = run.results, Keeps(run'), run'.faulty \in BOOLEAN,
         \A i \in DOMAIN run.results :
           /\ target'[i] = target[i]
           /\ i \in run'.ignored <=> i \in run.ignored
  PROVE  Done'
<1> SUFFICES ASSUME NEW i \in DOMAIN run.results
             PROVE  Outcome(Sinks[i], target[i], before[i], run.results[i],
                            i \in run'.ignored, run'.faulty)
  BY DEF Done, Sinks
<1>1. Outcome(Sinks[i], target[i], before[i], run.results[i],
              i \in run.ignored, run.faulty)
  BY DEF SinksInv, Done
<1>2. (i \in run'.ignored) = (i \in run.ignored)
  OBVIOUS
<1>3. run'.faulty = run.faulty \/ (run'.faulty = TRUE /\ run.faulty = FALSE)
  BY RunFacts DEF Keeps, SinksInv, TypeOK
<1>4. Outcome(Sinks[i], target[i], before[i], run.results[i],
              i \in run.ignored, run'.faulty)
  <2>1. CASE run'.faulty = run.faulty
    BY <1>1, <2>1
  <2>2. CASE run'.faulty = TRUE
    BY <1>1, <2>2 DEF Outcome
  <2> QED
    BY <1>3, <2>1, <2>2
<1> QED
  BY <1>2, <1>4

\* The end of a call, with the error of a stage or none at all.
LEMMA EndStep ==
  ASSUME SinksInv, Frame, run.pc # "idle", Keeps(run'),
         NEW stage, stage # "ok",
         Has(run', "idle", run.at, run.rows, run.step, run.sent, run.results,
             stage, run.ignored),
         target' \in [DOMAIN Sinks -> Tables], TablesInv',
         \A i \in DOMAIN run.results : target'[i] = target[i],
         \A i \in DOMAIN Sinks :
           i > Len(run.results) /\ target'[i] # before[i] => MayDiffer(i)',
         NothingUnlessAdmitted'
  PROVE  SinksInv'
<1>1. TypeOK'
  BY DEF SinksInv, TypeOK, Frame, Has, Sinks
<1>2. RunInv'
  BY DEF RunInv, Has
<1>3. Done'
  <2>1. run' \in Runs /\ run'.results = run.results /\ run'.ignored = run.ignored
    BY DEF Has
  <2>2. run'.faulty \in BOOLEAN
    BY <2>1 DEF Runs
  <2> QED
    BY <2>1, <2>2, DoneStep DEF Frame
<1>4. Rest'
  BY DEF Rest, Has, Frame, Sinks
<1>5. Current'
  BY DEF Current, Has
<1>6. Reading'
  BY DEF Reading, ReadingOf, Has
<1> QED
  BY <1>1, <1>2, <1>3, <1>4, <1>5, <1>6 DEF SinksInv

\* The tables when one of them, of the sink the call is at, is replaced.
LEMMA TableStep ==
  ASSUME SinksInv, Frame, run.pc \in {"sinks", "write"}, run.at <= Len(Sinks),
         NEW x \in Tables, IsTable(Sink, x), target' = [target EXCEPT ![run.at] = x]
  PROVE  /\ run.at \in DOMAIN Sinks /\ run.at = Len(run.results) + 1
         /\ target' \in [DOMAIN Sinks -> Tables] /\ target'[run.at] = x
         /\ \A i \in DOMAIN Sinks : i # run.at => target'[i] = target[i]
         /\ \A i \in DOMAIN run.results : i # run.at /\ target'[i] = target[i]
         /\ TablesInv' /\ NothingUnlessAdmitted'
<1>1. run.at = Len(run.results) + 1 /\ run.at \in DOMAIN Sinks
  BY SinkFacts DEF SinksInv, RunInv
<1>2. /\ target' \in [DOMAIN Sinks -> Tables] /\ target'[run.at] = x
      /\ \A i \in DOMAIN Sinks : i # run.at => target'[i] = target[i]
  BY <1>1 DEF SinksInv, TypeOK
<1>3. \A i \in DOMAIN run.results : i # run.at /\ target'[i] = target[i]
  BY <1>1, <1>2, SinkFacts DEF SinksInv
<1>4. TablesInv'
  <2> SUFFICES ASSUME NEW i \in DOMAIN Sinks
               PROVE  IsTable(Sinks[i], target'[i]) /\ IsTable(Sinks[i], before[i])
    BY DEF TablesInv, Frame, Sinks
  <2>1. IsTable(Sinks[i], target[i]) /\ IsTable(Sinks[i], before[i])
    BY DEF SinksInv, TablesInv
  <2>2. CASE i = run.at
    BY <1>2, <2>1, <2>2 DEF Sink
  <2>3. CASE i # run.at
    BY <1>2, <2>1, <2>3
  <2> QED
    BY <2>2, <2>3
<1>5. NothingUnlessAdmitted'
  <2>1. Admitted
    BY DEF SinksInv, Reading, ReadingOf
  <2> QED
    BY <2>1 DEF NothingUnlessAdmitted, Admitted, RowsGiven, Frame
<1> QED
  BY <1>1, <1>2, <1>3, <1>4, <1>5

\* The sink the call is at gets its result.
LEMMA ResultStep ==
  ASSUME SinksInv, Frame, run.pc \in {"sinks", "write"}, run.at <= Len(Sinks),
         NEW status \in Results, NEW x \in Tables, IsTable(Sink, x),
         target' = [target EXCEPT ![run.at] = x],
         Has(run', "sinks", run.at + 1, run.rows, "none", 0,
             Append(run.results, status), run.answer, run.ignored),
         Keeps(run'),
         Outcome(Sink, x, before[run.at], status, run.at \in run.ignored,
                 run'.faulty)
  PROVE  SinksInv'
<1> DEFINE n == Len(run.results)
           r == run'.results
<1>1. /\ run.at \in DOMAIN Sinks /\ run.at = n + 1
      /\ target' \in [DOMAIN Sinks -> Tables] /\ target'[run.at] = x
      /\ \A i \in DOMAIN Sinks : i # run.at => target'[i] = target[i]
      /\ TablesInv' /\ NothingUnlessAdmitted'
  BY TableStep
<1>2. /\ n \in Nat /\ run.results \in Seq(Results) /\ Len(Sinks) \in Nat
      /\ DOMAIN run.results = 1..n /\ run.at \in Nat
      /\ run' \in Runs /\ run'.faulty \in BOOLEAN
  BY SinkFacts, RunFacts DEF SinksInv, TypeOK, Has, Runs
<1>3. /\ Len(r) = n + 1 /\ DOMAIN r = 1..(n + 1) /\ r[n + 1] = status
      /\ \A i \in 1..n : r[i] = run.results[i]
  <2>1. r = Append(run.results, status)
    BY DEF Has
  <2> QED
    BY <1>2, <2>1
<1> HIDE DEF n, r
<1>4. TypeOK'
  <2>1. Len(r) <= Len(Sinks)
    BY <1>1, <1>2, <1>3
  <2> QED
    BY <1>1, <1>2, <2>1 DEF SinksInv, TypeOK, Frame, Has, Sinks, r
<1>5. RunInv'
  <2>1. \A i \in run.ignored : i <= run.at
    BY RunFacts DEF SinksInv, RunInv, TypeOK
  <2>2. \A i \in run.ignored : i < run.at + 1
    BY <1>2, <2>1, RunFacts DEF SinksInv, TypeOK
  <2>3. run.answer = "none"
    BY DEF SinksInv, RunInv
  <2> QED
    BY <1>1, <1>3, <2>2, <2>3 DEF RunInv, Has, r
<1>6. Done'
  <2> SUFFICES ASSUME NEW i \in 1..(n + 1)
               PROVE  Outcome(Sinks[i], target'[i], before[i], r[i],
                              i \in run.ignored, run'.faulty)
    BY <1>3 DEF Done, Sinks, Frame, Has, r
  <2>1. CASE i = run.at
    BY <1>1, <1>3, <2>1 DEF Sink
  <2>2. CASE i # run.at
    <3>1. i \in 1..n /\ i \in DOMAIN Sinks
      BY <1>1, <1>2, <2>2, SinkFacts DEF SinksInv
    <3>2. r[i] = run.results[i] /\ target'[i] = target[i]
      BY <1>1, <1>3, <2>2, <3>1
    <3>3. Outcome(Sinks[i], target[i], before[i], run.results[i],
                  i \in run.ignored, run.faulty)
      BY <1>2, <3>1 DEF SinksInv, Done
    <3>4. run'.faulty = run.faulty \/ run'.faulty = TRUE
      BY <1>2, RunFacts DEF Keeps, SinksInv, TypeOK
    <3>5. CASE run'.faulty = run.faulty
      BY <3>2, <3>3, <3>5
    <3>6. CASE run'.faulty = TRUE
      BY <3>2, <3>3, <3>6 DEF Outcome
    <3> QED
      BY <3>4, <3>5, <3>6
  <2> QED
    BY <2>1, <2>2
<1>7. Rest'
  <2> SUFFICES ASSUME NEW i \in DOMAIN Sinks, i > n + 1 PROVE target'[i] = before[i]
    BY <1>3 DEF Rest, Sinks, Frame, r
  <2>1. i # run.at /\ i > n
    BY <1>1, <1>2, SinkFacts DEF SinksInv
  <2>2. target[i] = before[i]
    BY <2>1 DEF SinksInv, Rest, MayDiffer, n
  <2> QED
    BY <1>1, <2>1, <2>2
<1>8. Current'
  BY DEF Current, Has
<1>9. Reading'
  BY DEF Reading, ReadingOf, Has, SinksInv, Admitted, RowsGiven, Frame, Pcs
<1> QED
  BY <1>1, <1>4, <1>5, <1>6, <1>7, <1>8, <1>9 DEF SinksInv

\* The sink the call is at gets one statement further.
LEMMA WriteStep ==
  ASSUME SinksInv, Frame, run.pc \in {"sinks", "write"}, run.at <= Len(Sinks),
         Sink.kind # "pending",
         NEW x \in Tables, IsTable(Sink, x), target' = [target EXCEPT ![run.at] = x],
         NEW step, NEW sent, NEW ignored,
         Has(run', "write", run.at, run.rows, step, sent, run.results,
             run.answer, ignored),
         Keeps(run'), run.ignored \subseteq ignored,
         ignored \subseteq run.ignored \cup {run.at},
         Progress(Sink, x, before[run.at], step, sent, run.at \in ignored)
  PROVE  SinksInv'
<1>1. /\ run.at \in DOMAIN Sinks /\ run.at = Len(run.results) + 1
      /\ target' \in [DOMAIN Sinks -> Tables] /\ target'[run.at] = x
      /\ \A i \in DOMAIN Sinks : i # run.at => target'[i] = target[i]
      /\ \A i \in DOMAIN run.results : i # run.at /\ target'[i] = target[i]
      /\ TablesInv' /\ NothingUnlessAdmitted'
  BY TableStep
<1>2. run' \in Runs /\ run'.faulty \in BOOLEAN
  BY DEF Has, Runs
<1>3. TypeOK'
  BY <1>1, <1>2 DEF SinksInv, TypeOK, Frame, Has, Sinks
<1>4. RunInv'
  <2>1. \A i \in run.ignored : i <= run.at
    BY RunFacts DEF SinksInv, RunInv, TypeOK
  <2>2. \A i \in ignored : i <= run.at
    BY <2>1, RunFacts DEF SinksInv, TypeOK
  <2>3. run.answer = "none"
    BY DEF SinksInv, RunInv
  <2>4. Sink' = Sink /\ Len(Sinks)' = Len(Sinks)
    BY DEF Sink, Sinks, Frame, Has
  <2> QED
    BY <1>1, <2>2, <2>3, <2>4 DEF RunInv, Has
<1>5. Done'
  <2>1. \A i \in DOMAIN run.results :
          target'[i] = target[i] /\ (i \in run'.ignored <=> i \in run.ignored)
    BY <1>1 DEF Has
  <2> QED
    BY <1>2, <2>1, DoneStep DEF Frame, Has
<1>6. Rest'
  <2> SUFFICES ASSUME NEW i \in DOMAIN Sinks, i > Len(run.results),
                      target'[i] # before[i]
               PROVE  i = run.at
    BY DEF Rest, Sinks, Frame, Has, MayDiffer
  <2>1. CASE i # run.at
    <3>1. target[i] # before[i]
      BY <1>1, <2>1
    <3> QED
      BY <2>1, <3>1 DEF SinksInv, Rest, MayDiffer
  <2> QED
    BY <2>1
<1>7. Current'
  <2>1. /\ Sink' = Sink /\ Target' = x /\ before'[run'.at] = before[run.at]
        /\ run'.step = step /\ run'.sent = sent /\ run'.at = run.at
        /\ run'.ignored = ignored
    BY <1>1 DEF Sink, Sinks, Target, Frame, Has
  <2> QED
    BY <2>1 DEF Current
<1>8. Reading'
  BY DEF Reading, ReadingOf, Has, SinksInv, Admitted, RowsGiven, Frame, Pcs
<1> QED
  BY <1>1, <1>3, <1>4, <1>5, <1>6, <1>7, <1>8 DEF SinksInv

-----------------------------------------------------------------------------
(* The rows of the sources.                                                *)

LEMMA RowsOfFacts ==
  ASSUME NEW sources \in Seq(AllSources)
  PROVE  /\ RowsOf(sources)[0] = 0
         /\ \A i \in 1..Len(sources) :
              RowsOf(sources)[i] = RowsOf(sources)[i - 1] + sources[i].rows
<1> DEFINE n == Len(sources)
           next1(upto, i) == IF i = 0 THEN 0 ELSE upto[i - 1] + sources[i].rows
           IsUpto(f) == f = [i \in 0..n |-> next1(f, i)]
           K == CHOOSE f : IsUpto(f)
           step == [i \in 1..n |-> [k \in Nat |-> k + sources[i].rows]]
<1>1. n \in Nat /\ \A i \in 1..n : sources[i].rows \in Nat
  <2>1. n \in Nat /\ \A i \in 1..n : sources[i] \in AllSources
    OBVIOUS
  <2>2. \A source \in AllSources : source.rows \in Nat
    BY DEF AllSources
  <2> QED
    BY <2>1, <2>2
<1>2. step \in [1..n -> [Nat -> Nat]]
  <2> HIDE DEF n
  <2> QED
    BY <1>1
<1>3. PICK g : g \in Recursive(n, Nat, 0, step)
  <2> HIDE DEF step, n
  <2> QED
    BY <1>1, <1>2, Recursion
<1>4. /\ g \in [0..n -> Nat]
      /\ g[0] = 0 /\ \A i \in 1..n : g[i] = step[i][g[i - 1]]
  BY <1>3 DEF Recursive
<1> HIDE DEF n
<1>5. \A i \in 0..n : g[i] = next1(g, i)
  <2> SUFFICES ASSUME NEW i \in 0..n, i # 0 PROVE g[i] = next1(g, i)
    BY <1>4
  <2>1. i \in 1..n /\ i - 1 \in 0..n /\ g[i - 1] \in Nat
    BY <1>1, <1>4
  <2>2. step[i][g[i - 1]] = g[i - 1] + sources[i].rows
    BY <2>1
  <2> QED
    BY <1>4, <2>1, <2>2
<1>6. IsUpto(g)
  <2> HIDE DEF next1
  <2> QED
    BY <1>4, <1>5
<1>7. IsUpto(K)
  <2> HIDE DEF IsUpto
  <2> QED
    BY <1>6
<1>8. RowsOf(sources) = K
  BY DEF RowsOf, n
<1>9. \A i \in 0..n : K[i] = next1(K, i)
  <2> HIDE DEF K, next1
  <2> QED
    BY <1>7
<1> HIDE DEF K
<1>10. K[0] = 0
  BY <1>1, <1>9
<1>11. \A i \in 1..n : K[i] = K[i - 1] + sources[i].rows
  BY <1>1, <1>9
<1> QED
  BY <1>8, <1>10, <1>11 DEF n

\* PassDeadline changes nothing but `late`.
LEMMA LateStep ==
  ASSUME SinksInv, PassDeadline PROVE SinksInv'
<1>1. /\ run \in Runs /\ run' = [run EXCEPT !.late = TRUE]
      /\ UNCHANGED <<request, attempts, target, before, faults>>
  BY DEF PassDeadline, Advance, SinksInv, TypeOK
<1>2. /\ run' \in Runs /\ run'.pc = run.pc /\ run'.at = run.at
      /\ run'.rows = run.rows /\ run'.step = run.step /\ run'.sent = run.sent
      /\ run'.results = run.results /\ run'.answer = run.answer
      /\ run'.faulty = run.faulty /\ run'.ignored = run.ignored
  BY <1>1 DEF Runs
<1>3. Sinks' = Sinks /\ Sink' = Sink /\ Target' = Target /\ RowsGiven' = RowsGiven
  BY <1>1, <1>2 DEF Sinks, Sink, Target, RowsGiven
<1>4. TypeOK'
  BY <1>1, <1>2, <1>3 DEF SinksInv, TypeOK
<1>5. TablesInv' /\ NothingUnlessAdmitted'
  BY <1>1, <1>3 DEF SinksInv, TablesInv, NothingUnlessAdmitted, Admitted
<1>6. RunInv'
  BY <1>1, <1>2, <1>3 DEF SinksInv, RunInv
<1>7. Done' /\ Rest'
  BY <1>1, <1>2, <1>3 DEF SinksInv, Done, Rest, MayDiffer
<1>8. Current'
  BY <1>1, <1>2, <1>3 DEF SinksInv, Current
<1>9. Reading'
  BY <1>1, <1>2, <1>3 DEF SinksInv, Reading, ReadingOf, Admitted
<1> QED
  BY <1>4, <1>5, <1>6, <1>7, <1>8, <1>9 DEF SinksInv

\* An error before the sinks ends the call.
LEMMA EarlyError ==
  ASSUME SinksInv, Frame, target' = target,
         run.pc \notin {"idle", "sinks", "write"}, NEW stage \in Stages,
         run' = Failed(stage) \/ run' = Faulty(Failed(stage))
  PROVE  SinksInv'
<1>1. Has(run', "idle", run.at, run.rows, run.step, run.sent, run.results,
          stage, run.ignored)
  BY FailedFacts DEF SinksInv, TypeOK
<1>2. ReadingOf("idle", run.at, run.rows)
  BY DEF ReadingOf
<1>3. stage # "ok"
  BY DEF Stages
<1> QED
  BY <1>1, <1>2, <1>3, EarlyStep

\* An error between two sinks ends the call, and touches neither.
LEMMA SinkError ==
  ASSUME SinksInv, Frame, target' = target, run.pc = "sinks",
         NEW stage \in Stages,
         run' = Failed(stage) \/ run' = Faulty(Failed(stage))
  PROVE  SinksInv'
<1>1. /\ Has(run', "idle", run.at, run.rows, run.step, run.sent, run.results,
             stage, run.ignored)
      /\ Keeps(run') /\ stage # "ok"
  BY FailedFacts DEF SinksInv, TypeOK, Stages
<1>2. TablesInv' /\ NothingUnlessAdmitted' /\ target' \in [DOMAIN Sinks -> Tables]
  BY DEF SinksInv, TablesInv, NothingUnlessAdmitted, Admitted, RowsGiven,
         Sinks, Frame, TypeOK
<1>3. \A i \in DOMAIN Sinks :
        i > Len(run.results) /\ target'[i] # before[i] => MayDiffer(i)'
  BY DEF SinksInv, Rest, MayDiffer
<1>4. \A i \in DOMAIN run.results : target'[i] = target[i]
  OBVIOUS
<1> QED
  BY <1>1, <1>2, <1>3, <1>4, EndStep

\* check_deadline, before the sinks and between them.
LEMMA TimeOutStep ==
  ASSUME SinksInv, TimeOut PROVE SinksInv'
<1>1. /\ Frame /\ target' = target /\ run.pc \in DOMAIN Checks
      /\ run' = Failed(Checks[run.pc])
  BY DEF TimeOut, Advance, Frame, SinksInv, TypeOK
<1>2. /\ Checks[run.pc] \in Stages
      /\ run.pc \in {"parsed", "ingested", "framed", "sinks"}
  BY <1>1 DEF Checks, Stages
<1>3. run.pc = "sinks" \/ run.pc \notin {"idle", "sinks", "write"}
  BY <1>2
<1> QED
  BY <1>1, <1>2, <1>3, EarlyError, SinkError

LEMMA Frames ==
  ASSUME SinksInv
  PROVE  /\ \A state : Advance(state) => Frame /\ target' = target /\ run' = state
         /\ Fault => Frame
<1>1. \A state : Advance(state) => Frame /\ target' = target /\ run' = state
  BY DEF Advance, Frame, SinksInv, TypeOK
<1>2. Fault => Frame
  BY BoundsAssumption DEF Fault, Frame, SinksInv, TypeOK
<1> QED
  BY <1>1, <1>2

\* Parsing, and the ingest of the sources.
LEMMA IngestStep ==
  ASSUME SinksInv,
         Parse \/ BeginIngest \/ LoadSource \/ SourceFails \/ FinishIngest
  PROVE  SinksInv'
<1>1. /\ run \in Runs /\ request \in Requests
      /\ request.flaw \in {"none", "parse", "ingest"}
      /\ request.sources \in Seq(AllSources)
  BY RequestFacts DEF SinksInv, TypeOK
<1>2. CASE Parse
  <2>1. /\ run.pc = "parse" /\ Frame /\ target' = target
        /\ run' = IF request.flaw = "none" THEN At("parsed") ELSE Failed(request.flaw)
    BY <1>2, Frames DEF Parse
  <2>2. CASE request.flaw = "none"
    <3>1. /\ Has(run', "parsed", run.at, run.rows, run.step, run.sent, run.results,
                 run.answer, run.ignored)
      BY <1>1, <2>1, <2>2, AtFacts DEF Pcs
    <3>2. ReadingOf("parsed", run.at, run.rows)
      <4>1. run.rows = 0 /\ run.at = 1
        BY <2>1 DEF SinksInv, Reading, ReadingOf
      <4> QED
        BY <2>2, <4>1 DEF ReadingOf
    <3>3. run.answer # "ok"
      BY <2>1 DEF SinksInv, RunInv
    <3> QED
      BY <2>1, <3>1, <3>2, <3>3, EarlyStep
  <2>3. CASE request.flaw # "none"
    <3>1. request.flaw \in Stages /\ run' = Failed(request.flaw)
      BY <1>1, <2>1, <2>3 DEF Stages
    <3> QED
      BY <2>1, <3>1, EarlyError
  <2> QED
    BY <2>2, <2>3
<1>3. CASE BeginIngest
  <2>1. /\ run.pc = "parsed" /\ Frame /\ target' = target /\ run' = At("ingest")
    BY <1>3, Frames DEF BeginIngest
  <2>2. Has(run', "ingest", run.at, run.rows, run.step, run.sent, run.results,
            run.answer, run.ignored)
    BY <1>1, <2>1, AtFacts DEF Pcs
  <2>3. run.rows = 0 /\ run.at = 1 /\ request.flaw = "none" /\ run.answer # "ok"
    BY <2>1 DEF SinksInv, Reading, ReadingOf, RunInv, Pcs
  <2>4. 1 \in 1..(Len(request.sources) + 1) /\ RowsOf(request.sources)[1 - 1] = 0
    BY <1>1, RowsOfFacts
  <2>5. ReadingOf("ingest", run.at, run.rows)
    BY <2>3, <2>4 DEF ReadingOf
  <2> QED
    BY <2>1, <2>2, <2>3, <2>5, EarlyStep
<1>4. CASE LoadSource
  <2> DEFINE at == run.at + 1
             rows == run.rows + request.sources[run.at].rows
  <2>1. /\ run.pc = "ingest" /\ Frame /\ target' = target
        /\ run.at <= Len(request.sources)
        /\ run' = [run EXCEPT !.at = at, !.rows = rows]
    BY <1>4, Frames DEF LoadSource, SourcesLeft
  <2>2. /\ run.at \in 1..Len(request.sources)
        /\ run.rows = RowsOf(request.sources)[run.at - 1] /\ run.rows \in Nat
        /\ request.flaw = "none" /\ run.answer # "ok"
    BY <1>1, <2>1, RunFacts DEF SinksInv, Reading, ReadingOf, RunInv, Pcs
  <2>3. request.sources[run.at].rows \in Nat
    <3>1. request.sources[run.at] \in AllSources
      BY <1>1, <2>2
    <3> QED
      BY <3>1 DEF AllSources
  <2>4. at \in Nat /\ rows \in Nat /\ at \in 1..(Len(request.sources) + 1)
        /\ rows = RowsOf(request.sources)[run.at] /\ at - 1 = run.at
    <3>1. RowsOf(request.sources)[run.at]
            = RowsOf(request.sources)[run.at - 1] + request.sources[run.at].rows
      BY <1>1, <2>2, RowsOfFacts
    <3>2. rows = RowsOf(request.sources)[run.at] /\ rows \in Nat
      BY <2>2, <2>3, <3>1
    <3>3. Len(request.sources) \in Nat
      BY <1>1
    <3>4. at \in Nat /\ at \in 1..(Len(request.sources) + 1) /\ at - 1 = run.at
      BY <2>2, <3>3
    <3> QED
      BY <3>2, <3>4
  <2> HIDE DEF at, rows
  <2>5. Has(run', "ingest", at, rows, run.step, run.sent, run.results,
            run.answer, run.ignored)
    <3>1. run' \in Runs
      BY <1>1, <2>1, <2>4, Zenon DEF Runs
    <3> QED
      BY <1>1, <2>1, <3>1 DEF Has, Runs
  <2>6. ReadingOf("ingest", at, rows)
    BY <2>2, <2>4 DEF ReadingOf
  <2> QED
    BY <2>1, <2>2, <2>5, <2>6, EarlyStep
<1>5. CASE SourceFails
  <2>1. /\ run.pc = "ingest" /\ Frame /\ target' = target
        /\ run' = Faulty(Failed("ingest")) /\ "ingest" \in Stages
    BY <1>5, Frames DEF SourceFails, Stages
  <2> QED
    BY <2>1, EarlyError
<1>6. CASE FinishIngest
  <2>1. /\ run.pc = "ingest" /\ Frame /\ target' = target
        /\ ~(run.at <= Len(request.sources))
        /\ run' = IF run.rows = 0 THEN Failed("ingest") ELSE At("ingested")
    BY <1>6, Frames DEF FinishIngest, SourcesLeft
  <2>2. CASE run.rows = 0
    <3>1. "ingest" \in Stages
      BY DEF Stages
    <3> QED
      BY <2>1, <2>2, <3>1, EarlyError
  <2>3. CASE run.rows # 0
    <3>1. Has(run', "ingested", run.at, run.rows, run.step, run.sent, run.results,
              run.answer, run.ignored)
      BY <1>1, <2>1, <2>3, AtFacts DEF Pcs
    <3>2. /\ run.at \in 1..(Len(request.sources) + 1) /\ run.rows \in Nat
          /\ run.rows = RowsOf(request.sources)[run.at - 1]
          /\ request.flaw = "none" /\ run.answer # "ok"
      BY <2>1, RunFacts DEF SinksInv, TypeOK, Reading, ReadingOf, RunInv, Pcs
    <3>3. run.at - 1 = Len(request.sources) /\ run.rows > 0
      BY <1>1, <2>1, <2>3, <3>2
    <3>4. run.rows = RowsGiven
      BY <3>2, <3>3 DEF RowsGiven
    <3>5. ReadingOf("ingested", run.at, run.rows)
      BY <3>2, <3>3, <3>4 DEF ReadingOf
    <3> QED
      BY <2>1, <3>1, <3>2, <3>5, EarlyStep
  <2> QED
    BY <2>2, <2>3
<1> QED
  BY <1>2, <1>3, <1>4, <1>5, <1>6

\* The budget, and the transform.
LEMMA TransformStep ==
  ASSUME SinksInv, CheckBudget \/ MakeFrame \/ Transform \/ TransformFails
  PROVE  SinksInv'
<1>1. run \in Runs /\ request \in Requests /\ request.limit \in Nat
  BY RequestFacts DEF SinksInv, TypeOK
<1>2. CASE CheckBudget
  <2>1. /\ run.pc = "ingested" /\ Frame /\ target' = target
        /\ run' = IF OverBudget THEN Failed("ingest") ELSE At("framing")
    BY <1>2, Frames DEF CheckBudget
  <2>2. CASE OverBudget
    <3>1. "ingest" \in Stages
      BY DEF Stages
    <3> QED
      BY <2>1, <2>2, <3>1, EarlyError
  <2>3. CASE ~OverBudget
    <3>1. Has(run', "framing", run.at, run.rows, run.step, run.sent, run.results,
              run.answer, run.ignored)
      BY <1>1, <2>1, <2>3, AtFacts DEF Pcs
    <3>2. /\ run.rows = RowsGiven /\ RowsGiven > 0 /\ run.rows \in Nat
          /\ request.flaw = "none" /\ run.answer # "ok"
      BY <2>1, RunFacts DEF SinksInv, TypeOK, Reading, ReadingOf, RunInv, Pcs
    <3>3. Admitted
      BY <1>1, <2>3, <3>2 DEF Admitted, OverBudget
    <3>4. ReadingOf("framing", run.at, run.rows)
      BY <3>2, <3>3 DEF ReadingOf
    <3> QED
      BY <2>1, <3>1, <3>2, <3>4, EarlyStep
  <2> QED
    BY <2>2, <2>3
<1>3. CASE MakeFrame
  <2>1. /\ run.pc = "framing" /\ Frame /\ target' = target /\ run' = At("framed")
    BY <1>3, Frames DEF MakeFrame
  <2>2. Has(run', "framed", run.at, run.rows, run.step, run.sent, run.results,
            run.answer, run.ignored)
    BY <1>1, <2>1, AtFacts DEF Pcs
  <2>3. request.flaw = "none" /\ run.answer # "ok" /\ Admitted
    BY <2>1 DEF SinksInv, Reading, ReadingOf, RunInv, Pcs
  <2>4. ReadingOf("framed", run.at, run.rows)
    BY <2>3 DEF ReadingOf
  <2> QED
    BY <2>1, <2>2, <2>3, <2>4, EarlyStep
<1>4. CASE Transform
  <2>1. /\ run.pc = "framed" /\ Frame /\ target' = target
        /\ run' = [At("sinks") EXCEPT !.at = 1]
    BY <1>4, Frames DEF Transform
  <2>2. Has(run', "sinks", 1, run.rows, run.step, run.sent, run.results,
            run.answer, run.ignored)
    <3>1. At("sinks") \in Runs
      BY <1>1, AtFacts DEF Has, Pcs
    <3>2. Has(At("sinks"), "sinks", run.at, run.rows, run.step, run.sent,
              run.results, run.answer, run.ignored)
      BY <1>1, AtFacts DEF Pcs
    <3> DEFINE q == At("sinks")
    <3>3. q \in Runs /\ run' = [q EXCEPT !.at = 1]
      BY <2>1, <3>1
    <3> HIDE DEF q
    <3>4. /\ run' \in Runs
          /\ Has(run', q.pc, 1, q.rows, q.step, q.sent, q.results, q.answer, q.ignored)
      BY <3>3 DEF Runs, Has
    <3> QED
      BY <3>2, <3>4 DEF Has, q
  <2>3. request.flaw = "none" /\ run.answer # "ok" /\ Admitted
    BY <2>1 DEF SinksInv, Reading, ReadingOf, RunInv, Pcs
  <2>4. ReadingOf("sinks", 1, run.rows)
    BY <2>3 DEF ReadingOf
  <2> QED
    BY <2>1, <2>2, <2>3, <2>4, EarlyStep
<1>5. CASE TransformFails
  <2>1. /\ run.pc \in {"framing", "framed"} /\ Frame /\ target' = target
        /\ run' = Faulty(Failed("transform")) /\ "transform" \in Stages
    BY <1>5, Frames DEF TransformFails, Stages
  <2> QED
    BY <2>1, EarlyError
<1> QED
  BY <1>2, <1>3, <1>4, <1>5

-----------------------------------------------------------------------------
(* The sinks.                                                              *)

\* What is known of the sink the call is at.
LEMMA AtSink ==
  ASSUME SinksInv, run.pc \in {"sinks", "write"}, run.at <= Len(Sinks)
  PROVE  /\ run.at \in DOMAIN Sinks /\ Sink \in AllSinks
         /\ Target \in Tables /\ before[run.at] \in Tables
         /\ IsTable(Sink, Target) /\ IsTable(Sink, before[run.at])
         /\ target = [target EXCEPT ![run.at] = Target]
         /\ run.pc = "sinks" => /\ Target = before[run.at] /\ run.sent = 0
                                /\ run.at \notin run.ignored
<1>1. run.at = Len(run.results) + 1 /\ run.at \in DOMAIN Sinks
  BY SinkFacts DEF SinksInv, RunInv
<1>2. /\ Sink \in AllSinks /\ Target \in Tables /\ before[run.at] \in Tables
      /\ IsTable(Sink, Target) /\ IsTable(Sink, before[run.at])
  BY <1>1, SinkFacts DEF SinksInv, TablesInv, Sink, Target
<1>3. target = [target EXCEPT ![run.at] = Target]
  BY <1>1 DEF SinksInv, TypeOK, Target
<1>4. ASSUME run.pc = "sinks"
      PROVE  Target = before[run.at] /\ run.sent = 0 /\ run.at \notin run.ignored
  <2>1. run.at > Len(run.results)
    BY <1>1, SinkFacts DEF SinksInv
  <2>2. Target = before[run.at]
    BY <1>1, <1>4, <2>1 DEF SinksInv, Rest, MayDiffer, Target
  <2>3. run.sent = 0 /\ \A i \in run.ignored : i < run.at
    BY <1>4 DEF SinksInv, RunInv
  <2>4. run.at \notin run.ignored
    BY <2>3, RunFacts DEF SinksInv, TypeOK
  <2> QED
    BY <2>2, <2>3, <2>4
<1> QED
  BY <1>1, <1>2, <1>3, <1>4

LEMMA BeginStep ==
  ASSUME SinksInv, BeginSink \/ SinkQueryFails PROVE SinksInv'
<1>1. CASE BeginSink
  <2> DEFINE b == before[run.at]
  <2>1. /\ run.pc = "sinks" /\ run.at <= Len(Sinks) /\ Frame /\ target' = target
        /\ run' = IF Pending THEN Recorded("pending")
                  ELSE [At("write") EXCEPT !.step = "connect"]
    BY <1>1, Frames DEF BeginSink, SinksLeft
  <2>2. /\ run \in Runs /\ Sink \in AllSinks /\ Target \in Tables /\ b \in Tables
        /\ IsTable(Sink, Target) /\ target' = [target EXCEPT ![run.at] = Target]
        /\ Target = b /\ run.sent = 0 /\ run.at \notin run.ignored
    BY <2>1, AtSink DEF SinksInv, TypeOK
  <2> HIDE DEF b
  <2>3. CASE Pending
    <3>1. "pending" \in Results /\ run' = Recorded("pending")
      BY <2>1, <2>3 DEF Results
    <3>2. /\ Has(run', "sinks", run.at + 1, run.rows, "none", 0,
                 Append(run.results, "pending"), run.answer, run.ignored)
          /\ Keeps(run')
      BY <2>2, <3>1, RecordedFacts DEF Keeps
    <3>3. Outcome(Sink, Target, b, "pending", run.at \in run.ignored, run'.faulty)
      BY <2>2, <2>3 DEF Outcome, Pending, MustLoad
    <3> QED
      BY <2>1, <2>2, <3>1, <3>2, <3>3, ResultStep DEF b
  <2>4. CASE ~Pending
    <3> DEFINE q == At("write")
    <3>1. /\ Has(q, "write", run.at, run.rows, run.step, run.sent,
                 run.results, run.answer, run.ignored)
          /\ Keeps(q)
      BY <2>2, AtFacts DEF Pcs
    <3>2. run' = [q EXCEPT !.step = "connect"]
      BY <2>1, <2>4
    <3> HIDE DEF q
    <3>3. /\ run' \in Runs /\ run'.faulty = q.faulty
          /\ Has(run', q.pc, q.at, q.rows, "connect", q.sent, q.results, q.answer,
                 q.ignored)
      BY <3>1, <3>2 DEF Has, Runs, Steps
    <3>4. /\ Has(run', "write", run.at, run.rows, "connect", 0, run.results,
                 run.answer, run.ignored)
          /\ Keeps(run')
      BY <2>2, <3>1, <3>3 DEF Has, Keeps
    <3>5. b.count \in Counts /\ Sink.rows \in Nat
      BY <2>2 DEF Tables, Counts, AllSinks
    <3>6. Added(b.count, 1, 0) = b.count
      BY <3>5, NothingAdded
    <3>7. Progress(Sink, Target, b, "connect", 0, run.at \in run.ignored)
      BY <2>2, <3>5, <3>6 DEF Progress, Cleared
    <3>8. Sink.kind # "pending"
      BY <2>4 DEF Pending
    <3> QED
      BY <2>1, <2>2, <3>4, <3>7, <3>8, WriteStep DEF b
  <2> QED
    BY <2>3, <2>4
<1>2. CASE SinkQueryFails
  <2>1. run.pc = "sinks" /\ Frame /\ target' = target
    BY <1>2, Frames DEF SinkQueryFails
  <2>2. PICK stage \in {"sink_sql", "sink"} : run' = Faulty(Failed(stage))
    BY <1>2 DEF SinkQueryFails
  <2>3. stage \in Stages
    BY DEF Stages
  <2> QED
    BY <2>1, <2>2, <2>3, SinkError
<1> QED
  BY <1>1, <1>2

\* A call that has gone through all its sinks.
LEMMA FinishStep ==
  ASSUME SinksInv, FinishRun PROVE SinksInv'
<1>1. /\ run.pc = "sinks" /\ ~(run.at <= Len(Sinks)) /\ Frame /\ target' = target
      /\ run' = [At("idle") EXCEPT !.answer = "ok"]
  BY Frames DEF FinishRun, SinksLeft
<1> DEFINE q == At("idle")
<1>2. /\ Has(q, "idle", run.at, run.rows, run.step, run.sent, run.results,
             run.answer, run.ignored)
      /\ Keeps(q)
  BY AtFacts DEF Pcs, SinksInv, TypeOK
<1> HIDE DEF q
<1>3. /\ run' \in Runs /\ run'.faulty = q.faulty
      /\ Has(run', q.pc, q.at, q.rows, q.step, q.sent, q.results, "ok", q.ignored)
  BY <1>1, <1>2 DEF Has, Runs, q
<1>4. /\ Has(run', "idle", run.at, run.rows, run.step, run.sent, run.results,
             "ok", run.ignored)
      /\ Keeps(run')
  BY <1>2, <1>3 DEF Has, Keeps
<1>5. Len(run.results) = Len(Sinks)
  <2>1. run.at = Len(run.results) + 1 /\ Len(run.results) <= Len(Sinks)
    BY <1>1 DEF SinksInv, RunInv, TypeOK
  <2> QED
    BY <1>1, <2>1, SinkFacts DEF SinksInv
<1>6. TypeOK'
  BY <1>1, <1>4 DEF SinksInv, TypeOK, Frame, Has, Sinks
<1>7. TablesInv' /\ NothingUnlessAdmitted'
  BY <1>1 DEF SinksInv, TablesInv, NothingUnlessAdmitted, Admitted, RowsGiven,
              Sinks, Frame
<1>8. RunInv'
  BY <1>1, <1>4, <1>5 DEF RunInv, Has, Sinks, Frame
<1>9. Done'
  <2>1. run'.faulty \in BOOLEAN
    BY <1>3 DEF Runs
  <2> QED
    BY <1>1, <1>4, <2>1, DoneStep DEF Has, Frame
<1>10. Rest'
  BY <1>1, <1>4, <1>5, SinkFacts DEF Rest, Has, Sinks, Frame, SinksInv
<1>11. Current' /\ Reading'
  BY <1>4 DEF Current, Reading, ReadingOf, Has
<1> QED
  BY <1>6, <1>7, <1>8, <1>9, <1>10, <1>11 DEF SinksInv

\* A result that is an error, or "ok", with what it leaves behind.
LEMMA Recording ==
  ASSUME SinksInv, Frame, run.pc = "write", NEW status \in Results,
         NEW x \in Tables, IsTable(Sink, x), target' = [target EXCEPT ![run.at] = x],
         \/ /\ run' = Recorded(status)
            /\ \A f \in BOOLEAN : Outcome(Sink, x, before[run.at], status,
                                          run.at \in run.ignored, f)
         \/ /\ run' = Faulty(Recorded(status))
            /\ Outcome(Sink, x, before[run.at], status,
                       run.at \in run.ignored, TRUE)
  PROVE  SinksInv'
<1>1. run \in Runs /\ run.at <= Len(Sinks)
  BY DEF SinksInv, TypeOK, RunInv
<1>2. /\ Has(run', "sinks", run.at + 1, run.rows, "none", 0,
             Append(run.results, status), run.answer, run.ignored)
      /\ Keeps(run')
  BY <1>1, RecordedFacts DEF Keeps
<1>3. run'.faulty \in BOOLEAN
  BY <1>2 DEF Has, Runs
<1>4. run' = Faulty(Recorded(status)) => run'.faulty = TRUE
  <2>1. run' = Faulty(Recorded(status)) => run'.faulty
    BY <1>1, RecordedFacts
  <2> QED
    BY <1>3, <2>1
<1>5. Outcome(Sink, x, before[run.at], status, run.at \in run.ignored, run'.faulty)
  <2>1. CASE run' = Recorded(status) /\ \A f \in BOOLEAN :
               Outcome(Sink, x, before[run.at], status, run.at \in run.ignored, f)
    BY <1>3, <2>1
  <2>2. CASE run' = Faulty(Recorded(status)) /\
               Outcome(Sink, x, before[run.at], status, run.at \in run.ignored, TRUE)
    BY <1>4, <2>2
  <2> QED
    BY <2>1, <2>2
<1> QED
  BY <1>1, <1>2, <1>5, ResultStep

\* A file or an object is whole, broken, or what it was.
LEMMA FileFacts ==
  ASSUME SinksInv, run.pc = "write", Sink.kind \in Files \cup {"staged"}
  PROVE  /\ run.at <= Len(Sinks) /\ Target = before[run.at]
         /\ Whole \in Tables /\ IsTable(Sink, Whole)
         /\ BrokenFile \in Tables /\ IsTable(Sink, BrokenFile)
         /\ Sink.kind \notin Databases
         /\ \A f \in BOOLEAN :
              Outcome(Sink, Whole, before[run.at], "ok", run.at \in run.ignored, f)
         /\ \A t, f : Outcome(Sink, t, before[run.at], "error",
                              run.at \in run.ignored, f)
<1>1. run.at <= Len(Sinks) /\ Sink.kind \notin Databases
  BY DEF SinksInv, RunInv, Files, Databases
<1>2. Sink \in AllSinks /\ Sink.rows \in Nat
  BY <1>1, AtSink, BoundsAssumption DEF AllSinks
<1>3. Target = before[run.at]
  BY <1>1 DEF SinksInv, Current, Progress
<1>4. Added(NoRows, 1, Sink.rows) \in Counts /\ New.count = NoRows
  BY <1>2, AddedFacts, TableFacts
<1>5. /\ Whole \in Tables /\ Whole.state = "there"
      /\ Whole.count = Added(NoRows, 1, Sink.rows)
  BY <1>4, WithFacts, TableFacts DEF Whole
<1>6. IsTable(Sink, Whole)
  BY <1>1, <1>5 DEF IsTable, IsWhole, Databases, Whole
<1>7. BrokenFile \in Tables /\ IsTable(Sink, BrokenFile)
  BY <1>1, TableFacts DEF IsTable, IsWhole, Databases
<1>8. \A f \in BOOLEAN :
        Outcome(Sink, Whole, before[run.at], "ok", run.at \in run.ignored, f)
  BY <1>1, <1>5 DEF Outcome, Base
<1>9. \A t, f : Outcome(Sink, t, before[run.at], "error", run.at \in run.ignored, f)
  BY <1>1 DEF Outcome, MustLoad, Databases
<1> QED
  BY <1>1, <1>3, <1>5, <1>6, <1>7, <1>8, <1>9

LEMMA FileStep ==
  ASSUME SinksInv, WriteWhole \/ WriteFileFails \/ PutObjectFails PROVE SinksInv'
<1>1. /\ run.pc = "write" /\ Sink.kind \in Files \cup {"staged"} /\ Frame
  BY Frames DEF WriteWhole, WriteFileFails, PutObjectFails, Writing, Frame, SinksInv, TypeOK
<1>2. /\ run.at <= Len(Sinks) /\ Target \in Tables /\ IsTable(Sink, Target)
      /\ "ok" \in Results /\ "error" \in Results
  BY <1>1, FileFacts, AtSink DEF Results
<1>3. CASE WriteWhole
  <2>1. target' = [target EXCEPT ![run.at] = Whole] /\ run' = Recorded("ok")
    BY <1>3 DEF WriteWhole
  <2> QED
    BY <1>1, <1>2, <2>1, FileFacts, Recording
<1>4. ASSUME NEW x \in {Target, Whole, BrokenFile},
             target' = [target EXCEPT ![run.at] = x],
             run' = Faulty(Recorded("error"))
      PROVE  SinksInv'
  <2>1. x \in Tables /\ IsTable(Sink, x)
    BY <1>1, <1>2, FileFacts
  <2>2. Outcome(Sink, x, before[run.at], "error", run.at \in run.ignored, TRUE)
    BY <1>1, FileFacts
  <2> QED
    BY <1>1, <1>2, <1>4, <2>1, <2>2, Recording
<1>5. CASE PutObjectFails
  BY <1>4, <1>5 DEF PutObjectFails
<1>6. CASE WriteFileFails /\ Sink.kind # "file"
  BY <1>4, <1>6 DEF WriteFileFails
<1>7. CASE WriteFileFails /\ Sink.kind = "file"
  <2>1. PICK x \in {Target, BrokenFile} : target' = [target EXCEPT ![run.at] = x]
    BY <1>7 DEF WriteFileFails
  <2>2. run' = Faulty(Failed("sink")) /\ "sink" \in Stages
    BY <1>7 DEF WriteFileFails, Stages
  <2>3. x \in Tables /\ IsTable(Sink, x)
    BY <1>1, <1>2, FileFacts
  <2>4. /\ run.at \in DOMAIN Sinks /\ run.at = Len(run.results) + 1
        /\ target' \in [DOMAIN Sinks -> Tables] /\ target'[run.at] = x
        /\ \A i \in DOMAIN Sinks : i # run.at => target'[i] = target[i]
        /\ \A i \in DOMAIN run.results : i # run.at /\ target'[i] = target[i]
        /\ TablesInv' /\ NothingUnlessAdmitted'
    BY <1>1, <1>2, <2>1, <2>3, TableStep
  <2>5. /\ Has(run', "idle", run.at, run.rows, run.step, run.sent, run.results,
               "sink", run.ignored)
        /\ Keeps(run')
    BY <2>2, FailedFacts DEF SinksInv, TypeOK
  <2>6. ASSUME NEW i \in DOMAIN Sinks, i > Len(run.results), target'[i] # before'[i]
        PROVE  MayDiffer(i)'
    <3>1. before' = before /\ request' = request
      BY <1>1 DEF Frame
    <3>2. CASE i = run.at
      <4>1. target'[i] = BrokenFile /\ Sinks[i].kind = "file"
        BY <1>1, <1>7, <2>1, <2>4, <2>6, <3>1, <3>2, FileFacts DEF Sink
      <4> QED
        BY <2>4, <2>5, <3>1, <3>2, <4>1 DEF MayDiffer, Has, Sinks
    <3>3. CASE i # run.at
      <4>1. target[i] # before[i]
        BY <2>4, <2>6, <3>1, <3>3
      <4> QED
        BY <1>1, <2>6, <3>3, <4>1 DEF SinksInv, Rest, MayDiffer
    <3> QED
      BY <3>2, <3>3
  <2>7. \A i \in DOMAIN Sinks :
          i > Len(run.results) /\ target'[i] # before[i] => MayDiffer(i)'
    BY <1>1, <2>6 DEF Frame
  <2> QED
    BY <1>1, <2>4, <2>5, <2>7, EndStep
<1> QED
  BY <1>3, <1>5, <1>6, <1>7

-----------------------------------------------------------------------------
(* The statements of a database sink.                                      *)

LEMMA Statement ==
  ASSUME SinksInv, AtDatabase
  PROVE  /\ run.pc = "write" /\ run.at <= Len(Sinks) /\ run \in Runs
         /\ AtStatement(before[run.at], run.at \in run.ignored)
         /\ target = [target EXCEPT ![run.at] = Target]
         /\ Sink.kind # "pending"
         /\ Target.state # "broken"
         /\ Target.state = "absent" => Target.count = NoRows
<1>1. run.pc = "write" /\ Sink.kind \in Databases
  BY DEF AtDatabase, Writing
<1>2. run.at <= Len(Sinks) /\ Sink.kind # "pending" /\ run \in Runs
  BY <1>1 DEF SinksInv, RunInv, TypeOK
<1>3. /\ Sink \in AllSinks /\ Target \in Tables /\ before[run.at] \in Tables
      /\ IsTable(Sink, Target) /\ IsTable(Sink, before[run.at])
      /\ target = [target EXCEPT ![run.at] = Target]
  BY <1>1, <1>2, AtSink
<1>4. Progress(Sink, Target, before[run.at], run.step, run.sent,
               run.at \in run.ignored)
  BY <1>1 DEF SinksInv, Current
<1>5. AtStatement(before[run.at], run.at \in run.ignored)
  BY <1>1, <1>2, <1>3, <1>4 DEF AtStatement
<1>6. Target.state # "broken" /\ (Target.state = "absent" => Target.count = NoRows)
  BY <1>1, <1>3 DEF IsTable
<1> QED
  BY <1>1, <1>2, <1>3, <1>5, <1>6

LEMMA ExecuteStep ==
  ASSUME SinksInv, Execute PROVE SinksInv'
<1> DEFINE b == before[run.at]
           ign == run.at \in run.ignored
<1>1. /\ AtDatabase /\ ~Refused /\ Frame /\ run' = Executed
      /\ target' = [target EXCEPT ![run.at] = Effect]
  BY DEF Execute, Frame, SinksInv, TypeOK
<1>2. /\ run.pc = "write" /\ run.at <= Len(Sinks) /\ run \in Runs
      /\ Sink.kind # "pending" /\ AtStatement(b, ign)
  BY <1>1, Statement
<1>3. Moves(Effect, b, ign)
  <2> HIDE DEF b, ign
  <2> QED
    BY <1>1, <1>2, StatementStep
<1>4. Effect \in Tables /\ IsTable(Sink, Effect)
  BY <1>3 DEF Moves
<1>5. /\ run.step \in Steps /\ run.step # "none" /\ run.sent \in Nat
      /\ run.ignored \in SUBSET Nat
  BY <1>2, RunFacts DEF AtStatement, Progress
<1>6. CASE run.step = "commit"
  <2>1. run' = Recorded("ok") /\ "ok" \in Results
    BY <1>1, <1>6 DEF Executed, Results
  <2>2. \A f \in BOOLEAN : Outcome(Sink, Effect, b, "ok", ign, f)
    BY <1>3, <1>6 DEF Moves
  <2> QED
    BY <1>1, <1>2, <1>4, <2>1, <2>2, Recording
<1>7. CASE run.step = "insert" /\ RowsToSend
  <2> DEFINE sent == run.sent + 1
  <2>1. run' = [run EXCEPT !.sent = sent] /\ sent \in Nat
    BY <1>1, <1>5, <1>7 DEF Executed
  <2>2. Progress(Sink, Effect, b, "insert", sent, ign)
    BY <1>3, <1>7 DEF Moves
  <2> HIDE DEF sent
  <2>3. /\ Has(run', run.pc, run.at, run.rows, run.step, sent, run.results,
               run.answer, run.ignored)
        /\ Keeps(run')
    BY <1>2, <2>1 DEF Runs, Has, Keeps
  <2>4. Has(run', "write", run.at, run.rows, "insert", sent, run.results,
            run.answer, run.ignored)
    BY <1>2, <1>7, <2>3
  <2> QED
    BY <1>1, <1>2, <1>4, <2>2, <2>3, <2>4, WriteStep
<1>8. CASE run.step # "commit" /\ ~(run.step = "insert" /\ RowsToSend)
  <2> DEFINE step == StepAfter(run.step)
  <2>1. step \in Steps
    BY <1>5, <1>8, Order DEF Steps
  <2>2. run' = [run EXCEPT !.step = step]
    BY <1>1, <1>8 DEF Executed
  <2>3. Progress(Sink, Effect, b, step, run.sent, ign)
    BY <1>3, <1>8 DEF Moves
  <2> HIDE DEF step
  <2>4. /\ Has(run', run.pc, run.at, run.rows, step, run.sent, run.results,
               run.answer, run.ignored)
        /\ Keeps(run')
    BY <1>2, <2>1, <2>2 DEF Runs, Has, Keeps
  <2>5. Has(run', "write", run.at, run.rows, step, run.sent, run.results,
            run.answer, run.ignored)
    BY <1>2, <2>4
  <2> QED
    BY <1>1, <1>2, <1>4, <2>3, <2>4, <2>5, WriteStep
<1> QED
  BY <1>6, <1>7, <1>8

\* A statement that is refused, or fails for another reason.
LEMMA ErrorStep ==
  ASSUME SinksInv, StatementRefused \/ StatementFails PROVE SinksInv'
<1> DEFINE b == before[run.at]
           ign == run.at \in run.ignored
<1>1. AtDatabase /\ Frame /\ "error" \in Results
  BY Frames DEF StatementRefused, StatementFails, Results
<1>2. /\ run.pc = "write" /\ run.at <= Len(Sinks) /\ run \in Runs
      /\ AtStatement(b, ign) /\ target = [target EXCEPT ![run.at] = Target]
      /\ Target.state # "broken" /\ (Target.state = "absent" => Target.count = NoRows)
  BY <1>1, Statement
<1>3. /\ Sink \in AllSinks /\ Target \in Tables /\ b \in Tables
      /\ Sink.kind \in Databases /\ IsTable(Sink, Target) /\ IsTable(Sink, b)
      /\ run.sent \in Nat /\ ign \in BOOLEAN
      /\ Progress(Sink, Target, b, run.step, run.sent, ign)
  BY <1>2, RunFacts DEF AtStatement
<1> HIDE DEF b, ign
<1>4. Outcome(Sink, Target, b, "error", ign, TRUE)
  <2>1. Target.state # "broken" /\ (Target.state = "absent" => Target.count = NoRows)
    BY <1>2
  <2> QED
    BY <1>3, <2>1, ProgressFacts, Zenon
<1>5. CASE StatementRefused
  <2>1. Refused /\ target' = target /\ run' = Recorded("error")
    BY <1>5, Frames DEF StatementRefused
  <2>2. ~MustLoad(Sink, b)
    <3> SUFFICES ASSUME MustLoad(Sink, b) PROVE FALSE
      OBVIOUS
    <3>1. run.step \in {"clear", "insert"} /\ Target.state # "there"
      <4>1. CASE Sink.kind = "postgresql"
        BY <2>1, <4>1 DEF Refused, PostgresRefuses, NoTable, Exists
      <4>2. CASE Sink.kind = "mssql"
        BY <2>1, <4>2 DEF Refused, MssqlRefuses, NoTable, Exists
      <4> QED
        BY <4>1, <4>2 DEF MustLoad
    <3> QED
      BY <1>3, <3>1 DEF Progress
  <2>3. \A f \in BOOLEAN : Outcome(Sink, Target, b, "error", ign, f)
    BY <1>4, <2>2 DEF Outcome
  <2>4. target' = [target EXCEPT ![run.at] = Target]
    BY <1>2, <2>1
  <2> QED
    BY <1>1, <1>2, <1>3, <2>1, <2>3, <2>4, Recording DEF b, ign
<1>6. CASE StatementFails
  <2>1. ~Refused /\ run' = Faulty(Recorded("error"))
    BY <1>6 DEF StatementFails
  <2>2. PICK x \in {Target, Effect} : target' = [target EXCEPT ![run.at] = x]
    BY <1>6 DEF StatementFails
  <2>3. Moves(Effect, b, ign)
    BY <1>2, <2>1, StatementStep
  <2>4. /\ x \in Tables /\ IsTable(Sink, x)
        /\ Outcome(Sink, x, b, "error", ign, TRUE)
    BY <1>3, <1>4, <2>3 DEF Moves
  <2> QED
    BY <1>1, <1>2, <2>1, <2>2, <2>4, Recording DEF b, ign
<1> QED
  BY <1>5, <1>6

\* DROP TABLE fails, and nobody looks.
LEMMA DropStep ==
  ASSUME SinksInv, DropFails PROVE SinksInv'
<1> DEFINE b == before[run.at]
           ign == run.at \in run.ignored
           ignored == run.ignored \cup {run.at}
<1>1. /\ AtDatabase /\ Frame /\ target' = target /\ run.step = "clear"
      /\ Sink.kind = "oracle"
      /\ run' = Faulty([Executed EXCEPT !.ignored = ignored])
  <2>1. Executed.ignored = run.ignored
    BY DEF DropFails, Dropping, Executed, SinksInv, TypeOK, Runs
  <2> QED
    BY <2>1, Frames DEF DropFails, Dropping
<1>2. /\ run.pc = "write" /\ run.at <= Len(Sinks) /\ run \in Runs
      /\ AtStatement(b, ign) /\ target = [target EXCEPT ![run.at] = Target]
      /\ Sink.kind # "pending"
  BY <1>1, Statement
<1>3. /\ Sink \in AllSinks /\ Target \in Tables /\ b \in Tables
      /\ IsTable(Sink, Target) /\ Progress(Sink, Target, b, "clear", run.sent, ign)
  BY <1>1, <1>2 DEF AtStatement
<1>4. Progress(Sink, Target, b, "create", run.sent, TRUE)
  BY <1>1, <1>3 DEF Progress, Cleared, Base, Databases, MustLoad
<1>5. Executed = [run EXCEPT !.step = "create"]
  BY <1>1, Order DEF Executed
<1> DEFINE q == Executed
<1>6. /\ Has(q, run.pc, run.at, run.rows, "create", run.sent, run.results,
             run.answer, run.ignored)
  BY <1>2, <1>5 DEF Runs, Has, Steps
<1>7. ignored \subseteq Nat
  BY <1>2, RunFacts
<1> HIDE DEF q, ignored
<1> DEFINE p == [q EXCEPT !.ignored = ignored]
<1>8. Has(p, q.pc, q.at, q.rows, q.step, q.sent, q.results, q.answer, ignored)
  BY <1>6, <1>7 DEF Runs, Has
<1> HIDE DEF p
<1>9. /\ Has(Faulty(p), p.pc, p.at, p.rows, p.step, p.sent, p.results, p.answer,
             p.ignored)
      /\ Faulty(p).faulty
  BY <1>8 DEF Runs, Has, Faulty
<1>10. run' = Faulty(p)
  BY <1>1 DEF p, q
<1>11. /\ Has(run', "write", run.at, run.rows, "create", run.sent, run.results,
              run.answer, ignored)
       /\ Keeps(run')
  BY <1>2, <1>6, <1>8, <1>9, <1>10 DEF Has, Keeps
<1>12. /\ run.ignored \subseteq ignored /\ ignored \subseteq run.ignored \cup {run.at}
       /\ (run.at \in ignored) = TRUE
  BY DEF ignored
<1>13. Progress(Sink, Target, b, "create", run.sent, run.at \in ignored)
  BY <1>4, <1>12
<1>14. target' = [target EXCEPT ![run.at] = Target]
  BY <1>1, <1>2
<1> QED
  BY <1>1, <1>2, <1>3, <1>11, <1>12, <1>13, <1>14, WriteStep

-----------------------------------------------------------------------------
(* The beginning and the end of a call.                                    *)

LEMMA SubmitStep ==
  ASSUME SinksInv, Submit PROVE SinksInv'
<1>1. /\ run' = Fresh /\ before' = target /\ target' = target
      /\ request' = request /\ faults' = faults /\ attempts' = attempts + 1
      /\ attempts < MaxAttempts
  BY DEF Submit
<1>2. /\ run'.pc = "parse" /\ run'.at = 1 /\ run'.rows = 0 /\ run'.sent = 0
      /\ run'.results = <<>> /\ run'.answer = "none" /\ run'.ignored = {}
      /\ run' \in Runs
  BY <1>1 DEF Fresh, Runs, Pcs, Steps
<1>3. Sinks' = Sinks /\ RowsGiven' = RowsGiven
  BY <1>1 DEF Sinks, RowsGiven
<1>4. TypeOK'
  <2>1. attempts' \in 0..MaxAttempts
    BY <1>1, BoundsAssumption DEF SinksInv, TypeOK
  <2>2. Len(run'.results) <= Len(Sinks)
    BY <1>2, SinkFacts DEF SinksInv
  <2> QED
    BY <1>1, <1>2, <1>3, <2>1, <2>2 DEF SinksInv, TypeOK
<1>5. TablesInv' /\ NothingUnlessAdmitted'
  BY <1>1, <1>3 DEF SinksInv, TablesInv, NothingUnlessAdmitted, Admitted
<1>6. RunInv'
  BY <1>1, <1>2 DEF RunInv
<1>7. Done' /\ Rest'
  BY <1>1, <1>2 DEF Done, Rest
<1>8. Current' /\ Reading'
  BY <1>2 DEF Current, Reading, ReadingOf
<1> QED
  BY <1>4, <1>5, <1>6, <1>7, <1>8 DEF SinksInv

LEMMA CrashStep ==
  ASSUME SinksInv, Crash PROVE SinksInv'
<1>1. /\ run.pc # "idle" /\ Frame /\ run' = Faulty(Failed("none"))
      /\ \/ target' = target
         \/ /\ run.pc = "write" /\ Sink.kind \in Files
            /\ target' = [target EXCEPT ![run.at] = BrokenFile]
  BY Frames DEF Crash
<1>2. /\ Has(run', "idle", run.at, run.rows, run.step, run.sent, run.results,
             "none", run.ignored)
      /\ Keeps(run')
  BY <1>1, FailedFacts DEF SinksInv, TypeOK
<1>3. /\ target' \in [DOMAIN Sinks -> Tables] /\ TablesInv' /\ NothingUnlessAdmitted'
      /\ \A i \in DOMAIN run.results : target'[i] = target[i]
  <2>1. CASE target' = target
    BY <1>1, <2>1 DEF SinksInv, TypeOK, TablesInv, NothingUnlessAdmitted, Admitted,
                      RowsGiven, Sinks, Frame
  <2>2. CASE /\ run.pc = "write" /\ Sink.kind \in Files
             /\ target' = [target EXCEPT ![run.at] = BrokenFile]
    <3>1. run.at <= Len(Sinks) /\ BrokenFile \in Tables /\ IsTable(Sink, BrokenFile)
      BY <2>2, FileFacts
    <3> QED
      BY <1>1, <2>2, <3>1, TableStep
  <2> QED
    BY <1>1, <2>1, <2>2
<1>4. \A i : MayDiffer(i)'
  BY <1>2 DEF MayDiffer, Has
<1> QED
  BY <1>1, <1>2, <1>3, <1>4, EndStep

(***************************************************************************)
(* The invariant holds in every state, whatever the requests, and however  *)
(* often they are submitted, fail and crash.                               *)
(***************************************************************************)
LEMMA InitHolds ==
  ASSUME Init PROVE SinksInv
<1>1. /\ request \in Requests /\ attempts = 0 /\ faults = 0 /\ before = target
      /\ target = [i \in DOMAIN Sinks |-> IF Sinks[i].absent THEN Absent ELSE New]
      /\ run = [Fresh EXCEPT !.pc = "idle"]
  BY DEF Init, Sinks
<1>2. /\ run.pc = "idle" /\ run.results = <<>> /\ run.answer = "none"
      /\ run.ignored = {} /\ run \in Runs
  <2> DEFINE q == Fresh
  <2>1. q \in Runs /\ q.results = <<>> /\ q.answer = "none" /\ q.ignored = {}
    BY DEF Fresh, Runs, Pcs, Steps
  <2>2. run = [q EXCEPT !.pc = "idle"] /\ "idle" \in Pcs
    BY <1>1 DEF Pcs
  <2> HIDE DEF q
  <2> QED
    BY <2>1, <2>2 DEF Runs
<1>3. Sinks \in Seq(AllSinks) /\ Len(Sinks) > 0
  BY <1>1, RequestFacts DEF Sinks
<1>4. target \in [DOMAIN Sinks -> Tables]
  BY <1>1, TableFacts
<1>5. TypeOK
  <2>1. Len(run.results) <= Len(Sinks)
    BY <1>2, <1>3
  <2> QED
    BY <1>1, <1>2, <1>4, <2>1, BoundsAssumption DEF TypeOK
<1>6. ASSUME NEW i \in DOMAIN Sinks PROVE IsTable(Sinks[i], target[i])
  <2> DEFINE s == Sinks[i]
  <2>1. s \in AllSinks /\ target[i] \in {Absent, New}
    BY <1>1, <1>3
  <2> HIDE DEF s
  <2>2. s.rows \in 0..MaxRow /\ MaxRow \in Nat
    BY <2>1, BoundsAssumption DEF AllSinks
  <2>3. \A t \in {Absent, New} : t.count = NoRows /\ t.state # "broken"
    BY TableFacts
  <2>4. IsWhole(s, target[i])
    <3>1. \A r \in 1..s.rows : NoRows[r] = NoRows[1]
      BY <2>2, TableFacts
    <3>2. \A r \in 2..MaxRow : NoRows[r] <= NoRows[r - 1]
      BY <2>2, TableFacts
    <3>3. target[i].state = "there" => target[i] = New
      BY <2>1, TableFacts
    <3> QED
      BY <2>1, <2>3, <3>1, <3>2, <3>3 DEF IsWhole
  <2> QED
    BY <2>1, <2>3, <2>4 DEF IsTable, s
<1>7. TablesInv
  BY <1>1, <1>6 DEF TablesInv
<1>8. RunInv
  BY <1>2 DEF RunInv
<1>9. Done /\ Rest /\ Current /\ Reading
  BY <1>1, <1>2 DEF Done, Rest, Current, Reading, ReadingOf
<1>10. NothingUnlessAdmitted
  BY <1>1 DEF NothingUnlessAdmitted
<1> QED
  BY <1>5, <1>7, <1>8, <1>9, <1>10 DEF SinksInv

THEOREM RunInvariance == Spec => []SinksInv
<1>1. Init => SinksInv
  BY InitHolds
<1>2. SinksInv /\ [Next]_vars => SinksInv'
  <2> SUFFICES ASSUME SinksInv, [Next]_vars PROVE SinksInv'
    OBVIOUS
  <2>1. CASE Submit
    BY <2>1, SubmitStep
  <2>2. CASE PassDeadline
    BY <2>2, LateStep
  <2>3. CASE TimeOut
    BY <2>3, TimeOutStep
  <2>4. CASE Crash
    BY <2>4, CrashStep
  <2>5. CASE Parse \/ BeginIngest \/ LoadSource \/ SourceFails \/ FinishIngest
    BY <2>5, IngestStep
  <2>6. CASE CheckBudget \/ MakeFrame \/ Transform \/ TransformFails
    BY <2>6, TransformStep
  <2>7. CASE BeginSink \/ SinkQueryFails
    BY <2>7, BeginStep
  <2>8. CASE FinishRun
    BY <2>8, FinishStep
  <2>9. CASE WriteWhole \/ WriteFileFails \/ PutObjectFails
    BY <2>9, FileStep
  <2>10. CASE Execute
    BY <2>10, ExecuteStep
  <2>11. CASE StatementRefused \/ StatementFails
    BY <2>11, ErrorStep
  <2>12. CASE DropFails
    BY <2>12, DropStep
  <2>13. CASE UNCHANGED vars
    <3>1. /\ request' = request /\ attempts' = attempts /\ run' = run
          /\ target' = target /\ before' = before /\ faults' = faults
      BY <2>13 DEF vars
    <3>2. Sinks' = Sinks /\ Sink' = Sink /\ Target' = Target /\ RowsGiven' = RowsGiven
      BY <3>1 DEF Sinks, Sink, Target, RowsGiven
    <3>3. TypeOK' /\ TablesInv' /\ RunInv' /\ NothingUnlessAdmitted'
      BY <3>1, <3>2 DEF SinksInv, TypeOK, TablesInv, RunInv, NothingUnlessAdmitted,
                        Admitted
    <3>4. Done' /\ Rest' /\ Current'
      BY <3>1, <3>2 DEF SinksInv, Done, Rest, MayDiffer, Current
    <3>5. Reading'
      BY <3>1, <3>2 DEF SinksInv, Reading, ReadingOf, Admitted
    <3> QED
      BY <3>3, <3>4, <3>5 DEF SinksInv
  <2> QED
    BY <2>1, <2>2, <2>3, <2>4, <2>5, <2>6, <2>7, <2>8, <2>9, <2>10, <2>11, <2>12,
       <2>13 DEF Next
<1> QED
  BY <1>1, <1>2, PTL DEF Spec

(***************************************************************************)
(* TypeOK, of the locals of rdp_run_pipeline_json and of the tables.       *)
(***************************************************************************)
THEOREM RunTyped == Spec => []TypeOK
<1>1. SinksInv => TypeOK
  BY DEF SinksInv
<1> QED
  BY <1>1, RunInvariance, PTL

(***************************************************************************)
(* The results and the error that rdp_run_pipeline_json answers with say   *)
(* what has become of each sink, for every request and however many calls, *)
(* faults and crashes there were before.                                   *)
(***************************************************************************)
THEOREM TheAnswerIsTrue == Spec => []AnswerIsTrue
<1>1. SinksInv => AnswerIsTrue
  <2> SUFFICES ASSUME SinksInv, Answered PROVE
        /\ run.answer = "ok" => Len(run.results) = Len(Sinks)
        /\ \A i \in DOMAIN run.results :
             /\ run.results[i] = "ok" =>
                  /\ target[i].count = Load(i)
                  /\ Sinks[i].rows > 0 => target[i].state = "there"
             /\ run.results[i] = "pending" => target[i] = before[i]
             /\ (run.results[i] = "error" /\ Sinks[i].kind \in {"postgresql", "oracle"})
                  => target[i].count \in {before[i].count, NoRows, Load(i)}
        /\ \A i \in DOMAIN Sinks \ DOMAIN run.results :
             target[i] # before[i] =>
               /\ i = Len(run.results) + 1 /\ run.answer = "sink"
               /\ Sinks[i].kind = "file" /\ target[i] = BrokenFile
    BY DEF AnswerIsTrue
  <2>1. run.answer = "ok" => Len(run.results) = Len(Sinks)
    BY DEF SinksInv, RunInv
  <2>2. ASSUME NEW i \in DOMAIN Sinks
        PROVE  Load(i) = Added(Base(Sinks[i], before[i], i \in run.ignored),
                               1, Sinks[i].rows)
    <3> DEFINE t == IF Replaces(i) THEN New ELSE before[i]
               base == Base(Sinks[i], before[i], i \in run.ignored)
    <3>1. /\ t \in Tables /\ Sinks[i].rows \in Nat
      BY <2>2, SinkFacts, TableFacts, BoundsAssumption DEF SinksInv, AllSinks
    <3>2. t.count = base
      BY TableFacts DEF Base, Replaces
    <3>3. Load(i) = With(t, 1, Sinks[i].rows).count
      BY DEF Load
    <3>4. t.count \in Counts
      BY <3>1 DEF Tables, Counts
    <3> HIDE DEF t
    <3>5. With(t, 1, Sinks[i].rows).count = Added(t.count, 1, Sinks[i].rows)
      BY <3>1, <3>4, AddedFacts, WithFacts
    <3> QED
      BY <3>2, <3>3, <3>5
  <2>3. ASSUME NEW i \in DOMAIN run.results
        PROVE  Outcome(Sinks[i], target[i], before[i], run.results[i],
                       i \in run.ignored, run.faulty)
               /\ i \in DOMAIN Sinks
    BY SinkFacts DEF SinksInv, Done
  <2>4. \A i \in DOMAIN Sinks \ DOMAIN run.results : i > Len(run.results)
    BY SinkFacts DEF SinksInv
  <2>5. \A i \in DOMAIN Sinks \ DOMAIN run.results :
          target[i] # before[i] =>
            /\ i = Len(run.results) + 1 /\ run.answer = "sink"
            /\ Sinks[i].kind = "file" /\ target[i] = BrokenFile
    BY <2>4 DEF SinksInv, Rest, MayDiffer, Answered
  <2>6. ASSUME NEW i \in DOMAIN run.results
        PROVE  /\ run.results[i] = "ok" =>
                    /\ target[i].count = Load(i)
                    /\ Sinks[i].rows > 0 => target[i].state = "there"
               /\ run.results[i] = "pending" => target[i] = before[i]
               /\ (run.results[i] = "error" /\ Sinks[i].kind \in {"postgresql", "oracle"})
                    => target[i].count \in {before[i].count, NoRows, Load(i)}
    BY <2>2, <2>3 DEF Outcome
  <2> QED
    BY <2>1, <2>5, <2>6
<1> QED
  BY <1>1, RunInvariance, PTL

(***************************************************************************)
(* At every moment, the sinks of rdp_run_pipeline_json hold whole loads    *)
(* (SQL Server: and the first rows of one), of rows within the budget.     *)
(***************************************************************************)
THEOREM TheSinksAreSound == Spec => []SinksAreSound
<1>1. SinksInv => SinksAreSound
  BY DEF SinksInv, SinksAreSound, WholeLoads, TablesInv, IsTable
<1> QED
  BY <1>1, RunInvariance, PTL

(***************************************************************************)
(* With no fault, postgres_copy_sink and mssql_row_sink load every table   *)
(* that is there or may be created.                                        *)
(***************************************************************************)
THEOREM HealthySinksLoad == Spec => []PostgresAndMssqlLoad
<1>1. SinksInv => PostgresAndMssqlLoad
  <2> SUFFICES ASSUME SinksInv, run.answer = "ok", ~run.faulty,
                      NEW i \in InKind({"postgresql", "mssql"}),
                      Sinks[i].create \/ before[i].state = "there"
               PROVE  run.results[i] = "ok"
    BY DEF PostgresAndMssqlLoad, LoadsWhenHealthy
  <2>1. i \in DOMAIN Sinks /\ Sinks[i].kind \in {"postgresql", "mssql"}
    BY DEF InKind
  <2>2. Len(run.results) = Len(Sinks)
    BY DEF SinksInv, RunInv
  <2>3. i \in DOMAIN run.results
    BY <2>1, <2>2, SinkFacts DEF SinksInv
  <2> QED
    BY <2>1, <2>3 DEF SinksInv, Done, Outcome, MustLoad
<1> QED
  BY <1>1, RunInvariance, PTL
=============================================================================
