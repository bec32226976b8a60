-------------------------- MODULE ExecutionEngine --------------------------
(***************************************************************************)
(* src/execution/mod.rs: filter_parallel, map_parallel and reduce on one   *)
(* ExecutionEngine.  A run cuts its dataset into chunks; the threads of    *)
(* the engine's rayon pool execute them, each chunk under a permit of the  *)
(* run's own semaphore; the engine's one set of metrics follows it; the    *)
(* outputs of the chunks are put together in the order of the input.       *)
(*                                                                         *)
(* rayon is outside the repository.  It is modelled from how the engine    *)
(* uses it: a parallel iterator over the chunks is a job that can be split *)
(* in the middle as often as rayon likes, a thread without work takes any  *)
(* job, and runs the chunks of its job in order; a panic abandons the rest *)
(* of that job only, and `install` resumes the panic once every other job  *)
(* of the run has ended.                                                   *)
(***************************************************************************)
EXTENDS SemaphoreOps, Chunks, Sequences, FiniteSets, SequencesExt

CONSTANTS
  Runs,     \* calls made on the engine
  Setups,   \* the engines, builds and callers: see SetupsAssumption
  MaxThreads,  \* the threads of the largest pool
  Word      \* usize arithmetic is modulo Word

\* A call: the number of rows of its dataset, the rows its predicate keeps
\* (a mapper keeps all of them), and the rows its closure panics on: for a
\* mapper also those it returns with the wrong length.  A reduce has no
\* chunks.
Call == [kind: {"parallel", "reduce"}, rows: Nat, kept: SUBSET Nat,
         bad: SUBSET Nat]

\* ExecutionOptions, within what ExecutionEngine::new asserts; whether the
\* build panics on arithmetic overflow; the calls its callers choose from, and
\* how many they have under way at once.
Setup == [num_threads: Nat \ {0}, chunk_size: Nat \ {0},
          max_in_flight_chunks: Nat \ {0}, overflow_checks: BOOLEAN,
          calls: SUBSET Call, at_once: Nat]

ASSUME SetupsAssumption ==
  /\ Setups \subseteq Setup
  /\ Word \in Nat \ {0, 1}
  /\ MaxThreads \in Nat /\ \A s \in Setups : s.num_threads <= MaxThreads
  /\ MaxThreads < Word  \* a thread takes memory

VARIABLES
  setup,     \* the engine, and how it is called
  job,       \* what each call was given
  run,       \* "ready", "running", "done" or "panicked"
  sem,       \* the Semaphore each run makes for itself
  tasks,     \* rayon jobs nobody has taken: chunks lo..hi-1 of a run
  worker,    \* what each thread of the pool is doing
  results,   \* per_chunk: what each finished chunk let through
  failed,    \* runs in which a closure has panicked
  metrics,   \* the engine's ExecutionMetrics
  report,    \* the snapshot in each run's RunFinished event
  output     \* the rows of the DataSet each run returns

vars == <<setup, job, run, sem, tasks, worker, results, failed, metrics, report,
          output>>

None == "none"

\* at: "idle"; "job", with the chunks lo..hi-1 of a run still to split or
\* fold; then for chunk lo "acquire", "start", "rows", "release"; and "fold",
\* between two chunks of a job.  row and out are the loop over a chunk's rows.
Doing(at, r, lo, hi, row, out) ==
  [at |-> at, run |-> r, lo |-> lo, hi |-> hi, row |-> row, out |-> out]
Idle == Doing("idle", None, 0, 0, 0, <<>>)

ChunkCount(r) ==
  IF job[r].kind = "parallel" THEN DivCeil(job[r].rows, setup.chunk_size) ELSE 0
ChunksOf(r) == 0..(ChunkCount(r) - 1)
RowsOf(r, c) == ChunkRange(job[r].rows, setup.chunk_size, c)

Task(r, lo, hi) == [run |-> r, lo |-> lo, hi |-> hi]
\* The threads of the pool.
Pool == 1..setup.num_threads

Busy == {w \in Pool : worker[w] # Idle}
WorkersOn(r) == {w \in Busy : worker[w].run = r}

\* Threads that acquire has let in, and the chunks they execute.
Executing(w) == worker[w].at \in {"start", "rows", "release"}
InFlight(r) == {worker[w].lo : w \in {v \in WorkersOn(r) : Executing(v)}}

ZeroMetrics(id) ==
  [run_id |-> id, ended |-> FALSE, rows |-> 0, started |-> 0, finished |-> 0,
   throttled |-> 0, active |-> 0, max_active |-> 0]

Init ==
  /\ setup \in Setups
  /\ job \in [Runs -> setup.calls]
  /\ run = [r \in Runs |-> "ready"]
  /\ sem = [r \in Runs |-> NewSemaphore(ChunksOf(r), setup.max_in_flight_chunks)]
  /\ tasks = {}
  /\ worker = [w \in Pool |-> Idle]
  /\ results = [r \in Runs |-> <<>>]
  /\ failed = {}
  /\ metrics = ZeroMetrics(0)
  /\ report = [r \in Runs |-> ZeroMetrics(0)]
  /\ output = [r \in Runs |-> <<>>]
-----------------------------------------------------------------------------
(* A call begins: begin_run clears the shared metrics, RunStarted is       *)
(* emitted, and a parallel call gets its semaphore and its chunks.  A      *)
(* parallel call runs inside the pool, so a thread must be free for it.    *)

\* Mutant: begin_run forgets to clear one of its counters.
KeepMaxActive == [ZeroMetrics(metrics.run_id + 1)
                    EXCEPT !.max_active = metrics.max_active]

BeginMetrics == ZeroMetrics(metrics.run_id + 1)

BeginRun(r) ==
  /\ run[r] = "ready"
  /\ Cardinality({q \in Runs : run[q] = "running"}) < setup.at_once
  /\ job[r].kind = "parallel" => Busy # Pool
  /\ run' = [run EXCEPT ![r] = "running"]
  /\ metrics' = BeginMetrics
  /\ tasks' = tasks \cup
       (IF ChunkCount(r) = 0 THEN {} ELSE {Task(r, 0, ChunkCount(r))})
  /\ UNCHANGED <<setup, job, sem, worker, results, failed, report, output>>

(* rayon: an idle thread takes a job, splits it, or folds it.              *)

TakeJob(w) ==
  /\ worker[w] = Idle
  /\ \E t \in tasks :
       /\ worker' = [worker EXCEPT ![w] = Doing("job", t.run, t.lo, t.hi, 0, <<>>)]
       /\ tasks' = tasks \ {t}
  /\ UNCHANGED <<setup, job, run, sem, results, failed, metrics, report, output>>

SplitJob(w) ==
  /\ worker[w].at = "job"
  /\ worker[w].hi - worker[w].lo >= 2
  /\ LET mid == (worker[w].lo + worker[w].hi) \div 2
     IN  /\ worker' = [worker EXCEPT ![w].hi = mid]
         /\ tasks' = tasks \cup {Task(worker[w].run, mid, worker[w].hi)}
  /\ UNCHANGED <<setup, job, run, sem, results, failed, metrics, report, output>>

(* The closure of the parallel map, one chunk at a time.                   *)

CallAcquire(w) ==
  /\ worker[w].at \in {"job", "fold"}
  /\ worker' = [worker EXCEPT ![w].at = "acquire"]
  /\ sem' = [sem EXCEPT ![worker[w].run] = Called(@, worker[w].lo)]
  /\ UNCHANGED <<setup, job, run, tasks, results, failed, metrics, report, output>>

TakePermit(w) ==
  /\ worker[w].at = "acquire"
  /\ CanTake(sem[worker[w].run], worker[w].lo)
  /\ worker' = [worker EXCEPT ![w].at = "start"]
  /\ sem' = [sem EXCEPT ![worker[w].run] = Taken(@, worker[w].lo)]
  /\ UNCHANGED <<setup, job, run, tasks, results, failed, metrics, report, output>>

StartWaiting(w) ==
  /\ worker[w].at = "acquire"
  /\ MustWait(sem[worker[w].run], worker[w].lo)
  /\ sem' = [sem EXCEPT ![worker[w].run] = Waiting(@, worker[w].lo)]
  /\ UNCHANGED <<setup, job, run, tasks, worker, results, failed, metrics, report,
                 output>>

SpuriousWakeup(w) ==
  /\ worker[w].at = "acquire"
  /\ sem[worker[w].run].phase[worker[w].lo] = "waiting"
  /\ sem' = [sem EXCEPT ![worker[w].run] = WokenUp(@, worker[w].lo)]
  /\ UNCHANGED <<setup, job, run, tasks, worker, results, failed, metrics, report,
                 output>>

\* The loop over the rows of a chunk, before `row`.
Reads(w, row, out) == [worker EXCEPT
  ![w] = Doing("rows", @.run, @.lo, @.hi, row, out)]

\* on_throttle_wait when acquire waited, then on_chunk_start, whose
\* `active_chunks.fetch_add(1) + 1` is checked when the build checks overflow.
Throttled(w) == worker[w].lo \in sem[worker[w].run].waited
MetricsAtStart(w) ==
  LET now == (metrics.active + 1) % Word
  IN  [metrics EXCEPT !.throttled = @ + (IF Throttled(w) THEN 1 ELSE 0),
                      !.started = @ + 1,
                      !.active = now,
                      !.max_active = IF now > @ THEN now ELSE @]
Overflows == setup.overflow_checks /\ metrics.active = Word - 1

StartChunk(w) ==
  /\ worker[w].at = "start"
  /\ ~Overflows
  /\ metrics' = MetricsAtStart(w)
  /\ worker' = Reads(w, RowsOf(worker[w].run, worker[w].lo).start, <<>>)
  /\ UNCHANGED <<setup, job, run, sem, tasks, results, failed, report, output>>

\* A panic unwinds out of the closure: the chunk keeps its permit, its count
\* in active_chunks stays, and the rest of the job is dropped.
Unwind(w) ==
  /\ worker' = [worker EXCEPT ![w] = Idle]
  /\ failed' = failed \cup {worker[w].run}
  /\ UNCHANGED <<setup, job, run, sem, tasks, results, report, output>>

OverflowPanic(w) ==
  /\ worker[w].at = "start"
  /\ Overflows
  /\ metrics' = [metrics EXCEPT !.started = @ + 1, !.active = 0,
                   !.throttled = @ + (IF Throttled(w) THEN 1 ELSE 0)]
  /\ Unwind(w)

RowsLeft(w) == worker[w].row < RowsOf(worker[w].run, worker[w].lo).end

ProcessRow(w) ==
  /\ worker[w].at = "rows" /\ RowsLeft(w)
  /\ worker[w].row \notin job[worker[w].run].bad
  /\ metrics' = [metrics EXCEPT !.rows = @ + 1]
  /\ worker' = Reads(w, worker[w].row + 1,
                     IF worker[w].row \in job[worker[w].run].kept
                     THEN Append(worker[w].out, worker[w].row) ELSE worker[w].out)
  /\ UNCHANGED <<setup, job, run, sem, tasks, results, failed, report, output>>

RowPanics(w) ==
  /\ worker[w].at = "rows" /\ RowsLeft(w)
  /\ worker[w].row \in job[worker[w].run].bad
  /\ metrics' = [metrics EXCEPT !.rows = @ + 1]
  /\ Unwind(w)

\* ChunkFinished, then on_chunk_end, whose fetch_sub wraps in every build.
EndChunk(w) ==
  /\ worker[w].at = "rows" /\ ~RowsLeft(w)
  /\ metrics' = [metrics EXCEPT !.finished = @ + 1,
                                !.active = (@ + Word - 1) % Word]
  /\ worker' = [worker EXCEPT ![w].at = "release"]
  /\ UNCHANGED <<setup, job, run, sem, tasks, results, failed, report, output>>

\* release, and the chunk's rows go to its place in per_chunk.
Filled(per_chunk, c, rows) ==
  [d \in DOMAIN per_chunk \cup {c} |-> IF d = c THEN rows ELSE per_chunk[d]]

ReleasePermit(w) ==
  /\ worker[w].at = "release"
  /\ LET r == worker[w].run
         c == worker[w].lo
     IN  /\ \E s \in AfterRelease(sem[r], c) : sem' = [sem EXCEPT ![r] = s]
         /\ results' = [results EXCEPT ![r] = Filled(@, c, worker[w].out)]
         /\ worker' = [worker EXCEPT ![w] =
              IF c + 1 = worker[w].hi THEN Idle
              ELSE Doing("fold", r, c + 1, @.hi, 0, <<>>)]
  /\ UNCHANGED <<setup, job, run, tasks, failed, metrics, report, output>>

(* The call ends once none of its jobs is left: the outputs are flattened  *)
(* in chunk order, end_run, RunFinished; or the panic is resumed.          *)

Joined(r) ==
  /\ run[r] = "running"
  /\ \A t \in tasks : t.run # r
  /\ WorkersOn(r) = {}

Flattened(r) == FlattenSeq([i \in 1..ChunkCount(r) |-> results[r][i - 1]])

EndMetrics(r) ==
  /\ metrics' = [metrics EXCEPT !.ended = TRUE]
  /\ report' = [report EXCEPT ![r] = metrics']
  /\ run' = [run EXCEPT ![r] = "done"]

FinishRun(r) ==
  /\ job[r].kind = "parallel" /\ Joined(r) /\ r \notin failed
  /\ Busy # Pool
  /\ output' = [output EXCEPT ![r] = Flattened(r)]
  /\ EndMetrics(r)
  /\ UNCHANGED <<setup, job, sem, tasks, worker, results, failed>>

ResumePanic(r) ==
  /\ Joined(r) /\ r \in failed
  /\ Busy # Pool
  /\ run' = [run EXCEPT ![r] = "panicked"]
  /\ UNCHANGED <<setup, job, sem, tasks, worker, results, failed, metrics, report,
                 output>>

\* reduce runs on the calling thread; processing::reduce touches no metrics.
FinishReduce(r) ==
  /\ job[r].kind = "reduce" /\ run[r] = "running"
  /\ EndMetrics(r)
  /\ UNCHANGED <<setup, job, sem, tasks, worker, results, failed, output>>
-----------------------------------------------------------------------------
ChunkStep(w) ==
  \/ CallAcquire(w) \/ TakePermit(w) \/ StartWaiting(w) \/ StartChunk(w)
  \/ OverflowPanic(w) \/ ProcessRow(w) \/ RowPanics(w) \/ EndChunk(w)
  \/ ReleasePermit(w)
WorkerStep(w) == TakeJob(w) \/ SplitJob(w) \/ ChunkStep(w)
EndStep(r) == FinishRun(r) \/ ResumePanic(r) \/ FinishReduce(r)

Next ==
  \/ \E r \in Runs : BeginRun(r) \/ EndStep(r)
  \/ \E w \in Pool : WorkerStep(w) \/ SpuriousWakeup(w)

\* A thread of the pool that can run is run, and so is the thread that made
\* the call.  Callers need not call, and the condition variable need not wake
\* anybody on its own.
Fairness ==
  /\ \A w \in 1..MaxThreads : WF_vars(w \in Pool /\ WorkerStep(w))
  /\ \A r \in Runs : WF_vars(EndStep(r))

Spec == Init /\ [][Next]_vars /\ Fairness
-----------------------------------------------------------------------------
\* Chunks a panic has left holding a permit that nobody will give back.
Leaked(r) == InPhase(sem[r], "holding") \ InFlight(r)
PermitsExhausted(r) == Cardinality(Leaked(r)) = setup.max_in_flight_chunks

(***************************************************************************)
(* A permit is either free, or with a thread that executes the chunk it    *)
(* was granted for, or lost to a panic in that chunk: no other step of the *)
(* closure loses one or gives one back twice.  So max_in_flight_chunks     *)
(* bounds the chunks a run executes at once, however rayon splits and      *)
(* steals and whoever is woken.                                            *)
(***************************************************************************)
PermitsAccountedFor == \A r \in Runs :
  /\ sem[r].permits + Cardinality(InFlight(r)) + Cardinality(Leaked(r))
       = setup.max_in_flight_chunks
  /\ Leaked(r) # {} => r \in failed

(***************************************************************************)
(* A run that returns, returns what a sequential loop over the dataset     *)
(* would: the rows the predicate keeps, each once, in the input's order.   *)
(***************************************************************************)
KeptUpTo(j, n) ==
  LET kept[i \in 0..j.rows] ==
        IF i = 0 THEN <<>>
        ELSE IF i - 1 \in j.kept THEN Append(kept[i - 1], i - 1) ELSE kept[i - 1]
  IN  kept[n]
Sequential(r) == KeptUpTo(job[r], job[r].rows)
OutputIsSequential == \A r \in Runs :
  (run[r] = "done" /\ job[r].kind = "parallel") => output[r] = Sequential(r)

(***************************************************************************)
(* While calls do not overlap, the snapshot in RunFinished describes the   *)
(* run that finished: all its rows, all its chunks, and a peak between one *)
(* and what the options allow, whatever a run before it left behind        *)
(* (observer.rs: "Real-time metrics for an execution run").                *)
(***************************************************************************)
ReportIsExact == \A r \in Runs : run[r] = "done" /\ setup.at_once = 1 =>
  LET rep == report[r]
      chunks == ChunkCount(r)
  IN  /\ rep.ended
      /\ rep.rows = IF job[r].kind = "parallel" THEN job[r].rows ELSE 0
      /\ rep.started = chunks /\ rep.finished = chunks
      /\ rep.throttled <= chunks
      /\ rep.max_active <= Least(setup.max_in_flight_chunks,
                                  Least(setup.num_threads, chunks))
      /\ chunks > 0 => rep.max_active >= 1

(***************************************************************************)
(* A call ends, or a panic has taken every permit of some run: nothing     *)
(* else (no throttling, no lost wakeup, no order of stealing) makes a call *)
(* hang.  Each call is made once, so that all of them end just if there is *)
(* always a later state in which none is under way.                        *)
(***************************************************************************)
EndsUnlessExhausted ==
  []<>((\E r \in Runs : PermitsExhausted(r)) \/ \A r \in Runs : run[r] # "running")

(***************************************************************************)
(* What the documentation of map_parallel says: "Panics if `mapper`        *)
(* returns rows with a different length than the schema field count" (the  *)
(* call panics; it does not stay for ever).                                *)
(***************************************************************************)
MapperPanicReachesCaller == \A r \in Runs :
  r \in failed ~> run[r] = "panicked"
=============================================================================
