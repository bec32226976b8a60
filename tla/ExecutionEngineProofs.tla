----------------------- MODULE ExecutionEngineProofs -----------------------
(***************************************************************************)
(* Proofs about module ExecutionEngine, for any calls, any engine and any  *)
(* number of threads.                                                      *)
(***************************************************************************)
EXTENDS ExecutionEngine, Induction

USE SetupsAssumption

\* Chunks lo..hi-1 of a run, of a rayon job nobody has taken or of a thread's.
Holds(s, r, c) == s.run = r /\ s.lo <= c /\ c < s.hi
Apart(s, t) == s.run = t.run => s.hi <= t.lo \/ t.hi <= s.lo

Steps == {"job", "acquire", "start", "rows", "release", "fold"}
AtWork == [at: Steps, run: Runs, lo: Nat, hi: Nat, row: Nat, out: Seq(Nat)]
Metrics == [run_id: Nat, ended: BOOLEAN, rows: Nat, started: Nat, finished: Nat,
            throttled: Nat, active: 0..(Word - 1), max_active: Nat]
SemaphoreOf(r) == [permits: Nat, phase: [ChunksOf(r) -> Phases],
                   waited: SUBSET ChunksOf(r)]

TypeOK ==
  /\ setup \in Setups
  /\ job \in [Runs -> setup.calls]
  /\ run \in [Runs -> {"ready", "running", "done", "panicked"}]
  /\ sem = [r \in Runs |-> sem[r]] /\ \A r \in Runs : sem[r] \in SemaphoreOf(r)
  /\ tasks \subseteq [run: Runs, lo: Nat, hi: Nat]
  /\ worker \in [Pool -> {Idle} \cup AtWork]
  /\ results = [r \in Runs |-> results[r]]
  /\ \A r \in Runs : /\ DOMAIN results[r] \subseteq ChunksOf(r)
                     /\ results[r] \in [DOMAIN results[r] -> Seq(Nat)]
  /\ failed \subseteq Runs
  /\ metrics \in Metrics /\ report \in [Runs -> Metrics]
  /\ output \in [Runs -> Seq(Nat)]
-----------------------------------------------------------------------------
(* Where the chunks of a run are: waiting in a job, with a thread, in      *)
(* per_chunk, or lost to a panic; never in two places.                     *)

InBounds(s) == /\ run[s.run] = "running"
               /\ s.lo < s.hi /\ s.hi <= ChunkCount(s.run)
NotYetDone(s) == \A c \in DOMAIN results[s.run] : c < s.lo \/ s.hi <= c

OnePlace ==
  /\ \A t \in tasks : InBounds(t) /\ NotYetDone(t)
  /\ \A w \in Busy : InBounds(worker[w]) /\ NotYetDone(worker[w])
  /\ \A t, u \in tasks : t # u => Apart(t, u)
  /\ \A w, v \in Busy : w # v => Apart(worker[w], worker[v])
  /\ \A t \in tasks : \A w \in Busy : Apart(t, worker[w])
  /\ \A r \in Runs : run[r] = "ready" => DOMAIN results[r] = {}

SomePlace == \A r \in Runs \ failed : run[r] = "running" =>
  \A c \in ChunksOf(r) : \/ c \in DOMAIN results[r]
                         \/ \E t \in tasks : Holds(t, r, c)
                         \/ \E w \in Busy : Holds(worker[w], r, c)

\* What the semaphore of a run says of a chunk, by where the chunk is.
Untouched(s, from) == \A c \in ChunksOf(s.run) :
  from <= c /\ c < s.hi => sem[s.run].phase[c] = "out"
PhaseFollows(s) ==
  /\ s.at = "acquire" => sem[s.run].phase[s.lo] \in {"entering", "waiting"}
  /\ s.at \in {"start", "rows", "release"} => sem[s.run].phase[s.lo] = "holding"
  /\ s.at \in {"job", "fold"} => sem[s.run].phase[s.lo] = "out"
  /\ Untouched(s, s.lo + 1)

PhasesFollow ==
  /\ \A t \in tasks : Untouched(t, t.lo)
  /\ \A w \in Busy : PhaseFollows(worker[w])
  /\ \A r \in Runs : run[r] = "ready" =>
       \A c \in ChunksOf(r) : sem[r].phase[c] = "out"
  /\ \A r \in Runs \ failed : InPhase(sem[r], "holding") \subseteq InFlight(r)

Conserved == \A r \in Runs :
  sem[r].permits + Cardinality(InPhase(sem[r], "holding"))
    = setup.max_in_flight_chunks
-----------------------------------------------------------------------------
\* The rows a chunk has let through so far are those a sequential loop adds
\* between the chunk's first row and the next row to look at.
Continues(r, c, n, out) ==
  KeptUpTo(job[r], n) = KeptUpTo(job[r], RowsOf(r, c).start) \o out

PartsAreSequential ==
  /\ \A w \in Busy : worker[w].at \in {"rows", "release"} =>
       LET r == worker[w].run
           range == RowsOf(r, worker[w].lo)
       IN  /\ worker[w].row \in range.start..range.end
           /\ worker[w].at = "release" => worker[w].row = range.end
           /\ Continues(r, worker[w].lo, worker[w].row, worker[w].out)
  /\ \A r \in Runs : \A c \in DOMAIN results[r] :
       Continues(r, c, RowsOf(r, c).end, results[r][c])
-----------------------------------------------------------------------------
(* What the metrics count, while calls do not overlap.                     *)

ChunksAt(r, at) == {worker[w].lo : w \in {v \in WorkersOn(r) : worker[v].at = at}}
Finished(r) == DOMAIN results[r] \cup ChunksAt(r, "release")
Started(r) == Finished(r) \cup ChunksAt(r, "rows")
RowsDone(r) == {n \in 0..(job[r].rows - 1) :
  \/ \E c \in Finished(r) : RowsOf(r, c).start <= n /\ n < RowsOf(r, c).end
  \/ \E w \in WorkersOn(r) : /\ worker[w].at = "rows"
                             /\ RowsOf(r, worker[w].lo).start <= n
                             /\ n < worker[w].row}

InTurns == setup.at_once = 1 =>
  \A q, r \in Runs : run[q] = "running" /\ run[r] = "running" => q = r

CountsAreExact == setup.at_once = 1 => \A r \in Runs \ failed : run[r] = "running" =>
  /\ metrics.started = Cardinality(Started(r))
  /\ metrics.finished = Cardinality(Finished(r))
  /\ metrics.active = Cardinality(ChunksAt(r, "rows"))
  /\ metrics.rows = Cardinality(RowsDone(r))
  /\ metrics.throttled <= metrics.started
  /\ metrics.started > 0 => metrics.max_active >= 1
  /\ metrics.max_active <= setup.max_in_flight_chunks
  /\ metrics.max_active <= setup.num_threads
  /\ metrics.max_active <= ChunkCount(r)

\* Only a chunk panics, and a reduce has none.
PanicsAreOfChunks == \A r \in failed : job[r].kind = "parallel"

IInv == /\ TypeOK /\ OnePlace /\ SomePlace /\ PhasesFollow /\ Conserved
        /\ PartsAreSequential /\ PanicsAreOfChunks /\ InTurns /\ CountsAreExact
        /\ OutputIsSequential /\ ReportIsExact
-----------------------------------------------------------------------------
LEMMA SetupFacts ==
  ASSUME TypeOK
  PROVE  /\ setup.num_threads \in Nat \ {0} /\ setup.num_threads < Word
         /\ setup.chunk_size \in Nat \ {0}
         /\ setup.max_in_flight_chunks \in Nat \ {0}
         /\ setup.at_once \in Nat
         /\ \A r \in Runs : job[r] \in Call
BY DEF TypeOK, Setup

LEMMA DivCeilIsNat ==
  ASSUME NEW n \in Nat, NEW size \in Nat \ {0}
  PROVE  DivCeil(n, size) \in Nat
BY DEF DivCeil

LEMMA ChunkCountIsNat ==
  ASSUME TypeOK, NEW r \in Runs
  PROVE  ChunkCount(r) \in Nat
BY SetupFacts, DivCeilIsNat DEF ChunkCount, Call

\* A thread is idle or has a record of its own.
LEMMA WorkerFacts ==
  ASSUME TypeOK
  PROVE  /\ DOMAIN worker = Pool
         /\ \A w \in Pool \ Busy : worker[w] = Idle /\ worker[w].at = "idle"
         /\ \A w \in Busy :
              /\ w \in Pool /\ worker[w] \in AtWork
              /\ worker[w].at \in Steps /\ worker[w].at # "idle"
              /\ worker[w].run \in Runs
              /\ worker[w].lo \in Nat /\ worker[w].hi \in Nat
              /\ worker[w].row \in Nat /\ worker[w].out \in Seq(Nat)
<1>1. \A w \in Pool \ Busy : worker[w] = Idle /\ worker[w].at = "idle"
  BY DEF Busy, Idle, Doing
<1>2. \A w \in Busy : w \in Pool /\ worker[w] \in AtWork
  BY DEF TypeOK, Busy
<1> QED
  BY <1>1, <1>2 DEF TypeOK, AtWork, Steps

\* Neither the engine nor what a call was given changes.
LEMMA Fixed ==
  ASSUME UNCHANGED <<setup, job>>
  PROVE  /\ Pool' = Pool
         /\ \A r : ChunkCount(r)' = ChunkCount(r) /\ ChunksOf(r)' = ChunksOf(r)
         /\ \A r : SemaphoreOf(r)' = SemaphoreOf(r)
         /\ \A r, c : RowsOf(r, c)' = RowsOf(r, c)
BY DEF Pool, ChunkCount, ChunksOf, SemaphoreOf, RowsOf

\* A thread executes, or is about to, a chunk of its run.
LEMMA AtChunk ==
  ASSUME TypeOK, OnePlace, NEW w \in Busy
  PROVE  /\ worker[w].lo \in ChunksOf(worker[w].run)
         /\ run[worker[w].run] = "running"
         /\ worker[w].lo < worker[w].hi
         /\ worker[w].hi <= ChunkCount(worker[w].run)
BY WorkerFacts, ChunkCountIsNat DEF OnePlace, InBounds, ChunksOf

\* The critical sections keep the type of a semaphore.
LEMMA SectionTypes ==
  ASSUME NEW C, NEW s \in [permits: Nat, phase: [C -> Phases], waited: SUBSET C],
         NEW c \in C
  PROVE  LET S == [permits: Nat, phase: [C -> Phases], waited: SUBSET C]
         IN  /\ Called(s, c) \in S /\ Waiting(s, c) \in S /\ WokenUp(s, c) \in S
             /\ s.permits > 0 => Taken(s, c) \in S
             /\ AfterRelease(s, c) \subseteq S
<1> DEFINE S == [permits: Nat, phase: [C -> Phases], waited: SUBSET C]
<1>1. \A p \in Phases : Move(s, c, p) \in [C -> Phases]
  BY DEF Move
<1>2. Called(s, c) \in S /\ Waiting(s, c) \in S
  BY <1>1 DEF Called, Waiting, Phases
<1>3. s.permits > 0 => Taken(s, c) \in S
  BY <1>1 DEF Taken, Phases
<1>4. \A t \in S, d \in C : WokenUp(t, d) \in S
  BY DEF WokenUp, Move, Phases
<1>5. Freed(s, c) \in S
  BY <1>1 DEF Freed, Phases
<1>6. InPhase(s, "waiting") \subseteq C
  BY DEF InPhase
<1>7. AfterRelease(s, c) \subseteq S
  BY <1>4, <1>5, <1>6 DEF AfterRelease
<1> QED
  BY <1>2, <1>3, <1>4, <1>7

-----------------------------------------------------------------------------
(* Type correctness *)

\* The state but the semaphores and the threads.
RestOK ==
  /\ setup \in Setups /\ job \in [Runs -> setup.calls]
  /\ run \in [Runs -> {"ready", "running", "done", "panicked"}]
  /\ tasks \subseteq [run: Runs, lo: Nat, hi: Nat]
  /\ results = [r \in Runs |-> results[r]]
  /\ \A r \in Runs : /\ DOMAIN results[r] \subseteq ChunksOf(r)
                     /\ results[r] \in [DOMAIN results[r] -> Seq(Nat)]
  /\ failed \subseteq Runs
  /\ metrics \in Metrics /\ report \in [Runs -> Metrics]
  /\ output \in [Runs -> Seq(Nat)]
SemOK == sem = [r \in Runs |-> sem[r]] /\ \A r \in Runs : sem[r] \in SemaphoreOf(r)
WorkerOK == worker \in [Pool -> {Idle} \cup AtWork]

LEMMA TypeParts ==
  /\ RestOK /\ SemOK /\ WorkerOK => TypeOK
  /\ RestOK' /\ SemOK' /\ WorkerOK' => TypeOK'
BY DEF TypeOK, RestOK, SemOK, WorkerOK

\* One thread changes.
LEMMA WorkerSet ==
  ASSUME TypeOK, UNCHANGED <<setup, job>>, NEW w \in Pool, NEW x \in {Idle} \cup AtWork,
         worker' = [worker EXCEPT ![w] = x]
  PROVE  WorkerOK'
BY Fixed DEF TypeOK, WorkerOK

\* One semaphore changes.
LEMMA SemSet ==
  ASSUME TypeOK, UNCHANGED <<setup, job>>, NEW r \in Runs, NEW s \in SemaphoreOf(r),
         sem' = [sem EXCEPT ![r] = s]
  PROVE  SemOK' /\ sem'[r] = s /\ \A q \in Runs \ {r} : sem'[q] = sem[q]
<1>1. sem = [q \in Runs |-> sem[q]]
  BY DEF TypeOK
<1>2. sem' = [q \in Runs |-> IF q = r THEN s ELSE sem[q]]
  BY <1>1
<1>3. \A q \in Runs : sem'[q] \in SemaphoreOf(q)
  BY <1>2 DEF TypeOK
<1> QED
  BY <1>2, <1>3, Fixed DEF SemOK

LEMMA RestFixed ==
  ASSUME TypeOK, UNCHANGED <<setup, job, run, tasks, results, failed, metrics, report,
                             output>>
  PROVE  RestOK'
BY Fixed DEF TypeOK, RestOK

LEMMA SemFixed ==
  ASSUME TypeOK, UNCHANGED <<setup, job, sem>>
  PROVE  SemOK'
BY Fixed DEF TypeOK, SemOK

LEMMA WorkerFixed ==
  ASSUME TypeOK, UNCHANGED <<setup, job, worker>>
  PROVE  WorkerOK'
BY Fixed DEF TypeOK, WorkerOK

LEMMA ZeroIsMetrics == \A id \in Nat : ZeroMetrics(id) \in Metrics
BY DEF ZeroMetrics, Metrics

LEMMA InitType == Init => TypeOK
<1> SUFFICES ASSUME Init PROVE TypeOK
  OBVIOUS
<1>1. RestOK
  BY ZeroIsMetrics DEF Init, RestOK
<1>2. /\ setup.max_in_flight_chunks \in Nat
      /\ sem = [r \in Runs |-> NewSemaphore(ChunksOf(r), setup.max_in_flight_chunks)]
  BY DEF Init, Setup
<1>3. SemOK
  BY <1>2 DEF SemOK, SemaphoreOf, NewSemaphore, Phases
<1>4. WorkerOK
  BY DEF Init, WorkerOK
<1> QED
  BY <1>1, <1>3, <1>4, TypeParts

LEMMA TypeBeginRun ==
  ASSUME TypeOK, NEW r \in Runs, BeginRun(r)
  PROVE  TypeOK'
<1>1. BeginMetrics \in Metrics
  <2>1. metrics.run_id + 1 \in Nat
    BY DEF TypeOK, Metrics
  <2> QED
    BY <2>1, ZeroIsMetrics DEF BeginMetrics
<1>2. ChunkCount(r) # 0 => Task(r, 0, ChunkCount(r)) \in [run: Runs, lo: Nat, hi: Nat]
  BY ChunkCountIsNat DEF Task
<1>3. RestOK'
  BY <1>1, <1>2, Fixed DEF BeginRun, TypeOK, RestOK
<1> QED
  BY <1>3, SemFixed, WorkerFixed, TypeParts DEF BeginRun

\* What a step of a thread makes of its record.
LEMMA TypeWorker ==
  ASSUME TypeOK, NEW w \in Busy
  PROVE  /\ \A a \in Steps : [worker[w] EXCEPT !.at = a] \in AtWork
         /\ \A n \in Nat : [worker[w] EXCEPT !.hi = n] \in AtWork
BY WorkerFacts DEF AtWork

LEMMA TypeDoing ==
  ASSUME NEW at \in Steps, NEW r \in Runs, NEW lo \in Nat, NEW hi \in Nat,
         NEW row \in Nat, NEW out \in Seq(Nat)
  PROVE  Doing(at, r, lo, hi, row, out) \in AtWork
BY DEF Doing, AtWork

LEMMA TypeTakeJob ==
  ASSUME TypeOK, NEW w \in Pool, TakeJob(w)
  PROVE  TypeOK'
<1>1. PICK t \in tasks :
        /\ worker' = [worker EXCEPT ![w] = Doing("job", t.run, t.lo, t.hi, 0, <<>>)]
        /\ tasks' = tasks \ {t}
  BY DEF TakeJob
<1>2. Doing("job", t.run, t.lo, t.hi, 0, <<>>) \in AtWork
  <2>1. t.run \in Runs /\ t.lo \in Nat /\ t.hi \in Nat
    BY DEF TypeOK
  <2>2. "job" \in Steps /\ 0 \in Nat /\ <<>> \in Seq(Nat)
    BY DEF Steps
  <2> QED
    BY <2>1, <2>2, TypeDoing
<1>3. WorkerOK'
  BY <1>1, <1>2, WorkerSet DEF TakeJob
<1>4. /\ UNCHANGED <<setup, job, run, sem, results, failed, metrics, report, output>>
      /\ tasks' \subseteq tasks
  BY <1>1 DEF TakeJob
<1>5. RestOK'
  BY <1>4, Fixed DEF TypeOK, RestOK
<1> QED
  BY <1>3, <1>4, <1>5, SemFixed, TypeParts

LEMMA TypeSplitJob ==
  ASSUME TypeOK, NEW w \in Pool, SplitJob(w)
  PROVE  TypeOK'
<1> DEFINE mid == (worker[w].lo + worker[w].hi) \div 2
<1>1. w \in Busy
  BY WorkerFacts DEF SplitJob
<1>2. mid \in Nat
  BY <1>1, WorkerFacts
<1>3. worker' = [worker EXCEPT ![w] = [worker[w] EXCEPT !.hi = mid]]
  BY DEF SplitJob
<1>4. WorkerOK'
  BY <1>1, <1>2, <1>3, WorkerSet, TypeWorker DEF SplitJob
<1>5. Task(worker[w].run, mid, worker[w].hi) \in [run: Runs, lo: Nat, hi: Nat]
  BY <1>1, <1>2, WorkerFacts DEF Task
<1>6. RestOK'
  BY <1>5, Fixed DEF SplitJob, TypeOK, RestOK
<1> QED
  BY <1>4, <1>6, SemFixed, TypeParts DEF SplitJob

\* A section of the semaphore, and no more than the thread's own record.
LEMMA TypeSection ==
  ASSUME TypeOK, OnePlace, NEW w \in Pool,
         CallAcquire(w) \/ TakePermit(w) \/ StartWaiting(w) \/ SpuriousWakeup(w)
  PROVE  TypeOK'
<1>1. w \in Busy
  BY WorkerFacts
     DEF CallAcquire, TakePermit, StartWaiting, SpuriousWakeup
<1> DEFINE r == worker[w].run
           c == worker[w].lo
<1>2. r \in Runs /\ c \in ChunksOf(r) /\ sem[r] \in SemaphoreOf(r)
  BY <1>1, WorkerFacts, AtChunk DEF TypeOK
<1>3. RestOK'
  BY RestFixed DEF CallAcquire, TakePermit, StartWaiting, SpuriousWakeup
<1>4. UNCHANGED <<setup, job>>
  BY DEF CallAcquire, TakePermit, StartWaiting, SpuriousWakeup
<1>5. PICK s : s \in SemaphoreOf(r) /\ sem' = [sem EXCEPT ![r] = s]
  <2>1. /\ Called(sem[r], c) \in SemaphoreOf(r) /\ Waiting(sem[r], c) \in SemaphoreOf(r)
        /\ WokenUp(sem[r], c) \in SemaphoreOf(r)
        /\ sem[r].permits > 0 => Taken(sem[r], c) \in SemaphoreOf(r)
    BY <1>2, SectionTypes DEF SemaphoreOf
  <2>2. \/ sem' = [sem EXCEPT ![r] = Called(sem[r], c)]
        \/ sem' = [sem EXCEPT ![r] = Waiting(sem[r], c)]
        \/ sem' = [sem EXCEPT ![r] = WokenUp(sem[r], c)]
        \/ sem[r].permits > 0 /\ sem' = [sem EXCEPT ![r] = Taken(sem[r], c)]
    BY DEF CallAcquire, TakePermit, StartWaiting, SpuriousWakeup, CanTake
  <2> QED
    BY <2>1, <2>2
<1>6. SemOK'
  BY <1>2, <1>4, <1>5, SemSet
<1>7. WorkerOK'
  <2>1. CASE UNCHANGED worker
    BY <1>4, <2>1, WorkerFixed
  <2>2. CASE \E a \in Steps : worker' = [worker EXCEPT ![w] = [worker[w] EXCEPT !.at = a]]
    BY <1>1, <1>4, <2>2, TypeWorker, WorkerSet
  <2> QED
    BY <2>1, <2>2 DEF CallAcquire, TakePermit, StartWaiting, SpuriousWakeup, Steps
<1> QED
  BY <1>3, <1>6, <1>7, TypeParts

\* What the steps of a chunk make of the metrics, field by field.
LEMMA MetricsSet ==
  ASSUME NEW m \in Metrics, NEW n \in Nat, NEW k \in 0..(Word - 1)
  PROVE  /\ [m EXCEPT !.rows = n] \in Metrics
         /\ [m EXCEPT !.ended = TRUE] \in Metrics
         /\ [m EXCEPT !.throttled = n] \in Metrics
         /\ [m EXCEPT !.started = n] \in Metrics
         /\ [m EXCEPT !.finished = n] \in Metrics
         /\ [m EXCEPT !.active = k] \in Metrics
<1>1. [m EXCEPT !.rows = n] \in Metrics
  BY DEF Metrics
<1>2. [m EXCEPT !.ended = TRUE] \in Metrics
  BY DEF Metrics
<1>3. [m EXCEPT !.throttled = n] \in Metrics
  BY DEF Metrics
<1>4. [m EXCEPT !.started = n] \in Metrics
  BY DEF Metrics
<1>5. [m EXCEPT !.finished = n] \in Metrics
  BY DEF Metrics
<1>6. [m EXCEPT !.active = k] \in Metrics
  BY DEF Metrics
<1> QED
  BY <1>1, <1>2, <1>3, <1>4, <1>5, <1>6

LEMMA MetricsFields ==
  ASSUME TypeOK
  PROVE  /\ metrics.run_id \in Nat /\ metrics.rows \in Nat /\ metrics.started \in Nat
         /\ metrics.finished \in Nat /\ metrics.throttled \in Nat
         /\ metrics.active \in 0..(Word - 1) /\ metrics.max_active \in Nat
BY DEF TypeOK, Metrics

\* The counters after a chunk has started.
LEMMA StartedMetrics ==
  ASSUME TypeOK, NEW w \in Busy
  PROVE  LET m == MetricsAtStart(w)
             now == (metrics.active + 1) % Word
         IN  /\ m \in Metrics /\ now \in 0..(Word - 1)
             /\ m.run_id = metrics.run_id /\ m.ended = metrics.ended
             /\ m.rows = metrics.rows /\ m.finished = metrics.finished
             /\ m.started = metrics.started + 1
             /\ m.throttled = metrics.throttled + (IF Throttled(w) THEN 1 ELSE 0)
             /\ m.active = now
             /\ m.max_active = IF now > metrics.max_active THEN now
                               ELSE metrics.max_active
<1> DEFINE now == (metrics.active + 1) % Word
           thr == metrics.throttled + (IF Throttled(w) THEN 1 ELSE 0)
           max == IF now > metrics.max_active THEN now ELSE metrics.max_active
           m1 == [metrics EXCEPT !.throttled = thr]
           m2 == [m1 EXCEPT !.started = metrics.started + 1]
           m3 == [m2 EXCEPT !.active = now]
           m4 == [m3 EXCEPT !.max_active = max]
<1>1. now \in 0..(Word - 1) /\ thr \in Nat /\ max \in Nat /\ metrics.started + 1 \in Nat
  BY MetricsFields
<1>2. metrics \in Metrics
  BY DEF TypeOK
<1> HIDE DEF now, thr, max
<1>3. /\ m1 \in Metrics /\ m1.throttled = thr
      /\ m1.run_id = metrics.run_id /\ m1.ended = metrics.ended /\ m1.rows = metrics.rows
      /\ m1.finished = metrics.finished /\ m1.started = metrics.started
      /\ m1.active = metrics.active /\ m1.max_active = metrics.max_active
  BY <1>1, <1>2 DEF Metrics
<1>4. /\ m2 \in Metrics /\ m2.started = metrics.started + 1 /\ m2.throttled = thr
      /\ m2.run_id = metrics.run_id /\ m2.ended = metrics.ended /\ m2.rows = metrics.rows
      /\ m2.finished = metrics.finished /\ m2.active = metrics.active
      /\ m2.max_active = metrics.max_active
  <2> HIDE DEF m1
  <2> QED
    BY <1>1, <1>3 DEF Metrics
<1>5. /\ m3 \in Metrics /\ m3.active = now /\ m3.throttled = thr
      /\ m3.run_id = metrics.run_id /\ m3.ended = metrics.ended /\ m3.rows = metrics.rows
      /\ m3.finished = metrics.finished /\ m3.started = metrics.started + 1
      /\ m3.max_active = metrics.max_active
  <2> HIDE DEF m2
  <2> QED
    BY <1>1, <1>4 DEF Metrics
<1>6. /\ m4 \in Metrics /\ m4.max_active = max /\ m4.active = now /\ m4.throttled = thr
      /\ m4.run_id = metrics.run_id /\ m4.ended = metrics.ended /\ m4.rows = metrics.rows
      /\ m4.finished = metrics.finished /\ m4.started = metrics.started + 1
  <2> HIDE DEF m3
  <2> QED
    BY <1>1, <1>5 DEF Metrics
<1>7. MetricsAtStart(w) = m4
  BY DEF MetricsAtStart, now, thr, max
<1> HIDE DEF m4
<1> QED
  BY <1>1, <1>6, <1>7 DEF now, thr, max

LEMMA TypeStartChunk ==
  ASSUME TypeOK, OnePlace, NEW w \in Pool, StartChunk(w)
  PROVE  TypeOK'
<1> DEFINE first == RowsOf(worker[w].run, worker[w].lo).start
<1>1. w \in Busy
  BY WorkerFacts DEF StartChunk
<1>2. first \in Nat
  <2>1. job[worker[w].run].rows \in Nat /\ worker[w].lo \in Nat
    BY <1>1, WorkerFacts, SetupFacts DEF Call
  <2>2. first = worker[w].lo * setup.chunk_size
    BY DEF RowsOf, ChunkRange
  <2> QED
    BY <2>1, <2>2, SetupFacts
<1>3. WorkerOK'
  <2>1. Doing("rows", worker[w].run, worker[w].lo, worker[w].hi, first, <<>>) \in AtWork
    <3>1. "rows" \in Steps /\ <<>> \in Seq(Nat)
      BY DEF Steps
    <3> QED
      BY <1>1, <1>2, <3>1, TypeDoing, WorkerFacts
  <2>2. /\ UNCHANGED <<setup, job>>
        /\ worker' = [worker EXCEPT ![w] =
             Doing("rows", worker[w].run, worker[w].lo, worker[w].hi, first, <<>>)]
    BY DEF StartChunk, Reads
  <2> QED
    BY <2>1, <2>2, WorkerSet
<1>4. metrics' \in Metrics
  BY <1>1, StartedMetrics DEF StartChunk
<1>5. RestOK'
  BY <1>4, Fixed DEF StartChunk, TypeOK, RestOK
<1> QED
  BY <1>3, <1>5, SemFixed, TypeParts DEF StartChunk

\* A panic leaves the semaphore, the jobs and per_chunk alone.
LEMMA TypePanic ==
  ASSUME TypeOK, NEW w \in Pool, OverflowPanic(w) \/ RowPanics(w)
  PROVE  TypeOK'
<1>1. w \in Busy
  BY WorkerFacts DEF OverflowPanic, RowPanics
<1>2. /\ UNCHANGED <<setup, job, run, sem, tasks, results, report, output>>
      /\ worker' = [worker EXCEPT ![w] = Idle]
      /\ failed' = failed \cup {worker[w].run}
  BY DEF OverflowPanic, RowPanics, Unwind
<1>3. metrics' \in Metrics
  <2> DEFINE thr == metrics.throttled + (IF Throttled(w) THEN 1 ELSE 0)
             m1 == [metrics EXCEPT !.started = metrics.started + 1]
             m2 == [m1 EXCEPT !.active = 0]
             m3 == [m2 EXCEPT !.throttled = thr]
  <2>1. /\ metrics.rows + 1 \in Nat /\ metrics.started + 1 \in Nat /\ thr \in Nat
        /\ 0 \in 0..(Word - 1) /\ metrics \in Metrics
    BY MetricsFields DEF TypeOK
  <2>2. [metrics EXCEPT !.rows = metrics.rows + 1] \in Metrics /\ m1 \in Metrics
    BY <2>1, MetricsSet
  <2>3. m2 \in Metrics
    <3> HIDE DEF m1
    <3> QED
      BY <2>1, <2>2, MetricsSet
  <2>4. m3 \in Metrics
    <3> HIDE DEF m2, thr
    <3> QED
      BY <2>1, <2>3, MetricsSet
  <2>5. metrics' = [metrics EXCEPT !.rows = metrics.rows + 1] \/ metrics' = m3
    <3>1. CASE RowPanics(w)
      BY <3>1 DEF RowPanics
    <3>2. CASE OverflowPanic(w)
      <4>1. metrics' = m3
        BY <3>2, Zenon DEF OverflowPanic
      <4> QED
        BY <4>1
    <3> QED
      BY <3>1, <3>2
  <2> QED
    BY <2>2, <2>4, <2>5
<1>4. RestOK'
  BY <1>1, <1>2, <1>3, Fixed, WorkerFacts DEF TypeOK, RestOK
<1>5. WorkerOK'
  BY <1>2, WorkerSet
<1> QED
  BY <1>2, <1>4, <1>5, SemFixed, TypeParts

LEMMA TypeProcessRow ==
  ASSUME TypeOK, NEW w \in Pool, ProcessRow(w)
  PROVE  TypeOK'
<1> DEFINE out == IF worker[w].row \in job[worker[w].run].kept
                  THEN Append(worker[w].out, worker[w].row) ELSE worker[w].out
<1>1. w \in Busy
  BY WorkerFacts DEF ProcessRow
<1>2. worker[w].row + 1 \in Nat /\ out \in Seq(Nat) /\ "rows" \in Steps
  BY <1>1, WorkerFacts DEF Steps
<1>3. /\ UNCHANGED <<setup, job, run, sem, tasks, results, failed, report, output>>
      /\ metrics' = [metrics EXCEPT !.rows = metrics.rows + 1]
      /\ worker' = [worker EXCEPT ![w] =
           Doing("rows", worker[w].run, worker[w].lo, worker[w].hi, worker[w].row + 1, out)]
  BY DEF ProcessRow, Reads
<1> HIDE DEF out
<1>4. WorkerOK'
  <2>1. Doing("rows", worker[w].run, worker[w].lo, worker[w].hi, worker[w].row + 1, out)
          \in AtWork
    BY <1>1, <1>2, WorkerFacts, TypeDoing
  <2> QED
    BY <1>3, <2>1, WorkerSet
<1>5. metrics' \in Metrics
  <2>1. metrics.rows + 1 \in Nat /\ 0 \in 0..(Word - 1) /\ metrics \in Metrics
    BY MetricsFields DEF TypeOK
  <2>2. [metrics EXCEPT !.rows = metrics.rows + 1] \in Metrics
    BY <2>1, MetricsSet
  <2> QED
    BY <1>3, <2>2
<1>6. RestOK'
  BY <1>3, <1>5, Fixed DEF TypeOK, RestOK
<1> QED
  BY <1>3, <1>4, <1>6, SemFixed, TypeParts

\* on_chunk_end, field by field.
LEMMA EndedMetrics ==
  ASSUME TypeOK
  PROVE  LET m == [metrics EXCEPT !.finished = @ + 1, !.active = (@ + Word - 1) % Word]
         IN  /\ m \in Metrics /\ m.finished = metrics.finished + 1
             /\ m.active = (metrics.active + Word - 1) % Word
             /\ m.run_id = metrics.run_id /\ m.ended = metrics.ended
             /\ m.rows = metrics.rows /\ m.started = metrics.started
             /\ m.throttled = metrics.throttled /\ m.max_active = metrics.max_active
<1> DEFINE now == (metrics.active + Word - 1) % Word
           m1 == [metrics EXCEPT !.finished = metrics.finished + 1]
           m2 == [m1 EXCEPT !.active = now]
<1>1. now \in 0..(Word - 1) /\ metrics.finished + 1 \in Nat /\ metrics \in Metrics
  BY MetricsFields DEF TypeOK
<1> HIDE DEF now
<1>2. /\ m1 \in Metrics /\ m1.finished = metrics.finished + 1
      /\ m1.run_id = metrics.run_id /\ m1.ended = metrics.ended /\ m1.rows = metrics.rows
      /\ m1.started = metrics.started /\ m1.active = metrics.active
      /\ m1.throttled = metrics.throttled /\ m1.max_active = metrics.max_active
  BY <1>1 DEF Metrics
<1>3. /\ m2 \in Metrics /\ m2.active = now /\ m2.finished = metrics.finished + 1
      /\ m2.run_id = metrics.run_id /\ m2.ended = metrics.ended /\ m2.rows = metrics.rows
      /\ m2.started = metrics.started
      /\ m2.throttled = metrics.throttled /\ m2.max_active = metrics.max_active
  <2> HIDE DEF m1
  <2> QED
    BY <1>1, <1>2 DEF Metrics
<1> QED
  BY <1>3, Zenon DEF now

LEMMA TypeEndChunk ==
  ASSUME TypeOK, NEW w \in Pool, EndChunk(w)
  PROVE  TypeOK'
<1>1. w \in Busy /\ "release" \in Steps
  BY WorkerFacts DEF EndChunk, Steps
<1>2. /\ UNCHANGED <<setup, job, run, sem, tasks, results, failed, report, output>>
      /\ worker' = [worker EXCEPT ![w] = [worker[w] EXCEPT !.at = "release"]]
  BY DEF EndChunk
<1>3. WorkerOK'
  BY <1>1, <1>2, TypeWorker, WorkerSet
<1>4. metrics' \in Metrics
  BY EndedMetrics DEF EndChunk
<1>5. RestOK'
  BY <1>2, <1>4, Fixed DEF TypeOK, RestOK
<1> QED
  BY <1>2, <1>3, <1>5, SemFixed, TypeParts

\* What a release leaves: a permit more, the thread's next chunk, and the
\* chunk's rows in per_chunk.
LEMMA Released ==
  ASSUME TypeOK, OnePlace, NEW w \in Pool, ReleasePermit(w)
  PROVE  LET r == worker[w].run
             c == worker[w].lo
             next == IF c + 1 = worker[w].hi THEN Idle
                     ELSE Doing("fold", r, c + 1, worker[w].hi, 0, <<>>)
         IN  /\ w \in Busy /\ r \in Runs /\ c \in ChunksOf(r)
             /\ UNCHANGED <<setup, job, run, tasks, failed, metrics, report, output>>
             /\ \E s \in AfterRelease(sem[r], c) : sem' = [sem EXCEPT ![r] = s]
             /\ worker' = [worker EXCEPT ![w] = next]
             /\ next \in {Idle} \cup AtWork
             /\ results' = [results EXCEPT ![r] = Filled(results[r], c, worker[w].out)]
             /\ results'[r] = Filled(results[r], c, worker[w].out)
             /\ DOMAIN results'[r] = DOMAIN results[r] \cup {c}
             /\ results'[r][c] = worker[w].out
             /\ \A d \in DOMAIN results[r] \ {c} : results'[r][d] = results[r][d]
             /\ \A q \in Runs \ {r} : results'[q] = results[q]
<1> DEFINE r == worker[w].run
           c == worker[w].lo
           next == IF c + 1 = worker[w].hi THEN Idle
                   ELSE Doing("fold", r, c + 1, worker[w].hi, 0, <<>>)
<1>1. w \in Busy
  BY WorkerFacts DEF ReleasePermit
<1>2. r \in Runs /\ c \in ChunksOf(r)
  BY <1>1, WorkerFacts, AtChunk
<1>3. /\ UNCHANGED <<setup, job, run, tasks, failed, metrics, report, output>>
      /\ \E s \in AfterRelease(sem[r], c) : sem' = [sem EXCEPT ![r] = s]
      /\ worker' = [worker EXCEPT ![w] = next]
      /\ results' = [results EXCEPT ![r] = Filled(results[r], c, worker[w].out)]
  BY DEF ReleasePermit
<1>4. next \in {Idle} \cup AtWork
  <2>1. "fold" \in Steps /\ c + 1 \in Nat /\ 0 \in Nat /\ <<>> \in Seq(Nat)
    BY <1>1, WorkerFacts DEF Steps
  <2> QED
    BY <1>1, <1>2, <2>1, WorkerFacts, TypeDoing
<1>5. results' = [q \in Runs |-> IF q = r THEN Filled(results[r], c, worker[w].out)
                                 ELSE results[q]]
  <2>1. results = [q \in Runs |-> results[q]]
    BY DEF TypeOK
  <2> QED
    BY <1>3, <2>1
<1>6. \A q \in Runs \ {r} : results'[q] = results[q]
  BY <1>5
<1>7. /\ results'[r] = Filled(results[r], c, worker[w].out)
      /\ DOMAIN results'[r] = DOMAIN results[r] \cup {c}
      /\ results'[r][c] = worker[w].out
      /\ \A d \in DOMAIN results[r] \ {c} : results'[r][d] = results[r][d]
  BY <1>2, <1>5 DEF Filled
<1> HIDE DEF next
<1> QED
  BY <1>1, <1>2, <1>3, <1>4, <1>6, <1>7 DEF next

LEMMA TypeReleasePermit ==
  ASSUME TypeOK, OnePlace, NEW w \in Pool, ReleasePermit(w)
  PROVE  TypeOK'
<1> DEFINE r == worker[w].run
           c == worker[w].lo
<1>1. /\ w \in Busy /\ r \in Runs /\ c \in ChunksOf(r) /\ sem[r] \in SemaphoreOf(r)
      /\ UNCHANGED <<setup, job, run, tasks, failed, metrics, report, output>>
  BY Released DEF TypeOK
<1>2. SemOK'
  <2>1. PICK s \in AfterRelease(sem[r], c) : sem' = [sem EXCEPT ![r] = s]
    BY Released
  <2>2. AfterRelease(sem[r], c) \subseteq SemaphoreOf(r)
    <3> HIDE DEF r, c
    <3> QED
      BY <1>1, SectionTypes DEF SemaphoreOf
  <2> QED
    BY <1>1, <2>1, <2>2, SemSet
<1>3. WorkerOK'
  BY <1>1, Released, WorkerSet
<1>4. worker[w].out \in Seq(Nat)
  BY <1>1, WorkerFacts
<1>5. results' = [q \in Runs |-> results'[q]]
  <2>1. results = [q \in Runs |-> results[q]]
    BY DEF TypeOK
  <2>2. results' = [results EXCEPT ![r] = Filled(results[r], c, worker[w].out)]
    BY Released
  <2> QED
    BY <2>1, <2>2
<1>6. \A q \in Runs : /\ DOMAIN results'[q] \subseteq ChunksOf(q)
                      /\ results'[q] \in [DOMAIN results'[q] -> Seq(Nat)]
  <2>1. ASSUME NEW q \in Runs \ {r}
        PROVE  /\ DOMAIN results'[q] \subseteq ChunksOf(q)
               /\ results'[q] \in [DOMAIN results'[q] -> Seq(Nat)]
    BY <2>1, Released DEF TypeOK
  <2>2. DOMAIN results'[r] \subseteq ChunksOf(r)
    BY <1>1, Released DEF TypeOK
  <2>3. results'[r] = Filled(results[r], c, worker[w].out)
    BY Released
  <2>4. results'[r] \in [DOMAIN results'[r] -> Seq(Nat)]
    BY <1>1, <1>4, <2>3 DEF Filled, TypeOK
  <2> QED
    BY <2>1, <2>2, <2>4
<1>7. RestOK'
  BY <1>1, <1>5, <1>6, Fixed DEF TypeOK, RestOK
<1> QED
  BY <1>2, <1>3, <1>7, TypeParts

-----------------------------------------------------------------------------
(* Every chunk is in one place                                             *)

\* Thread w gets the record x.
LEMMA Moved ==
  ASSUME TypeOK, UNCHANGED setup, NEW w \in Pool, NEW x,
         worker' = [worker EXCEPT ![w] = x]
  PROVE  /\ Pool' = Pool
         /\ worker'[w] = x /\ \A v \in Pool \ {w} : worker'[v] = worker[v]
         /\ x # Idle => Busy' = Busy \cup {w}
         /\ x = Idle => Busy' = Busy \ {w}
<1>1. DOMAIN worker = Pool
  BY WorkerFacts
<1>2. Pool' = Pool
  BY DEF Pool
<1>3. worker'[w] = x /\ \A v \in Pool \ {w} : worker'[v] = worker[v]
  BY <1>1
<1>4. Busy' = {v \in Pool : worker'[v] # Idle}
  BY <1>2 DEF Busy
<1>5. Busy \subseteq Pool /\ \A v \in Pool : v \in Busy <=> worker[v] # Idle
  BY DEF Busy
<1> HIDE DEF Busy
<1> QED
  BY <1>2, <1>3, <1>4, <1>5

StaysInPlace(w) ==
  \/ CallAcquire(w) \/ TakePermit(w) \/ StartWaiting(w) \/ SpuriousWakeup(w)
  \/ StartChunk(w) \/ ProcessRow(w) \/ EndChunk(w)

\* Most steps of a thread leave its chunks where they are.
LEMMA Stays ==
  ASSUME TypeOK, NEW w \in Pool, StaysInPlace(w)
  PROVE  /\ w \in Busy /\ Busy' = Busy /\ Pool' = Pool
         /\ UNCHANGED <<setup, job, run, tasks, results, failed, report, output>>
         /\ \A v \in Pool \ {w} : worker'[v] = worker[v]
         /\ worker'[w].run = worker[w].run
         /\ worker'[w].lo = worker[w].lo /\ worker'[w].hi = worker[w].hi
<1>1. w \in Busy /\ worker[w] \in AtWork
  BY WorkerFacts DEF StaysInPlace, CallAcquire, TakePermit, StartWaiting, SpuriousWakeup,
                     StartChunk, ProcessRow, EndChunk
<1>2. UNCHANGED <<setup, job, run, tasks, results, failed, report, output>>
  BY DEF StaysInPlace, CallAcquire, TakePermit, StartWaiting, SpuriousWakeup,
         StartChunk, ProcessRow, EndChunk
<1>3. PICK x : /\ worker' = [worker EXCEPT ![w] = x] /\ x # Idle
               /\ x.run = worker[w].run /\ x.lo = worker[w].lo /\ x.hi = worker[w].hi
  <2>1. CASE StartWaiting(w) \/ SpuriousWakeup(w)
    <3>1. worker' = [worker EXCEPT ![w] = worker[w]]
      BY <1>1, <2>1, WorkerFacts DEF StartWaiting, SpuriousWakeup, TypeOK
    <3>2. worker[w] # Idle
      BY <1>1 DEF Busy
    <3> QED
      BY <3>1, <3>2
  <2>2. CASE StartChunk(w) \/ ProcessRow(w)
    <3>1. PICK row, out : worker' = Reads(w, row, out)
      BY <2>2 DEF StartChunk, ProcessRow
    <3> DEFINE x == Doing("rows", worker[w].run, worker[w].lo, worker[w].hi, row, out)
    <3>2. worker' = [worker EXCEPT ![w] = x]
      BY <3>1 DEF Reads
    <3>3. /\ x # Idle /\ x.run = worker[w].run
          /\ x.lo = worker[w].lo /\ x.hi = worker[w].hi
      BY DEF Doing, Idle
    <3> QED
      BY <3>2, <3>3
  <2>3. CASE CallAcquire(w) \/ TakePermit(w) \/ EndChunk(w)
    <3>1. PICK a \in {"acquire", "start", "release"} :
            worker' = [worker EXCEPT ![w] = [worker[w] EXCEPT !.at = a]]
      BY <2>3 DEF CallAcquire, TakePermit, EndChunk
    <3> DEFINE x == [worker[w] EXCEPT !.at = a]
    <3>2. /\ x.at = a /\ x.run = worker[w].run
          /\ x.lo = worker[w].lo /\ x.hi = worker[w].hi
      BY <1>1 DEF AtWork
    <3>3. Idle.at = "idle" /\ a # "idle"
      BY DEF Idle, Doing
    <3> HIDE DEF x
    <3>4. x # Idle
      BY <3>2, <3>3
    <3> QED
      BY <3>1, <3>2, <3>4 DEF x
  <2> QED
    BY <2>1, <2>2, <2>3 DEF StaysInPlace
<1>4. /\ Pool' = Pool /\ worker'[w] = x /\ \A v \in Pool \ {w} : worker'[v] = worker[v]
      /\ Busy' = Busy \cup {w}
  BY <1>2, <1>3, Moved
<1> QED
  BY <1>1, <1>2, <1>3, <1>4

LEMMA OnePlaceStays ==
  ASSUME TypeOK, OnePlace, NEW w \in Pool, StaysInPlace(w)
  PROVE  OnePlace'
<1>1. /\ Busy' = Busy /\ UNCHANGED <<setup, job, run, tasks, results>>
      /\ \A v \in Busy : /\ worker'[v].run = worker[v].run
                         /\ worker'[v].lo = worker[v].lo
                         /\ worker'[v].hi = worker[v].hi
  BY Stays DEF Busy
<1>2. \A r : ChunkCount(r)' = ChunkCount(r)
  BY <1>1, Fixed
<1>3. \A t \in tasks : (InBounds(t) /\ NotYetDone(t))'
  BY <1>1, <1>2 DEF OnePlace, InBounds, NotYetDone
<1>4. \A v \in Busy : InBounds(worker[v])' /\ NotYetDone(worker[v])'
  BY <1>1, <1>2 DEF OnePlace, InBounds, NotYetDone
<1>5. /\ \A v, u \in Busy : v # u => Apart(worker'[v], worker'[u])
      /\ \A t \in tasks : \A v \in Busy : Apart(t, worker'[v])
  BY <1>1 DEF OnePlace, Apart
<1> QED
  BY <1>1, <1>3, <1>4, <1>5 DEF OnePlace

LEMMA OnePlaceBegin ==
  ASSUME TypeOK, OnePlace, NEW r \in Runs, BeginRun(r)
  PROVE  OnePlace'
<1> DEFINE new == Task(r, 0, ChunkCount(r))
<1>1. /\ UNCHANGED <<setup, job, worker, results>> /\ run[r] = "ready"
      /\ run' = [run EXCEPT ![r] = "running"]
      /\ tasks' = tasks \cup (IF ChunkCount(r) = 0 THEN {} ELSE {new})
  BY DEF BeginRun
<1>2. Busy' = Busy /\ \A q : ChunkCount(q)' = ChunkCount(q)
  BY <1>1, Fixed DEF Busy
<1>3. run'[r] = "running" /\ \A q \in Runs \ {r} : run'[q] = run[q]
  BY <1>1 DEF TypeOK
<1>4. /\ \A t \in tasks : t.run \in Runs /\ t.run # r
      /\ \A w \in Busy : worker[w].run \in Runs /\ worker[w].run # r
  BY <1>1, WorkerFacts DEF OnePlace, InBounds, TypeOK
<1>5. new.run = r /\ new.lo = 0 /\ new.hi = ChunkCount(r)
  BY DEF Task
<1>6. DOMAIN results[r] = {} /\ ChunkCount(r) \in Nat
  BY <1>1, ChunkCountIsNat DEF OnePlace
<1> HIDE DEF new
<1>7. \A t \in tasks' : (InBounds(t) /\ NotYetDone(t))'
  BY <1>1, <1>2, <1>3, <1>4, <1>5, <1>6 DEF OnePlace, InBounds, NotYetDone
<1>8. \A w \in Busy : InBounds(worker[w])' /\ NotYetDone(worker[w])'
  BY <1>1, <1>2, <1>3, <1>4 DEF OnePlace, InBounds, NotYetDone
<1>9. /\ \A t, u \in tasks' : t # u => Apart(t, u)
      /\ \A t \in tasks' : \A w \in Busy : Apart(t, worker[w])
      /\ \A w, v \in Busy : w # v => Apart(worker[w], worker[v])
  BY <1>1, <1>4, <1>5 DEF OnePlace, Apart
<1>10. \A q \in Runs : run'[q] = "ready" => DOMAIN results[q] = {}
  BY <1>3 DEF OnePlace
<1> QED
  BY <1>1, <1>2, <1>7, <1>8, <1>9, <1>10 DEF OnePlace

LEMMA OnePlaceTake ==
  ASSUME TypeOK, OnePlace, NEW w \in Pool, TakeJob(w)
  PROVE  OnePlace'
<1>1. PICK t \in tasks :
        /\ worker' = [worker EXCEPT ![w] = Doing("job", t.run, t.lo, t.hi, 0, <<>>)]
        /\ tasks' = tasks \ {t}
  BY DEF TakeJob
<1>2. UNCHANGED <<setup, job, run, results>> /\ w \notin Busy
  BY <1>1 DEF TakeJob, Busy
<1> DEFINE x == Doing("job", t.run, t.lo, t.hi, 0, <<>>)
<1>3. x # Idle /\ x.run = t.run /\ x.lo = t.lo /\ x.hi = t.hi
  BY DEF Doing, Idle
<1> HIDE DEF x
<1>4. /\ worker'[w] = x /\ \A v \in Pool \ {w} : worker'[v] = worker[v]
      /\ Busy' = Busy \cup {w}
  BY <1>1, <1>2, <1>3, Moved DEF x
<1>5. Busy \subseteq Pool \ {w} /\ \A q : ChunkCount(q)' = ChunkCount(q)
  BY <1>2, Fixed DEF Busy
<1>6. \A u \in tasks' : (InBounds(u) /\ NotYetDone(u))'
  BY <1>1, <1>2, <1>5 DEF OnePlace, InBounds, NotYetDone
<1>7. \A v \in Busy' : InBounds(worker[v])' /\ NotYetDone(worker[v])'
  BY <1>2, <1>3, <1>4, <1>5 DEF OnePlace, InBounds, NotYetDone
<1>8. /\ \A s, u \in tasks' : s # u => Apart(s, u)
      /\ \A u \in tasks' : \A v \in Busy' : Apart(u, worker'[v])
      /\ \A u, v \in Busy' : u # v => Apart(worker'[u], worker'[v])
  BY <1>1, <1>3, <1>4, <1>5 DEF OnePlace, Apart
<1> QED
  BY <1>2, <1>6, <1>7, <1>8 DEF OnePlace

LEMMA Halves ==
  ASSUME NEW lo \in Nat, NEW hi \in Nat, hi - lo >= 2
  PROVE  LET mid == (lo + hi) \div 2 IN mid \in Nat /\ lo < mid /\ mid < hi
OBVIOUS

\* A job and its second half: what SplitJob leaves of one.
LEMMA SplitInTwo ==
  ASSUME TypeOK, NEW w \in Pool, SplitJob(w)
  PROVE  \E mid \in Nat :
           LET new == Task(worker[w].run, mid, worker[w].hi)
           IN  /\ w \in Busy /\ Busy' = Busy
               /\ worker[w].lo < mid /\ mid < worker[w].hi
               /\ UNCHANGED <<setup, job, run, sem, results, failed, metrics, report, output>>
               /\ worker'[w].run = worker[w].run /\ worker'[w].lo = worker[w].lo
               /\ worker'[w].hi = mid /\ worker'[w].at = "job" /\ worker[w].at = "job"
               /\ \A v \in Pool \ {w} : worker'[v] = worker[v]
               /\ tasks' = tasks \cup {new}
               /\ new.run = worker[w].run /\ new.lo = mid /\ new.hi = worker[w].hi
<1> DEFINE mid == (worker[w].lo + worker[w].hi) \div 2
           new == Task(worker[w].run, mid, worker[w].hi)
           x == [worker[w] EXCEPT !.hi = mid]
<1>1. w \in Busy /\ worker[w] \in AtWork /\ worker[w].at = "job"
  BY WorkerFacts DEF SplitJob
<1>2. mid \in Nat /\ worker[w].lo < mid /\ mid < worker[w].hi
  BY <1>1, WorkerFacts, Halves DEF SplitJob
<1>3. /\ UNCHANGED <<setup, job, run, sem, results, failed, metrics, report, output>>
      /\ tasks' = tasks \cup {new} /\ worker' = [worker EXCEPT ![w] = x]
  BY DEF SplitJob
<1>4. new.run = worker[w].run /\ new.lo = mid /\ new.hi = worker[w].hi
  BY DEF Task
<1> HIDE DEF mid
<1>5. x.at = "job" /\ x.run = worker[w].run /\ x.lo = worker[w].lo /\ x.hi = mid
  BY <1>1, <1>2 DEF AtWork
<1>6. Idle.at = "idle"
  BY DEF Idle, Doing
<1> HIDE DEF x
<1>7. x # Idle
  BY <1>5, <1>6
<1>8. /\ worker'[w] = x /\ \A v \in Pool \ {w} : worker'[v] = worker[v]
      /\ Busy' = Busy
  <2>1. UNCHANGED setup /\ worker' = [worker EXCEPT ![w] = x]
    BY <1>3
  <2>2. /\ worker'[w] = x /\ \A v \in Pool \ {w} : worker'[v] = worker[v]
        /\ Busy' = Busy \cup {w}
    BY <1>7, <2>1, Moved
  <2> QED
    BY <1>1, <2>2
<1> QED
  BY <1>1, <1>2, <1>3, <1>4, <1>5, <1>8

LEMMA OnePlaceSplit ==
  ASSUME TypeOK, OnePlace, NEW w \in Pool, SplitJob(w)
  PROVE  OnePlace'
<1>1. PICK mid \in Nat :
        LET new == Task(worker[w].run, mid, worker[w].hi)
        IN  /\ w \in Busy /\ Busy' = Busy
            /\ worker[w].lo < mid /\ mid < worker[w].hi
            /\ UNCHANGED <<setup, job, run, results>>
            /\ worker'[w].run = worker[w].run /\ worker'[w].lo = worker[w].lo
            /\ worker'[w].hi = mid
            /\ \A v \in Pool \ {w} : worker'[v] = worker[v]
            /\ tasks' = tasks \cup {new}
            /\ new.run = worker[w].run /\ new.lo = mid /\ new.hi = worker[w].hi
  BY SplitInTwo
<1> DEFINE new == Task(worker[w].run, mid, worker[w].hi)
<1>2. /\ new.run = worker[w].run /\ new.lo = mid /\ new.hi = worker[w].hi
      /\ tasks' = tasks \cup {new}
  BY <1>1
<1>3. /\ \A q : ChunkCount(q)' = ChunkCount(q) /\ Busy \subseteq Pool
      /\ worker[w].lo \in Nat /\ worker[w].hi \in Nat /\ worker[w].run \in Runs
      /\ ChunkCount(worker[w].run) \in Nat
  BY <1>1, Fixed, WorkerFacts, ChunkCountIsNat DEF Busy
<1>4. \A r \in Runs : DOMAIN results[r] \subseteq ChunksOf(r)
  BY DEF TypeOK
<1> HIDE DEF new
<1>5. \A t \in tasks' : (InBounds(t) /\ NotYetDone(t))'
  BY <1>1, <1>2, <1>3, <1>4 DEF OnePlace, InBounds, NotYetDone, ChunksOf
<1>6. \A v \in Busy : InBounds(worker[v])' /\ NotYetDone(worker[v])'
  BY <1>1, <1>3, <1>4 DEF OnePlace, InBounds, NotYetDone, ChunksOf
<1>7. /\ \A v \in Busy : v # w => Apart(worker[v], new)
      /\ \A t \in tasks : Apart(t, new) /\ Apart(t, worker'[w])
      /\ \A v \in Busy : v # w => Apart(worker[v], worker'[w])
  <2>1. /\ \A v \in Busy : worker[v].lo \in Nat /\ worker[v].hi \in Nat
        /\ \A t \in tasks : t.lo \in Nat /\ t.hi \in Nat
        /\ \A v \in Busy : worker[v].lo < worker[v].hi
        /\ \A t \in tasks : t.lo < t.hi
    BY WorkerFacts DEF TypeOK, OnePlace, InBounds
  <2> QED
    BY <1>1, <1>2, <1>3, <2>1 DEF OnePlace, Apart
<1>8. /\ \A t, u \in tasks' : t # u => Apart(t, u)
      /\ \A t \in tasks' : \A v \in Busy : Apart(t, worker'[v])
      /\ \A v, u \in Busy : v # u => Apart(worker'[v], worker'[u])
  BY <1>1, <1>2, <1>3, <1>7 DEF OnePlace, Apart
<1> QED
  BY <1>1, <1>5, <1>6, <1>8 DEF OnePlace

\* A panic drops what the thread held.
LEMMA Panicked ==
  ASSUME TypeOK, NEW w \in Pool, OverflowPanic(w) \/ RowPanics(w)
  PROVE  /\ w \in Busy /\ Pool' = Pool /\ Busy' = Busy \ {w}
         /\ worker[w].run \in Runs /\ worker[w].at \in {"start", "rows"}
         /\ UNCHANGED <<setup, job, run, sem, tasks, results, report, output>>
         /\ failed' = failed \cup {worker[w].run}
         /\ \A v \in Pool \ {w} : worker'[v] = worker[v]
         /\ \A v \in Busy' : worker'[v] = worker[v] /\ v \in Busy /\ v # w
<1>1. w \in Busy /\ worker[w].at \in {"start", "rows"}
  BY WorkerFacts DEF OverflowPanic, RowPanics
<1>2. /\ UNCHANGED <<setup, job, run, sem, tasks, results, report, output>>
      /\ worker' = [worker EXCEPT ![w] = Idle]
      /\ failed' = failed \cup {worker[w].run}
  BY DEF OverflowPanic, RowPanics, Unwind
<1>3. /\ Pool' = Pool /\ Busy' = Busy \ {w}
      /\ \A v \in Pool \ {w} : worker'[v] = worker[v]
  BY <1>2, Moved
<1>4. Busy \subseteq Pool
  BY DEF Busy
<1> QED
  BY <1>1, <1>2, <1>3, <1>4, WorkerFacts

LEMMA OnePlacePanic ==
  ASSUME TypeOK, OnePlace, NEW w \in Pool, OverflowPanic(w) \/ RowPanics(w)
  PROVE  OnePlace'
<1>1. /\ UNCHANGED <<setup, job, run, tasks, results>>
      /\ \A v \in Busy' : worker'[v] = worker[v] /\ v \in Busy
  BY Panicked
<1>2. \A r : ChunkCount(r)' = ChunkCount(r)
  BY <1>1, Fixed
<1>3. /\ \A t \in tasks : (InBounds(t) /\ NotYetDone(t))'
      /\ \A v \in Busy' : InBounds(worker[v])' /\ NotYetDone(worker[v])'
  BY <1>1, <1>2 DEF OnePlace, InBounds, NotYetDone
<1>4. /\ \A v, u \in Busy' : v # u => Apart(worker'[v], worker'[u])
      /\ \A t \in tasks : \A v \in Busy' : Apart(t, worker'[v])
  BY <1>1 DEF OnePlace, Apart
<1> QED
  BY <1>1, <1>3, <1>4 DEF OnePlace

\* After a release the thread is idle, or has the rest of its job.
LEMMA ReleasedThread ==
  ASSUME TypeOK, OnePlace, NEW w \in Pool, ReleasePermit(w)
  PROVE  /\ Pool' = Pool /\ \A v \in Pool \ {w} : worker'[v] = worker[v]
         /\ \A v \in Busy' \ {w} : worker'[v] = worker[v] /\ v \in Busy
         /\ worker[w].lo + 1 = worker[w].hi =>
              worker'[w] = Idle /\ Busy' = Busy \ {w}
         /\ worker[w].lo + 1 # worker[w].hi =>
              /\ Busy' = Busy
              /\ worker'[w].at = "fold" /\ worker'[w].run = worker[w].run
              /\ worker'[w].lo = worker[w].lo + 1 /\ worker'[w].hi = worker[w].hi
<1> DEFINE next == Doing("fold", worker[w].run, worker[w].lo + 1, worker[w].hi, 0, <<>>)
<1>1. /\ w \in Busy /\ UNCHANGED setup
      /\ worker[w].lo + 1 = worker[w].hi => worker' = [worker EXCEPT ![w] = Idle]
      /\ worker[w].lo + 1 # worker[w].hi => worker' = [worker EXCEPT ![w] = next]
  BY Released
<1>2. /\ next # Idle /\ next.at = "fold" /\ next.run = worker[w].run
      /\ next.lo = worker[w].lo + 1 /\ next.hi = worker[w].hi
  BY DEF Doing, Idle
<1> HIDE DEF next
<1>3. CASE worker[w].lo + 1 = worker[w].hi
  BY <1>1, <1>3, Moved DEF Busy
<1>4. CASE worker[w].lo + 1 # worker[w].hi
  <2>1. /\ Pool' = Pool /\ worker'[w] = next /\ Busy' = Busy \cup {w}
        /\ \A v \in Pool \ {w} : worker'[v] = worker[v]
    BY <1>1, <1>2, <1>4, Moved
  <2>2. Busy \subseteq Pool
    BY DEF Busy
  <2> QED
    BY <1>1, <1>2, <1>4, <2>1, <2>2
<1> QED
  BY <1>3, <1>4

LEMMA OnePlaceRelease ==
  ASSUME TypeOK, OnePlace, NEW w \in Pool, ReleasePermit(w)
  PROVE  OnePlace'
<1> DEFINE r == worker[w].run
           c == worker[w].lo
<1>1. /\ w \in Busy /\ r \in Runs /\ c \in Nat /\ worker[w].hi \in Nat
      /\ UNCHANGED <<setup, job, run, tasks>>
      /\ DOMAIN results'[r] = DOMAIN results[r] \cup {c}
      /\ \A q \in Runs \ {r} : results'[q] = results[q]
  BY Released, WorkerFacts
<1>2. \A q : ChunkCount(q)' = ChunkCount(q)
  BY <1>1, Fixed
<1>3. /\ \A v \in Busy' \ {w} : worker'[v] = worker[v] /\ v \in Busy
      /\ w \in Busy' => /\ worker'[w].run = r /\ worker'[w].lo = c + 1
                        /\ worker'[w].hi = worker[w].hi /\ c + 1 # worker[w].hi
  BY ReleasedThread
<1>4. /\ \A v \in Busy : worker[v].run \in Runs /\ worker[v].lo \in Nat /\ worker[v].hi \in Nat
      /\ \A t \in tasks : t.run \in Runs /\ t.lo \in Nat /\ t.hi \in Nat
      /\ \A q \in Runs : DOMAIN results[q] \subseteq Nat
  BY WorkerFacts DEF TypeOK, ChunksOf
<1>5. run[r] = "running" /\ c < worker[w].hi /\ worker[w].hi <= ChunkCount(r)
  BY <1>1 DEF OnePlace, InBounds
<1> HIDE DEF r, c
<1>6. \A t \in tasks : (InBounds(t) /\ NotYetDone(t))'
  <2> SUFFICES ASSUME NEW t \in tasks PROVE (InBounds(t) /\ NotYetDone(t))'
    OBVIOUS
  <2>1. InBounds(t) /\ NotYetDone(t) /\ Apart(t, worker[w])
    BY <1>1 DEF OnePlace
  <2> QED
    BY <1>1, <1>2, <1>4, <1>5, <2>1 DEF InBounds, NotYetDone, Apart, r, c
<1>7. \A v \in Busy' : InBounds(worker[v])' /\ NotYetDone(worker[v])'
  <2>1. ASSUME NEW v \in Busy', v # w
        PROVE  InBounds(worker[v])' /\ NotYetDone(worker[v])'
    <3>1. /\ v \in Busy /\ worker'[v] = worker[v]
          /\ InBounds(worker[v]) /\ NotYetDone(worker[v]) /\ Apart(worker[v], worker[w])
      BY <1>1, <1>3, <2>1 DEF OnePlace
    <3> QED
      BY <1>1, <1>2, <1>4, <1>5, <3>1 DEF InBounds, NotYetDone, Apart, r, c
  <2>2. w \in Busy' => InBounds(worker[w])' /\ NotYetDone(worker[w])'
    <3>1. NotYetDone(worker[w])
      BY <1>1 DEF OnePlace
    <3> QED
      BY <1>1, <1>2, <1>3, <1>4, <1>5, <3>1 DEF InBounds, NotYetDone, r, c
  <2> QED
    BY <2>1, <2>2
<1>8. /\ \A v, u \in Busy' : v # u => Apart(worker'[v], worker'[u])
      /\ \A t \in tasks : \A v \in Busy' : Apart(t, worker'[v])
  BY <1>1, <1>3, <1>4, <1>5 DEF OnePlace, Apart, r, c
<1>9. \A q \in Runs : run[q] = "ready" => DOMAIN results'[q] = {}
  BY <1>1, <1>5 DEF OnePlace
<1> QED
  BY <1>1, <1>6, <1>7, <1>8, <1>9 DEF OnePlace

\* The end of a call: no thread and no job is concerned.
LEMMA OnePlaceEnd ==
  ASSUME TypeOK, OnePlace, NEW r \in Runs, EndStep(r)
  PROVE  OnePlace'
<1>1. /\ UNCHANGED <<setup, job, sem, tasks, worker, results, failed>>
      /\ run[r] = "running" /\ \E x \in {"done", "panicked"} : run' = [run EXCEPT ![r] = x]
  BY DEF EndStep, FinishRun, ResumePanic, FinishReduce, EndMetrics, Joined
<1>2. Busy' = Busy /\ \A q : ChunkCount(q)' = ChunkCount(q)
  BY <1>1, Fixed DEF Busy
<1>3. run'[r] # "ready" /\ \A q \in Runs \ {r} : run'[q] = run[q]
  BY <1>1 DEF TypeOK
<1>4. /\ \A t \in tasks : t.run \in Runs /\ t.run # r
      /\ \A w \in Busy : worker[w].run \in Runs /\ worker[w].run # r
  <2>1. CASE Joined(r)
    BY <2>1, WorkerFacts DEF Joined, WorkersOn, TypeOK
  <2>2. CASE FinishReduce(r)
    <3>1. ChunkCount(r) = 0
      BY <2>2 DEF FinishReduce, ChunkCount
    <3>2. /\ \A t \in tasks : t.run \in Runs /\ t.lo \in Nat /\ t.hi \in Nat
          /\ \A w \in Busy : /\ worker[w].run \in Runs
                             /\ worker[w].lo \in Nat /\ worker[w].hi \in Nat
      BY WorkerFacts DEF TypeOK
    <3> QED
      BY <3>1, <3>2 DEF OnePlace, InBounds
  <2> QED
    BY <2>1, <2>2 DEF EndStep, FinishRun, ResumePanic
<1> QED
  BY <1>1, <1>2, <1>3, <1>4 DEF OnePlace, InBounds, NotYetDone, Apart

LEMMA OnePlaceStep == TypeOK /\ OnePlace /\ [Next]_vars => OnePlace'
<1> SUFFICES ASSUME TypeOK, OnePlace, [Next]_vars PROVE OnePlace'
  OBVIOUS
<1>1. CASE UNCHANGED vars
  BY <1>1 DEF vars, OnePlace, InBounds, NotYetDone, Busy, Pool, ChunkCount
<1>2. ASSUME NEW r \in Runs, BeginRun(r) \/ EndStep(r) PROVE OnePlace'
  BY <1>2, OnePlaceBegin, OnePlaceEnd
<1>3. ASSUME NEW w \in Pool, WorkerStep(w) \/ SpuriousWakeup(w) PROVE OnePlace'
  BY <1>3, OnePlaceStays, OnePlaceTake, OnePlaceSplit, OnePlacePanic, OnePlaceRelease
     DEF WorkerStep, ChunkStep, StaysInPlace
<1> QED
  BY <1>1, <1>2, <1>3 DEF Next

-----------------------------------------------------------------------------
(* No chunk of a run without a panic gets lost                             *)

LEMMA SomePlaceBegin ==
  ASSUME TypeOK, OnePlace, SomePlace, NEW r \in Runs, BeginRun(r)
  PROVE  SomePlace'
<1> DEFINE new == Task(r, 0, ChunkCount(r))
<1>1. /\ UNCHANGED <<setup, job, worker, results, failed>>
      /\ run' = [run EXCEPT ![r] = "running"]
      /\ tasks' = tasks \cup (IF ChunkCount(r) = 0 THEN {} ELSE {new})
  BY DEF BeginRun
<1>2. Busy' = Busy /\ \A q : ChunksOf(q)' = ChunksOf(q)
  BY <1>1, Fixed DEF Busy
<1>3. \A q \in Runs \ {r} : run'[q] = run[q]
  BY <1>1 DEF TypeOK
<1>4. ASSUME NEW c \in ChunksOf(r) PROVE new \in tasks' /\ Holds(new, r, c)
  <2>1. ChunkCount(r) # 0 /\ 0 <= c /\ c < ChunkCount(r)
    BY <1>4, ChunkCountIsNat DEF ChunksOf
  <2> QED
    BY <1>1, <2>1 DEF Task, Holds
<1> HIDE DEF new
<1> QED
  BY <1>1, <1>2, <1>3, <1>4 DEF SomePlace, Holds

LEMMA SomePlaceTake ==
  ASSUME TypeOK, SomePlace, NEW w \in Pool, TakeJob(w)
  PROVE  SomePlace'
<1>1. PICK t \in tasks :
        /\ worker' = [worker EXCEPT ![w] = Doing("job", t.run, t.lo, t.hi, 0, <<>>)]
        /\ tasks' = tasks \ {t}
  BY DEF TakeJob
<1> DEFINE x == Doing("job", t.run, t.lo, t.hi, 0, <<>>)
<1>2. UNCHANGED <<setup, job, run, results, failed>> /\ w \notin Busy /\ Busy \subseteq Pool
  BY <1>1 DEF TakeJob, Busy
<1>3. x # Idle /\ x.run = t.run /\ x.lo = t.lo /\ x.hi = t.hi
  BY DEF Doing, Idle
<1> HIDE DEF x
<1>4. /\ worker'[w] = x /\ \A v \in Pool \ {w} : worker'[v] = worker[v]
      /\ Busy' = Busy \cup {w}
  BY <1>1, <1>2, <1>3, Moved DEF x
<1>5. \A q : ChunksOf(q)' = ChunksOf(q)
  BY <1>2, Fixed
<1>6. \A r, c : Holds(t, r, c) => Holds(worker'[w], r, c)
  BY <1>3, <1>4 DEF Holds
<1>7. \A v \in Busy : worker'[v] = worker[v]
  BY <1>2, <1>4
<1> QED
  BY <1>1, <1>2, <1>4, <1>5, <1>6, <1>7 DEF SomePlace

LEMMA SomePlaceSplit ==
  ASSUME TypeOK, SomePlace, NEW w \in Pool, SplitJob(w)
  PROVE  SomePlace'
<1>1. PICK mid \in Nat :
        LET new == Task(worker[w].run, mid, worker[w].hi)
        IN  /\ w \in Busy /\ Busy' = Busy
            /\ UNCHANGED <<setup, job, run, results, failed>>
            /\ worker'[w].run = worker[w].run /\ worker'[w].lo = worker[w].lo
            /\ worker'[w].hi = mid
            /\ \A v \in Pool \ {w} : worker'[v] = worker[v]
            /\ tasks' = tasks \cup {new}
            /\ new.run = worker[w].run /\ new.lo = mid /\ new.hi = worker[w].hi
  BY SplitInTwo
<1> DEFINE new == Task(worker[w].run, mid, worker[w].hi)
<1>2. Busy \subseteq Pool /\ \A q : ChunksOf(q)' = ChunksOf(q)
  BY <1>1, Fixed DEF Busy
<1>3. \A r \in Runs : \A c \in ChunksOf(r) :
        Holds(worker[w], r, c) => Holds(new, r, c) \/ Holds(worker'[w], r, c)
  BY <1>1 DEF Holds, ChunksOf
<1>4. new \in tasks' /\ tasks \subseteq tasks'
  BY <1>1
<1> HIDE DEF new
<1>5. \A v \in Busy : v # w => worker'[v] = worker[v]
  BY <1>1, <1>2
<1> QED
  BY <1>1, <1>2, <1>3, <1>4, <1>5 DEF SomePlace

LEMMA SomePlaceRelease ==
  ASSUME TypeOK, OnePlace, SomePlace, NEW w \in Pool, ReleasePermit(w)
  PROVE  SomePlace'
<1> DEFINE r == worker[w].run
           c == worker[w].lo
<1>1. /\ w \in Busy /\ r \in Runs /\ c \in Nat /\ worker[w].hi \in Nat
      /\ UNCHANGED <<setup, job, run, tasks, failed>>
      /\ DOMAIN results'[r] = DOMAIN results[r] \cup {c}
      /\ \A q \in Runs \ {r} : results'[q] = results[q]
  BY Released, WorkerFacts
<1>2. /\ \A v \in Pool \ {w} : worker'[v] = worker[v]
      /\ c + 1 = worker[w].hi => Busy' = Busy \ {w}
      /\ c + 1 # worker[w].hi => /\ Busy' = Busy /\ worker'[w].run = r
                                 /\ worker'[w].lo = c + 1
                                 /\ worker'[w].hi = worker[w].hi
  BY ReleasedThread
<1>3. Busy \subseteq Pool /\ \A q : ChunksOf(q)' = ChunksOf(q)
  BY <1>1, Fixed DEF Busy
<1>4. \A d \in Nat : Holds(worker[w], r, d) =>
        d = c \/ (w \in Busy' /\ Holds(worker'[w], r, d))
  BY <1>1, <1>2 DEF Holds
<1>5. \A q : q # r => \A d : ~Holds(worker[w], q, d)
  BY DEF Holds
<1>6. \A v \in Busy \ {w} : v \in Busy' /\ worker'[v] = worker[v]
  BY <1>2, <1>3
<1>7. \A q : ChunksOf(q) \subseteq Nat
  BY DEF ChunksOf
<1> HIDE DEF r, c
<1> QED
  BY <1>1, <1>3, <1>4, <1>5, <1>6, <1>7 DEF SomePlace

LEMMA SomePlaceStep == TypeOK /\ OnePlace /\ SomePlace /\ [Next]_vars => SomePlace'
<1> SUFFICES ASSUME TypeOK, OnePlace, SomePlace, [Next]_vars PROVE SomePlace'
  OBVIOUS
<1>1. CASE UNCHANGED vars
  BY <1>1 DEF vars, SomePlace, Busy, Pool, ChunksOf, ChunkCount
<1>2. ASSUME NEW r \in Runs, EndStep(r) PROVE SomePlace'
  <2>1. /\ UNCHANGED <<setup, job, tasks, worker, results, failed>>
        /\ \E x \in {"done", "panicked"} : run' = [run EXCEPT ![r] = x]
    BY <1>2 DEF EndStep, FinishRun, ResumePanic, FinishReduce, EndMetrics, Joined
  <2>2. Busy' = Busy /\ \A q : ChunksOf(q)' = ChunksOf(q)
    BY <2>1, Fixed DEF Busy
  <2>3. run'[r] # "running" /\ \A q \in Runs \ {r} : run'[q] = run[q]
    BY <2>1 DEF TypeOK
  <2> QED
    BY <2>1, <2>2, <2>3 DEF SomePlace
<1>3. ASSUME NEW w \in Pool, StaysInPlace(w) PROVE SomePlace'
  <2>1. /\ Busy' = Busy /\ UNCHANGED <<setup, job, run, tasks, results, failed>>
        /\ \A v \in Busy : /\ worker'[v].run = worker[v].run
                           /\ worker'[v].lo = worker[v].lo
                           /\ worker'[v].hi = worker[v].hi
    BY <1>3, Stays DEF Busy
  <2>2. \A q : ChunksOf(q)' = ChunksOf(q)
    BY <2>1, Fixed
  <2>3. \A v \in Busy : \A q, d : Holds(worker[v], q, d) => Holds(worker'[v], q, d)
    BY <2>1 DEF Holds
  <2> QED
    BY <2>1, <2>2, <2>3 DEF SomePlace
<1>4. ASSUME NEW w \in Pool, OverflowPanic(w) \/ RowPanics(w) PROVE SomePlace'
  <2>1. /\ UNCHANGED <<setup, job, run, tasks, results>>
        /\ failed' = failed \cup {worker[w].run}
        /\ \A v \in Pool \ {w} : worker'[v] = worker[v]
        /\ Busy' = Busy \ {w} /\ Busy \subseteq Pool
    BY <1>4, Panicked DEF Busy
  <2>2. \A q : ChunksOf(q)' = ChunksOf(q)
    BY <2>1, Fixed
  <2>3. \A q \in Runs \ failed' : \A v \in Busy : \A d : Holds(worker[v], q, d) =>
          v \in Busy' /\ Holds(worker'[v], q, d)
    BY <2>1 DEF Holds
  <2> QED
    BY <2>1, <2>2, <2>3 DEF SomePlace
<1> QED
  BY <1>1, <1>2, <1>3, <1>4, SomePlaceBegin, SomePlaceTake, SomePlaceSplit,
     SomePlaceRelease DEF Next, WorkerStep, ChunkStep, StaysInPlace

-----------------------------------------------------------------------------
(* The semaphore of a run and the threads agree                            *)

\* c's place in the semaphore of r goes from one of `from` to `to`, and no
\* other caller's changes but for waking a sleeper.
Goes(r, c, from, to) ==
  /\ \A q \in Runs \ {r} : sem'[q] = sem[q]
  /\ DOMAIN sem'[r].phase = ChunksOf(r)
  /\ sem[r].phase[c] \in from /\ sem'[r].phase[c] = to
  /\ \A d \in ChunksOf(r) \ {c} :
       \/ sem'[r].phase[d] = sem[r].phase[d]
       \/ sem[r].phase[d] = "waiting" /\ sem'[r].phase[d] = "entering"

\* The sections of a thread's semaphore, on plain records.
LEMMA Sections ==
  ASSUME NEW C, NEW s \in [permits: Nat, phase: [C -> Phases], waited: SUBSET C],
         NEW c \in C
  PROVE  /\ LET t == Called(s, c)
            IN  /\ t.permits = s.permits /\ DOMAIN t.phase = C /\ t.phase[c] = "entering"
                /\ \A d \in C \ {c} : t.phase[d] = s.phase[d]
         /\ LET t == Taken(s, c)
            IN  /\ t.permits = s.permits - 1 /\ DOMAIN t.phase = C
                /\ t.phase[c] = "holding"
                /\ \A d \in C \ {c} : t.phase[d] = s.phase[d]
         /\ LET t == Waiting(s, c)
            IN  /\ t.permits = s.permits /\ DOMAIN t.phase = C /\ t.phase[c] = "waiting"
                /\ \A d \in C \ {c} : t.phase[d] = s.phase[d]
         /\ LET t == WokenUp(s, c)
            IN  /\ t.permits = s.permits /\ DOMAIN t.phase = C /\ t.phase[c] = "entering"
                /\ \A d \in C \ {c} : t.phase[d] = s.phase[d]
         /\ LET t == Freed(s, c)
            IN  /\ t.permits = s.permits + 1 /\ DOMAIN t.phase = C /\ t.phase[c] = "out"
                /\ \A d \in C \ {c} : t.phase[d] = s.phase[d]
BY DEF Called, Taken, Waiting, WokenUp, Freed, Move

LEMMA AfterReleaseIs ==
  ASSUME NEW C, NEW s \in [permits: Nat, phase: [C -> Phases], waited: SUBSET C],
         NEW c \in C, s.phase[c] = "holding", NEW t \in AfterRelease(s, c)
  PROVE  /\ t.permits = s.permits + 1 /\ DOMAIN t.phase = C /\ t.phase[c] = "out"
         /\ \A d \in C \ {c} :
              \/ t.phase[d] = s.phase[d]
              \/ s.phase[d] = "waiting" /\ t.phase[d] = "entering"
<1> DEFINE freed == Freed(s, c)
<1>1. /\ freed.permits = s.permits + 1 /\ DOMAIN freed.phase = C
      /\ freed.phase[c] = "out" /\ \A d \in C \ {c} : freed.phase[d] = s.phase[d]
  BY Sections
<1>2. freed \in [permits: Nat, phase: [C -> Phases], waited: SUBSET C]
  BY DEF Freed, Move, Phases
<1>3. CASE t = freed
  BY <1>1, <1>3
<1>4. ASSUME NEW e \in InPhase(s, "waiting"), t = WokenUp(freed, e)
      PROVE  /\ t.permits = s.permits + 1 /\ DOMAIN t.phase = C /\ t.phase[c] = "out"
             /\ \A d \in C \ {c} :
                  \/ t.phase[d] = s.phase[d]
                  \/ s.phase[d] = "waiting" /\ t.phase[d] = "entering"
  <2>1. e \in C /\ e # c /\ s.phase[e] = "waiting"
    BY DEF InPhase
  <2> HIDE DEF freed
  <2>2. /\ t.permits = freed.permits /\ DOMAIN t.phase = C /\ t.phase[e] = "entering"
        /\ \A d \in C \ {e} : t.phase[d] = freed.phase[d]
    BY <1>2, <1>4, <2>1, Sections
  <2> QED
    BY <1>1, <2>1, <2>2
<1>5. t = freed \/ \E e \in InPhase(s, "waiting") : t = WokenUp(freed, e)
  BY DEF AfterRelease
<1> QED
  BY <1>3, <1>4, <1>5

\* What each step of a thread makes of the semaphore of its run.
LEMMA SemSteps ==
  ASSUME TypeOK, OnePlace, PhasesFollow, NEW w \in Pool
  PROVE  LET r == worker[w].run
             c == worker[w].lo
         IN  /\ CallAcquire(w) => /\ Goes(r, c, {"out"}, "entering")
                                  /\ sem'[r].permits = sem[r].permits
             /\ TakePermit(w) => /\ Goes(r, c, {"entering"}, "holding")
                                 /\ sem[r].permits > 0
                                 /\ sem'[r].permits = sem[r].permits - 1
             /\ StartWaiting(w) => /\ Goes(r, c, {"entering"}, "waiting")
                                   /\ sem'[r].permits = sem[r].permits
             /\ SpuriousWakeup(w) => /\ Goes(r, c, {"waiting"}, "entering")
                                     /\ sem'[r].permits = sem[r].permits
             /\ ReleasePermit(w) => /\ Goes(r, c, {"holding"}, "out")
                                    /\ sem'[r].permits = sem[r].permits + 1
<1> DEFINE r == worker[w].run
           c == worker[w].lo
           S == SemaphoreOf(r)
<1>1. CallAcquire(w) \/ TakePermit(w) \/ StartWaiting(w) \/ SpuriousWakeup(w)
        \/ ReleasePermit(w) => w \in Busy
  BY WorkerFacts DEF CallAcquire, TakePermit, StartWaiting, SpuriousWakeup, ReleasePermit
<1>2. ASSUME w \in Busy
      PROVE  /\ r \in Runs /\ c \in ChunksOf(r) /\ sem[r] \in S
             /\ DOMAIN sem = Runs /\ PhaseFollows(worker[w])
  BY <1>2, WorkerFacts, AtChunk DEF TypeOK, PhasesFollow
<1>3. ASSUME w \in Busy, NEW t, sem' = [sem EXCEPT ![r] = t]
      PROVE  sem'[r] = t /\ \A q \in Runs \ {r} : sem'[q] = sem[q]
  BY <1>2, <1>3
<1> HIDE DEF r, c
<1>4. ASSUME CallAcquire(w)
      PROVE  Goes(r, c, {"out"}, "entering") /\ sem'[r].permits = sem[r].permits
  <2>1. sem' = [sem EXCEPT ![r] = Called(sem[r], c)] /\ worker[w].at \in {"job", "fold"}
    BY <1>4 DEF CallAcquire, r, c
  <2>2. sem[r].phase[c] = "out"
    BY <1>1, <1>2, <1>4, <2>1 DEF PhaseFollows, r, c
  <2> QED
    BY <1>1, <1>2, <1>3, <1>4, <2>1, <2>2, Sections DEF Goes, SemaphoreOf
<1>5. ASSUME TakePermit(w)
      PROVE  /\ Goes(r, c, {"entering"}, "holding") /\ sem[r].permits > 0
             /\ sem'[r].permits = sem[r].permits - 1
  <2>1. /\ sem' = [sem EXCEPT ![r] = Taken(sem[r], c)]
        /\ sem[r].permits > 0 /\ sem[r].phase[c] = "entering"
    BY <1>5 DEF TakePermit, CanTake, r, c
  <2> QED
    BY <1>1, <1>2, <1>3, <1>5, <2>1, Sections DEF Goes, SemaphoreOf
<1>6. ASSUME StartWaiting(w)
      PROVE  Goes(r, c, {"entering"}, "waiting") /\ sem'[r].permits = sem[r].permits
  <2>1. /\ sem' = [sem EXCEPT ![r] = Waiting(sem[r], c)] /\ sem[r].phase[c] = "entering"
    BY <1>6 DEF StartWaiting, MustWait, r, c
  <2> QED
    BY <1>1, <1>2, <1>3, <1>6, <2>1, Sections DEF Goes, SemaphoreOf
<1>7. ASSUME SpuriousWakeup(w)
      PROVE  Goes(r, c, {"waiting"}, "entering") /\ sem'[r].permits = sem[r].permits
  <2>1. /\ sem' = [sem EXCEPT ![r] = WokenUp(sem[r], c)] /\ sem[r].phase[c] = "waiting"
    BY <1>7 DEF SpuriousWakeup, r, c
  <2> QED
    BY <1>1, <1>2, <1>3, <1>7, <2>1, Sections DEF Goes, SemaphoreOf
<1>8. ASSUME ReleasePermit(w)
      PROVE  Goes(r, c, {"holding"}, "out") /\ sem'[r].permits = sem[r].permits + 1
  <2>1. /\ worker[w].at = "release"
        /\ \E t \in AfterRelease(sem[r], c) : sem' = [sem EXCEPT ![r] = t]
    BY <1>8 DEF ReleasePermit, r, c
  <2>2. PICK t \in AfterRelease(sem[r], c) : sem' = [sem EXCEPT ![r] = t]
    BY <2>1
  <2>3. sem[r].phase[c] = "holding"
    BY <1>1, <1>2, <1>8, <2>1 DEF PhaseFollows, r, c
  <2>4. /\ t.permits = sem[r].permits + 1 /\ DOMAIN t.phase = ChunksOf(r)
        /\ t.phase[c] = "out"
        /\ \A d \in ChunksOf(r) \ {c} :
             \/ t.phase[d] = sem[r].phase[d]
             \/ sem[r].phase[d] = "waiting" /\ t.phase[d] = "entering"
    BY <1>1, <1>2, <1>8, <2>3, AfterReleaseIs DEF SemaphoreOf
  <2> QED
    BY <1>1, <1>2, <1>3, <1>8, <2>2, <2>3, <2>4 DEF Goes
<1> QED
  BY <1>4, <1>5, <1>6, <1>7, <1>8 DEF r, c

\* Where a step leaves its thread.
LEMMA StepsTo ==
  ASSUME TypeOK, NEW w \in Pool
  PROVE  /\ CallAcquire(w) => worker'[w].at = "acquire"
         /\ TakePermit(w) => worker'[w].at = "start"
         /\ StartWaiting(w) => worker' = worker /\ worker[w].at = "acquire"
         /\ SpuriousWakeup(w) => worker' = worker /\ worker[w].at = "acquire"
         /\ StartChunk(w) =>
              /\ worker[w].at = "start" /\ worker'[w].at = "rows"
              /\ worker'[w].row = RowsOf(worker[w].run, worker[w].lo).start
              /\ worker'[w].out = <<>>
         /\ ProcessRow(w) =>
              /\ worker[w].at = "rows" /\ worker'[w].at = "rows"
              /\ worker'[w].row = worker[w].row + 1
              /\ worker'[w].out = IF worker[w].row \in job[worker[w].run].kept
                                  THEN Append(worker[w].out, worker[w].row)
                                  ELSE worker[w].out
         /\ EndChunk(w) =>
              /\ worker[w].at = "rows" /\ worker'[w].at = "release"
              /\ worker'[w].row = worker[w].row /\ worker'[w].out = worker[w].out
<1>1. DOMAIN worker = Pool /\ (worker[w].at \in Steps => worker[w] \in AtWork)
  BY WorkerFacts DEF Steps
<1>2. ASSUME NEW a, worker' = [worker EXCEPT ![w] = [worker[w] EXCEPT !.at = a]],
             worker[w].at \in Steps
      PROVE  /\ worker'[w].at = a /\ worker'[w].row = worker[w].row
             /\ worker'[w].out = worker[w].out
  <2> DEFINE x == [worker[w] EXCEPT !.at = a]
  <2>1. x.at = a /\ x.row = worker[w].row /\ x.out = worker[w].out
    BY <1>1, <1>2 DEF AtWork
  <2>2. worker' = [worker EXCEPT ![w] = x]
    BY <1>2
  <2> HIDE DEF x
  <2>3. worker'[w] = x
    BY <1>1, <2>2
  <2> QED
    BY <2>1, <2>3
<1>3. CallAcquire(w) => worker'[w].at = "acquire"
  BY <1>2 DEF CallAcquire, Steps
<1>4. TakePermit(w) => worker'[w].at = "start"
  BY <1>2 DEF TakePermit, Steps
<1>5. EndChunk(w) =>
        /\ worker[w].at = "rows" /\ worker'[w].at = "release"
        /\ worker'[w].row = worker[w].row /\ worker'[w].out = worker[w].out
  BY <1>2 DEF EndChunk, Steps
<1>6. ASSUME NEW row, NEW out, worker' = Reads(w, row, out)
      PROVE  worker'[w].at = "rows" /\ worker'[w].row = row /\ worker'[w].out = out
  BY <1>1, <1>6 DEF Reads, Doing
<1>7. StartChunk(w) =>
        /\ worker[w].at = "start" /\ worker'[w].at = "rows"
        /\ worker'[w].row = RowsOf(worker[w].run, worker[w].lo).start
        /\ worker'[w].out = <<>>
  BY <1>6 DEF StartChunk
<1>8. ProcessRow(w) =>
        /\ worker[w].at = "rows" /\ worker'[w].at = "rows"
        /\ worker'[w].row = worker[w].row + 1
        /\ worker'[w].out = IF worker[w].row \in job[worker[w].run].kept
                            THEN Append(worker[w].out, worker[w].row)
                            ELSE worker[w].out
  BY <1>6 DEF ProcessRow
<1> QED
  BY <1>3, <1>4, <1>5, <1>7, <1>8 DEF StartWaiting, SpuriousWakeup

\* A section concerns its own chunk: those of the other jobs and threads are
\* others, and so are the later ones of this job.
LEMMA OthersFollow ==
  ASSUME TypeOK, OnePlace, PhasesFollow, UNCHANGED <<setup, job, run, tasks>>,
         NEW w \in Busy, NEW from, NEW to,
         Goes(worker[w].run, worker[w].lo, from, to)
  PROVE  /\ \A t \in tasks : Untouched(t, t.lo)'
         /\ \A v \in Busy \ {w} : worker'[v] = worker[v] => PhaseFollows(worker[v])'
         /\ \A d \in ChunksOf(worker[w].run) :
              worker[w].lo < d /\ d < worker[w].hi => sem'[worker[w].run].phase[d] = "out"
         /\ \A q \in Runs : run[q] = "ready" =>
              \A d \in ChunksOf(q) : sem'[q].phase[d] = "out"
<1> DEFINE r == worker[w].run
           c == worker[w].lo
<1>1. /\ r \in Runs /\ c \in ChunksOf(r) /\ run[r] = "running"
      /\ c < worker[w].hi /\ c \in Nat /\ worker[w].hi \in Nat
  BY AtChunk, WorkerFacts
<1>2. /\ \A q \in Runs \ {r} : sem'[q] = sem[q]
      /\ \A d \in ChunksOf(r) \ {c} :
           \/ sem'[r].phase[d] = sem[r].phase[d]
           \/ sem[r].phase[d] = "waiting" /\ sem'[r].phase[d] = "entering"
  BY DEF Goes
<1>3. /\ \A q : ChunksOf(q)' = ChunksOf(q) /\ ChunksOf(q) \subseteq Int
  BY Fixed DEF ChunksOf
<1>4. /\ \A t \in tasks : /\ t.run \in Runs /\ t.lo \in Nat /\ t.hi \in Nat
                          /\ Apart(t, worker[w]) /\ Untouched(t, t.lo)
      /\ \A v \in Busy : /\ worker[v].run \in Runs /\ worker[v].lo \in Nat
                         /\ worker[v].hi \in Nat /\ PhaseFollows(worker[v])
                         /\ worker[v].lo < worker[v].hi
                         /\ worker[v].lo \in ChunksOf(worker[v].run)
      /\ \A v \in Busy \ {w} : Apart(worker[v], worker[w])
  BY AtChunk, WorkerFacts DEF OnePlace, TypeOK, PhasesFollow
<1> HIDE DEF r, c
<1>5. \A t \in tasks : Untouched(t, t.lo)'
  <2> SUFFICES ASSUME NEW t \in tasks PROVE Untouched(t, t.lo)'
    OBVIOUS
  <2>1. CASE t.run # r
    BY <1>2, <1>3, <1>4, <2>1 DEF Untouched
  <2>2. CASE t.run = r
    <3>1. \A d \in ChunksOf(r) : t.lo <= d /\ d < t.hi => d # c
      BY <1>1, <1>3, <1>4, <2>2 DEF Apart, r, c
    <3> QED
      BY <1>2, <1>3, <1>4, <2>2, <3>1 DEF Untouched
  <2> QED
    BY <2>1, <2>2
<1>6. ASSUME NEW v \in Busy \ {w}, worker'[v] = worker[v]
      PROVE  PhaseFollows(worker[v])'
  <2>1. CASE worker[v].run # r
    BY <1>2, <1>3, <1>4, <1>6, <2>1 DEF PhaseFollows, Untouched
  <2>2. CASE worker[v].run = r
    <3>1. \A d \in ChunksOf(r) : worker[v].lo <= d /\ d < worker[v].hi => d # c
      BY <1>1, <1>3, <1>4, <2>2 DEF Apart, r, c
    <3>2. worker[v].lo # c
      BY <1>3, <1>4, <2>2, <3>1
    <3>3. Untouched(worker[v], worker[v].lo + 1)'
      <4>1. \A d \in ChunksOf(r) : worker[v].lo + 1 <= d /\ d < worker[v].hi =>
              d # c /\ sem[r].phase[d] = "out"
        BY <1>3, <1>4, <2>2, <3>1 DEF PhaseFollows, Untouched
      <4> QED
        BY <1>2, <1>3, <1>6, <2>2, <4>1 DEF Untouched
    <3> QED
      BY <1>2, <1>4, <1>6, <2>2, <3>2, <3>3 DEF PhaseFollows
  <2> QED
    BY <2>1, <2>2
<1>7. \A d \in ChunksOf(r) : c < d /\ d < worker[w].hi => sem'[r].phase[d] = "out"
  <2>1. \A d \in ChunksOf(r) : c < d => c + 1 <= d /\ d # c
    BY <1>1, <1>3
  <2>2. Untouched(worker[w], c + 1)
    BY <1>4 DEF PhaseFollows, c
  <2> QED
    BY <1>2, <2>1, <2>2 DEF Untouched, r
<1>8. \A q \in Runs : run[q] = "ready" => \A d \in ChunksOf(q) : sem'[q].phase[d] = "out"
  BY <1>1, <1>2 DEF PhasesFollow
<1> QED
  BY <1>5, <1>6, <1>7, <1>8 DEF r, c

\* Who holds a permit of r: the threads that execute a chunk of r.
HoldersExecute(r) == \A c \in ChunksOf(r) : sem[r].phase[c] = "holding" =>
  \E w \in Busy : worker[w].run = r /\ worker[w].lo = c /\ Executing(w)

LEMMA HoldersAre ==
  ASSUME TypeOK, NEW r \in Runs
  PROVE  HoldersExecute(r) <=> InPhase(sem[r], "holding") \subseteq InFlight(r)
<1>1. InPhase(sem[r], "holding") = {c \in ChunksOf(r) : sem[r].phase[c] = "holding"}
  BY DEF TypeOK, SemaphoreOf, InPhase
<1>2. InFlight(r) = {worker[w].lo : w \in {v \in Busy : worker[v].run = r /\ Executing(v)}}
  BY DEF InFlight, WorkersOn
<1> QED
  BY <1>1, <1>2 DEF HoldersExecute

LEMMA HoldersAreNow ==
  ASSUME TypeOK', NEW r \in Runs
  PROVE  HoldersExecute(r)' => (InPhase(sem[r], "holding") \subseteq InFlight(r))'
<1>1. InPhase(sem[r], "holding")' = {c \in ChunksOf(r)' : sem'[r].phase[c] = "holding"}
  BY DEF TypeOK, SemaphoreOf, InPhase
<1>2. InFlight(r)' = {worker'[w].lo :
                        w \in {v \in Busy' : worker'[v].run = r /\ Executing(v)'}}
  BY DEF InFlight, WorkersOn
<1> QED
  BY <1>1, <1>2 DEF HoldersExecute

\* The three conjuncts of PhasesFollow that do not ask for a panic.
Follow ==
  /\ \A t \in tasks : Untouched(t, t.lo)
  /\ \A w \in Busy : PhaseFollows(worker[w])
  /\ \A r \in Runs : run[r] = "ready" => \A c \in ChunksOf(r) : sem[r].phase[c] = "out"

LEMMA FollowStays ==
  ASSUME TypeOK, OnePlace, PhasesFollow, NEW w \in Pool, StaysInPlace(w)
  PROVE  Follow' /\ \A r \in Runs : HoldersExecute(r) => HoldersExecute(r)'
<1> DEFINE r == worker[w].run
           c == worker[w].lo
<1>1. /\ w \in Busy /\ Busy' = Busy
      /\ UNCHANGED <<setup, job, run, tasks>>
      /\ \A v \in Busy \ {w} : worker'[v] = worker[v]
      /\ worker'[w].run = r /\ worker'[w].lo = c /\ worker'[w].hi = worker[w].hi
  BY Stays DEF Busy
<1>2. /\ r \in Runs /\ c \in ChunksOf(r) /\ PhaseFollows(worker[w])
      /\ \A q : ChunksOf(q)' = ChunksOf(q)
      /\ worker[w].hi \in Nat /\ worker[w].lo \in Nat
  BY <1>1, AtChunk, Fixed, WorkerFacts DEF PhasesFollow
<1>3. ASSUME NEW from, NEW to, Goes(r, c, from, to),
             \/ worker'[w].at = "acquire" /\ to = "entering"
             \/ worker'[w].at = "acquire" /\ to = "waiting"
             \/ worker'[w].at = "start" /\ to = "holding",
             worker[w].at \notin {"start", "rows", "release"},
             "holding" \notin from
      PROVE  Follow' /\ \A q \in Runs : HoldersExecute(q) => HoldersExecute(q)'
  <2>1. /\ \A t \in tasks : Untouched(t, t.lo)'
        /\ \A v \in Busy \ {w} : PhaseFollows(worker[v])'
        /\ \A d \in ChunksOf(r) : c < d /\ d < worker[w].hi => sem'[r].phase[d] = "out"
        /\ \A q \in Runs : run[q] = "ready" =>
             \A d \in ChunksOf(q) : sem'[q].phase[d] = "out"
    BY <1>1, <1>3, OthersFollow
  <2> HIDE DEF r, c
  <2>2. /\ sem'[r].phase[c] = to /\ sem[r].phase[c] # "holding"
        /\ \A q \in Runs \ {r} : sem'[q] = sem[q]
        /\ \A d \in ChunksOf(r) \ {c} : sem'[r].phase[d] = "holding" =>
             sem[r].phase[d] = "holding"
    BY <1>3 DEF Goes
  <2>3. PhaseFollows(worker[w])'
    <3>1. \A d \in ChunksOf(r) : c + 1 <= d => c < d
      BY <1>2 DEF ChunksOf, c
    <3>2. Untouched(worker[w], worker[w].lo + 1)'
      BY <1>1, <1>2, <2>1, <3>1 DEF Untouched
    <3> QED
      BY <1>1, <1>3, <2>2, <3>2 DEF PhaseFollows
  <2>4. ASSUME NEW q \in Runs, HoldersExecute(q), NEW d \in ChunksOf(q),
               sem'[q].phase[d] = "holding"
        PROVE  \E v \in Busy' : worker'[v].run = q /\ worker'[v].lo = d /\ Executing(v)'
    <3>1. CASE q = r /\ d = c
      BY <1>1, <1>3, <2>2, <2>4, <3>1 DEF Executing
    <3>2. CASE ~(q = r /\ d = c)
      <4>1. sem[q].phase[d] = "holding"
        BY <2>2, <2>4, <3>2
      <4>2. PICK v \in Busy : worker[v].run = q /\ worker[v].lo = d /\ Executing(v)
        BY <2>4, <4>1 DEF HoldersExecute
      <4>3. v # w
        BY <1>3, <4>2 DEF Executing
      <4> QED
        BY <1>1, <4>2, <4>3 DEF Executing
    <3> QED
      BY <3>1, <3>2
  <2> QED
    BY <1>1, <1>2, <2>1, <2>3, <2>4 DEF Follow, HoldersExecute
<1>4. CASE CallAcquire(w)
  <2>1. Goes(r, c, {"out"}, "entering") /\ "holding" \notin {"out"}
    BY <1>4, SemSteps
  <2>2. worker'[w].at = "acquire" /\ worker[w].at \notin {"start", "rows", "release"}
    BY <1>4, StepsTo DEF CallAcquire
  <2> QED
    BY <1>3, <2>1, <2>2
<1>5. CASE TakePermit(w)
  <2>1. Goes(r, c, {"entering"}, "holding") /\ "holding" \notin {"entering"}
    BY <1>5, SemSteps
  <2>2. worker'[w].at = "start" /\ worker[w].at \notin {"start", "rows", "release"}
    BY <1>5, StepsTo DEF TakePermit
  <2> QED
    BY <1>3, <2>1, <2>2
<1>6. CASE StartWaiting(w)
  <2>1. Goes(r, c, {"entering"}, "waiting") /\ "holding" \notin {"entering"}
    BY <1>6, SemSteps
  <2>2. worker'[w].at = "acquire" /\ worker[w].at \notin {"start", "rows", "release"}
    BY <1>6, StepsTo DEF StartWaiting
  <2> QED
    BY <1>3, <2>1, <2>2
<1>7. CASE SpuriousWakeup(w)
  <2>1. Goes(r, c, {"waiting"}, "entering") /\ "holding" \notin {"waiting"}
    BY <1>7, SemSteps
  <2>2. worker'[w].at = "acquire" /\ worker[w].at \notin {"start", "rows", "release"}
    BY <1>7, StepsTo DEF SpuriousWakeup
  <2> QED
    BY <1>3, <2>1, <2>2
<1>8. CASE StartChunk(w) \/ ProcessRow(w) \/ EndChunk(w)
  <2>1. UNCHANGED sem
    BY <1>8 DEF StartChunk, ProcessRow, EndChunk
  <2>2. Executing(w) /\ Executing(w)'
    BY <1>8, StepsTo DEF Executing
  <2>3. PhaseFollows(worker[w])'
    BY <1>1, <1>2, <2>1, <2>2 DEF PhaseFollows, Untouched, Executing
  <2>4. /\ \A t \in tasks : Untouched(t, t.lo)'
        /\ \A v \in Busy \ {w} : PhaseFollows(worker[v])'
    BY <1>1, <1>2, <2>1 DEF PhasesFollow, PhaseFollows, Untouched
  <2>5. \A v \in Busy : Executing(v) => Executing(v)'
    BY <1>1, <2>2 DEF Executing
  <2>6. \A v \in Busy : worker'[v].run = worker[v].run /\ worker'[v].lo = worker[v].lo
    BY <1>1
  <2>7. \A q \in Runs : HoldersExecute(q) => HoldersExecute(q)'
    BY <1>1, <1>2, <2>1, <2>5, <2>6 DEF HoldersExecute
  <2>8. \A q \in Runs : run[q] = "ready" =>
          \A d \in ChunksOf(q) : sem'[q].phase[d] = "out"
    BY <2>1 DEF PhasesFollow
  <2> QED
    BY <1>1, <1>2, <2>3, <2>4, <2>7, <2>8 DEF Follow
<1> QED
  BY <1>4, <1>5, <1>6, <1>7, <1>8 DEF StaysInPlace

LEMMA FollowRelease ==
  ASSUME TypeOK, OnePlace, PhasesFollow, NEW w \in Pool, ReleasePermit(w)
  PROVE  Follow' /\ \A r \in Runs : HoldersExecute(r) => HoldersExecute(r)'
<1> DEFINE r == worker[w].run
           c == worker[w].lo
<1>1. /\ w \in Busy /\ UNCHANGED <<setup, job, run, tasks>>
      /\ Goes(r, c, {"holding"}, "out") /\ Busy \subseteq Pool
  BY Released, SemSteps DEF Busy
<1>2. /\ r \in Runs /\ c \in ChunksOf(r) /\ \A q : ChunksOf(q)' = ChunksOf(q)
      /\ worker[w].hi \in Nat /\ c \in Nat /\ c < worker[w].hi
      /\ worker[w].hi <= ChunkCount(r) /\ ChunkCount(r) \in Nat
  BY <1>1, AtChunk, Fixed, WorkerFacts, ChunkCountIsNat
<1>3. /\ \A v \in Pool \ {w} : worker'[v] = worker[v]
      /\ \A v \in Busy' \ {w} : v \in Busy
      /\ \A v \in Busy \ {w} : v \in Busy'
      /\ w \in Busy' => /\ worker'[w].at = "fold" /\ worker'[w].run = r
                        /\ worker'[w].lo = c + 1 /\ worker'[w].hi = worker[w].hi
                        /\ c + 1 # worker[w].hi
  BY ReleasedThread DEF Busy
<1>4. /\ \A t \in tasks : Untouched(t, t.lo)'
      /\ \A v \in Busy \ {w} : PhaseFollows(worker[v])'
      /\ \A d \in ChunksOf(r) : c < d /\ d < worker[w].hi => sem'[r].phase[d] = "out"
      /\ \A q \in Runs : run[q] = "ready" =>
           \A d \in ChunksOf(q) : sem'[q].phase[d] = "out"
  BY <1>1, <1>3, OthersFollow
<1> HIDE DEF r, c
<1>5. w \in Busy' => PhaseFollows(worker[w])'
  <2> SUFFICES ASSUME w \in Busy' PROVE PhaseFollows(worker[w])'
    OBVIOUS
  <2>1. c + 1 \in ChunksOf(r) /\ c < c + 1 /\ c + 1 < worker[w].hi
    BY <1>2, <1>3 DEF ChunksOf
  <2>2. \A d \in ChunksOf(r) : (c + 1) + 1 <= d => c < d
    BY <1>2 DEF ChunksOf
  <2>3. sem'[r].phase[c + 1] = "out"
    BY <1>4, <2>1
  <2>4. Untouched(worker[w], worker[w].lo + 1)'
    BY <1>2, <1>3, <1>4, <2>2 DEF Untouched
  <2> QED
    BY <1>3, <2>3, <2>4 DEF PhaseFollows
<1>6. ASSUME NEW q \in Runs, HoldersExecute(q), NEW d \in ChunksOf(q),
             sem'[q].phase[d] = "holding"
      PROVE  \E v \in Busy' : worker'[v].run = q /\ worker'[v].lo = d /\ Executing(v)'
  <2>1. ~(q = r /\ d = c) /\ sem[q].phase[d] = "holding"
    BY <1>1, <1>6 DEF Goes
  <2>2. PICK v \in Busy : worker[v].run = q /\ worker[v].lo = d /\ Executing(v)
    BY <1>6, <2>1 DEF HoldersExecute
  <2>3. v # w
    BY <2>1, <2>2 DEF r, c
  <2> QED
    BY <1>1, <1>3, <2>2, <2>3 DEF Executing
<1> QED
  BY <1>1, <1>2, <1>3, <1>4, <1>5, <1>6 DEF Follow, HoldersExecute

\* Jobs taken, split and dropped keep their chunks out of the semaphore.
LEMMA FollowTake ==
  ASSUME TypeOK, OnePlace, PhasesFollow, NEW w \in Pool, TakeJob(w)
  PROVE  Follow' /\ \A r \in Runs : HoldersExecute(r) => HoldersExecute(r)'
<1>1. PICK t \in tasks :
        /\ worker' = [worker EXCEPT ![w] = Doing("job", t.run, t.lo, t.hi, 0, <<>>)]
        /\ tasks' = tasks \ {t}
  BY DEF TakeJob
<1> DEFINE x == Doing("job", t.run, t.lo, t.hi, 0, <<>>)
<1>2. UNCHANGED <<setup, job, run, sem>> /\ w \notin Busy /\ Busy \subseteq Pool
  BY <1>1 DEF TakeJob, Busy
<1>3. x # Idle /\ x.at = "job" /\ x.run = t.run /\ x.lo = t.lo /\ x.hi = t.hi
  BY DEF Doing, Idle
<1> HIDE DEF x
<1>4. /\ worker'[w] = x /\ \A v \in Busy : worker'[v] = worker[v]
      /\ Busy' = Busy \cup {w}
  BY <1>1, <1>2, <1>3, Moved DEF x
<1>5. /\ \A q : ChunksOf(q)' = ChunksOf(q)
      /\ t.lo \in Nat /\ t.lo < t.hi /\ t.lo \in ChunksOf(t.run) /\ Untouched(t, t.lo)
      /\ ChunksOf(t.run) \subseteq Int
  <2>1. t.run \in Runs /\ t.lo \in Nat /\ t.hi \in Nat /\ InBounds(t)
    BY DEF TypeOK, OnePlace
  <2>2. t.lo \in ChunksOf(t.run)
    BY <2>1, ChunkCountIsNat DEF InBounds, ChunksOf
  <2> QED
    BY <1>2, <2>1, <2>2, Fixed DEF InBounds, PhasesFollow, ChunksOf
<1>6. PhaseFollows(worker[w])'
  BY <1>2, <1>3, <1>4, <1>5 DEF PhaseFollows, Untouched
<1>7. \A v \in Busy : PhaseFollows(worker[v])'
  BY <1>2, <1>4, <1>5 DEF PhasesFollow, PhaseFollows, Untouched
<1>8. \A u \in tasks' : Untouched(u, u.lo)'
  BY <1>1, <1>2, <1>5 DEF PhasesFollow, Untouched
<1> QED
  BY <1>2, <1>4, <1>5, <1>6, <1>7, <1>8
     DEF Follow, PhasesFollow, HoldersExecute, Executing

LEMMA FollowSplit ==
  ASSUME TypeOK, OnePlace, PhasesFollow, NEW w \in Pool, SplitJob(w)
  PROVE  Follow' /\ \A r \in Runs : HoldersExecute(r) => HoldersExecute(r)'
<1>1. PICK mid \in Nat :
        LET new == Task(worker[w].run, mid, worker[w].hi)
        IN  /\ w \in Busy /\ Busy' = Busy
            /\ worker[w].lo < mid /\ mid < worker[w].hi
            /\ UNCHANGED <<setup, job, run, sem>>
            /\ worker'[w].run = worker[w].run /\ worker'[w].lo = worker[w].lo
            /\ worker'[w].hi = mid /\ worker'[w].at = "job" /\ worker[w].at = "job"
            /\ \A v \in Pool \ {w} : worker'[v] = worker[v]
            /\ tasks' = tasks \cup {new}
            /\ new.run = worker[w].run /\ new.lo = mid /\ new.hi = worker[w].hi
  BY SplitInTwo
<1>2. PICK new : /\ new.run = worker[w].run /\ new.lo = mid /\ new.hi = worker[w].hi
                 /\ tasks' = tasks \cup {new}
  BY <1>1
<1>3. /\ \A q : ChunksOf(q)' = ChunksOf(q) /\ ChunksOf(q) \subseteq Int
      /\ worker[w].lo \in Nat /\ worker[w].hi \in Nat /\ PhaseFollows(worker[w])
  BY <1>1, Fixed, WorkerFacts DEF PhasesFollow, ChunksOf
<1>4. \A v \in Busy \ {w} : worker'[v] = worker[v]
  BY <1>1 DEF Busy
<1>5. Untouched(new, new.lo)'
  BY <1>1, <1>2, <1>3 DEF PhaseFollows, Untouched
<1>6. PhaseFollows(worker[w])'
  BY <1>1, <1>3 DEF PhaseFollows, Untouched
<1>7. \A v \in Busy \ {w} : PhaseFollows(worker[v])'
  BY <1>1, <1>3, <1>4 DEF PhasesFollow, PhaseFollows, Untouched
<1>8. \A u \in tasks' : Untouched(u, u.lo)'
  BY <1>1, <1>2, <1>3, <1>5 DEF PhasesFollow, Untouched
<1>9. \A v \in Busy : Executing(v) => v # w
  BY <1>1 DEF Executing
<1> QED
  BY <1>1, <1>3, <1>4, <1>6, <1>7, <1>8, <1>9
     DEF Follow, PhasesFollow, HoldersExecute, Executing

LEMMA FollowPanic ==
  ASSUME TypeOK, PhasesFollow, NEW w \in Pool, OverflowPanic(w) \/ RowPanics(w)
  PROVE  Follow' /\ \A r \in Runs \ failed' : HoldersExecute(r) => HoldersExecute(r)'
<1>1. /\ UNCHANGED <<setup, job, run, sem, tasks>>
      /\ failed' = failed \cup {worker[w].run}
      /\ \A v \in Busy' : worker'[v] = worker[v] /\ v \in Busy /\ v # w
      /\ Busy' = Busy \ {w}
  BY Panicked
<1>2. \A q : ChunksOf(q)' = ChunksOf(q)
  BY <1>1, Fixed
<1>3. Follow'
  BY <1>1, <1>2 DEF Follow, PhasesFollow, PhaseFollows, Untouched
<1>4. ASSUME NEW q \in Runs \ failed', HoldersExecute(q), NEW d \in ChunksOf(q),
             sem[q].phase[d] = "holding"
      PROVE  \E v \in Busy' : worker'[v].run = q /\ worker'[v].lo = d /\ Executing(v)'
  <2>1. PICK v \in Busy : worker[v].run = q /\ worker[v].lo = d /\ Executing(v)
    BY <1>4 DEF HoldersExecute
  <2>2. v # w /\ v \in Busy'
    BY <1>1, <2>1
  <2> QED
    BY <1>1, <2>1, <2>2 DEF Executing
<1> QED
  BY <1>1, <1>2, <1>3, <1>4 DEF HoldersExecute

LEMMA FollowCall ==
  ASSUME TypeOK, OnePlace, PhasesFollow, NEW r \in Runs, BeginRun(r) \/ EndStep(r)
  PROVE  Follow' /\ \A q \in Runs : HoldersExecute(q) => HoldersExecute(q)'
<1>1. /\ UNCHANGED <<setup, job, sem, worker>>
      /\ \E x \in {"running", "done", "panicked"} : run' = [run EXCEPT ![r] = x]
  BY DEF BeginRun, EndStep, FinishRun, ResumePanic, FinishReduce, EndMetrics, Joined
<1>2. Busy' = Busy /\ \A q : ChunksOf(q)' = ChunksOf(q)
  BY <1>1, Fixed DEF Busy
<1>3. run'[r] # "ready" /\ \A q \in Runs \ {r} : run'[q] = run[q]
  BY <1>1 DEF TypeOK
<1>4. \A t \in tasks' : Untouched(t, t.lo)'
  <2>1. CASE UNCHANGED tasks
    BY <1>1, <1>2, <2>1 DEF PhasesFollow, Untouched
  <2>2. CASE BeginRun(r)
    <3>1. PICK new : /\ tasks' \subseteq tasks \cup {new} /\ run[r] = "ready"
                     /\ new.run = r /\ new.lo = 0
      <4> DEFINE t == Task(r, 0, ChunkCount(r))
      <4>1. tasks' \subseteq tasks \cup {t} /\ run[r] = "ready"
        BY <2>2 DEF BeginRun
      <4>2. t.run = r /\ t.lo = 0
        BY DEF Task
      <4> HIDE DEF t
      <4> QED
        BY <4>1, <4>2
    <3>2. Untouched(new, new.lo)'
      BY <1>1, <1>2, <3>1 DEF PhasesFollow, Untouched
    <3> QED
      BY <1>1, <1>2, <3>1, <3>2 DEF PhasesFollow, Untouched
  <2> QED
    BY <2>1, <2>2 DEF EndStep, FinishRun, ResumePanic, FinishReduce
<1> QED
  BY <1>1, <1>2, <1>3, <1>4
     DEF Follow, PhasesFollow, PhaseFollows, Untouched, HoldersExecute, Executing

LEMMA PhasesFollowStep ==
  TypeOK /\ OnePlace /\ PhasesFollow /\ [Next]_vars /\ TypeOK' => PhasesFollow'
<1> SUFFICES ASSUME TypeOK, OnePlace, PhasesFollow, [Next]_vars, TypeOK'
             PROVE  PhasesFollow'
  OBVIOUS
<1>1. CASE UNCHANGED vars
  BY <1>1 DEF vars, PhasesFollow, Untouched, PhaseFollows, Busy, Pool, InFlight,
              WorkersOn, Executing, ChunksOf, ChunkCount
<1>2. ASSUME Follow', \A r \in Runs \ failed' : HoldersExecute(r) => HoldersExecute(r)',
             failed \subseteq failed'
      PROVE  PhasesFollow'
  <2>1. \A r \in Runs \ failed' : HoldersExecute(r)'
    BY <1>2, HoldersAre DEF PhasesFollow
  <2>2. \A r \in Runs \ failed' : (InPhase(sem[r], "holding") \subseteq InFlight(r))'
    BY <2>1, HoldersAreNow
  <2> QED
    BY <1>2, <2>2 DEF Follow, PhasesFollow
<1>3. ASSUME NEW r \in Runs, BeginRun(r) \/ EndStep(r) PROVE PhasesFollow'
  <2>1. UNCHANGED failed
    BY <1>3 DEF BeginRun, EndStep, FinishRun, ResumePanic, FinishReduce
  <2> QED
    BY <1>2, <1>3, <2>1, FollowCall
<1>4. ASSUME NEW w \in Pool, StaysInPlace(w) PROVE PhasesFollow'
  BY <1>2, <1>4, FollowStays, Stays
<1>5. ASSUME NEW w \in Pool, OverflowPanic(w) \/ RowPanics(w) PROVE PhasesFollow'
  BY <1>2, <1>5, FollowPanic, Panicked
<1>6. ASSUME NEW w \in Pool, ReleasePermit(w) PROVE PhasesFollow'
  BY <1>2, <1>6, FollowRelease, Released
<1>7. ASSUME NEW w \in Pool, TakeJob(w) \/ SplitJob(w) PROVE PhasesFollow'
  <2>1. UNCHANGED failed
    BY <1>7 DEF TakeJob, SplitJob
  <2> QED
    BY <1>2, <1>7, <2>1, FollowTake, FollowSplit
<1> QED
  BY <1>1, <1>3, <1>4, <1>5, <1>6, <1>7 DEF Next, WorkerStep, ChunkStep, StaysInPlace
-----------------------------------------------------------------------------
(* Permits                                                                 *)

\* The chunks of a run are finitely many.
LEMMA FiniteHolders ==
  ASSUME TypeOK, NEW r \in Runs
  PROVE  /\ InPhase(sem[r], "holding") \subseteq ChunksOf(r)
         /\ IsFiniteSet(ChunksOf(r)) /\ Cardinality(ChunksOf(r)) = ChunkCount(r)
         /\ IsFiniteSet(InPhase(sem[r], "holding"))
         /\ Cardinality(InPhase(sem[r], "holding")) \in Nat
<1>1. InPhase(sem[r], "holding") \subseteq ChunksOf(r)
  BY DEF TypeOK, SemaphoreOf, InPhase
<1>2. IsFiniteSet(ChunksOf(r)) /\ Cardinality(ChunksOf(r)) = ChunkCount(r)
  <2>1. 0 \in Int /\ ChunkCount(r) \in Nat /\ ChunkCount(r) - 1 \in Int
    BY ChunkCountIsNat
  <2>2. /\ IsFiniteSet(0..(ChunkCount(r) - 1))
        /\ Cardinality(0..(ChunkCount(r) - 1))
             = IF 0 > ChunkCount(r) - 1 THEN 0 ELSE (ChunkCount(r) - 1) - 0 + 1
    BY <2>1, FS_Interval
  <2> QED
    BY <2>1, <2>2 DEF ChunksOf
<1> QED
  BY <1>1, <1>2, FS_Subset, FS_CardinalityType

LEMMA ConservedStep ==
  TypeOK /\ OnePlace /\ PhasesFollow /\ Conserved /\ [Next]_vars => Conserved'
<1> SUFFICES ASSUME TypeOK, OnePlace, PhasesFollow, Conserved, [Next]_vars
             PROVE  Conserved'
  OBVIOUS
<1> DEFINE Holding(r) == InPhase(sem[r], "holding")
<1>1. CASE UNCHANGED <<setup, sem>>
  BY <1>1 DEF Conserved, InPhase
<1>2. ASSUME NEW w \in Busy, NEW from, NEW to,
             Goes(worker[w].run, worker[w].lo, from, to), UNCHANGED setup,
             \/ /\ "holding" \notin from /\ to # "holding"
                /\ sem'[worker[w].run].permits = sem[worker[w].run].permits
             \/ /\ "holding" \notin from /\ to = "holding"
                /\ sem'[worker[w].run].permits = sem[worker[w].run].permits - 1
             \/ /\ from = {"holding"} /\ to # "holding"
                /\ sem'[worker[w].run].permits = sem[worker[w].run].permits + 1
      PROVE  Conserved'
  <2> DEFINE r == worker[w].run
             c == worker[w].lo
  <2>1. /\ r \in Runs /\ c \in ChunksOf(r) /\ sem[r].permits \in Nat
        /\ DOMAIN sem[r].phase = ChunksOf(r)
    BY AtChunk, WorkerFacts DEF TypeOK, SemaphoreOf
  <2>2. /\ \A q \in Runs \ {r} : sem'[q] = sem[q]
        /\ DOMAIN sem'[r].phase = ChunksOf(r)
        /\ sem[r].phase[c] \in from /\ sem'[r].phase[c] = to
        /\ \A d \in ChunksOf(r) \ {c} :
             sem'[r].phase[d] = "holding" <=> sem[r].phase[d] = "holding"
    BY <1>2 DEF Goes
  <2>3. IsFiniteSet(Holding(r)) /\ Cardinality(Holding(r)) \in Nat
    BY <2>1, FiniteHolders
  <2>4. sem[r].permits + Cardinality(Holding(r)) = setup.max_in_flight_chunks
    BY <2>1 DEF Conserved
  <2>5. sem'[r].permits + Cardinality(InPhase(sem'[r], "holding"))
          = setup.max_in_flight_chunks
    <3> HIDE DEF r, c
    <3>1. CASE /\ "holding" \notin from /\ to # "holding"
               /\ sem'[r].permits = sem[r].permits
      <4>1. InPhase(sem'[r], "holding") = Holding(r)
        BY <2>1, <2>2, <3>1 DEF InPhase
      <4> QED
        BY <2>4, <3>1, <4>1
    <3>2. CASE /\ "holding" \notin from /\ to = "holding"
               /\ sem'[r].permits = sem[r].permits - 1
      <4>1. InPhase(sem'[r], "holding") = Holding(r) \cup {c} /\ c \notin Holding(r)
        BY <2>1, <2>2, <3>2 DEF InPhase
      <4>2. Cardinality(InPhase(sem'[r], "holding")) = Cardinality(Holding(r)) + 1
        BY <2>3, <4>1, FS_AddElement
      <4> QED
        BY <2>1, <2>3, <2>4, <3>2, <4>2
    <3>3. CASE /\ from = {"holding"} /\ to # "holding"
               /\ sem'[r].permits = sem[r].permits + 1
      <4>1. InPhase(sem'[r], "holding") = Holding(r) \ {c} /\ c \in Holding(r)
        BY <2>1, <2>2, <3>3 DEF InPhase
      <4>2. Cardinality(InPhase(sem'[r], "holding")) = Cardinality(Holding(r)) - 1
        BY <2>3, <4>1, FS_RemoveElement
      <4> QED
        BY <2>1, <2>3, <2>4, <3>3, <4>2
    <3> QED
      BY <1>2, <3>1, <3>2, <3>3 DEF r
  <2> QED
    BY <1>2, <2>2, <2>5 DEF Conserved
<1>3. ASSUME NEW w \in Pool, CallAcquire(w) \/ TakePermit(w) \/ StartWaiting(w)
                               \/ SpuriousWakeup(w)
      PROVE  Conserved'
  <2>1. w \in Busy /\ UNCHANGED setup
    BY <1>3, Stays DEF StaysInPlace
  <2>2. CASE CallAcquire(w)
    <3>1. "holding" \notin {"out"}
      OBVIOUS
    <3> QED
      BY <1>2, <2>1, <2>2, <3>1, SemSteps
  <2>3. CASE TakePermit(w)
    <3>1. "holding" \notin {"entering"}
      OBVIOUS
    <3> QED
      BY <1>2, <2>1, <2>3, <3>1, SemSteps
  <2>4. CASE StartWaiting(w)
    <3>1. "holding" \notin {"entering"}
      OBVIOUS
    <3> QED
      BY <1>2, <2>1, <2>4, <3>1, SemSteps
  <2>5. CASE SpuriousWakeup(w)
    <3>1. "holding" \notin {"waiting"}
      OBVIOUS
    <3> QED
      BY <1>2, <2>1, <2>5, <3>1, SemSteps
  <2> QED
    BY <1>3, <2>2, <2>3, <2>4, <2>5
<1>4. ASSUME NEW w \in Pool, ReleasePermit(w) PROVE Conserved'
  BY <1>2, <1>4, Released, SemSteps
<1>5. ASSUME NEW r \in Runs, BeginRun(r) \/ EndStep(r) PROVE UNCHANGED <<setup, sem>>
  BY <1>5 DEF BeginRun, EndStep, FinishRun, ResumePanic, FinishReduce
<1>6. ASSUME NEW w \in Pool, TakeJob(w) \/ SplitJob(w) \/ StartChunk(w) \/ ProcessRow(w)
                               \/ EndChunk(w) \/ OverflowPanic(w) \/ RowPanics(w)
      PROVE  UNCHANGED <<setup, sem>>
  BY <1>6 DEF TakeJob, SplitJob, StartChunk, ProcessRow, EndChunk, OverflowPanic,
              RowPanics, Unwind
<1> QED
  BY <1>1, <1>3, <1>4, <1>5, <1>6 DEF Next, WorkerStep, ChunkStep, vars

\* What the two parts say of the permits together.
LEMMA PermitsFollow ==
  TypeOK /\ OnePlace /\ PhasesFollow /\ Conserved => PermitsAccountedFor
<1> SUFFICES ASSUME TypeOK, OnePlace, PhasesFollow, Conserved, NEW r \in Runs
             PROVE  /\ sem[r].permits + Cardinality(InFlight(r)) + Cardinality(Leaked(r))
                         = setup.max_in_flight_chunks
                    /\ Leaked(r) # {} => r \in failed
  BY DEF PermitsAccountedFor
<1> DEFINE Holding == InPhase(sem[r], "holding")
<1>1. IsFiniteSet(Holding) /\ Cardinality(Holding) \in Nat /\ sem[r].permits \in Nat
  BY FiniteHolders DEF TypeOK, SemaphoreOf
<1>2. InFlight(r) \subseteq Holding
  <2> SUFFICES ASSUME NEW w \in Busy, worker[w].run = r, Executing(w)
               PROVE  worker[w].lo \in Holding
    BY DEF InFlight, WorkersOn
  <2>1. worker[w].lo \in ChunksOf(r) /\ sem[r].phase[worker[w].lo] = "holding"
    BY AtChunk DEF PhasesFollow, PhaseFollows, Executing
  <2> QED
    BY <2>1 DEF InPhase, TypeOK, SemaphoreOf
<1>3. Leaked(r) = Holding \ InFlight(r)
  BY DEF Leaked
<1> HIDE DEF Holding
<1>4. Holding \cap InFlight(r) = InFlight(r)
  BY <1>2
<1>5. /\ Cardinality(Leaked(r)) = Cardinality(Holding) - Cardinality(InFlight(r))
      /\ Cardinality(InFlight(r)) \in Nat
  BY <1>1, <1>2, <1>3, <1>4, FS_Difference, FS_Subset, FS_CardinalityType
<1>6. sem[r].permits + Cardinality(Holding) = setup.max_in_flight_chunks
  BY DEF Conserved, Holding
<1>7. Leaked(r) # {} => r \in failed
  BY <1>3 DEF PhasesFollow, Holding
<1> QED
  BY <1>1, <1>5, <1>6, <1>7

-----------------------------------------------------------------------------
(* What a sequential loop keeps                                            *)

LEMMA KeptFacts ==
  ASSUME NEW j \in Call
  PROVE  /\ \A n \in 0..j.rows : KeptUpTo(j, n) \in Seq(Nat)
         /\ KeptUpTo(j, 0) = <<>>
         /\ \A n \in 1..j.rows :
              KeptUpTo(j, n) = IF n - 1 \in j.kept THEN Append(KeptUpTo(j, n - 1), n - 1)
                               ELSE KeptUpTo(j, n - 1)
<1> DEFINE next(kept, i) ==
             IF i = 0 THEN <<>>
             ELSE IF i - 1 \in j.kept THEN Append(kept[i - 1], i - 1) ELSE kept[i - 1]
           IsKept(f) == f = [i \in 0..j.rows |-> next(f, i)]
           K == CHOOSE f : IsKept(f)
           step == [i \in 1..j.rows |-> [k \in Seq(Nat) |->
                      IF i - 1 \in j.kept THEN Append(k, i - 1) ELSE k]]
<1>1. j.rows \in Nat
  BY DEF Call
<1>2. step \in [1..j.rows -> [Seq(Nat) -> Seq(Nat)]]
  <2>1. \A i \in 1..j.rows : i - 1 \in Nat
    BY <1>1
  <2> QED
    BY <2>1
<1>3. PICK g : g \in Recursive(j.rows, Seq(Nat), <<>>, step)
  <2>1. <<>> \in Seq(Nat)
    OBVIOUS
  <2> HIDE DEF step
  <2> QED
    BY <1>1, <1>2, <2>1, Recursion
<1>4. /\ g \in [0..j.rows -> Seq(Nat)]
       /\ g[0] = <<>> /\ \A i \in 1..j.rows : g[i] = step[i][g[i - 1]]
  BY <1>3 DEF Recursive
<1>5. \A i \in 0..j.rows : g[i] = next(g, i)
  <2> SUFFICES ASSUME NEW i \in 0..j.rows, i # 0 PROVE g[i] = next(g, i)
    BY <1>4
  <2>1. i \in 1..j.rows /\ i - 1 \in 0..j.rows /\ g[i - 1] \in Seq(Nat)
    BY <1>1, <1>4
  <2>2. step[i][g[i - 1]] = IF i - 1 \in j.kept THEN Append(g[i - 1], i - 1)
                            ELSE g[i - 1]
    BY <2>1
  <2> QED
    BY <1>4, <2>1, <2>2
<1>6. IsKept(g)
  <2> HIDE DEF next
  <2> QED
    BY <1>4, <1>5
<1>7. IsKept(K)
  <2> HIDE DEF IsKept
  <2> QED
    BY <1>6
<1>8. \A n : KeptUpTo(j, n) = K[n]
  BY DEF KeptUpTo
<1>9. \A n \in 0..j.rows : K[n] = next(K, n)
  <2> HIDE DEF K, next
  <2> QED
    BY <1>7
<1> HIDE DEF K
<1>10. 0..j.rows \subseteq {n \in 0..j.rows : K[n] \in Seq(Nat)}
  <2> DEFINE S == {n \in 0..j.rows : K[n] \in Seq(Nat)}
  <2>1. 0 \in S
    <3>1. K[0] = <<>> /\ 0 \in 0..j.rows
      BY <1>1, <1>9
    <3>2. <<>> \in Seq(Nat)
      OBVIOUS
    <3> QED
      BY <3>1, <3>2
  <2>2. ASSUME NEW i \in 1..j.rows, i - 1 \in S PROVE i \in S
    <3>1. i \in 0..j.rows /\ i # 0 /\ i - 1 \in Nat /\ K[i - 1] \in Seq(Nat)
      BY <1>1, <2>2
    <3>2. Append(K[i - 1], i - 1) \in Seq(Nat)
      BY <3>1
    <3> QED
      BY <1>9, <3>1, <3>2
  <2> HIDE DEF S
  <2>3. 0..j.rows \subseteq S
    BY <1>1, <2>1, <2>2, IntervalInduction
  <2> QED
    BY <2>3 DEF S
<1>11. K[0] = <<>>
  BY <1>1, <1>9
<1>12. \A n \in 1..j.rows : K[n] = IF n - 1 \in j.kept THEN Append(K[n - 1], n - 1)
                                   ELSE K[n - 1]
  BY <1>1, <1>9
<1> QED
  BY <1>8, <1>10, <1>11, <1>12

-----------------------------------------------------------------------------
(* The chunks of a dataset lie one after the other                         *)

LEMMA Multiples ==
  ASSUME NEW k \in Nat, NEW s \in Nat \ {0}
  PROVE  /\ k * s \in Nat /\ (k + 1) * s = k * s + s
         /\ \A d \in Nat : k < d => k * s + s <= d * s
<1>1. (k + 1) * s = k * s + s /\ k * s \in Nat
  BY SMT
<1>2. ASSUME NEW d \in Nat, k < d PROVE k * s + s <= d * s
  <2>1. (d - k - 1) * s >= 0
    BY <1>2, SMT
  <2>2. (d - k - 1) * s = d * s - k * s - s
    BY SMT
  <2> QED
    BY <1>1, <2>1, <2>2, SMT
<1> QED
  BY <1>1, <1>2

LEMMA ChunkBounds ==
  ASSUME NEW n \in Nat, NEW s \in Nat \ {0}
  PROVE  LET d == DivCeil(n, s)
         IN  /\ d \in Nat /\ n <= d * s /\ \A c \in Nat : c < d => c * s < n
             /\ d = 0 <=> n = 0
<1> DEFINE d == (n + s - 1) \div s
<1>1. d \in Nat
  BY DivCeilIsNat DEF DivCeil
<1>2. d * s <= n + s - 1 /\ n + s - 1 < d * s + s
  BY SMT
<1>3. d * s \in Nat
  BY <1>1, Multiples
<1> HIDE DEF d
<1>4. n <= d * s
  BY <1>2, <1>3
<1>5. ASSUME NEW c \in Nat, c < d PROVE c * s < n
  <2>1. c * s \in Nat /\ c * s + s <= d * s
    BY <1>1, <1>5, Multiples
  <2> QED
    BY <1>2, <1>3, <2>1
<1>6. d = 0 <=> n = 0
  <2>1. d = 0 => d * s = 0
    BY SMT
  <2>2. d # 0 => 0 < n
    <3>1. 0 * s = 0
      BY SMT
    <3> QED
      BY <1>1, <1>5, <3>1
  <2> QED
    BY <1>4, <2>1, <2>2
<1> QED
  BY <1>1, <1>4, <1>5, <1>6 DEF DivCeil, d

LEMMA ChunkFacts ==
  ASSUME NEW n \in Nat, NEW s \in Nat \ {0}, NEW c \in 0..(DivCeil(n, s) - 1)
  PROVE  LET range == ChunkRange(n, s, c)
         IN  /\ range.start \in Nat /\ range.end \in Nat
             /\ range.start < range.end /\ range.end <= n
             /\ c = 0 => range.start = 0
             /\ c > 0 => ChunkRange(n, s, c - 1).end = range.start
             /\ c = DivCeil(n, s) - 1 => range.end = n
             /\ range.start = c * s
             /\ \A b \in 0..(DivCeil(n, s) - 1) :
                  b < c => ChunkRange(n, s, b).end <= range.start
<1> DEFINE d == DivCeil(n, s)
<1>1. /\ d \in Nat /\ n <= d * s /\ \A b \in Nat : b < d => b * s < n
  BY ChunkBounds
<1>2. c \in Nat /\ c < d
  BY <1>1
<1>3. c * s \in Nat /\ (c + 1) * s = c * s + s /\ c * s < n
  BY <1>1, <1>2, Multiples
<1>4. \A i : ChunkRange(n, s, i).start = i * s
             /\ ChunkRange(n, s, i).end = Least((i + 1) * s, n)
  BY DEF ChunkRange
<1> HIDE DEF d
<1>5. c = 0 => c * s = 0
  BY SMT
<1>6. \A b \in Nat : b < c => Least((b + 1) * s, n) <= c * s
  <2> SUFFICES ASSUME NEW b \in Nat, b < c PROVE Least((b + 1) * s, n) <= c * s
    OBVIOUS
  <2>1. (b + 1) * s = b * s + s /\ b * s \in Nat /\ b * s + s <= c * s
    BY <1>2, Multiples
  <2> QED
    BY <1>3, <2>1 DEF Least
<1>7. c > 0 => Least(((c - 1) + 1) * s, n) = c * s
  <2>1. (c - 1) + 1 = c
    BY <1>2
  <2> QED
    BY <1>3, <2>1 DEF Least
<1>8. c = d - 1 => Least((c + 1) * s, n) = n
  <2>1. c = d - 1 => c + 1 = d
    BY <1>1, <1>2
  <2> QED
    BY <1>1, <1>3, <2>1 DEF Least
<1>9. /\ Least((c + 1) * s, n) \in Nat /\ c * s < Least((c + 1) * s, n)
      /\ Least((c + 1) * s, n) <= n
  BY <1>3 DEF Least
<1>10. \A b \in 0..(d - 1) : b \in Nat
  BY <1>1
<1> QED
  BY <1>3, <1>4, <1>5, <1>6, <1>7, <1>8, <1>9, <1>10 DEF d

\* The rows of a chunk of a call.
LEMMA RowsFacts ==
  ASSUME TypeOK, NEW r \in Runs, NEW c \in ChunksOf(r)
  PROVE  /\ RowsOf(r, c).start \in Nat /\ RowsOf(r, c).end \in Nat
         /\ RowsOf(r, c).start < RowsOf(r, c).end /\ RowsOf(r, c).end <= job[r].rows
         /\ c = 0 => RowsOf(r, c).start = 0
         /\ c > 0 => RowsOf(r, c - 1).end = RowsOf(r, c).start
         /\ c = ChunkCount(r) - 1 => RowsOf(r, c).end = job[r].rows
         /\ \A b \in ChunksOf(r) : b < c => RowsOf(r, b).end <= RowsOf(r, c).start
         /\ job[r].kind = "parallel" /\ job[r].rows \in Nat
<1> DEFINE n == job[r].rows
           s == setup.chunk_size
<1>1. n \in Nat /\ s \in Nat \ {0}
  BY SetupFacts DEF Call
<1>2. job[r].kind = "parallel" /\ ChunkCount(r) = DivCeil(n, s)
  BY DEF ChunksOf, ChunkCount
<1>3. ChunksOf(r) = 0..(DivCeil(n, s) - 1)
  BY <1>2 DEF ChunksOf
<1>4. \A b : RowsOf(r, b) = ChunkRange(n, s, b)
  BY DEF RowsOf
<1> HIDE DEF n, s
<1>5. LET range == ChunkRange(n, s, c)
      IN  /\ range.start \in Nat /\ range.end \in Nat
          /\ range.start < range.end /\ range.end <= n
          /\ c = 0 => range.start = 0
          /\ c > 0 => ChunkRange(n, s, c - 1).end = range.start
          /\ c = DivCeil(n, s) - 1 => range.end = n
          /\ \A b \in 0..(DivCeil(n, s) - 1) :
               b < c => ChunkRange(n, s, b).end <= range.start
  BY <1>1, <1>3, ChunkFacts
<1> QED
  BY <1>1, <1>2, <1>3, <1>4, <1>5 DEF n

-----------------------------------------------------------------------------
(* Outputs                                                                 *)

\* per_chunk, put together, is what a sequential loop returns.
LEMMA FlattenedIsSequential ==
  ASSUME TypeOK, PartsAreSequential, NEW r \in Runs, job[r].kind = "parallel",
         ChunksOf(r) \subseteq DOMAIN results[r]
  PROVE  Flattened(r) = Sequential(r) /\ Sequential(r) \in Seq(Nat)
<1> DEFINE n == ChunkCount(r)
           s == [i \in 1..n |-> results[r][i - 1]]
           g == [i \in 0..n |-> IF i = 0 THEN <<>>
                                ELSE KeptUpTo(job[r], RowsOf(r, i - 1).end)]
<1>1. n \in Nat /\ job[r] \in Call /\ job[r].rows \in Nat
  BY ChunkCountIsNat, SetupFacts DEF Call
<1>2. \A i \in 1..n : i - 1 \in ChunksOf(r) /\ i - 1 \in DOMAIN results[r]
  BY <1>1 DEF ChunksOf
<1>3. \A i \in 1..n : results[r][i - 1] \in Seq(Nat)
  BY <1>2 DEF TypeOK
<1>4. s \in Seq(Seq(Nat)) /\ Len(s) = n /\ \A i \in 1..n : s[i] = results[r][i - 1]
  BY <1>1, <1>3
<1>5. /\ KeptUpTo(job[r], 0) = <<>>
      /\ \A k \in 0..job[r].rows : KeptUpTo(job[r], k) \in Seq(Nat)
  BY <1>1, KeptFacts
<1>6. Sequential(r) = KeptUpTo(job[r], job[r].rows) /\ Sequential(r) \in Seq(Nat)
  BY <1>1, <1>5 DEF Sequential
<1>7. Flattened(r) = FlattenSeq(s)
  BY DEF Flattened
<1>8. CASE n = 0
  <2>1. job[r].rows = 0
    <3>1. n = DivCeil(job[r].rows, setup.chunk_size)
      BY DEF ChunkCount
    <3> QED
      BY <1>1, <1>8, <3>1, SetupFacts, ChunkBounds
  <2>2. Len(s) = 0 /\ s = <<>>
    BY <1>4, <1>8
  <2>3. FlattenSeq(s) = <<>>
    BY <2>2 DEF FlattenSeq
  <2> QED
    BY <1>5, <1>6, <1>7, <2>1, <2>3
<1>9. CASE n # 0
  <2>1. \A i \in 1..n : /\ RowsOf(r, i - 1).end \in 0..job[r].rows
                        /\ RowsOf(r, i - 1).start \in 0..job[r].rows
    <3> SUFFICES ASSUME NEW i \in 1..n
                 PROVE  /\ RowsOf(r, i - 1).end \in 0..job[r].rows
                        /\ RowsOf(r, i - 1).start \in 0..job[r].rows
      OBVIOUS
    <3>1. i - 1 \in ChunksOf(r)
      BY <1>2
    <3> QED
      BY <1>1, <3>1, RowsFacts
  <2>2. g \in [0..n -> Seq(Nat)] /\ g[0] = <<>>
    BY <1>1, <1>5, <2>1
  <2>3. ASSUME NEW i \in 1..n PROVE g[i] = g[i - 1] \o s[i]
    <3>1. i - 1 \in ChunksOf(r) /\ i - 1 \in DOMAIN results[r] /\ i - 1 \in 0..n
      BY <1>1, <1>2
    <3>2. KeptUpTo(job[r], RowsOf(r, i - 1).end)
            = KeptUpTo(job[r], RowsOf(r, i - 1).start) \o results[r][i - 1]
      BY <3>1 DEF PartsAreSequential, Continues
    <3>3. g[i - 1] = KeptUpTo(job[r], RowsOf(r, i - 1).start)
      <4>1. CASE i = 1
        <5>1. RowsOf(r, i - 1).start = 0 /\ g[i - 1] = <<>>
          BY <3>1, <4>1, RowsFacts
        <5> QED
          BY <1>5, <5>1
      <4>2. CASE i # 1
        <5>1. /\ g[i - 1] = KeptUpTo(job[r], RowsOf(r, (i - 1) - 1).end)
              /\ i - 1 > 0
          BY <1>1, <3>1, <4>2
        <5>2. RowsOf(r, (i - 1) - 1).end = RowsOf(r, i - 1).start
          BY <3>1, <5>1, RowsFacts
        <5> QED
          BY <5>1, <5>2
      <4> QED
        BY <4>1, <4>2
    <3>4. g[i] = KeptUpTo(job[r], RowsOf(r, i - 1).end) /\ s[i] = results[r][i - 1]
      BY <1>1, <1>4
    <3> QED
      BY <3>2, <3>3, <3>4
  <2>4. g[n] = KeptUpTo(job[r], job[r].rows)
    <3>1. n - 1 \in ChunksOf(r) /\ g[n] = KeptUpTo(job[r], RowsOf(r, n - 1).end)
      BY <1>1, <1>9 DEF ChunksOf
    <3>2. RowsOf(r, n - 1).end = job[r].rows
      BY <3>1, RowsFacts
    <3> QED
      BY <3>1, <3>2
  <2>5. FlattenSeq(s) = g[n]
    <3>1. /\ s \in Seq(Seq(Nat)) /\ n \in Nat /\ Len(s) = n
          /\ g \in [0..n -> Seq(Nat)] /\ g[0] = <<>>
          /\ \A i \in 1..n : g[i] = g[i - 1] \o s[i]
      BY <1>1, <1>4, <2>2, <2>3
    <3> HIDE DEF s, g, n
    <3> QED
      BY <3>1, FlattenIs, Zenon
  <2> QED
    BY <1>6, <1>7, <2>4, <2>5
<1> QED
  BY <1>8, <1>9

\* A run is finished with all its chunks in per_chunk.
LEMMA AllDone ==
  ASSUME TypeOK, SomePlace, NEW r \in Runs, Joined(r), r \notin failed
  PROVE  ChunksOf(r) \subseteq DOMAIN results[r]
BY WorkerFacts DEF SomePlace, Joined, WorkersOn, Holds

LEMMA FinishedOutput ==
  ASSUME TypeOK, SomePlace, PartsAreSequential, NEW r \in Runs, FinishRun(r)
  PROVE  /\ Flattened(r) = Sequential(r) /\ Sequential(r) \in Seq(Nat)
         /\ output' = [output EXCEPT ![r] = Sequential(r)]
<1>1. /\ job[r].kind = "parallel" /\ Joined(r) /\ r \notin failed
      /\ output' = [output EXCEPT ![r] = Flattened(r)]
  BY DEF FinishRun
<1>2. ChunksOf(r) \subseteq DOMAIN results[r]
  BY <1>1, AllDone
<1>3. Flattened(r) = Sequential(r) /\ Sequential(r) \in Seq(Nat)
  BY <1>1, <1>2, FlattenedIsSequential
<1> QED
  BY <1>1, <1>3

LEMMA TypeEndStep ==
  ASSUME TypeOK, SomePlace, PartsAreSequential, NEW r \in Runs, EndStep(r)
  PROVE  TypeOK'
<1>1. UNCHANGED <<setup, job, sem, tasks, worker, results, failed>>
  BY DEF EndStep, FinishRun, ResumePanic, FinishReduce
<1>2. SemOK' /\ WorkerOK'
  BY <1>1, SemFixed, WorkerFixed
<1>3. run' \in [Runs -> {"ready", "running", "done", "panicked"}]
  BY DEF EndStep, FinishRun, ResumePanic, FinishReduce, EndMetrics, TypeOK
<1>4. metrics' \in Metrics /\ report' \in [Runs -> Metrics]
  <2>1. CASE UNCHANGED <<metrics, report>>
    BY <2>1 DEF TypeOK
  <2>2. CASE EndMetrics(r)
    <3>1. /\ metrics' = [metrics EXCEPT !.ended = TRUE]
          /\ report' = [report EXCEPT ![r] = metrics']
      BY <2>2 DEF EndMetrics
    <3>2. metrics' \in Metrics
      BY <3>1 DEF TypeOK, Metrics
    <3> QED
      BY <3>1, <3>2 DEF TypeOK
  <2> QED
    BY <2>1, <2>2 DEF EndStep, FinishRun, ResumePanic, FinishReduce
<1>5. output' \in [Runs -> Seq(Nat)]
  <2>1. CASE FinishRun(r)
    BY <2>1, FinishedOutput DEF TypeOK
  <2>2. CASE UNCHANGED output
    BY <2>2 DEF TypeOK
  <2> QED
    BY <2>1, <2>2 DEF EndStep, ResumePanic, FinishReduce
<1>6. RestOK'
  BY <1>1, <1>3, <1>4, <1>5, Fixed DEF TypeOK, RestOK
<1> QED
  BY <1>2, <1>6, TypeParts

LEMMA TypeStep ==
  TypeOK /\ OnePlace /\ SomePlace /\ PartsAreSequential /\ [Next]_vars => TypeOK'
<1> SUFFICES ASSUME TypeOK, OnePlace, SomePlace, PartsAreSequential, [Next]_vars
             PROVE  TypeOK'
  OBVIOUS
<1>1. CASE UNCHANGED vars
  <2>1. RestOK' /\ SemOK' /\ WorkerOK'
    BY <1>1, RestFixed, SemFixed, WorkerFixed DEF vars
  <2> QED
    BY <2>1, TypeParts
<1>2. ASSUME NEW r \in Runs, BeginRun(r) \/ EndStep(r) PROVE TypeOK'
  BY <1>2, TypeBeginRun, TypeEndStep
<1>3. ASSUME NEW w \in Pool, WorkerStep(w) \/ SpuriousWakeup(w) PROVE TypeOK'
  BY <1>3, TypeTakeJob, TypeSplitJob, TypeSection, TypeStartChunk, TypePanic,
     TypeProcessRow, TypeEndChunk, TypeReleasePermit DEF WorkerStep, ChunkStep
<1> QED
  BY <1>1, <1>2, <1>3 DEF Next

LEMMA AppendToConcat ==
  ASSUME NEW s \in Seq(Nat), NEW t \in Seq(Nat), NEW x \in Nat
  PROVE  Append(s \o t, x) = s \o Append(t, x)
<1>1. <<x>> \in Seq(Nat) /\ s \o t \in Seq(Nat)
  OBVIOUS
<1>2. Append(s \o t, x) = (s \o t) \o <<x>> /\ Append(t, x) = t \o <<x>>
  BY <1>1, AppendIsConcat
<1> QED
  BY <1>1, <1>2, ConcatAssociative

\* One more row of a chunk.
LEMMA OneMoreRow ==
  ASSUME TypeOK, NEW r \in Runs, NEW c \in ChunksOf(r), NEW out \in Seq(Nat),
         NEW n \in RowsOf(r, c).start..RowsOf(r, c).end, n < RowsOf(r, c).end,
         Continues(r, c, n, out)
  PROVE  Continues(r, c, n + 1, IF n \in job[r].kept THEN Append(out, n) ELSE out)
<1> DEFINE first == KeptUpTo(job[r], RowsOf(r, c).start)
<1>1. /\ job[r] \in Call /\ n \in Nat /\ n + 1 \in 1..job[r].rows
      /\ RowsOf(r, c).start \in 0..job[r].rows /\ (n + 1) - 1 = n
  BY RowsFacts, SetupFacts
<1>2. first \in Seq(Nat)
  BY <1>1, KeptFacts
<1>3. KeptUpTo(job[r], n + 1) = IF n \in job[r].kept
                                THEN Append(KeptUpTo(job[r], n), n)
                                ELSE KeptUpTo(job[r], n)
  BY <1>1, KeptFacts
<1>4. KeptUpTo(job[r], n) = first \o out
  BY DEF Continues
<1> HIDE DEF first
<1>5. Append(first \o out, n) = first \o Append(out, n)
  BY <1>1, <1>2, AppendToConcat
<1> QED
  BY <1>3, <1>4, <1>5 DEF Continues, first

\* What a thread has of its chunk.
PartOf(w) == worker[w].at \in {"rows", "release"} =>
  LET r == worker[w].run
      range == RowsOf(r, worker[w].lo)
  IN  /\ worker[w].row \in range.start..range.end
      /\ worker[w].at = "release" => worker[w].row = range.end
      /\ Continues(r, worker[w].lo, worker[w].row, worker[w].out)

LEMMA PartsAre ==
  PartsAreSequential <=>
    /\ \A w \in Busy : PartOf(w)
    /\ \A r \in Runs : \A c \in DOMAIN results[r] :
         Continues(r, c, RowsOf(r, c).end, results[r][c])
BY DEF PartsAreSequential, PartOf

LEMMA PartsAreNow ==
  /\ \A w \in Busy' : PartOf(w)'
  /\ (\A r \in Runs : \A c \in DOMAIN results[r] :
        Continues(r, c, RowsOf(r, c).end, results[r][c]))'
  => PartsAreSequential'
BY DEF PartsAreSequential, PartOf

\* Neither what a call was given nor where its chunks lie changes.
LEMMA ContinuesFixed ==
  ASSUME UNCHANGED <<setup, job>>
  PROVE  \A r, c, n, out : Continues(r, c, n, out)' <=> Continues(r, c, n, out)
BY Fixed DEF Continues

LEMMA PartsStay ==
  ASSUME TypeOK, OnePlace, PartsAreSequential, NEW w \in Pool, StaysInPlace(w)
  PROVE  PartsAreSequential'
<1> DEFINE r == worker[w].run
           c == worker[w].lo
<1>1. /\ w \in Busy /\ Busy' = Busy /\ UNCHANGED <<setup, job, results>>
      /\ \A v \in Busy \ {w} : worker'[v] = worker[v]
      /\ worker'[w].run = r /\ worker'[w].lo = c
  BY Stays DEF Busy
<1>2. /\ \A q, d : RowsOf(q, d)' = RowsOf(q, d)
      /\ \A q, d, n, out : Continues(q, d, n, out)' <=> Continues(q, d, n, out)
  BY <1>1, Fixed, ContinuesFixed
<1>3. \A v \in Busy \ {w} : PartOf(v)'
  BY <1>1, <1>2, PartsAre DEF PartOf
<1>4. /\ r \in Runs /\ c \in ChunksOf(r) /\ worker[w].row \in Nat
      /\ worker[w].out \in Seq(Nat)
      /\ RowsOf(r, c).start \in Nat /\ RowsOf(r, c).end \in Nat
      /\ RowsOf(r, c).start < RowsOf(r, c).end /\ RowsOf(r, c).end <= job[r].rows
      /\ job[r].rows \in Nat /\ job[r] \in Call
  BY <1>1, AtChunk, WorkerFacts, RowsFacts, SetupFacts
<1>5. PartOf(w)'
  <2>1. CASE CallAcquire(w) \/ TakePermit(w) \/ StartWaiting(w) \/ SpuriousWakeup(w)
    <3>1. worker'[w].at \notin {"rows", "release"}
      BY <2>1, StepsTo
    <3> QED
      BY <3>1 DEF PartOf
  <2>2. CASE StartChunk(w)
    <3>1. /\ worker'[w].at = "rows" /\ worker'[w].row = RowsOf(r, c).start
          /\ worker'[w].out = <<>>
      BY <2>2, StepsTo
    <3>2. KeptUpTo(job[r], RowsOf(r, c).start) \in Seq(Nat)
      BY <1>4, KeptFacts
    <3>3. KeptUpTo(job[r], RowsOf(r, c).start) \o <<>> = KeptUpTo(job[r], RowsOf(r, c).start)
      BY <3>2, ConcatSimplifications
    <3>4. Continues(r, c, RowsOf(r, c).start, <<>>)
      BY <3>3 DEF Continues
    <3> HIDE DEF r, c
    <3> QED
      BY <1>1, <1>2, <1>4, <3>1, <3>4 DEF PartOf
  <2>3. CASE ProcessRow(w)
    <3> DEFINE out == IF worker[w].row \in job[r].kept
                      THEN Append(worker[w].out, worker[w].row) ELSE worker[w].out
    <3>1. /\ worker[w].at = "rows" /\ worker'[w].at = "rows"
          /\ worker'[w].row = worker[w].row + 1 /\ worker'[w].out = out
      BY <2>3, StepsTo
    <3>2. worker[w].row < RowsOf(r, c).end
      BY <2>3 DEF ProcessRow, RowsLeft
    <3>3. /\ worker[w].row \in RowsOf(r, c).start..RowsOf(r, c).end
          /\ Continues(r, c, worker[w].row, worker[w].out)
      BY <1>1, <3>1, PartsAre DEF PartOf
    <3>4. Continues(r, c, worker[w].row + 1, out)
      BY <1>4, <3>2, <3>3, OneMoreRow
    <3> HIDE DEF r, c, out
    <3>5. worker[w].row + 1 \in RowsOf(r, c).start..RowsOf(r, c).end
      BY <1>4, <3>2, <3>3
    <3> QED
      BY <1>1, <1>2, <3>1, <3>4, <3>5 DEF PartOf
  <2>4. CASE EndChunk(w)
    <3>1. /\ worker[w].at = "rows" /\ worker'[w].at = "release"
          /\ worker'[w].row = worker[w].row /\ worker'[w].out = worker[w].out
      BY <2>4, StepsTo
    <3>2. ~(worker[w].row < RowsOf(r, c).end)
      BY <2>4 DEF EndChunk, RowsLeft
    <3>3. /\ worker[w].row \in RowsOf(r, c).start..RowsOf(r, c).end
          /\ Continues(r, c, worker[w].row, worker[w].out)
      BY <1>1, <3>1, PartsAre DEF PartOf
    <3> HIDE DEF r, c
    <3>4. worker[w].row = RowsOf(r, c).end
      BY <1>4, <3>2, <3>3
    <3> QED
      BY <1>1, <1>2, <3>1, <3>3, <3>4 DEF PartOf
  <2> QED
    BY <2>1, <2>2, <2>3, <2>4 DEF StaysInPlace
<1>6. (\A q \in Runs : \A d \in DOMAIN results[q] :
         Continues(q, d, RowsOf(q, d).end, results[q][d]))'
  BY <1>1, <1>2, PartsAre
<1> QED
  BY <1>1, <1>3, <1>5, <1>6, PartsAreNow

LEMMA PartsRelease ==
  ASSUME TypeOK, OnePlace, PartsAreSequential, NEW w \in Pool, ReleasePermit(w)
  PROVE  PartsAreSequential'
<1> DEFINE r == worker[w].run
           c == worker[w].lo
<1>1. /\ w \in Busy /\ UNCHANGED <<setup, job>> /\ r \in Runs
      /\ DOMAIN results'[r] = DOMAIN results[r] \cup {c}
      /\ results'[r][c] = worker[w].out
      /\ \A d \in DOMAIN results[r] \ {c} : results'[r][d] = results[r][d]
      /\ \A q \in Runs \ {r} : results'[q] = results[q]
  BY Released
<1>2. /\ \A q, d : RowsOf(q, d)' = RowsOf(q, d)
      /\ \A q, d, n, out : Continues(q, d, n, out)' <=> Continues(q, d, n, out)
  BY <1>1, Fixed, ContinuesFixed
<1>3. /\ \A v \in Busy' \ {w} : worker'[v] = worker[v] /\ v \in Busy
      /\ w \in Busy' => worker'[w].at = "fold"
  BY ReleasedThread DEF Busy
<1>4. \A v \in Busy' : PartOf(v)'
  BY <1>2, <1>3, PartsAre DEF PartOf
<1>5. Continues(r, c, RowsOf(r, c).end, results'[r][c])
  <2>1. worker[w].at = "release"
    BY DEF ReleasePermit
  <2> QED
    BY <1>1, <2>1, PartsAre DEF PartOf
<1> HIDE DEF r, c
<1>6. \A q \in Runs : \A d \in DOMAIN results'[q] :
        Continues(q, d, RowsOf(q, d).end, results'[q][d])
  <2> SUFFICES ASSUME NEW q \in Runs, NEW d \in DOMAIN results'[q]
               PROVE  Continues(q, d, RowsOf(q, d).end, results'[q][d])
    OBVIOUS
  <2>1. CASE q = r /\ d = c
    BY <1>5, <2>1
  <2>2. CASE ~(q = r /\ d = c)
    <3>1. d \in DOMAIN results[q] /\ results'[q][d] = results[q][d]
      BY <1>1, <2>2
    <3> QED
      BY <3>1, PartsAre
  <2> QED
    BY <2>1, <2>2
<1>7. (\A q \in Runs : \A d \in DOMAIN results[q] :
         Continues(q, d, RowsOf(q, d).end, results[q][d]))'
  BY <1>2, <1>6
<1> QED
  BY <1>4, <1>7, PartsAreNow

LEMMA PartsStep ==
  TypeOK /\ OnePlace /\ PartsAreSequential /\ [Next]_vars => PartsAreSequential'
<1> SUFFICES ASSUME TypeOK, OnePlace, PartsAreSequential, [Next]_vars
             PROVE  PartsAreSequential'
  OBVIOUS
<1>1. ASSUME UNCHANGED <<setup, job, results>>,
             \A v \in Busy' : \/ v \in Busy /\ worker'[v] = worker[v]
                              \/ worker'[v].at = "job"
      PROVE  PartsAreSequential'
  <2>1. /\ \A q, d : RowsOf(q, d)' = RowsOf(q, d)
        /\ \A q, d, n, out : Continues(q, d, n, out)' <=> Continues(q, d, n, out)
    BY <1>1, Fixed, ContinuesFixed
  <2>2. \A v \in Busy' : PartOf(v)'
    BY <1>1, <2>1, PartsAre DEF PartOf
  <2>3. (\A q \in Runs : \A d \in DOMAIN results[q] :
           Continues(q, d, RowsOf(q, d).end, results[q][d]))'
    BY <1>1, <2>1, PartsAre
  <2> QED
    BY <2>2, <2>3, PartsAreNow
<1>2. CASE UNCHANGED vars
  <2>1. UNCHANGED <<setup, job, results, worker>> /\ Busy' = Busy
    BY <1>2 DEF vars, Busy, Pool
  <2> QED
    BY <1>1, <2>1
<1>3. ASSUME NEW r \in Runs, BeginRun(r) \/ EndStep(r) PROVE PartsAreSequential'
  <2>1. UNCHANGED <<setup, job, results, worker>>
    BY <1>3 DEF BeginRun, EndStep, FinishRun, ResumePanic, FinishReduce
  <2>2. Busy' = Busy
    BY <2>1 DEF Busy, Pool
  <2> QED
    BY <1>1, <2>1, <2>2
<1>4. ASSUME NEW w \in Pool, OverflowPanic(w) \/ RowPanics(w)
      PROVE  PartsAreSequential'
  BY <1>1, <1>4, Panicked
<1>5. ASSUME NEW w \in Pool, SplitJob(w) PROVE PartsAreSequential'
  <2>1. /\ UNCHANGED <<setup, job, results>> /\ Busy' = Busy /\ Busy \subseteq Pool
        /\ worker'[w].at = "job" /\ \A v \in Pool \ {w} : worker'[v] = worker[v]
    BY <1>5, SplitInTwo DEF Busy
  <2> QED
    BY <1>1, <2>1
<1>6. ASSUME NEW w \in Pool, TakeJob(w) PROVE PartsAreSequential'
  <2>1. UNCHANGED <<setup, job, results>>
    BY <1>6 DEF TakeJob
  <2>2. PICK t : worker' = [worker EXCEPT ![w] = Doing("job", t.run, t.lo, t.hi, 0, <<>>)]
    BY <1>6 DEF TakeJob
  <2>3. worker'[w].at = "job" /\ \A v \in Pool \ {w} : worker'[v] = worker[v]
    BY <2>2, WorkerFacts DEF Doing
  <2>4. \A v \in Busy' \ {w} : v \in Busy /\ worker'[v] = worker[v]
    BY <2>1, <2>3 DEF Busy, Pool
  <2> QED
    BY <1>1, <2>1, <2>3, <2>4
<1> QED
  BY <1>2, <1>3, <1>4, <1>5, <1>6, PartsStay, PartsRelease
     DEF Next, WorkerStep, ChunkStep, StaysInPlace

LEMMA OutputStep ==
  ASSUME TypeOK, SomePlace, PartsAreSequential, OutputIsSequential, [Next]_vars
  PROVE  OutputIsSequential'
<1>1. UNCHANGED <<setup, job>>
  BY DEF Next, vars, BeginRun, EndStep, FinishRun, ResumePanic, FinishReduce, WorkerStep,
         ChunkStep, TakeJob, SplitJob, CallAcquire, TakePermit, StartWaiting, StartChunk,
         OverflowPanic, ProcessRow, RowPanics, EndChunk, ReleasePermit, SpuriousWakeup,
         Unwind
<1>2. \A r \in Runs : Sequential(r)' = Sequential(r)
  BY <1>1 DEF Sequential
<1>3. ASSUME NEW r \in Runs, FinishRun(r) PROVE OutputIsSequential'
  <2>1. /\ output' = [output EXCEPT ![r] = Sequential(r)]
        /\ run' = [run EXCEPT ![r] = "done"]
    BY <1>3, FinishedOutput DEF FinishRun, EndMetrics
  <2>2. /\ output'[r] = Sequential(r)
        /\ \A q \in Runs \ {r} : output'[q] = output[q] /\ run'[q] = run[q]
    BY <2>1 DEF TypeOK
  <2> QED
    BY <1>1, <1>2, <2>2 DEF OutputIsSequential
<1>4. ASSUME UNCHANGED output,
             \A q \in Runs : run'[q] = "done" =>
               run[q] = "done" \/ job[q].kind = "reduce"
      PROVE  OutputIsSequential'
  BY <1>1, <1>2, <1>4 DEF OutputIsSequential
<1>5. ASSUME NEW r \in Runs, BeginRun(r) \/ ResumePanic(r) \/ FinishReduce(r)
      PROVE  OutputIsSequential'
  <2>1. UNCHANGED output /\ \A q \in Runs \ {r} : run'[q] = run[q]
    BY <1>5 DEF BeginRun, ResumePanic, FinishReduce, EndMetrics, TypeOK
  <2>2. run'[r] = "done" => job[r].kind = "reduce"
    BY <1>5 DEF BeginRun, ResumePanic, FinishReduce, TypeOK
  <2> QED
    BY <1>4, <2>1, <2>2
<1>6. CASE UNCHANGED <<run, output>>
  BY <1>4, <1>6
<1>7. ASSUME NEW w \in Pool, WorkerStep(w) \/ SpuriousWakeup(w)
      PROVE  UNCHANGED <<run, output>>
  BY <1>7 DEF WorkerStep, ChunkStep, TakeJob, SplitJob, CallAcquire, TakePermit,
              StartWaiting, StartChunk, OverflowPanic, ProcessRow, RowPanics, EndChunk,
              ReleasePermit, SpuriousWakeup, Unwind
<1> QED
  BY <1>3, <1>5, <1>6, <1>7 DEF Next, EndStep, vars

-----------------------------------------------------------------------------
(* Counts                                                                  *)

\* Of two threads with a run's chunks, each has its own.
LEMMA OwnChunk ==
  ASSUME TypeOK, OnePlace, NEW w \in Busy, NEW v \in Busy, v # w,
         worker[v].run = worker[w].run
  PROVE  worker[v].lo # worker[w].lo
BY AtChunk, WorkerFacts DEF OnePlace, Apart

LEMMA ChunksAtAre ==
  ASSUME NEW r, NEW a, NEW c
  PROVE  c \in ChunksAt(r, a) <=>
           \E v \in Busy : worker[v].run = r /\ worker[v].at = a /\ worker[v].lo = c
BY DEF ChunksAt, WorkersOn

LEMMA ChunksAtAreNow ==
  ASSUME NEW r, NEW a, NEW c
  PROVE  c \in ChunksAt(r, a)' <=>
           \E v \in Busy' : worker'[v].run = r /\ worker'[v].at = a /\ worker'[v].lo = c
BY DEF ChunksAt, WorkersOn

LEMMA AtIsOwn ==
  ASSUME TypeOK, OnePlace, NEW w \in Busy, NEW a
  PROVE  worker[w].lo \in ChunksAt(worker[w].run, a) <=> worker[w].at = a
<1>1. worker[w].lo \in ChunksAt(worker[w].run, a) <=>
        \E v \in Busy : /\ worker[v].run = worker[w].run /\ worker[v].at = a
                        /\ worker[v].lo = worker[w].lo
  BY ChunksAtAre
<1> QED
  BY <1>1, OwnChunk

\* A step of a thread in its chunk moves that chunk alone.
LEMMA AtMoves ==
  ASSUME TypeOK, OnePlace, NEW w \in Pool, StaysInPlace(w), NEW a,
         NEW r, r = worker[w].run, NEW c, c = worker[w].lo
  PROVE  /\ \A q : q # r => ChunksAt(q, a)' = ChunksAt(q, a)
         /\ worker'[w].at = a => ChunksAt(r, a)' = ChunksAt(r, a) \cup {c}
         /\ worker'[w].at # a => ChunksAt(r, a)' = ChunksAt(r, a) \ {c}
<1>1. /\ w \in Busy /\ Busy' = Busy /\ \A v \in Busy \ {w} : worker'[v] = worker[v]
      /\ worker'[w].run = r /\ worker'[w].lo = c
  BY Stays DEF Busy
<1>2. \A q, d : d \in ChunksAt(q, a) <=>
        \E v \in Busy : worker[v].run = q /\ worker[v].at = a /\ worker[v].lo = d
  BY ChunksAtAre
<1>3. \A q, d : d \in ChunksAt(q, a)' <=>
        \E v \in Busy : worker'[v].run = q /\ worker'[v].at = a /\ worker'[v].lo = d
  BY <1>1, ChunksAtAreNow
<1>4. \A v \in Busy \ {w} : worker[v].run = r => worker[v].lo # c
  BY <1>1, OwnChunk
<1>5. \A q, d : ~(q = r /\ d = c) => (d \in ChunksAt(q, a)' <=> d \in ChunksAt(q, a))
  <2> SUFFICES ASSUME NEW q, NEW d, ~(q = r /\ d = c)
               PROVE  d \in ChunksAt(q, a)' <=> d \in ChunksAt(q, a)
    OBVIOUS
  <2>1. worker[w].run = q => worker[w].lo # d
    OBVIOUS
  <2>2. worker'[w].run = q => worker'[w].lo # d
    BY <1>1
  <2> QED
    BY <1>1, <1>2, <1>3, <2>1, <2>2
<1>6. c \in ChunksAt(r, a)' <=> worker'[w].at = a
  BY <1>1, <1>3, <1>4
<1>7. \A q : q # r => ChunksAt(q, a)' = ChunksAt(q, a)
  <2> SUFFICES ASSUME NEW q, q # r PROVE ChunksAt(q, a)' = ChunksAt(q, a)
    OBVIOUS
  <2>1. ChunksAt(q, a)' \subseteq ChunksAt(q, a)
    BY <1>5
  <2>2. ChunksAt(q, a) \subseteq ChunksAt(q, a)'
    BY <1>5
  <2> QED
    BY <2>1, <2>2, Zenon
<1>8. worker'[w].at = a => ChunksAt(r, a)' = ChunksAt(r, a) \cup {c}
  BY <1>5, <1>6
<1>9. worker'[w].at # a => ChunksAt(r, a)' = ChunksAt(r, a) \ {c}
  BY <1>5, <1>6
<1> QED
  BY <1>7, <1>8, <1>9

\* The sets the counters count are finite.
LEMMA FiniteCounts ==
  ASSUME TypeOK, OnePlace, NEW r \in Runs
  PROVE  /\ \A a : ChunksAt(r, a) \subseteq ChunksOf(r)
         /\ Finished(r) \subseteq ChunksOf(r) /\ Started(r) \subseteq ChunksOf(r)
         /\ IsFiniteSet(Started(r)) /\ Cardinality(Started(r)) \in Nat
         /\ IsFiniteSet(Finished(r)) /\ Cardinality(Finished(r)) \in Nat
         /\ IsFiniteSet(ChunksAt(r, "rows"))
         /\ Cardinality(ChunksAt(r, "rows")) \in Nat
         /\ RowsDone(r) \subseteq 0..(job[r].rows - 1)
         /\ IsFiniteSet(RowsDone(r)) /\ Cardinality(RowsDone(r)) \in Nat
<1>1. \A a : ChunksAt(r, a) \subseteq ChunksOf(r)
  BY ChunksAtAre, AtChunk
<1>2. Finished(r) \subseteq ChunksOf(r) /\ Started(r) \subseteq ChunksOf(r)
  BY <1>1 DEF Finished, Started, TypeOK
<1>3. IsFiniteSet(ChunksOf(r))
  BY FiniteHolders
<1>4. RowsDone(r) \subseteq 0..(job[r].rows - 1)
  BY DEF RowsDone
<1>5. IsFiniteSet(0..(job[r].rows - 1))
  <2>1. 0 \in Int /\ job[r].rows - 1 \in Int
    BY SetupFacts DEF Call
  <2> QED
    BY <2>1, FS_Interval
<1>6. IsFiniteSet(RowsDone(r)) /\ Cardinality(RowsDone(r)) \in Nat
  BY <1>4, <1>5, FS_Subset, FS_CardinalityType
<1>7. /\ IsFiniteSet(Started(r)) /\ Cardinality(Started(r)) \in Nat
      /\ IsFiniteSet(Finished(r)) /\ Cardinality(Finished(r)) \in Nat
      /\ IsFiniteSet(ChunksAt(r, "rows")) /\ Cardinality(ChunksAt(r, "rows")) \in Nat
  BY <1>1, <1>2, <1>3, FS_Subset, FS_CardinalityType
<1> QED
  BY <1>1, <1>2, <1>4, <1>6, <1>7

\* A run executes no more chunks at once than it has, than there are threads
\* and than there are permits.
LEMMA FewInFlight ==
  ASSUME TypeOK, OnePlace, PhasesFollow, Conserved, NEW r \in Runs
  PROVE  /\ IsFiniteSet(InFlight(r)) /\ Cardinality(InFlight(r)) \in Nat
         /\ Cardinality(InFlight(r)) <= setup.max_in_flight_chunks
         /\ Cardinality(InFlight(r)) <= setup.num_threads
         /\ Cardinality(InFlight(r)) <= ChunkCount(r)
<1> DEFINE W == {v \in WorkersOn(r) : Executing(v)}
           f == [w \in W |-> worker[w].lo]
<1>1. InFlight(r) = {worker[w].lo : w \in W}
  BY DEF InFlight
<1>2. InFlight(r) \subseteq ChunksOf(r)
  BY <1>1, AtChunk DEF WorkersOn
<1>3. IsFiniteSet(InFlight(r)) /\ Cardinality(InFlight(r)) <= ChunkCount(r)
  BY <1>2, FiniteHolders, FS_Subset
<1>4. Cardinality(InFlight(r)) \in Nat
  BY <1>3, FS_CardinalityType
<1>5. IsFiniteSet(Pool) /\ Cardinality(Pool) = setup.num_threads
  <2>1. setup.num_threads \in Nat \ {0} /\ 1 \in Int /\ setup.num_threads \in Int
    BY SetupFacts
  <2>2. /\ IsFiniteSet(1..setup.num_threads)
        /\ Cardinality(1..setup.num_threads)
             = IF 1 > setup.num_threads THEN 0 ELSE setup.num_threads - 1 + 1
    BY <2>1, FS_Interval
  <2> QED
    BY <2>1, <2>2 DEF Pool
<1>6. W \subseteq Pool
  BY DEF WorkersOn, Busy
<1> HIDE DEF W
<1>7. f \in Surjection(W, InFlight(r))
  BY <1>1 DEF Surjection
<1>8. IsFiniteSet(W) /\ Cardinality(W) <= setup.num_threads /\ Cardinality(W) \in Nat
  BY <1>5, <1>6, FS_Subset, FS_CardinalityType
<1>9. Cardinality(InFlight(r)) <= Cardinality(W)
  <2> HIDE DEF f
  <2> QED
    BY <1>7, <1>8, FS_Surjection
<1>10. Cardinality(InFlight(r)) <= setup.num_threads
  BY <1>4, <1>8, <1>9, SetupFacts
<1>11. Cardinality(InFlight(r)) <= setup.max_in_flight_chunks
  <2>1. sem[r].permits + Cardinality(InFlight(r)) + Cardinality(Leaked(r))
          = setup.max_in_flight_chunks
    BY PermitsFollow DEF PermitsAccountedFor
  <2>2. sem[r].permits \in Nat
    BY DEF TypeOK, SemaphoreOf
  <2>3. Cardinality(Leaked(r)) \in Nat
    BY FiniteHolders, FS_Difference, FS_CardinalityType DEF Leaked
  <2> QED
    BY <1>4, <2>1, <2>2, <2>3, SetupFacts
<1> QED
  BY <1>3, <1>4, <1>10, <1>11

\* The rows of a chunk, and those a thread has looked at.
InRange(r, c, n) == RowsOf(r, c).start <= n /\ n < RowsOf(r, c).end
Past(v, n) == /\ worker[v].at = "rows" /\ n < worker[v].row
              /\ RowsOf(worker[v].run, worker[v].lo).start <= n

LEMMA RowsDoneAre ==
  ASSUME NEW r, NEW n
  PROVE  n \in RowsDone(r) <=>
           /\ n \in 0..(job[r].rows - 1)
           /\ \/ \E d \in Finished(r) : InRange(r, d, n)
              \/ \E v \in Busy : worker[v].run = r /\ Past(v, n)
BY DEF RowsDone, WorkersOn, InRange, Past

LEMMA RowsDoneAreNow ==
  ASSUME UNCHANGED <<setup, job>>, NEW r, NEW n
  PROVE  n \in RowsDone(r)' <=>
           /\ n \in 0..(job[r].rows - 1)
           /\ \/ \E d \in Finished(r)' : InRange(r, d, n)
              \/ \E v \in Busy' : worker'[v].run = r /\ Past(v, n)'
<1>1. job' = job /\ \A d : InRange(r, d, n)' <=> InRange(r, d, n)
  BY Fixed DEF InRange
<1>2. RowsDone(r)' = {m \in 0..(job'[r].rows - 1) :
        \/ \E d \in Finished(r)' : InRange(r, d, m)'
        \/ \E v \in WorkersOn(r)' : /\ worker'[v].at = "rows"
                                    /\ RowsOf(r, worker[v].lo)'.start <= m
                                    /\ m < worker'[v].row}
  BY DEF RowsDone, InRange
<1>3. \A v : v \in WorkersOn(r)' <=> v \in Busy' /\ worker'[v].run = r
  BY DEF WorkersOn
<1>4. \A v : worker'[v].run = r =>
        (Past(v, n)' <=> /\ worker'[v].at = "rows"
                         /\ RowsOf(r, worker[v].lo)'.start <= n
                         /\ n < worker'[v].row)
  BY DEF Past
<1> QED
  BY <1>1, <1>2, <1>3, <1>4

\* A step of a thread in its chunk: only its own rows are to look at.
LEMMA RowsMove ==
  ASSUME TypeOK, OnePlace, NEW w \in Pool, StaysInPlace(w),
         NEW r, r = worker[w].run, NEW n
  PROVE  /\ n \in RowsDone(r) <=>
              /\ n \in 0..(job[r].rows - 1)
              /\ \/ \E d \in Finished(r) : InRange(r, d, n)
                 \/ \E v \in Busy \ {w} : worker[v].run = r /\ Past(v, n)
                 \/ Past(w, n)
         /\ n \in RowsDone(r)' <=>
              /\ n \in 0..(job[r].rows - 1)
              /\ \/ \E d \in Finished(r)' : InRange(r, d, n)
                 \/ \E v \in Busy \ {w} : worker[v].run = r /\ Past(v, n)
                 \/ Past(w, n)'
<1>1. /\ w \in Busy /\ Busy' = Busy /\ UNCHANGED <<setup, job>>
      /\ \A v \in Busy \ {w} : worker'[v] = worker[v]
      /\ worker'[w].run = r
  BY Stays DEF Busy
<1>2. \A v \in Busy \ {w} : Past(v, n)' <=> Past(v, n)
  BY <1>1, Fixed DEF Past
<1>3. n \in RowsDone(r) <=>
        /\ n \in 0..(job[r].rows - 1)
        /\ \/ \E d \in Finished(r) : InRange(r, d, n)
           \/ \E v \in Busy : worker[v].run = r /\ Past(v, n)
  BY RowsDoneAre
<1>4. n \in RowsDone(r)' <=>
        /\ n \in 0..(job[r].rows - 1)
        /\ \/ \E d \in Finished(r)' : InRange(r, d, n)
           \/ \E v \in Busy : worker'[v].run = r /\ Past(v, n)'
  BY <1>1, RowsDoneAreNow
<1> QED
  BY <1>1, <1>2, <1>3, <1>4

\* Before its release, a thread's chunk is not in per_chunk.
LEMMA NotFinished ==
  ASSUME TypeOK, OnePlace, NEW w \in Busy
  PROVE  worker[w].lo \notin DOMAIN results[worker[w].run]
BY AtChunk, WorkerFacts DEF OnePlace, NotYetDone, ChunksOf

LEMMA CountsStart ==
  ASSUME TypeOK, OnePlace, NEW w \in Pool, StartChunk(w),
         NEW r, r = worker[w].run, NEW c, c = worker[w].lo
  PROVE  /\ c \notin Started(r) /\ Started(r)' = Started(r) \cup {c}
         /\ Finished(r)' = Finished(r)
         /\ c \notin ChunksAt(r, "rows")
         /\ ChunksAt(r, "rows")' = ChunksAt(r, "rows") \cup {c}
         /\ RowsDone(r)' = RowsDone(r)
<1>1. /\ StaysInPlace(w) /\ w \in Busy /\ results' = results
      /\ worker[w].at = "start" /\ worker'[w].at = "rows"
      /\ worker'[w].row = RowsOf(r, c).start
      /\ worker'[w].run = r /\ worker'[w].lo = c
  BY Stays, StepsTo DEF StaysInPlace
<1>2. c \notin ChunksAt(r, "rows") /\ c \notin ChunksAt(r, "release")
  BY <1>1, AtIsOwn
<1>3. /\ ChunksAt(r, "rows")' = ChunksAt(r, "rows") \cup {c}
      /\ ChunksAt(r, "release")' = ChunksAt(r, "release") \ {c}
  BY <1>1, AtMoves
<1>4. c \notin DOMAIN results[r]
  BY <1>1, NotFinished
<1>5. ChunksAt(r, "release")' = ChunksAt(r, "release")
  BY <1>2, <1>3
<1>6. Finished(r)' = Finished(r)
  BY <1>1, <1>5 DEF Finished
<1>7. Started(r)' = Started(r) \cup {c}
  BY <1>3, <1>6 DEF Started
<1>8. c \notin Started(r)
  BY <1>2, <1>4 DEF Started, Finished
<1>9. /\ RowsOf(r, c)' = RowsOf(r, c) /\ RowsOf(r, c).start \in Nat
  <2>1. UNCHANGED <<setup, job>> /\ r \in Runs /\ c \in ChunksOf(r)
    BY <1>1, Stays, AtChunk, WorkerFacts
  <2> QED
    BY <2>1, Fixed, RowsFacts
<1>10. \A n : n \in RowsDone(r)' <=> n \in RowsDone(r)
  <2> SUFFICES ASSUME NEW n PROVE n \in RowsDone(r)' <=> n \in RowsDone(r)
    OBVIOUS
  <2>1. ~Past(w, n)
    BY <1>1 DEF Past
  <2>2. n \in 0..(job[r].rows - 1) => ~Past(w, n)'
    BY <1>1, <1>9 DEF Past
  <2> QED
    BY <1>1, <1>6, <2>1, <2>2, RowsMove
<1>11. RowsDone(r)' \subseteq RowsDone(r) /\ RowsDone(r) \subseteq RowsDone(r)'
  BY <1>10
<1>12. RowsDone(r)' = RowsDone(r)
  BY <1>11, Zenon
<1> QED
  BY <1>2, <1>3, <1>6, <1>7, <1>8, <1>12

\* A row is of one chunk.
LEMMA RangesApart ==
  ASSUME TypeOK, NEW r \in Runs, NEW c \in ChunksOf(r), NEW d \in ChunksOf(r),
         NEW n \in Nat, InRange(r, c, n), InRange(r, d, n)
  PROVE  c = d
<1>1. c \in Nat /\ d \in Nat
  BY ChunkCountIsNat DEF ChunksOf
<1>2. /\ c < d => RowsOf(r, c).end <= RowsOf(r, d).start
      /\ d < c => RowsOf(r, d).end <= RowsOf(r, c).start
      /\ RowsOf(r, c).end \in Nat /\ RowsOf(r, d).end \in Nat
      /\ RowsOf(r, c).start \in Nat /\ RowsOf(r, d).start \in Nat
  BY RowsFacts
<1> QED
  BY <1>1, <1>2 DEF InRange

\* What a thread has looked at is of its chunk, and not finished.
LEMMA PastIsOwn ==
  ASSUME TypeOK, OnePlace, PartsAreSequential, NEW v \in Busy, NEW n \in Nat, Past(v, n)
  PROVE  InRange(worker[v].run, worker[v].lo, n)
<1> DEFINE q == worker[v].run
           d == worker[v].lo
<1>1. /\ q \in Runs /\ d \in ChunksOf(q) /\ worker[v].row \in Nat
      /\ RowsOf(q, d).start \in Nat /\ RowsOf(q, d).end \in Nat
  BY WorkerFacts, AtChunk, RowsFacts
<1>2. worker[v].row \in RowsOf(q, d).start..RowsOf(q, d).end
  BY PartsAre DEF PartOf, Past
<1> HIDE DEF q, d
<1>3. worker[v].row <= RowsOf(q, d).end
  BY <1>1, <1>2
<1> QED
  BY <1>1, <1>3 DEF InRange, Past, q, d

LEMMA CountsRow ==
  ASSUME TypeOK, OnePlace, PartsAreSequential, NEW w \in Pool, ProcessRow(w),
         NEW r, r = worker[w].run, NEW c, c = worker[w].lo
  PROVE  /\ Started(r)' = Started(r) /\ Finished(r)' = Finished(r)
         /\ c \in ChunksAt(r, "rows") /\ ChunksAt(r, "rows")' = ChunksAt(r, "rows")
         /\ worker[w].row \notin RowsDone(r)
         /\ RowsDone(r)' = RowsDone(r) \cup {worker[w].row}
<1> DEFINE row == worker[w].row
<1>1. /\ StaysInPlace(w) /\ w \in Busy /\ results' = results /\ UNCHANGED <<setup, job>>
      /\ worker[w].at = "rows" /\ worker'[w].at = "rows"
      /\ worker'[w].row = row + 1
      /\ worker'[w].run = r /\ worker'[w].lo = c /\ row < RowsOf(r, c).end
  BY Stays, StepsTo DEF StaysInPlace, ProcessRow, RowsLeft
<1>2. c \in ChunksAt(r, "rows") /\ c \notin ChunksAt(r, "release")
  BY <1>1, AtIsOwn
<1>3. /\ ChunksAt(r, "rows")' = ChunksAt(r, "rows") \cup {c}
      /\ ChunksAt(r, "release")' = ChunksAt(r, "release") \ {c}
  BY <1>1, AtMoves
<1>4. c \notin DOMAIN results[r]
  BY <1>1, NotFinished
<1>5. /\ ChunksAt(r, "release")' = ChunksAt(r, "release")
      /\ ChunksAt(r, "rows")' = ChunksAt(r, "rows")
  BY <1>2, <1>3
<1>6. Finished(r)' = Finished(r) /\ Started(r)' = Started(r)
  BY <1>1, <1>5 DEF Finished, Started
<1>7. c \notin Finished(r)
  BY <1>2, <1>4 DEF Finished
<1>8. /\ r \in Runs /\ c \in ChunksOf(r) /\ row \in Nat
      /\ RowsOf(r, c).start \in Nat /\ RowsOf(r, c).end \in Nat
      /\ RowsOf(r, c).end <= job[r].rows /\ job[r].rows \in Nat
      /\ \A d : RowsOf(r, d)' = RowsOf(r, d)
  BY <1>1, WorkerFacts, AtChunk, RowsFacts, Fixed
<1>9. RowsOf(r, c).start <= row
  <2>1. row \in RowsOf(r, c).start..RowsOf(r, c).end
    BY <1>1, PartsAre DEF PartOf
  <2> HIDE DEF row
  <2> QED
    BY <1>8, <2>1
<1>10. InRange(r, c, row) /\ row \in 0..(job[r].rows - 1)
  BY <1>1, <1>8, <1>9 DEF InRange
<1>11. \A d \in Finished(r) : ~InRange(r, d, row)
  BY <1>7, <1>8, <1>10, RangesApart, FiniteCounts
<1>12. \A v \in Busy \ {w} : worker[v].run = r => ~Past(v, row)
  BY <1>1, <1>8, <1>10, RangesApart, PastIsOwn, AtChunk, OwnChunk
<1>13. ~Past(w, row)
  BY <1>8 DEF Past
<1>14. row \notin RowsDone(r)
  BY <1>1, <1>11, <1>12, <1>13, RowsMove
<1>15. \A n \in 0..(job[r].rows - 1) : Past(w, n)' <=> Past(w, n) \/ n = row
  <2> HIDE DEF row
  <2>1. \A n : Past(w, n)' <=> n < row + 1 /\ RowsOf(r, c).start <= n
    BY <1>1, <1>8 DEF Past
  <2>2. \A n : Past(w, n) <=> n < row /\ RowsOf(r, c).start <= n
    BY <1>1 DEF Past, row
  <2> QED
    BY <1>8, <1>9, <2>1, <2>2
<1>16. \A n : n \in RowsDone(r)' <=> n \in RowsDone(r) \cup {row}
  <2> SUFFICES ASSUME NEW n
               PROVE  n \in RowsDone(r)' <=> n \in RowsDone(r) \/ n = row
    OBVIOUS
  <2> HIDE DEF row
  <2> QED
    BY <1>1, <1>6, <1>10, <1>15, RowsMove
<1>17. /\ RowsDone(r)' \subseteq RowsDone(r) \cup {row}
       /\ RowsDone(r) \cup {row} \subseteq RowsDone(r)'
  BY <1>16, Zenon
<1>18. RowsDone(r)' = RowsDone(r) \cup {row}
  BY <1>17, Zenon
<1> QED
  BY <1>2, <1>5, <1>6, <1>14, <1>18

LEMMA CountsEnd ==
  ASSUME TypeOK, OnePlace, PartsAreSequential, NEW w \in Pool, EndChunk(w),
         NEW r, r = worker[w].run, NEW c, c = worker[w].lo
  PROVE  /\ Started(r)' = Started(r)
         /\ c \notin Finished(r) /\ Finished(r)' = Finished(r) \cup {c}
         /\ c \in ChunksAt(r, "rows") /\ ChunksAt(r, "rows")' = ChunksAt(r, "rows") \ {c}
         /\ RowsDone(r)' = RowsDone(r)
<1> DEFINE row == worker[w].row
<1>1. /\ StaysInPlace(w) /\ w \in Busy /\ results' = results /\ UNCHANGED <<setup, job>>
      /\ worker[w].at = "rows" /\ worker'[w].at = "release"
      /\ worker'[w].run = r /\ worker'[w].lo = c /\ ~(row < RowsOf(r, c).end)
  BY Stays, StepsTo DEF StaysInPlace, EndChunk, RowsLeft
<1>2. c \in ChunksAt(r, "rows") /\ c \notin ChunksAt(r, "release")
  BY <1>1, AtIsOwn
<1>3. /\ ChunksAt(r, "rows")' = ChunksAt(r, "rows") \ {c}
      /\ ChunksAt(r, "release")' = ChunksAt(r, "release") \cup {c}
  <2>1. worker'[w].at # "rows"
    BY <1>1
  <2>2. ChunksAt(r, "rows")' = ChunksAt(r, "rows") \ {c}
    <3>1. StaysInPlace(w)
      BY <1>1
    <3> QED
      BY <2>1, <3>1, AtMoves
  <2>3. ChunksAt(r, "release")' = ChunksAt(r, "release") \cup {c}
    BY <1>1, AtMoves
  <2> QED
    BY <2>2, <2>3
<1>4. c \notin Finished(r)
  BY <1>1, <1>2, NotFinished DEF Finished
<1>5. Finished(r)' = Finished(r) \cup {c}
  BY <1>1, <1>3 DEF Finished
<1>6. Started(r)' = Started(r)
  BY <1>2, <1>3, <1>5 DEF Started
<1>7. /\ r \in Runs /\ c \in ChunksOf(r) /\ row \in Nat
      /\ RowsOf(r, c).start \in Nat /\ RowsOf(r, c).end \in Nat
  BY <1>1, WorkerFacts, AtChunk, RowsFacts
<1>8. row = RowsOf(r, c).end
  <2>1. row \in RowsOf(r, c).start..RowsOf(r, c).end
    BY <1>1, PartsAre DEF PartOf
  <2> HIDE DEF row
  <2> QED
    BY <1>1, <1>7, <2>1
<1>9. \A n : ~Past(w, n)' /\ (Past(w, n) <=> InRange(r, c, n))
  BY <1>1, <1>8 DEF Past, InRange
<1>10. \A n : n \in RowsDone(r)' <=> n \in RowsDone(r)
  <2> SUFFICES ASSUME NEW n PROVE n \in RowsDone(r)' <=> n \in RowsDone(r)
    OBVIOUS
  <2>1. (\E d \in Finished(r)' : InRange(r, d, n))
          <=> (\E d \in Finished(r) : InRange(r, d, n)) \/ InRange(r, c, n)
    BY <1>5
  <2>2. ~Past(w, n)' /\ (Past(w, n) <=> InRange(r, c, n))
    BY <1>9
  <2> QED
    BY <1>1, <2>1, <2>2, RowsMove
<1>11. RowsDone(r)' \subseteq RowsDone(r) /\ RowsDone(r) \subseteq RowsDone(r)'
  BY <1>10, Zenon
<1>12. RowsDone(r)' = RowsDone(r)
  BY <1>11, Zenon
<1> QED
  BY <1>2, <1>3, <1>4, <1>5, <1>6, <1>12

\* A thread in the loop over a chunk's rows, or past it.
Reading(v) == v \in Busy /\ worker[v].at \in {"rows", "release"}

\* Steps that leave per_chunk and the loops over rows alone.
LEMMA CountsSame ==
  ASSUME TypeOK, UNCHANGED <<setup, job, results>>,
         \A v : Reading(v)' <=> Reading(v),
         \A v : Reading(v) => worker'[v] = worker[v],
         NEW r
  PROVE  /\ Started(r)' = Started(r) /\ Finished(r)' = Finished(r)
         /\ ChunksAt(r, "rows")' = ChunksAt(r, "rows")
         /\ RowsDone(r)' = RowsDone(r)
<1>1. ASSUME NEW a \in {"rows", "release"} PROVE ChunksAt(r, a)' = ChunksAt(r, a)
  <2>1. \A d : d \in ChunksAt(r, a)' <=> d \in ChunksAt(r, a)
    <3> SUFFICES ASSUME NEW d PROVE d \in ChunksAt(r, a)' <=> d \in ChunksAt(r, a)
      OBVIOUS
    <3>1. d \in ChunksAt(r, a) <=>
            \E v : Reading(v) /\ worker[v].run = r /\ worker[v].at = a /\ worker[v].lo = d
      BY ChunksAtAre DEF Reading
    <3>2. d \in ChunksAt(r, a)' <=>
            \E v : /\ Reading(v)' /\ worker'[v].run = r /\ worker'[v].at = a
                   /\ worker'[v].lo = d
      BY ChunksAtAreNow DEF Reading
    <3> QED
      BY <3>1, <3>2
  <2>2. ChunksAt(r, a)' \subseteq ChunksAt(r, a) /\ ChunksAt(r, a) \subseteq ChunksAt(r, a)'
    BY <2>1, Zenon
  <2> QED
    BY <2>2, Zenon
<1>2. ChunksAt(r, "rows")' = ChunksAt(r, "rows")
  BY <1>1
<1>3. Finished(r)' = Finished(r)
  BY <1>1 DEF Finished
<1>4. Started(r)' = Started(r)
  BY <1>2, <1>3 DEF Started
<1>5. \A n : n \in RowsDone(r)' <=> n \in RowsDone(r)
  <2> SUFFICES ASSUME NEW n PROVE n \in RowsDone(r)' <=> n \in RowsDone(r)
    OBVIOUS
  <2>1. \A v : Past(v, n) => worker[v].at = "rows"
    BY DEF Past
  <2>2. \A v : Past(v, n)' => worker'[v].at = "rows"
    BY DEF Past
  <2>3. \A v : Reading(v) => (Past(v, n)' <=> Past(v, n))
    BY Fixed DEF Past
  <2>4. (\E v \in Busy : worker[v].run = r /\ Past(v, n))
          <=> \E v : Reading(v) /\ worker[v].run = r /\ Past(v, n)
    BY <2>1 DEF Reading
  <2>5. (\E v \in Busy' : worker'[v].run = r /\ Past(v, n)')
          <=> \E v : Reading(v)' /\ worker'[v].run = r /\ Past(v, n)'
    BY <2>2 DEF Reading
  <2>6. (\E v \in Busy' : worker'[v].run = r /\ Past(v, n)')
          <=> \E v \in Busy : worker[v].run = r /\ Past(v, n)
    BY <2>3, <2>4, <2>5
  <2>7. n \in RowsDone(r) <=>
          /\ n \in 0..(job[r].rows - 1)
          /\ \/ \E d \in Finished(r) : InRange(r, d, n)
             \/ \E v \in Busy : worker[v].run = r /\ Past(v, n)
    BY RowsDoneAre
  <2>8. n \in RowsDone(r)' <=>
          /\ n \in 0..(job[r].rows - 1)
          /\ \/ \E d \in Finished(r)' : InRange(r, d, n)
             \/ \E v \in Busy' : worker'[v].run = r /\ Past(v, n)'
    BY RowsDoneAreNow
  <2> QED
    BY <1>3, <2>6, <2>7, <2>8
<1>6. RowsDone(r)' \subseteq RowsDone(r) /\ RowsDone(r) \subseteq RowsDone(r)'
  BY <1>5, Zenon
<1>7. RowsDone(r)' = RowsDone(r)
  BY <1>6, Zenon
<1> QED
  BY <1>2, <1>3, <1>4, <1>7

LEMMA CountsRelease ==
  ASSUME TypeOK, OnePlace, NEW w \in Pool, ReleasePermit(w),
         NEW r, r = worker[w].run, NEW c, c = worker[w].lo
  PROVE  /\ Started(r)' = Started(r) /\ Finished(r)' = Finished(r)
         /\ ChunksAt(r, "rows")' = ChunksAt(r, "rows")
         /\ RowsDone(r)' = RowsDone(r)
<1>1. /\ w \in Busy /\ UNCHANGED <<setup, job>> /\ r \in Runs
      /\ DOMAIN results'[r] = DOMAIN results[r] \cup {c}
  BY Released
<1>2. worker[w].at = "release"
  BY DEF ReleasePermit
<1>3. /\ \A v \in Pool \ {w} : worker'[v] = worker[v]
      /\ \A v \in Busy' \ {w} : v \in Busy
      /\ \A v \in Busy \ {w} : v \in Busy'
      /\ w \in Busy' => worker'[w].at = "fold"
      /\ Busy \subseteq Pool
  BY ReleasedThread DEF Busy
<1>4. \A v \in Busy \ {w} : worker[v].run = r => worker[v].lo # c
  BY <1>1, OwnChunk
<1>5. ASSUME NEW a \in {"rows", "release"}
      PROVE  /\ \A d : d \in ChunksAt(r, a)' <=>
               \E v \in Busy \ {w} :
                 worker[v].run = r /\ worker[v].at = a /\ worker[v].lo = d
             /\ \A d : d \in ChunksAt(r, a) <=>
               \E v \in Busy : worker[v].run = r /\ worker[v].at = a /\ worker[v].lo = d
  <2>1. \A d : d \in ChunksAt(r, a)' <=>
          \E v \in Busy' : worker'[v].run = r /\ worker'[v].at = a /\ worker'[v].lo = d
    BY ChunksAtAreNow
  <2>2. \A v \in Busy' : worker'[v].at = a => v # w
    BY <1>3
  <2>3. \A v \in Busy \ {w} : v \in Busy' /\ worker'[v] = worker[v]
    BY <1>3
  <2>4. \A v \in Busy' \ {w} : v \in Busy
    BY <1>3
  <2> QED
    BY <2>1, <2>2, <2>3, <2>4, ChunksAtAre
<1>6. \A d : d \in ChunksAt(r, "rows")' <=> d \in ChunksAt(r, "rows")
  BY <1>2, <1>5
<1>7. ChunksAt(r, "rows")' = ChunksAt(r, "rows")
  <2>1. /\ ChunksAt(r, "rows")' \subseteq ChunksAt(r, "rows")
        /\ ChunksAt(r, "rows") \subseteq ChunksAt(r, "rows")'
    BY <1>6, Zenon
  <2> QED
    BY <2>1, Zenon
<1>8. \A d : d \in ChunksAt(r, "release") <=> d \in ChunksAt(r, "release")' \/ d = c
  BY <1>1, <1>2, <1>4, <1>5
<1>9. Finished(r)' = Finished(r)
  <2>1. \A d : d \in Finished(r)' <=> d \in Finished(r)
    BY <1>1, <1>8 DEF Finished
  <2>2. Finished(r)' \subseteq Finished(r) /\ Finished(r) \subseteq Finished(r)'
    BY <2>1, Zenon
  <2> QED
    BY <2>2, Zenon
<1>10. Started(r)' = Started(r)
  BY <1>7, <1>9 DEF Started
<1>11. \A n : (\E v \in Busy' : worker'[v].run = r /\ Past(v, n)')
                <=> \E v \in Busy : worker[v].run = r /\ Past(v, n)
  <2> SUFFICES ASSUME NEW n
               PROVE  (\E v \in Busy' : worker'[v].run = r /\ Past(v, n)')
                        <=> \E v \in Busy : worker[v].run = r /\ Past(v, n)
    OBVIOUS
  <2>1. ~Past(w, n) /\ (w \in Busy' => ~Past(w, n)')
    BY <1>2, <1>3 DEF Past
  <2>2. \A v \in Busy \ {w} : worker'[v] = worker[v] /\ (Past(v, n)' <=> Past(v, n))
    BY <1>1, <1>3, Fixed DEF Past
  <2> QED
    BY <1>3, <2>1, <2>2
<1>12. \A n : n \in RowsDone(r)' <=> n \in RowsDone(r)
  <2> SUFFICES ASSUME NEW n PROVE n \in RowsDone(r)' <=> n \in RowsDone(r)
    OBVIOUS
  <2>1. n \in RowsDone(r) <=>
          /\ n \in 0..(job[r].rows - 1)
          /\ \/ \E d \in Finished(r) : InRange(r, d, n)
             \/ \E v \in Busy : worker[v].run = r /\ Past(v, n)
    BY RowsDoneAre
  <2>2. n \in RowsDone(r)' <=>
          /\ n \in 0..(job[r].rows - 1)
          /\ \/ \E d \in Finished(r)' : InRange(r, d, n)
             \/ \E v \in Busy' : worker'[v].run = r /\ Past(v, n)'
    BY <1>1, RowsDoneAreNow
  <2> QED
    BY <1>9, <1>11, <2>1, <2>2
<1>13. RowsDone(r)' \subseteq RowsDone(r) /\ RowsDone(r) \subseteq RowsDone(r)'
  BY <1>12, Zenon
<1>14. RowsDone(r)' = RowsDone(r)
  BY <1>13, Zenon
<1> QED
  BY <1>7, <1>9, <1>10, <1>14

-----------------------------------------------------------------------------
(* Calls in turn, and the metrics they share                               *)

Exact(r) ==
  /\ metrics.started = Cardinality(Started(r))
  /\ metrics.finished = Cardinality(Finished(r))
  /\ metrics.active = Cardinality(ChunksAt(r, "rows"))
  /\ metrics.rows = Cardinality(RowsDone(r))
  /\ metrics.throttled <= metrics.started
  /\ metrics.started > 0 => metrics.max_active >= 1
  /\ metrics.max_active <= setup.max_in_flight_chunks
  /\ metrics.max_active <= setup.num_threads
  /\ metrics.max_active <= ChunkCount(r)

LEMMA ExactIs ==
  /\ CountsAreExact <=>
       (setup.at_once = 1 => \A r \in Runs \ failed : run[r] = "running" => Exact(r))
  /\ (setup'.at_once = 1 => \A r \in Runs \ failed' : run'[r] = "running" => Exact(r)')
       => CountsAreExact'
BY DEF CountsAreExact, Exact

\* A call begins when no other is under way.
LEMMA NobodyRuns ==
  ASSUME TypeOK, InTurns, setup.at_once = 1, NEW r \in Runs, BeginRun(r)
  PROVE  /\ \A q \in Runs : run[q] # "running"
         /\ \A q \in Runs : run'[q] = "running" => q = r
<1> DEFINE U == {q \in Runs : run[q] = "running"}
<1>1. Cardinality(U) < 1 /\ run' = [run EXCEPT ![r] = "running"]
  BY DEF BeginRun
<1>2. ASSUME NEW q \in Runs, run[q] = "running" PROVE FALSE
  <2>1. U = {q}
    BY <1>2 DEF InTurns
  <2>2. Cardinality({q}) = 1
    BY FS_Singleton
  <2> HIDE DEF U
  <2> QED
    BY <1>1, <2>1, <2>2
<1> QED
  BY <1>1, <1>2 DEF TypeOK

LEMMA InTurnsStep == TypeOK /\ OnePlace /\ InTurns /\ [Next]_vars => InTurns'
<1> SUFFICES ASSUME TypeOK, OnePlace, InTurns, [Next]_vars, setup'.at_once = 1,
                    NEW p \in Runs, NEW q \in Runs,
                    run'[p] = "running", run'[q] = "running"
             PROVE  p = q
  BY DEF InTurns
<1>1. CASE UNCHANGED <<setup, run>>
  BY <1>1 DEF InTurns
<1>2. ASSUME NEW r \in Runs, BeginRun(r) PROVE p = q
  <2>1. setup.at_once = 1
    BY <1>2 DEF BeginRun
  <2> QED
    BY <1>2, <2>1, NobodyRuns
<1>3. ASSUME NEW r \in Runs, EndStep(r) PROVE p = q
  <2>1. UNCHANGED setup /\ \E x \in {"done", "panicked"} : run' = [run EXCEPT ![r] = x]
    BY <1>3 DEF EndStep, FinishRun, ResumePanic, FinishReduce, EndMetrics
  <2>2. run[p] = "running" /\ run[q] = "running"
    BY <2>1 DEF TypeOK
  <2> QED
    BY <2>1, <2>2 DEF InTurns
<1>4. ASSUME NEW w \in Pool, WorkerStep(w) \/ SpuriousWakeup(w) PROVE UNCHANGED <<setup, run>>
  BY <1>4 DEF WorkerStep, ChunkStep, TakeJob, SplitJob, CallAcquire, TakePermit,
              StartWaiting, SpuriousWakeup, StartChunk, OverflowPanic, ProcessRow,
              RowPanics, EndChunk, ReleasePermit, Unwind
<1> QED
  BY <1>1, <1>2, <1>3, <1>4 DEF Next, vars

LEMMA PanicsStep == TypeOK /\ OnePlace /\ PanicsAreOfChunks /\ [Next]_vars => PanicsAreOfChunks'
<1> SUFFICES ASSUME TypeOK, OnePlace, PanicsAreOfChunks, [Next]_vars
             PROVE  PanicsAreOfChunks'
  OBVIOUS
<1>1. CASE UNCHANGED <<job, failed>>
  BY <1>1 DEF PanicsAreOfChunks
<1>2. ASSUME NEW w \in Pool, OverflowPanic(w) \/ RowPanics(w) PROVE PanicsAreOfChunks'
  <2>1. /\ w \in Busy /\ worker[w].run \in Runs /\ UNCHANGED job
        /\ failed' = failed \cup {worker[w].run}
    BY <1>2, Panicked
  <2>2. job[worker[w].run].kind = "parallel"
    BY <2>1, AtChunk, RowsFacts
  <2> QED
    BY <2>1, <2>2 DEF PanicsAreOfChunks
<1>3. ASSUME NEW r \in Runs, BeginRun(r) \/ EndStep(r) PROVE UNCHANGED <<job, failed>>
  BY <1>3 DEF BeginRun, EndStep, FinishRun, ResumePanic, FinishReduce
<1>4. ASSUME NEW w \in Pool, WorkerStep(w) \/ SpuriousWakeup(w),
             ~(OverflowPanic(w) \/ RowPanics(w))
      PROVE  UNCHANGED <<job, failed>>
  BY <1>4 DEF WorkerStep, ChunkStep, TakeJob, SplitJob, CallAcquire, TakePermit,
              StartWaiting, SpuriousWakeup, StartChunk, ProcessRow, EndChunk, ReleasePermit
<1> QED
  BY <1>1, <1>2, <1>3, <1>4 DEF Next, vars

\* Steps that leave the counts and the metrics alone.
LEMMA ExactStays ==
  ASSUME NEW r, UNCHANGED <<setup, job, metrics>>, Exact(r),
         Started(r)' = Started(r), Finished(r)' = Finished(r),
         ChunksAt(r, "rows")' = ChunksAt(r, "rows"), RowsDone(r)' = RowsDone(r)
  PROVE  Exact(r)'
<1>1. ChunkCount(r)' = ChunkCount(r)
  BY Fixed
<1> QED
  BY <1>1 DEF Exact

LEMMA ExactBegins ==
  ASSUME TypeOK, OnePlace, NEW r \in Runs, BeginRun(r)
  PROVE  Exact(r)'
<1>1. /\ run[r] = "ready" /\ metrics' = ZeroMetrics(metrics.run_id + 1)
      /\ UNCHANGED <<setup, job, worker, results>>
  BY DEF BeginRun, BeginMetrics
<1>2. Busy' = Busy
  BY <1>1 DEF Busy, Pool
<1>3. DOMAIN results[r] = {} /\ \A v \in Busy : worker[v].run # r
  BY <1>1, AtChunk DEF OnePlace
<1>4. /\ ChunksAt(r, "rows")' = {} /\ ChunksAt(r, "release")' = {}
  BY <1>1, <1>2, <1>3, ChunksAtAreNow
<1>5. Finished(r)' = {}
  BY <1>1, <1>3, <1>4 DEF Finished
<1>6. Started(r)' = {}
  BY <1>4, <1>5 DEF Started
<1>7. RowsDone(r)' = {}
  <2>1. \A n : n \notin RowsDone(r)'
    BY <1>1, <1>2, <1>3, <1>5, RowsDoneAreNow
  <2> QED
    BY <2>1, Zenon
<1>8. /\ metrics'.started = 0 /\ metrics'.finished = 0 /\ metrics'.active = 0
      /\ metrics'.rows = 0 /\ metrics'.throttled = 0 /\ metrics'.max_active = 0
  BY <1>1 DEF ZeroMetrics
<1>9. /\ setup'.max_in_flight_chunks \in Nat /\ setup'.num_threads \in Nat
      /\ ChunkCount(r)' \in Nat
  BY <1>1, SetupFacts, ChunkCountIsNat, Fixed
<1>10. Cardinality({}) = 0
  BY FS_EmptySet
<1> QED
  BY <1>4, <1>5, <1>6, <1>7, <1>8, <1>9, <1>10 DEF Exact

\* A chunk that starts is in flight with those whose rows are being read.
LEMMA RoomToStart ==
  ASSUME TypeOK, OnePlace, PhasesFollow, Conserved, NEW w \in Busy,
         worker[w].at = "start", NEW r, r = worker[w].run
  PROVE  /\ Cardinality(ChunksAt(r, "rows")) + 1 <= setup.max_in_flight_chunks
         /\ Cardinality(ChunksAt(r, "rows")) + 1 <= setup.num_threads
         /\ Cardinality(ChunksAt(r, "rows")) + 1 <= ChunkCount(r)
         /\ Cardinality(ChunksAt(r, "rows")) + 1 < Word
<1> DEFINE c == worker[w].lo
           S == ChunksAt(r, "rows") \cup {c}
<1>1. r \in Runs /\ c \notin ChunksAt(r, "rows")
  BY WorkerFacts, AtIsOwn
<1>2. S \subseteq InFlight(r)
  BY ChunksAtAre DEF InFlight, WorkersOn, Executing
<1>3. /\ IsFiniteSet(ChunksAt(r, "rows")) /\ Cardinality(ChunksAt(r, "rows")) \in Nat
      /\ IsFiniteSet(InFlight(r)) /\ Cardinality(InFlight(r)) \in Nat
      /\ Cardinality(InFlight(r)) <= setup.max_in_flight_chunks
      /\ Cardinality(InFlight(r)) <= setup.num_threads
      /\ Cardinality(InFlight(r)) <= ChunkCount(r)
  BY <1>1, FiniteCounts, FewInFlight
<1>4. Cardinality(S) = Cardinality(ChunksAt(r, "rows")) + 1
  BY <1>1, <1>3, FS_AddElement
<1>5. Cardinality(S) <= Cardinality(InFlight(r))
  BY <1>2, <1>3, FS_Subset
<1>6. /\ setup.max_in_flight_chunks \in Nat /\ setup.num_threads \in Nat
      /\ setup.num_threads < Word /\ ChunkCount(r) \in Nat
  BY <1>1, SetupFacts, ChunkCountIsNat
<1> HIDE DEF S
<1> QED
  BY <1>3, <1>4, <1>5, <1>6

LEMMA ExactStart ==
  ASSUME TypeOK, OnePlace, PhasesFollow, Conserved, NEW w \in Pool, StartChunk(w),
         NEW r, r = worker[w].run, Exact(r)
  PROVE  Exact(r)'
<1> DEFINE c == worker[w].lo
           now == (metrics.active + 1) % Word
           m == MetricsAtStart(w)
<1>1. /\ w \in Busy /\ UNCHANGED <<setup, job>> /\ metrics' = m /\ worker[w].at = "start"
      /\ r \in Runs
  BY WorkerFacts DEF StartChunk
<1>2. /\ c \notin Started(r) /\ Started(r)' = Started(r) \cup {c}
      /\ Finished(r)' = Finished(r)
      /\ c \notin ChunksAt(r, "rows")
      /\ ChunksAt(r, "rows")' = ChunksAt(r, "rows") \cup {c}
      /\ RowsDone(r)' = RowsDone(r)
  BY CountsStart
<1>3. /\ Cardinality(Started(r)') = Cardinality(Started(r)) + 1
      /\ Cardinality(ChunksAt(r, "rows")') = Cardinality(ChunksAt(r, "rows")) + 1
  BY <1>1, <1>2, FiniteCounts, FS_AddElement
<1>4. /\ m.rows = metrics.rows /\ m.finished = metrics.finished
      /\ m.started = metrics.started + 1
      /\ m.throttled = metrics.throttled + (IF Throttled(w) THEN 1 ELSE 0)
      /\ m.active = now
      /\ m.max_active = IF now > metrics.max_active THEN now ELSE metrics.max_active
  BY <1>1, StartedMetrics
<1>5. /\ metrics.active + 1 <= setup.max_in_flight_chunks
      /\ metrics.active + 1 <= setup.num_threads
      /\ metrics.active + 1 <= ChunkCount(r)
      /\ metrics.active + 1 < Word
  BY <1>1, RoomToStart DEF Exact
<1>6. /\ metrics.started \in Nat /\ metrics.throttled \in Nat /\ metrics.max_active \in Nat
      /\ metrics.active \in Nat
  BY MetricsFields
<1>7. now = metrics.active + 1
  BY <1>5, <1>6
<1>8. ChunkCount(r)' = ChunkCount(r) /\ setup' = setup
  BY <1>1, Fixed
<1> HIDE DEF m, now, c
<1>9. /\ m.started = Cardinality(Started(r)')
      /\ m.finished = Cardinality(Finished(r)')
      /\ m.active = Cardinality(ChunksAt(r, "rows")')
      /\ m.rows = Cardinality(RowsDone(r)')
  BY <1>2, <1>3, <1>4, <1>7 DEF Exact
<1>10. m.throttled <= m.started
  BY <1>4, <1>6 DEF Exact
<1>11. /\ m.max_active >= 1
       /\ m.max_active <= setup.max_in_flight_chunks
       /\ m.max_active <= setup.num_threads
       /\ m.max_active <= ChunkCount(r)
  BY <1>4, <1>5, <1>6, <1>7 DEF Exact
<1> QED
  BY <1>1, <1>8, <1>9, <1>10, <1>11 DEF Exact

LEMMA ExactRow ==
  ASSUME TypeOK, OnePlace, PartsAreSequential, NEW w \in Pool, ProcessRow(w),
         NEW r, r = worker[w].run, Exact(r)
  PROVE  Exact(r)'
<1> DEFINE row == worker[w].row
           m == [metrics EXCEPT !.rows = metrics.rows + 1]
<1>1. /\ w \in Busy /\ UNCHANGED <<setup, job>> /\ r \in Runs
  BY WorkerFacts DEF ProcessRow
<1>2. metrics' = m
  BY DEF ProcessRow
<1>3. /\ Started(r)' = Started(r) /\ Finished(r)' = Finished(r)
      /\ ChunksAt(r, "rows")' = ChunksAt(r, "rows")
      /\ row \notin RowsDone(r) /\ RowsDone(r)' = RowsDone(r) \cup {row}
  BY CountsRow
<1>4. Cardinality(RowsDone(r)') = Cardinality(RowsDone(r)) + 1
  BY <1>1, <1>3, FiniteCounts, FS_AddElement
<1>5. /\ m.rows = metrics.rows + 1
      /\ m.started = metrics.started /\ m.finished = metrics.finished
      /\ m.active = metrics.active /\ m.throttled = metrics.throttled
      /\ m.max_active = metrics.max_active
  BY DEF TypeOK, Metrics
<1>6. ChunkCount(r)' = ChunkCount(r) /\ setup' = setup
  BY <1>1, Fixed
<1> HIDE DEF m
<1> QED
  BY <1>2, <1>3, <1>4, <1>5, <1>6 DEF Exact

LEMMA ExactEnd ==
  ASSUME TypeOK, OnePlace, PartsAreSequential, NEW w \in Pool, EndChunk(w),
         NEW r, r = worker[w].run, Exact(r)
  PROVE  Exact(r)'
<1> DEFINE c == worker[w].lo
           m == [metrics EXCEPT !.finished = @ + 1, !.active = (@ + Word - 1) % Word]
<1>1. /\ w \in Busy /\ UNCHANGED <<setup, job>> /\ r \in Runs
  BY WorkerFacts DEF EndChunk
<1>2. metrics' = m
  BY Zenon DEF EndChunk
<1>3. /\ Started(r)' = Started(r)
      /\ c \notin Finished(r) /\ Finished(r)' = Finished(r) \cup {c}
      /\ c \in ChunksAt(r, "rows") /\ ChunksAt(r, "rows")' = ChunksAt(r, "rows") \ {c}
      /\ RowsDone(r)' = RowsDone(r)
  BY CountsEnd
<1>4. /\ Cardinality(Finished(r)') = Cardinality(Finished(r)) + 1
      /\ Cardinality(ChunksAt(r, "rows")') = Cardinality(ChunksAt(r, "rows")) - 1
      /\ Cardinality(ChunksAt(r, "rows")') \in Nat
  <2>1. IsFiniteSet(Finished(r)) /\ IsFiniteSet(ChunksAt(r, "rows"))
    BY <1>1, FiniteCounts
  <2>2. Cardinality(Finished(r)') = Cardinality(Finished(r)) + 1
    BY <1>3, <2>1, FS_AddElement
  <2>3. /\ IsFiniteSet(ChunksAt(r, "rows") \ {c})
        /\ Cardinality(ChunksAt(r, "rows") \ {c}) = Cardinality(ChunksAt(r, "rows")) - 1
    <3> DEFINE S == ChunksAt(r, "rows")
    <3>1. c \in S /\ IsFiniteSet(S)
      BY <1>3, <2>1
    <3> HIDE DEF S, c
    <3>2. IsFiniteSet(S \ {c}) /\ Cardinality(S \ {c}) = Cardinality(S) - 1
      BY <3>1, FS_RemoveElement
    <3> QED
      BY <3>2 DEF S
  <2>4. Cardinality(ChunksAt(r, "rows") \ {c}) \in Nat
    BY <2>3, FS_CardinalityType
  <2> QED
    BY <1>3, <2>2, <2>3, <2>4
<1>5. /\ m.finished = metrics.finished + 1
      /\ m.active = (metrics.active + Word - 1) % Word
      /\ m.rows = metrics.rows /\ m.started = metrics.started
      /\ m.throttled = metrics.throttled /\ m.max_active = metrics.max_active
  BY EndedMetrics
<1>6. ChunkCount(r)' = ChunkCount(r) /\ setup' = setup
  BY <1>1, Fixed
<1>7. m.active = metrics.active - 1
  <2>1. metrics.active \in 0..(Word - 1) /\ metrics.active - 1 \in Nat
    BY <1>4, MetricsFields DEF Exact
  <2> QED
    BY <1>5, <2>1
<1> HIDE DEF m
<1> QED
  BY <1>2, <1>3, <1>4, <1>5, <1>6, <1>7 DEF Exact

LEMMA CountsAreExactStep ==
  TypeOK /\ OnePlace /\ PhasesFollow /\ Conserved /\ PartsAreSequential /\ InTurns
    /\ CountsAreExact /\ [Next]_vars => CountsAreExact'
<1> SUFFICES ASSUME TypeOK, OnePlace, PhasesFollow, Conserved, PartsAreSequential,
                    InTurns, CountsAreExact, [Next]_vars, setup'.at_once = 1,
                    NEW r \in Runs, r \notin failed', run'[r] = "running"
             PROVE  Exact(r)'
  BY ExactIs
<1>1. CASE UNCHANGED vars
  <2>1. Exact(r) /\ UNCHANGED <<setup, job, results, worker, metrics>>
    BY <1>1, ExactIs DEF vars
  <2>2. \A v : Reading(v)' <=> Reading(v)
    BY <2>1 DEF Reading, Busy, Pool
  <2> QED
    BY <2>1, <2>2, CountsSame, ExactStays
<1>2. ASSUME NEW q \in Runs, BeginRun(q) PROVE Exact(r)'
  <2>1. setup.at_once = 1
    BY <1>2 DEF BeginRun
  <2>2. r = q
    BY <1>2, <2>1, NobodyRuns
  <2> QED
    BY <1>2, <2>2, ExactBegins
<1>3. ASSUME NEW q \in Runs, EndStep(q) PROVE FALSE
  <2>1. /\ UNCHANGED setup /\ run[q] = "running"
        /\ \E x \in {"done", "panicked"} : run' = [run EXCEPT ![q] = x]
    BY <1>3 DEF EndStep, FinishRun, ResumePanic, FinishReduce, EndMetrics, Joined
  <2>2. run[r] = "running" /\ r # q
    BY <2>1 DEF TypeOK
  <2> QED
    BY <2>1, <2>2 DEF InTurns
<1>4. ASSUME NEW w \in Pool, WorkerStep(w) \/ SpuriousWakeup(w)
      PROVE  Exact(r)'
  <2>1. UNCHANGED <<setup, job, run>> /\ r \notin failed
    BY <1>4 DEF WorkerStep, ChunkStep, TakeJob, SplitJob, CallAcquire, TakePermit,
                StartWaiting, SpuriousWakeup, StartChunk, OverflowPanic, ProcessRow,
                RowPanics, EndChunk, ReleasePermit, Unwind
  <2>2. Exact(r) /\ run[r] = "running" /\ setup.at_once = 1
    BY <2>1, ExactIs
  <2>3. \A v \in Busy : worker[v].run = r
    BY <2>2, AtChunk, WorkerFacts DEF InTurns
  <2>4. CASE TakeJob(w)
    <3>1. PICK t \in tasks :
            worker' = [worker EXCEPT ![w] = Doing("job", t.run, t.lo, t.hi, 0, <<>>)]
      BY <2>4 DEF TakeJob
    <3>2. /\ UNCHANGED <<setup, job, results, metrics>> /\ worker[w] = Idle
      BY <2>4 DEF TakeJob
    <3> DEFINE x == Doing("job", t.run, t.lo, t.hi, 0, <<>>)
    <3>3. x.at = "job" /\ x # Idle
      BY DEF Doing, Idle
    <3> HIDE DEF x
    <3>4. /\ worker'[w] = x /\ \A v \in Pool \ {w} : worker'[v] = worker[v]
          /\ Busy' = Busy \cup {w} /\ w \notin Busy /\ Busy \subseteq Pool
      BY <3>1, <3>2, <3>3, Moved DEF Busy, x
    <3>5. /\ \A v : Reading(v)' <=> Reading(v)
          /\ \A v : Reading(v) => worker'[v] = worker[v]
      BY <3>3, <3>4 DEF Reading
    <3> QED
      BY <2>2, <3>2, <3>5, CountsSame, ExactStays
  <2>5. CASE SplitJob(w)
    <3>1. /\ w \in Busy /\ Busy' = Busy /\ UNCHANGED <<setup, job, results, metrics>>
          /\ worker'[w].at = "job" /\ worker[w].at = "job"
          /\ \A v \in Pool \ {w} : worker'[v] = worker[v]
      BY <2>5, SplitInTwo DEF Busy
    <3>2. Busy \subseteq Pool
      BY DEF Busy
    <3>3. /\ \A v : Reading(v)' <=> Reading(v)
          /\ \A v : Reading(v) => worker'[v] = worker[v]
      BY <3>1, <3>2 DEF Reading
    <3> QED
      BY <2>2, <3>1, <3>3, CountsSame, ExactStays
  <2>6. CASE CallAcquire(w) \/ TakePermit(w) \/ StartWaiting(w) \/ SpuriousWakeup(w)
    <3>1. /\ worker[w].at \notin {"rows", "release"}
          /\ worker'[w].at \notin {"rows", "release"}
          /\ UNCHANGED <<setup, job, results, metrics>>
      BY <2>6, StepsTo DEF CallAcquire, TakePermit, StartWaiting, SpuriousWakeup
    <3>2. /\ Busy' = Busy /\ Busy \subseteq Pool
          /\ \A v \in Pool \ {w} : worker'[v] = worker[v]
      BY <2>6, Stays DEF StaysInPlace, Busy
    <3>3. /\ \A v : Reading(v)' <=> Reading(v)
          /\ \A v : Reading(v) => worker'[v] = worker[v]
      BY <3>1, <3>2 DEF Reading
    <3> QED
      BY <2>2, <3>1, <3>3, CountsSame, ExactStays
  <2>7. CASE StartChunk(w)
    <3>1. worker[w].run = r
      BY <2>3, <2>7, WorkerFacts DEF StartChunk
    <3> QED
      BY <2>2, <2>7, <3>1, ExactStart
  <2>8. CASE ProcessRow(w)
    <3>1. worker[w].run = r
      BY <2>3, <2>8, WorkerFacts DEF ProcessRow
    <3> QED
      BY <2>2, <2>8, <3>1, ExactRow
  <2>9. CASE EndChunk(w)
    <3>1. worker[w].run = r
      BY <2>3, <2>9, WorkerFacts DEF EndChunk
    <3> QED
      BY <2>2, <2>9, <3>1, ExactEnd
  <2>10. CASE ReleasePermit(w)
    <3>1. worker[w].run = r /\ UNCHANGED <<setup, job, metrics>>
      BY <2>3, <2>10, WorkerFacts DEF ReleasePermit
    <3> QED
      BY <2>2, <2>10, <3>1, CountsRelease, ExactStays
  <2>11. CASE OverflowPanic(w) \/ RowPanics(w)
    <3>1. w \in Busy /\ failed' = failed \cup {worker[w].run}
      BY <2>11, Panicked
    <3> QED
      BY <2>3, <3>1
  <2> QED
    BY <1>4, <2>4, <2>5, <2>6, <2>7, <2>8, <2>9, <2>10, <2>11 DEF WorkerStep, ChunkStep
<1> QED
  BY <1>1, <1>2, <1>3, <1>4 DEF Next

\* Every row of a dataset is of some chunk.
LEMMA ChunkOfRow ==
  ASSUME TypeOK, NEW r \in Runs, job[r].kind = "parallel",
         NEW n \in 0..(job[r].rows - 1)
  PROVE  \E c \in ChunksOf(r) : InRange(r, c, n)
<1> DEFINE rows == job[r].rows
           s == setup.chunk_size
           c == n \div s
           d == DivCeil(rows, s)
<1>1. rows \in Nat /\ s \in Nat \ {0} /\ n \in Nat /\ n < rows
  BY SetupFacts DEF Call
<1>2. ChunksOf(r) = 0..(d - 1)
  BY DEF ChunksOf, ChunkCount
<1>3. /\ RowsOf(r, c).start = c * s
      /\ RowsOf(r, c).end = Least((c + 1) * s, rows)
  BY DEF RowsOf, ChunkRange
<1> HIDE DEF rows, s
<1>4. c \in Nat /\ c * s <= n /\ n < c * s + s
  BY <1>1, SMT
<1> HIDE DEF c
<1>5. (c + 1) * s = c * s + s /\ c * s \in Nat
  BY <1>1, <1>4, Multiples
<1>6. d \in Nat /\ rows <= d * s
  BY <1>1, ChunkBounds
<1> HIDE DEF d
<1>7. c < d
  <2>1. d < c => d * s + s <= c * s
    BY <1>1, <1>4, <1>6, Multiples
  <2>2. d * s \in Nat
    BY <1>1, <1>6, Multiples
  <2>3. d = c => d * s = c * s
    OBVIOUS
  <2> QED
    BY <1>1, <1>4, <1>5, <1>6, <2>1, <2>2, <2>3
<1>8. n < Least((c + 1) * s, rows)
  BY <1>1, <1>4, <1>5 DEF Least
<1>9. InRange(r, c, n)
  BY <1>3, <1>4, <1>8 DEF InRange
<1> QED
  BY <1>2, <1>4, <1>6, <1>7, <1>9

-----------------------------------------------------------------------------
(* The report of a run                                                     *)

Reported(r) ==
  /\ report[r].ended
  /\ report[r].rows = IF job[r].kind = "parallel" THEN job[r].rows ELSE 0
  /\ report[r].started = ChunkCount(r) /\ report[r].finished = ChunkCount(r)
  /\ report[r].throttled <= ChunkCount(r)
  /\ report[r].max_active <= Least(setup.max_in_flight_chunks,
                                   Least(setup.num_threads, ChunkCount(r)))
  /\ ChunkCount(r) > 0 => report[r].max_active >= 1

LEMMA ReportIs ==
  /\ ReportIsExact => \A r \in Runs : run[r] = "done" /\ setup.at_once = 1 => Reported(r)
  /\ (\A r \in Runs : run'[r] = "done" /\ setup'.at_once = 1 => Reported(r)')
       => ReportIsExact'
BY DEF ReportIsExact, Reported

\* What the metrics have counted when no chunk of a run is left.
LEMMA AllCounted ==
  ASSUME TypeOK, OnePlace, NEW r \in Runs, ChunksOf(r) \subseteq DOMAIN results[r],
         \A v \in Busy : worker[v].run # r
  PROVE  /\ Cardinality(Started(r)) = ChunkCount(r)
         /\ Cardinality(Finished(r)) = ChunkCount(r)
         /\ Cardinality(RowsDone(r)) = IF job[r].kind = "parallel" THEN job[r].rows ELSE 0
<1>1. Started(r) = ChunksOf(r) /\ Finished(r) = ChunksOf(r)
  <2>1. ChunksOf(r) \subseteq Finished(r) /\ Finished(r) \subseteq Started(r)
    BY DEF Finished, Started
  <2>2. Started(r) \subseteq ChunksOf(r)
    BY FiniteCounts
  <2> QED
    BY <2>1, <2>2, Zenon
<1>2. Cardinality(ChunksOf(r)) = ChunkCount(r)
  BY FiniteHolders
<1>3. CASE job[r].kind = "parallel"
  <2>1. \A n \in 0..(job[r].rows - 1) : n \in RowsDone(r)
    BY <1>1, <1>3, ChunkOfRow, RowsDoneAre
  <2>2. RowsDone(r) \subseteq 0..(job[r].rows - 1)
    BY FiniteCounts
  <2>3. RowsDone(r) = 0..(job[r].rows - 1)
    BY <2>1, <2>2, Zenon
  <2>4. 0 \in Int /\ job[r].rows - 1 \in Int /\ job[r].rows \in Nat
    BY SetupFacts DEF Call
  <2>5. Cardinality(0..(job[r].rows - 1))
          = IF 0 > job[r].rows - 1 THEN 0 ELSE (job[r].rows - 1) - 0 + 1
    BY <2>4, FS_Interval
  <2>6. Cardinality(RowsDone(r)) = job[r].rows
    BY <2>3, <2>4, <2>5
  <2> QED
    BY <1>1, <1>2, <1>3, <2>6
<1>4. CASE job[r].kind # "parallel"
  <2>1. ChunksOf(r) = {}
    BY <1>4 DEF ChunksOf, ChunkCount
  <2>2. \A n : n \notin RowsDone(r)
    BY <1>1, <2>1, RowsDoneAre
  <2>3. RowsDone(r) = {}
    BY <2>2, Zenon
  <2> QED
    BY <1>1, <1>2, <1>4, <2>3, FS_EmptySet
<1> QED
  BY <1>3, <1>4

LEMMA ReportEnds ==
  ASSUME TypeOK, OnePlace, SomePlace, PanicsAreOfChunks, CountsAreExact,
         setup.at_once = 1, NEW r \in Runs, FinishRun(r) \/ FinishReduce(r)
  PROVE  Reported(r)'
<1> DEFINE m == [metrics EXCEPT !.ended = TRUE]
<1>1. run[r] = "running" /\ r \notin failed
  BY DEF FinishRun, FinishReduce, Joined, PanicsAreOfChunks
<1>2. Exact(r)
  BY <1>1, ExactIs
<1>3. ChunksOf(r) \subseteq DOMAIN results[r] /\ \A v \in Busy : worker[v].run # r
  <2>1. CASE FinishRun(r)
    BY <2>1, AllDone DEF FinishRun, Joined, WorkersOn
  <2>2. CASE FinishReduce(r)
    <3>1. ChunksOf(r) = {}
      BY <2>2 DEF FinishReduce, ChunksOf, ChunkCount
    <3> QED
      BY <3>1, AtChunk
  <2> QED
    BY <2>1, <2>2
<1>4. /\ Cardinality(Started(r)) = ChunkCount(r)
      /\ Cardinality(Finished(r)) = ChunkCount(r)
      /\ Cardinality(RowsDone(r)) = IF job[r].kind = "parallel" THEN job[r].rows ELSE 0
  BY <1>3, AllCounted
<1>5. /\ metrics' = m /\ report' = [report EXCEPT ![r] = m]
      /\ UNCHANGED <<setup, job>>
  BY DEF FinishRun, FinishReduce, EndMetrics
<1>6. /\ m.ended /\ m.rows = metrics.rows
      /\ m.started = metrics.started /\ m.finished = metrics.finished
      /\ m.throttled = metrics.throttled /\ m.max_active = metrics.max_active
  BY DEF TypeOK, Metrics
<1>7. report'[r] = m
  <2> HIDE DEF m
  <2> QED
    BY <1>5 DEF TypeOK
<1>8. ChunkCount(r)' = ChunkCount(r) /\ setup' = setup /\ job' = job
  BY <1>5, Fixed
<1>9. /\ metrics.max_active \in Nat /\ ChunkCount(r) \in Nat
      /\ setup.max_in_flight_chunks \in Nat /\ setup.num_threads \in Nat
  BY MetricsFields, ChunkCountIsNat, SetupFacts
<1>10. metrics.max_active <= Least(setup.max_in_flight_chunks,
                                   Least(setup.num_threads, ChunkCount(r)))
  BY <1>2, <1>9 DEF Exact, Least
<1>11. metrics.throttled <= ChunkCount(r) /\ (ChunkCount(r) > 0 => metrics.max_active >= 1)
  BY <1>2, <1>4 DEF Exact
<1> HIDE DEF m
<1>12. /\ m.rows = IF job[r].kind = "parallel" THEN job[r].rows ELSE 0
       /\ m.started = ChunkCount(r) /\ m.finished = ChunkCount(r)
  BY <1>2, <1>4, <1>6 DEF Exact
<1> QED
  BY <1>6, <1>7, <1>8, <1>10, <1>11, <1>12 DEF Reported

LEMMA ReportStep ==
  TypeOK /\ OnePlace /\ SomePlace /\ PanicsAreOfChunks /\ CountsAreExact /\ ReportIsExact
    /\ [Next]_vars => ReportIsExact'
<1> SUFFICES ASSUME TypeOK, OnePlace, SomePlace, PanicsAreOfChunks, CountsAreExact,
                    ReportIsExact, [Next]_vars,
                    NEW r \in Runs, run'[r] = "done", setup'.at_once = 1
             PROVE  Reported(r)'
  BY ReportIs
<1>1. UNCHANGED <<setup, job>>
  BY DEF Next, vars, BeginRun, EndStep, FinishRun, ResumePanic, FinishReduce, WorkerStep,
         ChunkStep, TakeJob, SplitJob, CallAcquire, TakePermit, StartWaiting, StartChunk,
         OverflowPanic, ProcessRow, RowPanics, EndChunk, ReleasePermit, SpuriousWakeup,
         Unwind
<1>2. ASSUME run[r] = "done", report'[r] = report[r] PROVE Reported(r)'
  <2>1. Reported(r) /\ ChunkCount(r)' = ChunkCount(r)
    BY <1>1, <1>2, ReportIs, Fixed
  <2> QED
    BY <1>1, <1>2, <2>1 DEF Reported
<1>3. CASE UNCHANGED <<run, report>>
  BY <1>2, <1>3
<1>4. ASSUME NEW q \in Runs, BeginRun(q) \/ ResumePanic(q) PROVE Reported(r)'
  <2>1. /\ UNCHANGED report
        /\ \E x \in {"running", "panicked"} : run' = [run EXCEPT ![q] = x]
    BY <1>4 DEF BeginRun, ResumePanic
  <2>2. run[r] = "done"
    BY <2>1 DEF TypeOK
  <2> QED
    BY <1>2, <2>1, <2>2
<1>5. ASSUME NEW q \in Runs, FinishRun(q) \/ FinishReduce(q) PROVE Reported(r)'
  <2>1. CASE q = r
    BY <1>1, <1>5, <2>1, ReportEnds
  <2>2. CASE q # r
    <3>1. /\ run' = [run EXCEPT ![q] = "done"]
          /\ report' = [report EXCEPT ![q] = metrics']
      BY <1>5 DEF FinishRun, FinishReduce, EndMetrics
    <3>2. run[r] = "done" /\ report'[r] = report[r]
      BY <2>2, <3>1 DEF TypeOK
    <3> QED
      BY <1>2, <3>2
  <2> QED
    BY <2>1, <2>2
<1>6. ASSUME NEW w \in Pool, WorkerStep(w) \/ SpuriousWakeup(w)
      PROVE  UNCHANGED <<run, report>>
  BY <1>6 DEF WorkerStep, ChunkStep, TakeJob, SplitJob, CallAcquire, TakePermit,
              StartWaiting, StartChunk, OverflowPanic, ProcessRow, RowPanics, EndChunk,
              ReleasePermit, SpuriousWakeup, Unwind
<1> QED
  BY <1>3, <1>4, <1>5, <1>6 DEF Next, EndStep, vars

-----------------------------------------------------------------------------
(* The theorems                                                            *)

LEMMA InitInv == Init => IInv
<1> SUFFICES ASSUME Init PROVE IInv
  OBVIOUS
<1>1. TypeOK
  BY InitType
<1>2. Busy = {} /\ \A r \in Runs : run[r] = "ready" /\ DOMAIN results[r] = {}
  <2>1. run = [r \in Runs |-> "ready"] /\ results = [r \in Runs |-> <<>>]
        /\ worker = [w \in Pool |-> Idle]
    BY DEF Init
  <2>2. DOMAIN <<>> = {}
    OBVIOUS
  <2> QED
    BY <2>1, <2>2 DEF Busy
<1>3. /\ tasks = {} /\ failed = {}
      /\ \A r \in Runs : sem[r] = NewSemaphore(ChunksOf(r), setup.max_in_flight_chunks)
  BY DEF Init
<1>4. OnePlace /\ SomePlace
  BY <1>2, <1>3 DEF OnePlace, SomePlace
<1>5. \A r \in Runs : /\ InPhase(sem[r], "holding") = {}
                      /\ sem[r].permits = setup.max_in_flight_chunks
                      /\ \A c \in ChunksOf(r) : sem[r].phase[c] = "out"
  <2> SUFFICES ASSUME NEW r \in Runs
               PROVE  /\ InPhase(sem[r], "holding") = {}
                      /\ sem[r].permits = setup.max_in_flight_chunks
                      /\ \A c \in ChunksOf(r) : sem[r].phase[c] = "out"
    OBVIOUS
  <2>1. /\ sem[r].permits = setup.max_in_flight_chunks
        /\ sem[r].phase = [c \in ChunksOf(r) |-> "out"]
    <3> DEFINE C == ChunksOf(r)
               n == setup.max_in_flight_chunks
    <3>1. sem[r] = NewSemaphore(C, n)
      BY <1>3
    <3> HIDE DEF C, n
    <3>2. sem[r].permits = n /\ sem[r].phase = [c \in C |-> "out"]
      BY <3>1 DEF NewSemaphore
    <3> QED
      BY <3>2 DEF C, n
  <2> QED
    BY <2>1 DEF InPhase
<1>6. PhasesFollow
  BY <1>2, <1>3, <1>5 DEF PhasesFollow
<1>7. Conserved
  <2>1. Cardinality({}) = 0 /\ setup.max_in_flight_chunks \in Nat
    BY <1>1, FS_EmptySet, SetupFacts
  <2>2. \A r \in Runs : Cardinality(InPhase(sem[r], "holding")) = 0
    BY <1>5, <2>1, Zenon
  <2> QED
    BY <1>5, <2>1, <2>2 DEF Conserved
<1>8. PartsAreSequential
  BY <1>2 DEF PartsAreSequential
<1>9. PanicsAreOfChunks /\ InTurns /\ CountsAreExact
  BY <1>2, <1>3 DEF PanicsAreOfChunks, InTurns, CountsAreExact
<1>10. OutputIsSequential /\ ReportIsExact
  BY <1>2 DEF OutputIsSequential, ReportIsExact
<1> QED
  BY <1>1, <1>4, <1>6, <1>7, <1>8, <1>9, <1>10 DEF IInv

(***************************************************************************)
(* However rayon splits and steals the chunks, whoever the condition       *)
(* variable wakes and whatever closures panic: each chunk is in one place, *)
(* the semaphore of its run knows where, per_chunk holds what a sequential *)
(* loop lets through, and the shared metrics count what has been done.     *)
(***************************************************************************)
THEOREM Invariance == Spec => []IInv
<1>1. Init => IInv
  BY InitInv
<1>2. IInv /\ [Next]_vars => IInv'
  <2> SUFFICES ASSUME IInv, [Next]_vars PROVE IInv'
    OBVIOUS
  <2>1. /\ TypeOK /\ OnePlace /\ SomePlace /\ PhasesFollow /\ Conserved
        /\ PartsAreSequential /\ PanicsAreOfChunks /\ InTurns /\ CountsAreExact
        /\ OutputIsSequential /\ ReportIsExact
    BY DEF IInv
  <2>2. TypeOK' /\ OnePlace' /\ SomePlace'
    BY <2>1, TypeStep, OnePlaceStep, SomePlaceStep
  <2>3. PhasesFollow' /\ Conserved'
    BY <2>1, <2>2, PhasesFollowStep, ConservedStep
  <2>4. PartsAreSequential' /\ OutputIsSequential'
    BY <2>1, PartsStep, OutputStep
  <2>5. PanicsAreOfChunks' /\ InTurns' /\ CountsAreExact'
    BY <2>1, PanicsStep, InTurnsStep, CountsAreExactStep
  <2>6. ReportIsExact'
    BY <2>1, ReportStep
  <2> QED
    BY <2>2, <2>3, <2>4, <2>5, <2>6 DEF IInv
<1> QED
  BY <1>1, <1>2, PTL DEF Spec

(***************************************************************************)
(* The engine's options, calls, semaphores, jobs, threads, outputs and     *)
(* counters keep their types; active_chunks stays within a usize.          *)
(***************************************************************************)
THEOREM TypeCorrect == Spec => []TypeOK
<1>1. IInv => TypeOK
  BY DEF IInv
<1> QED
  BY <1>1, Invariance, PTL

(***************************************************************************)
(* The permits of a run are free, with a thread that executes a chunk, or  *)
(* lost to a panic: max_in_flight_chunks bounds the chunks under way.      *)
(***************************************************************************)
THEOREM PermitsStayAccountedFor == Spec => []PermitsAccountedFor
<1>1. IInv => PermitsAccountedFor
  BY PermitsFollow DEF IInv
<1> QED
  BY <1>1, Invariance, PTL

(***************************************************************************)
(* filter_parallel and map_parallel return what a sequential loop would,   *)
(* for every dataset, chunk size, number of threads and of permits.        *)
(***************************************************************************)
THEOREM OutputStaysSequential == Spec => []OutputIsSequential
<1>1. IInv => OutputIsSequential
  BY DEF IInv
<1> QED
  BY <1>1, Invariance, PTL

(***************************************************************************)
(* While calls do not overlap, RunFinished reports the run that finished.  *)
(***************************************************************************)
THEOREM ReportStaysExact == Spec => []ReportIsExact
<1>1. IInv => ReportIsExact
  BY DEF IInv
<1> QED
  BY <1>1, Invariance, PTL
=============================================================================
