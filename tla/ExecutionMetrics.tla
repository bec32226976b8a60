-------------------------- MODULE ExecutionMetrics --------------------------
(***************************************************************************)
(* src/execution/observer.rs: the counters of ExecutionMetrics, one atomic *)
(* access per step.  Module ExecutionEngine takes each method as one step; *)
(* here the threads of the pool are inside on_chunk_start, with its        *)
(* compare-and-exchange loop, and on_chunk_end at the same time, one call  *)
(* follows another on the engine, and a monitoring thread takes snapshots  *)
(* of the counters whenever it likes.                                      *)
(***************************************************************************)
EXTENDS Naturals, FiniteSets, Sequences

CONSTANTS
  Threads,   \* the threads of the pool
  MaxRuns,   \* bound on the calls made, one after the other
  Chunks,    \* chunks of each call
  RowsEach   \* rows of each chunk

ASSUME ThreadsAssumption == IsFiniteSet(Threads)
ASSUME SizesAssumption ==
  MaxRuns \in Nat /\ Chunks \in Nat \ {0} /\ RowsEach \in Nat \ {0}

VARIABLES
  c,         \* the atomics, by field
  pc, todo,  \* each thread's place in its chunk, and the rows to go
  now, cur,  \* the locals of on_chunk_start and update_max_usize
  left,      \* chunks of the call nobody has begun
  caller,    \* "idle", "begin", "running" or "over"
  resetting, \* the place in ResetOrder of begin_run's next store
  seen,      \* the fields the monitor's snapshot has loaded so far
  overlap,   \* ghost: "begin_run" if one ran during that snapshot, or "none"
  peak,      \* ghost: the most chunks that were active at once in this call
  done       \* ghost: rows processed in each call

metricsVars == <<c, pc, todo, now, cur, left, caller, resetting, seen, overlap, peak,
          done>>

\* The stores of begin_run and the loads of snapshot, in program order;
\* elapsed is 0 until end_run (the Option a snapshot makes of it: None).
ResetOrder == <<"run_id", "elapsed", "rows", "started", "finished", "throttle",
                "active", "max">>
\* Mutant: snapshot loads chunks_started before rows_processed.
StartedFirst == <<"run_id", "elapsed", "started", "rows", "finished",
                  "throttle", "max">>

LoadOrder == <<"run_id", "elapsed", "rows", "started", "finished", "throttle",
               "max">>

Fields == {"run_id", "elapsed", "rows", "started", "finished", "throttle",
           "active", "max"}

MetricsInit ==
  /\ c = [f \in Fields |-> 0]
  /\ pc = [t \in Threads |-> "out"]
  /\ todo = [t \in Threads |-> 0]
  /\ now = [t \in Threads |-> 0]
  /\ cur = [t \in Threads |-> 0]
  /\ left = 0
  /\ caller = "idle"
  /\ resetting = 1
  /\ seen = <<>>
  /\ overlap = "none"
  /\ peak = 0
  /\ done = [n \in 1..MaxRuns |-> 0]

Add(f, n) == c' = [c EXCEPT ![f] = @ + n]
Goto(t, place) == pc' = [pc EXCEPT ![t] = place]
ThreadOnly == UNCHANGED <<left, caller, resetting, seen, overlap>>
-----------------------------------------------------------------------------
(* The thread that makes the calls.                                        *)

CallBegins ==
  /\ caller \in {"idle", "over"} /\ c["run_id"] < MaxRuns
  /\ caller' = "begin" /\ resetting' = 1
  /\ overlap' = "begin_run"
  /\ UNCHANGED <<c, pc, todo, now, cur, left, seen, peak, done>>

\* begin_run: fetch_add on run_id, then a store of 0 to every other counter.
ResetField ==
  /\ caller = "begin" /\ resetting <= Len(ResetOrder)
  /\ LET f == ResetOrder[resetting]
     IN  c' = [c EXCEPT ![f] = IF f = "run_id" THEN @ + 1 ELSE 0]
  /\ resetting' = resetting + 1
  /\ UNCHANGED <<pc, todo, now, cur, left, caller, seen, overlap, peak, done>>

ChunksBegin ==
  /\ caller = "begin" /\ resetting > Len(ResetOrder)
  /\ caller' = "running" /\ left' = Chunks /\ peak' = 0
  /\ UNCHANGED <<c, pc, todo, now, cur, resetting, seen, overlap, done>>

EndRun ==
  /\ caller = "running" /\ left = 0
  /\ \A t \in Threads : pc[t] = "out"
  /\ caller' = "over"
  /\ Add("elapsed", 1)
  /\ UNCHANGED <<pc, todo, now, cur, left, resetting, seen, overlap, peak, done>>
-----------------------------------------------------------------------------
(* A thread and one chunk.                                                 *)

TakeChunk(t) ==
  /\ caller = "running" /\ left > 0 /\ pc[t] = "out"
  /\ left' = left - 1
  /\ todo' = [todo EXCEPT ![t] = RowsEach]
  /\ \E place \in {"throttle", "started"} : Goto(t, place)
  /\ UNCHANGED <<c, now, cur, caller, resetting, seen, overlap, peak, done>>

OnThrottleWait(t) ==
  /\ pc[t] = "throttle"
  /\ Add("throttle", 1) /\ Goto(t, "started")
  /\ UNCHANGED <<todo, now, cur, peak, done>> /\ ThreadOnly

CountStarted(t) ==
  /\ pc[t] = "started"
  /\ Add("started", 1) /\ Goto(t, "active")
  /\ UNCHANGED <<todo, now, cur, peak, done>> /\ ThreadOnly

CountActive(t) ==
  /\ pc[t] = "active"
  /\ Add("active", 1) /\ Goto(t, "load")
  /\ now' = [now EXCEPT ![t] = c["active"] + 1]
  /\ peak' = IF c["active"] + 1 > peak THEN c["active"] + 1 ELSE peak
  /\ UNCHANGED <<todo, cur, done>> /\ ThreadOnly

\* update_max_usize returns when the maximum is `now` or more; its locals go.
MaxRecorded(t) ==
  /\ Goto(t, "row")
  /\ now' = [now EXCEPT ![t] = 0] /\ cur' = [cur EXCEPT ![t] = 0]

LoadMax(t) ==
  /\ pc[t] = "load"
  /\ IF now[t] <= c["max"] THEN MaxRecorded(t)
     ELSE /\ cur' = [cur EXCEPT ![t] = c["max"]]
          /\ Goto(t, "cas") /\ UNCHANGED now
  /\ UNCHANGED <<c, todo, peak, done>> /\ ThreadOnly

\* Mutant: a store where the code has compare_exchange.
PlainStore(t) == TRUE

\* compare_exchange(cur, now): on failure, round the loop again.
MayExchange(t) == c["max"] = cur[t]

ExchangeMax(t) ==
  /\ pc[t] = "cas"
  /\ IF MayExchange(t)
     THEN c' = [c EXCEPT !["max"] = now[t]] /\ MaxRecorded(t)
     ELSE Goto(t, "load") /\ UNCHANGED <<c, now, cur>>
  /\ UNCHANGED <<todo, peak, done>> /\ ThreadOnly

OnRowProcessed(t) ==
  /\ pc[t] = "row" /\ todo[t] > 0
  /\ Add("rows", 1)
  /\ todo' = [todo EXCEPT ![t] = @ - 1]
  /\ done' = [done EXCEPT ![c["run_id"]] = @ + 1]
  /\ UNCHANGED <<pc, now, cur, peak>> /\ ThreadOnly

CountFinished(t) ==
  /\ pc[t] = "row" /\ todo[t] = 0
  /\ Add("finished", 1) /\ Goto(t, "inactive")
  /\ UNCHANGED <<todo, now, cur, peak, done>> /\ ThreadOnly

CountInactive(t) ==
  /\ pc[t] = "inactive"
  /\ c' = [c EXCEPT !["active"] = @ - 1] /\ Goto(t, "out")
  /\ UNCHANGED <<todo, now, cur, peak, done>> /\ ThreadOnly
-----------------------------------------------------------------------------
(* The monitor: snapshot loads one field after the other.                  *)

LoadField ==
  /\ Len(seen) < Len(LoadOrder)
  /\ seen' = Append(seen, c[LoadOrder[Len(seen) + 1]])
  /\ overlap' = IF caller = "begin" THEN "begin_run"
                 ELSE IF seen = <<>> THEN "none" ELSE overlap
  /\ UNCHANGED <<c, pc, todo, now, cur, left, caller, resetting, peak, done>>

NextSnapshot ==
  /\ Len(seen) = Len(LoadOrder)
  /\ seen' = <<>> /\ overlap' = "none"
  /\ UNCHANGED <<c, pc, todo, now, cur, left, caller, resetting, peak, done>>
-----------------------------------------------------------------------------
ChunkStep(t) ==
  \/ TakeChunk(t) \/ OnThrottleWait(t) \/ CountStarted(t) \/ CountActive(t)
  \/ LoadMax(t) \/ ExchangeMax(t) \/ OnRowProcessed(t)
  \/ CountFinished(t) \/ CountInactive(t)
CallerStep == CallBegins \/ ResetField \/ ChunksBegin \/ EndRun

MetricsNext ==
  \/ \E t \in Threads : ChunkStep(t)
  \/ CallerStep \/ LoadField \/ NextSnapshot

MetricsSpec == MetricsInit /\ [][MetricsNext]_metricsVars
-----------------------------------------------------------------------------
Places == {"out", "throttle", "started", "active", "load", "cas", "row",
           "inactive"}

MetricsTypeOK ==
  /\ c \in [Fields -> Nat]
  /\ pc \in [Threads -> Places]
  /\ todo \in [Threads -> 0..RowsEach]
  /\ now \in [Threads -> Nat] /\ cur \in [Threads -> Nat]
  /\ left \in 0..Chunks
  /\ caller \in {"idle", "begin", "running", "over"}
  /\ resetting \in 1..(Len(ResetOrder) + 1)
  /\ seen \in Seq(Nat) /\ Len(seen) <= Len(LoadOrder)
  /\ overlap \in {"none", "begin_run"}
  /\ peak \in Nat
  /\ done \in [1..MaxRuns -> Nat]

\* Threads between the two steps that count a chunk as active.
Active == {t \in Threads : pc[t] \in {"load", "cas", "row", "inactive"}}

(***************************************************************************)
(* When a call is over, max_active_chunks is the most chunks that were     *)
(* active at once: no update is overwritten by a smaller one and none is   *)
(* given up, whatever the other threads do to the compare-and-exchange.    *)
(***************************************************************************)
PeakIsRecorded == caller = "over" => c["max"] = peak

(***************************************************************************)
(* active_chunks counts the threads inside a chunk, and never runs ahead   *)
(* of the peak that is to be recorded.                                     *)
(***************************************************************************)
ActiveIsCounted ==
  caller \in {"running", "over"} =>
    c["active"] = Cardinality(Active) /\ c["active"] <= peak

(***************************************************************************)
(* Why both hold.  begin_run has cleared active_chunks and the maximum     *)
(* before a chunk starts; and while a thread has not got past              *)
(* update_max_usize, its `now` is at most the peak, and either the maximum *)
(* is the peak already or some such thread still carries it.               *)
(***************************************************************************)
InUpdate == {t \in Threads : pc[t] \in {"load", "cas"}}

ThreadsOutBetweenCalls ==
  caller # "running" => \A t \in Threads : pc[t] = "out"

ClearedInOrder == caller = "begin" =>
  /\ resetting > 7 => c["active"] = 0
  /\ resetting > 8 => c["max"] = 0

PeakIsCarried == caller \in {"running", "over"} =>
  /\ c["max"] <= peak
  /\ \A t \in InUpdate : now[t] <= peak
  /\ c["max"] = peak \/ \E t \in InUpdate : now[t] = peak

\* A thread exchanges only a maximum it found to be below its own count.
CasIsAbove == \A t \in Threads : pc[t] = "cas" => cur[t] < now[t]

MetricsIInv ==
        /\ MetricsTypeOK /\ CasIsAbove /\ ThreadsOutBetweenCalls /\ ClearedInOrder
        /\ ActiveIsCounted /\ PeakIsCarried

\* The value a completed snapshot has for field f.
WholeSnapshot == Len(seen) = Len(LoadOrder)
Seen(f) == seen[CHOOSE i \in 1..Len(LoadOrder) : LoadOrder[i] = f]

(***************************************************************************)
(* A snapshot that no begin_run overlaps is about the run whose run_id it  *)
(* carries, though its fields are loaded one by one: it has no more rows   *)
(* than that run has processed and than the chunks it has started hold,    *)
(* and when it says the run has ended it has all of that run.              *)
(***************************************************************************)
UntornSnapshot == (WholeSnapshot /\ overlap = "none" /\ Seen("run_id") > 0) =>
  /\ Seen("rows") <= done[Seen("run_id")]
  /\ Seen("rows") <= RowsEach * Seen("started")
  /\ Seen("elapsed") > 0 =>
       /\ Seen("rows") = Chunks * RowsEach
       /\ Seen("started") = Chunks /\ Seen("finished") = Chunks
=============================================================================
