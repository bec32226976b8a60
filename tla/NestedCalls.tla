---------------------------- MODULE NestedCalls ----------------------------
(***************************************************************************)
(* src/execution/mod.rs, called from its own closure: a filter_parallel    *)
(* whose predicate calls filter_parallel of the same engine.  Each call    *)
(* has a semaphore of its own; what the calls share is the pool, and a     *)
(* thread of the pool that waits for a half of its job runs other jobs     *)
(* meanwhile, on top of what it has begun.  The counters of                *)
(* the metrics are left out: without overflow checks no step depends on    *)
(* them.                                                                   *)
(*                                                                         *)
(* rayon is external, and modelled as in ExecutionEngine, but for the      *)
(* stack of a thread.  Nobody is woken without reason here, so that a      *)
(* state without a next one is a hang.                                     *)
(***************************************************************************)
EXTENDS SemaphoreOps, Integers, Sequences, FiniteSets, SequencesExt

CONSTANT Nestings  \* [threads, permits, outer, inner, calling]

\* Run 0 has the chunks 1..outer; a chunk of `calling` makes one nested call,
\* which is the run of its number, with `inner` chunks.
VARIABLES
  nest,    \* one of Nestings
  stack,   \* of each thread: the jobs it has begun, the last one on top
  halves,  \* the halves of jobs that nobody has taken
  sems,    \* the semaphore of each run
  through  \* of each run: its finished chunks
nestVars == <<nest, stack, halves, sems, through>>

Chunks0(n, r) == 1..(IF r = 0 THEN n.outer ELSE n.inner)
Half(r, first, last) == [run |-> r, first |-> first, last |-> last]

\* A job: all its chunks, those it has still to run itself, the halves it has
\* split off, and where its thread is: "job", "fold", "acquire", "chunk", "call",
\* "returned" or "await".
Begun(h) ==
  [run |-> h.run, first |-> h.first, last |-> h.last, lo |-> h.first, hi |-> h.last,
   off |-> {}, at |-> "job"]

NestInit ==
  /\ nest \in Nestings
  /\ stack = [w \in 1..nest.threads |->
                IF w = 1 THEN <<Begun(Half(0, 1, nest.outer))>> ELSE <<>>]
  /\ halves = {}
  /\ sems = [r \in 0..nest.outer |-> NewSemaphore(Chunks0(nest, r), nest.permits)]
  /\ through = [r \in 0..nest.outer |-> {}]
-----------------------------------------------------------------------------
\* Mutant: one semaphore, made with the engine.
OfTheEngine(r) == 0

\* Semaphore::new in the call.
OfTheCall(r) == r

Top(w) == Last(stack[w])
Sem(w) == sems[OfTheCall(Top(w).run)]
SemBecomes(w, s) == sems' = [sems EXCEPT ![OfTheCall(Top(w).run)] = s]
Is(w, places) == stack[w] # <<>> /\ Top(w).at \in places
Becomes(w, job) == stack' = [stack EXCEPT ![w] = Append(Front(@), job)]
Moves1(w, place) == Becomes(w, [Top(w) EXCEPT !.at = place])
Begins(w, h) == stack' = [stack EXCEPT ![w] = Append(@, Begun(h))]

SplitHalf(w) ==
  /\ Is(w, {"job"}) /\ Top(w).lo < Top(w).hi
  /\ LET mid == (Top(w).lo + Top(w).hi) \div 2
         right == Half(Top(w).run, mid + 1, Top(w).hi)
     IN  /\ halves' = halves \cup {right}
         /\ Becomes(w, [Top(w) EXCEPT !.hi = mid, !.off = @ \cup {right}])
  /\ UNCHANGED <<nest, sems, through>>

EnterAcquire(w) ==
  /\ Is(w, {"job", "fold"})
  /\ Moves1(w, "acquire")
  /\ SemBecomes(w, Called(Sem(w), Top(w).lo))
  /\ UNCHANGED <<nest, halves, through>>

GetPermit(w) ==
  /\ Is(w, {"acquire"}) /\ CanTake(Sem(w), Top(w).lo)
  /\ Moves1(w, "chunk")
  /\ SemBecomes(w, Taken(Sem(w), Top(w).lo))
  /\ UNCHANGED <<nest, halves, through>>

FallAsleep(w) ==
  /\ Is(w, {"acquire"}) /\ MustWait(Sem(w), Top(w).lo)
  /\ SemBecomes(w, Waiting(Sem(w), Top(w).lo))
  /\ UNCHANGED <<nest, stack, halves, through>>

\* install on a thread of the pool runs in place, on top of the chunk.
Calling(job) == job.run = 0 /\ job.lo \in nest.calling
CallAgain(w) ==
  /\ Is(w, {"chunk"}) /\ Calling(Top(w))
  /\ stack' = [stack EXCEPT ![w] =
       Append(Front(@), [Top(w) EXCEPT !.at = "call"])
         \o <<Begun(Half(Top(w).lo, 1, nest.inner))>>]
  /\ UNCHANGED <<nest, halves, sems, through>>

LeaveChunk(w) ==
  /\ Is(w, {"returned"}) \/ (Is(w, {"chunk"}) /\ ~Calling(Top(w)))
  /\ LET job == Top(w)
     IN  /\ \E s \in AfterRelease(Sem(w), job.lo) : SemBecomes(w, s)
         /\ through' = [through EXCEPT ![job.run] = @ \cup {job.lo}]
         /\ IF job.lo = job.hi THEN Moves1(w, "await")
            ELSE Becomes(w, [job EXCEPT !.at = "fold", !.lo = @ + 1])
  /\ UNCHANGED <<nest, halves>>

(* rayon's join: a job ends when its halves have, wherever they run.       *)

Within(job, h) == job.run = h.run /\ job.first >= h.first /\ job.last <= h.last
Ended(h) ==
  /\ h \notin halves /\ (h.first)..(h.last) \subseteq through[h.run]
  /\ \A v \in DOMAIN stack : \A i \in 1..Len(stack[v]) : ~Within(stack[v][i], h)

EndJob(w) ==
  /\ Is(w, {"await"}) /\ \A h \in Top(w).off : Ended(h)
  /\ stack' = [stack EXCEPT ![w] =
       LET below == Front(@)
       IN  IF below # <<>> /\ Last(below).at = "call"
           THEN Append(Front(below), [Last(below) EXCEPT !.at = "returned"]) ELSE below]
  /\ UNCHANGED <<nest, halves, sems, through>>

TakesHalf(w, h) ==
  h \in halves /\ halves' = halves \ {h} /\ Begins(w, h) /\ UNCHANGED <<nest, sems, through>>

\* A half that nobody has stolen is popped again.
TakeBack(w) == Is(w, {"await"}) /\ \E h \in Top(w).off : TakesHalf(w, h)

\* A thread without work, or that waits for a stolen half, takes any.
Steal(w) ==
  /\ stack[w] # <<>> => /\ Is(w, {"await"}) /\ Top(w).off \cap halves = {}
                        /\ ~\A h \in Top(w).off : Ended(h)
  /\ \E h \in halves : TakesHalf(w, h)

NestNext == \E w \in DOMAIN stack :
  \/ SplitHalf(w) \/ EnterAcquire(w) \/ GetPermit(w) \/ FallAsleep(w)
  \/ CallAgain(w) \/ LeaveChunk(w) \/ EndJob(w) \/ TakeBack(w) \/ Steal(w)
-----------------------------------------------------------------------------
NestOver == \A w \in DOMAIN stack : stack[w] = <<>>

(***************************************************************************)
(* A call that calls the engine again hangs only in one way: a thread that *)
(* is inside the call has stolen one more of its chunks and waits for a    *)
(* permit, and all permits are with chunks whose nested calls cannot end   *)
(* before it goes on.  This takes a second thread and fewer permits than   *)
(* chunks; without nested calls, with one thread, or with a permit for     *)
(* each chunk, it never happens.                                           *)
(***************************************************************************)
NestedHangIsBuried == (~NestOver /\ ~ENABLED NestNext) =>
  /\ nest.threads > 1 /\ nest.permits < nest.outer /\ nest.calling # {}
  /\ \E w \in DOMAIN stack : Is(w, {"acquire"}) /\ Top(w).run = 0 /\ Len(stack[w]) > 1
  /\ \A c \in InPhase(sems[0], "holding") : c \in nest.calling /\ c \notin through[0]
  /\ Cardinality(InPhase(sems[0], "holding")) = nest.permits
=============================================================================
