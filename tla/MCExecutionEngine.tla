------------------------- MODULE MCExecutionEngine -------------------------
(***************************************************************************)
(* Calls on the engine itself, calls of the engine from its own closures,  *)
(* or calls from Python on an abstract engine: one of the three, while the *)
(* others have nothing to do.                                              *)
(***************************************************************************)
EXTENDS ExecutionEngine, NestedCalls, PythonEngine

Parallel(rows, kept, bad) ==
  [kind |-> "parallel", rows |-> rows, kept |-> kept, bad |-> bad]
Reduce(rows) == [kind |-> "reduce", rows |-> rows, kept |-> {}, bad |-> {}]

\* Calls one after the other on three threads and two permits: an empty
\* dataset, a filter that keeps some rows, a reduce; or a mapper that panics on
\* one row, before or after a call that does not.
InTurn(chosen) ==
  [num_threads |-> 3, chunk_size |-> 2, max_in_flight_chunks |-> 2,
   overflow_checks |-> FALSE, at_once |-> 1, calls |-> chosen]
Whole == InTurn({Parallel(0, {}, {}), Parallel(5, {0, 3, 4}, {}), Reduce(3)})
Panicking == InTurn({Parallel(3, {0, 2}, {}), Parallel(6, 0..5, {2})})

\* Two calls at a time on two threads and one permit: a filter, a mapper that
\* panics, and a reduce; the build checks overflow.
Together ==
  [num_threads |-> 2, chunk_size |-> 1, max_in_flight_chunks |-> 1,
   overflow_checks |-> TRUE, at_once |-> 2,
   calls |-> {Parallel(2, {1}, {}), Parallel(2, 0..1, {1}), Reduce(2)}]

AllSetups == {Whole, Panicking, Together}

\* A mapper that panics on the first row of one chunk or of two.
PanickingMapper ==
  {[num_threads |-> 2, chunk_size |-> 1, max_in_flight_chunks |-> 1,
    overflow_checks |-> FALSE, at_once |-> 1,
    calls |-> {Parallel(4, 0..3, {2}), Parallel(4, 0..3, {1, 2})}]}

\* From Python: three rows that fail at once beside a reduce, two filters with
\* hooks, and a mapper that fails on one row.
CONSTANTS p1, p2
FromPython(kind, rows, hook) == [kind |-> kind, rows |-> rows, hook |-> hook]
SmallPythons ==
  {p1 :> FromPython("map", <<"fails", "fails", "fails">>, FALSE)
     @@ p2 :> FromPython("reduce", <<>>, FALSE),
   p1 :> FromPython("map", <<"row", "fails", "row">>, FALSE)
     @@ p2 :> FromPython("filter", <<"keep", "drop">>, FALSE),
   p1 :> FromPython("filter", <<"keep", "fails">>, TRUE)
     @@ p2 :> FromPython("map", <<"row">>, TRUE)}

\* Nested calls: on one, two or three threads, with fewer permits than chunks or
\* one for each, from some of the chunks, from all or from none.
Nesting(threads, permits, outer, inner, calling) ==
  [threads |-> threads, permits |-> permits, outer |-> outer, inner |-> inner,
   calling |-> calling]
SmallNestings ==
  {Nesting(1, 1, 3, 2, {1, 2}), Nesting(2, 1, 3, 2, {1}), Nesting(2, 2, 4, 2, {1, 3}),
   Nesting(2, 3, 3, 2, 1..3), Nesting(3, 1, 3, 2, 1..3), Nesting(3, 2, 3, 2, {1, 2}),
   Nesting(3, 1, 4, 1, {})}
-----------------------------------------------------------------------------
NoEngine ==
  /\ setup = [Whole EXCEPT !.at_once = 0]
  /\ job = [r \in Runs |-> Reduce(0)] /\ run = [r \in Runs |-> "panicked"]
  /\ sem = [r \in Runs |-> NewSemaphore({}, setup.max_in_flight_chunks)]
  /\ tasks = {} /\ worker = [w \in Pool |-> Idle]
  /\ results = [r \in Runs |-> <<>>] /\ failed = {} /\ metrics = ZeroMetrics(0)
  /\ report = [r \in Runs |-> ZeroMetrics(0)] /\ output = [r \in Runs |-> <<>>]
NoPython ==
  /\ calls = [c \in PyCalls |-> FromPython("reduce", <<>>, FALSE)]
  /\ caller = [c \in PyCalls |-> "returned"]
  /\ gil = Nobody /\ thread = [t \in Threads |-> AtRest]
  /\ err = [c \in PyCalls |-> 0] /\ locked = [c \in PyCalls |-> Nobody]
  /\ made = [c \in PyCalls |-> <<>>] /\ failing = [c \in PyCalls |-> {}]

NoNested ==
  /\ nest = Nesting(1, 1, 0, 0, {}) /\ stack = <<<<>>>> /\ halves = {}
  /\ sems = <<>> /\ through = <<>>

OneInit ==
  \/ Init /\ NoNested /\ NoPython
  \/ NestInit /\ NoEngine /\ NoPython
  \/ PyInit /\ NoEngine /\ NoNested
OneNext ==
  \/ Next /\ UNCHANGED <<nestVars, pyVars>>
  \/ NestNext /\ UNCHANGED <<vars, pyVars>>
  \/ PyNext /\ UNCHANGED <<vars, nestVars>>
OneSpec ==
  OneInit /\ [][OneNext]_<<vars, nestVars, pyVars>> /\ Fairness /\ PyFairness
=============================================================================
