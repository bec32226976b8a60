---------------------------- MODULE PythonEngine ----------------------------
(***************************************************************************)
(* src/python-wrapper/src/lib.rs, observer_bridge.rs: the ExecutionEngine  *)
(* of the Python package.  A call lets go of the interpreter's lock (the   *)
(* GIL), the threads of the pool take it for each row's callback, and the  *)
(* errors of callbacks meet in one cell under a mutex of the call's own.   *)
(*                                                                         *)
(* The engine is abstract: chunks of one row, taken by any thread in any   *)
(* order, each once (ExecutionEngine says how).  The GIL is external.      *)
(***************************************************************************)
EXTENDS Integers, Sequences, FiniteSets, SequencesExt

CONSTANTS
  PyCalls,   \* Python threads that call the engine, each once
  Pythons,   \* what they call: see PyCall
  Threads    \* the threads of the pool

\* The rows of a call by what the callback makes of them: "keep" and "drop"
\* (filter), "row" (map), or "fails": it raises, or returns what is no bool, no
\* list, or a list of the wrong length or with a cell that cannot be converted.
\* hook: the engine has an on_execution_event.
PyCall == [kind: {"filter", "map", "reduce"}, rows: Seq({"keep", "drop", "row", "fails"}),
           hook: BOOLEAN]

Nobody == "nobody"
ASSUME PythonsAssumption ==
  /\ Pythons \subseteq [PyCalls -> PyCall]
  /\ IsFiniteSet(Threads) /\ Nobody \notin PyCalls

VARIABLES
  calls,   \* what each thread calls
  caller,  \* where each call is
  gil,     \* who holds the GIL: a call, a thread of the pool, or nobody
  thread,  \* what each thread of the pool does
  err,     \* of each call: the row whose error is in the cell, 0 for none
  locked,  \* of each call: the thread that holds the cell's mutex, or nobody
  made,    \* of each call: what its rows have become so far
  failing  \* of each call: the rows whose callback has failed
pyVars == <<calls, caller, gil, thread, err, locked, made, failing>>

AtRest == [at |-> "idle", call |-> Nobody, row |-> 0]
RowsOfCall(c) == 1..Len(calls[c].rows)

PyInit ==
  /\ calls \in Pythons
  /\ caller = [c \in PyCalls |-> "ready"]
  /\ gil = Nobody
  /\ thread = [t \in Threads |-> AtRest]
  /\ err = [c \in PyCalls |-> 0]
  /\ locked = [c \in PyCalls |-> Nobody]
  /\ made = [c \in PyCalls |-> <<>>]
  /\ failing = [c \in PyCalls |-> {}]
-----------------------------------------------------------------------------
(* The thread that calls.  Python runs it with the GIL.                    *)

CallMethod(c) ==
  /\ caller[c] = "ready" /\ gil = Nobody
  /\ gil' = c /\ caller' = [caller EXCEPT ![c] = "method"]
  /\ UNCHANGED <<calls, thread, err, locked, made, failing>>

\* Mutant: the engine is run without Python::detach.
Attached(c) == c

\* py.detach.
GilOfRun(c) == Nobody

Detach(c) ==
  /\ caller[c] = "method" /\ calls[c].kind # "reduce"
  /\ gil' = GilOfRun(c)
  /\ caller' = [caller EXCEPT ![c] = IF calls[c].hook THEN "run_started" ELSE "running"]
  /\ UNCHANGED <<calls, thread, err, locked, made, failing>>

\* on_event attaches; what the hook raises is dropped.
CallerEvent(c) ==
  /\ caller[c] \in {"run_started", "run_finished"} /\ gil \in {Nobody, GilOfRun(c)}
  /\ caller' = [caller EXCEPT ![c] = IF @ = "run_started" THEN "running" ELSE "attaching"]
  /\ UNCHANGED <<calls, gil, thread, err, locked, made, failing>>

\* The parallel iterator has an output for every row.
EngineReturns(c) ==
  /\ caller[c] = "running"
  /\ DOMAIN made[c] = RowsOfCall(c) /\ \A t \in Threads : thread[t].call # c
  /\ caller' = [caller EXCEPT ![c] = IF calls[c].hook THEN "run_finished" ELSE "attaching"]
  /\ UNCHANGED <<calls, gil, thread, err, locked, made, failing>>

Return(c) ==
  /\ caller[c] = "attaching" /\ gil \in {Nobody, GilOfRun(c)}
  /\ gil' = Nobody
  /\ caller' = [caller EXCEPT ![c] = IF err[c] # 0 THEN "raised" ELSE "returned"]
  /\ UNCHANGED <<calls, thread, err, locked, made, failing>>

\* reduce keeps the GIL: its events attach again on the same thread.
ReduceInPlace(c) ==
  /\ caller[c] = "method" /\ calls[c].kind = "reduce"
  /\ gil' = Nobody /\ caller' = [caller EXCEPT ![c] = "returned"]
  /\ UNCHANGED <<calls, thread, err, locked, made, failing>>
-----------------------------------------------------------------------------
(* A thread of the pool, row by row.                                       *)

GoOn(t, at) == thread' = [thread EXCEPT ![t].at = at]
BeingMade(c) == {thread[t].row : t \in {u \in Threads : thread[u].call = c}}

TakeRow(t) ==
  /\ thread[t] = AtRest
  /\ \E c \in PyCalls : \E i \in RowsOfCall(c) \ (DOMAIN made[c] \cup BeingMade(c)) :
       /\ caller[c] = "running"
       /\ thread' = [thread EXCEPT ![t] =
            [at |-> IF calls[c].hook THEN "chunk_started" ELSE "check",
             call |-> c, row |-> i]]
  /\ UNCHANGED <<calls, caller, gil, err, locked, made, failing>>

\* ChunkStarted and ChunkFinished, each of them under the GIL.
ThreadEvent(t) ==
  /\ gil = Nobody
  /\ \/ thread[t].at = "chunk_started" /\ GoOn(t, "check")
     \/ thread[t].at = "chunk_finished" /\ thread' = [thread EXCEPT ![t] = AtRest]
  /\ UNCHANGED <<calls, caller, gil, err, locked, made, failing>>

\* The row has its output.
RowDone(t, result) ==
  LET c == thread[t].call
  IN  /\ made' = [made EXCEPT ![c] = [i \in DOMAIN @ \cup {thread[t].row} |->
                                        IF i = thread[t].row THEN result ELSE @[i]]]
      /\ IF calls[c].hook THEN GoOn(t, "chunk_finished")
         ELSE thread' = [thread EXCEPT ![t] = AtRest]

\* false, or null_row.
Substitute(c) == IF calls[c].kind = "filter" THEN "drop" ELSE "null_row"

\* Rows after an error are not called back.
CheckCell(t) ==
  LET c == thread[t].call
  IN  /\ thread[t].at = "check" /\ locked[c] = Nobody
      /\ IF err[c] # 0 THEN RowDone(t, Substitute(c)) ELSE GoOn(t, "attach") /\ UNCHANGED made
      /\ UNCHANGED <<calls, caller, gil, err, locked, failing>>

Attach(t) ==
  /\ thread[t].at = "attach" /\ gil = Nobody
  /\ gil' = t /\ GoOn(t, "call")
  /\ UNCHANGED <<calls, caller, err, locked, made, failing>>

\* The callback and the conversions of the row and of what it returns.
CallBack(t) ==
  LET c == thread[t].call
      outcome == calls[c].rows[thread[t].row]
  IN  /\ thread[t].at = "call"
      /\ \/ /\ outcome # "fails"
            /\ RowDone(t, outcome) /\ gil' = Nobody
            /\ UNCHANGED failing
         \/ /\ outcome = "fails"
            /\ GoOn(t, "lock") /\ failing' = [failing EXCEPT ![c] = @ \cup {thread[t].row}]
            /\ UNCHANGED <<gil, made>>
      /\ UNCHANGED <<calls, caller, err, locked>>

\* Mutant: the error is stored only where there is a row to report.
Unstored(c, row) == IF row = 1 THEN 0 ELSE row

\* *err_ref.lock().unwrap() = Some(e), with the GIL.
Stored(c, row) == row

StoreError(t) ==
  LET c == thread[t].call
  IN  /\ thread[t].at = "lock" /\ locked[c] = Nobody
      /\ IF err[c] = 0
         THEN /\ RowDone(t, Substitute(c)) /\ gil' = Nobody
              /\ err' = [err EXCEPT ![c] = Stored(c, thread[t].row)] /\ UNCHANGED locked
         ELSE /\ GoOn(t, "drop") /\ locked' = [locked EXCEPT ![c] = t]
              /\ UNCHANGED <<err, gil, made>>
      /\ UNCHANGED <<calls, caller, failing>>

\* The assignment drops the error that was there, under the mutex: an exception
\* and its traceback, whose destructors may run Python and let go of the GIL.
DropSwitches(t) ==
  /\ thread[t].at = "drop" /\ gil = t
  /\ gil' = Nobody /\ GoOn(t, "resume")
  /\ UNCHANGED <<calls, caller, err, locked, made, failing>>

ReplaceError(t) ==
  LET c == thread[t].call
  IN  /\ \/ thread[t].at = "drop"
         \/ thread[t].at = "resume" /\ gil = Nobody
      /\ err' = [err EXCEPT ![c] = Stored(c, thread[t].row)]
      /\ locked' = [locked EXCEPT ![c] = Nobody] /\ gil' = Nobody
      /\ RowDone(t, Substitute(c))
      /\ UNCHANGED <<calls, caller, failing>>
-----------------------------------------------------------------------------
CallerStep(c) == Detach(c) \/ CallerEvent(c) \/ EngineReturns(c) \/ Return(c)
                 \/ ReduceInPlace(c)
ThreadStep(t) ==
  \/ TakeRow(t) \/ ThreadEvent(t) \/ CheckCell(t) \/ Attach(t) \/ CallBack(t)
  \/ StoreError(t) \/ ReplaceError(t)
PyNext ==
  \/ \E c \in PyCalls : CallMethod(c) \/ CallerStep(c)
  \/ \E t \in Threads : ThreadStep(t) \/ DropSwitches(t)

\* The operating system runs every thread, and the GIL goes to one of those that
\* wait for it.  Nobody need call, and no destructor need run Python.
PyFairness ==
  /\ \A c \in PyCalls : WF_pyVars(CallerStep(c))
  /\ \A t \in Threads : WF_pyVars(ThreadStep(t))
-----------------------------------------------------------------------------
(***************************************************************************)
(* A call returns only if no callback has failed, and then each row is     *)
(* what the callback made of it, never the null_row or the false that      *)
(* stand in for rows after an error; it raises the error of a row of its   *)
(* own whose callback did fail.  Once one has, each thread makes at most   *)
(* the callback it had begun.                                              *)
(***************************************************************************)
PythonAnswerIsTrue == \A c \in PyCalls :
  /\ caller[c] = "returned" /\ calls[c].kind # "reduce" =>
       \A i \in RowsOfCall(c) : calls[c].rows[i] # "fails" /\ made[c][i] = calls[c].rows[i]
  /\ caller[c] = "raised" => err[c] \in failing[c]
  /\ Cardinality(failing[c]) <= Cardinality(Threads)

\* A thread drops an error under the mutex, without the GIL; the one that has
\* the GIL waits for the mutex.
DeadlockedByDrop == \E c \in PyCalls : \E t, u \in Threads :
  /\ locked[c] = t /\ thread[t].at = "resume"
  /\ gil = u /\ thread[u].at = "lock" /\ thread[u].call = c

(***************************************************************************)
(* Every call returns or raises, whoever waits for the GIL and for the     *)
(* cell and whichever callbacks fail, unless dropping an error that is     *)
(* replaced lets go of the GIL: no other order of callbacks, hooks and     *)
(* errors hangs it.                                                        *)
(***************************************************************************)
PythonCallsEnd ==
  []<>(DeadlockedByDrop
         \/ \A c \in PyCalls : caller[c] \in {"ready", "returned", "raised"})
=============================================================================
