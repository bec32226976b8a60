---------------------------- MODULE KafkaStream ----------------------------
(***************************************************************************)
(* src/kafka/: export_dataset_to_kafka, which sends the rows of a DataSet  *)
(* to a topic; poll_kafka_window, which polls up to max_records records of *)
(* it; and elt_load_kafka_records, which turns them into a landing         *)
(* DataSet.  The broker, librdkafka and the host's loop around the polls   *)
(* are outside the repository.  The host is one of two:                    *)
(*   "windows"   calls poll_kafka_window, which makes a consumer for each  *)
(*               window, never commits it, and drops it when it returns;   *)
(*   "consumer"  calls poll_window of a consumer of its own, and commits   *)
(*               it once the window has landed (docs/adr/007: "consumer    *)
(*               manual commit left to host loop").                        *)
(* Either starts again when a call returns an error.                       *)
(***************************************************************************)
EXTENDS Integers, SequencesExt

CONSTANTS
  Partitions, PartitionOf,  \* of the topic; PartitionOf[row]: by the row's key
  Setups,                   \* what may be set up: see SetupsAssumption
  QueueLimit,               \* queue.buffering.max.messages
  MaxRecords,               \* max_records of a window
  MaxExports, MaxFaults     \* bounds on the exports, and on what goes wrong

\* The host, auto.offset.reset, the number of rows that each export is given,
\* and the rows that do not parse as the landing schema.
ASSUME SetupsAssumption == \A s \in Setups :
  /\ s.host \in {"windows", "consumer"} /\ s.reset \in {"earliest", "latest"}
  /\ s.rows \in Nat /\ s.bad \subseteq 1..s.rows
  /\ \A row \in 1..s.rows : PartitionOf[row] \in Partitions
ASSUME StreamBoundsAssumption ==
  {QueueLimit, MaxRecords, MaxExports, MaxFaults} \subseteq Nat

VARIABLES
  setup,      \* the setup chosen
  log,        \* log[p]: the records of a partition; the n-th has offset n
  export,     \* [number, step, sent] of the latest call of export_dataset
  queue,      \* the messages librdkafka has not disposed of
  expired,    \* the messages it gave up
  answer,     \* answer[k] of export k: "none", "ok" or "error"
  step,       \* of the host: "idle", "polling", "polled" or "landed"
  pos,        \* pos[p]: how much of p the consumer has read
  window,     \* the records polled: out of poll_window
  committed,  \* committed[p]: offset the group goes on from
  landed,     \* the records that have been written to the landing table
  faults

producer == <<export, queue, expired, answer>>
consumer == <<step, pos, window, committed, landed>>
streamVars == <<setup, log, producer, consumer, faults>>

host == setup.host
reset == setup.reset
rows == setup.rows
Exports == 1..MaxExports
None == -1       \* no position, no committed offset: 1..None is empty
Messages == [row : 1..rows, export : Exports]
Offset(p, n) == [partition |-> p, n |-> n]
Records == [partition : Partitions, n : Nat]
RowAt(at) == log[at.partition][at.n].row
Unassigned == [p \in Partitions |-> None]

ExportOK ==
  /\ setup \in Setups
  /\ log \in [Partitions -> Seq(Messages)]
  /\ export \in [number : 0..MaxExports, step : {"ended", "sending"},
                 sent : 0..rows]
  /\ export.step = "sending" => export.number \in Exports
  /\ queue \subseteq Messages /\ expired \subseteq Messages
  /\ answer \in [Exports -> {"none", "ok", "error"}]
  /\ faults \in 0..MaxFaults

IsOffsets(f) ==
  /\ f \in [Partitions -> Nat \union {None}]
  /\ \A p \in Partitions : f[p] <= Len(log[p])

HostOK ==
  /\ step \in {"idle", "polling", "polled", "landed"}
  /\ IsOffsets(pos) /\ IsOffsets(committed)
  /\ window \in Seq(Records) /\ Len(window) <= MaxRecords
  /\ landed \subseteq Records
  /\ \A at \in Range(window) \union landed : at.n \in 1..Len(log[at.partition])

StreamTypeOK == ExportOK /\ HostOK

StreamInit ==
  /\ setup \in Setups
  /\ log = [p \in Partitions |-> <<>>]
  /\ export = [number |-> 0, step |-> "ended", sent |-> 0]
  /\ queue = {} /\ expired = {}
  /\ answer = [k \in Exports |-> "none"]
  /\ step = "idle" /\ pos = Unassigned /\ window = <<>>
  /\ committed = Unassigned /\ landed = {} /\ faults = 0

Fault == faults < MaxFaults /\ faults' = faults + 1

-----------------------------------------------------------------------------
(* export_dataset_to_kafka *)

BeginExport ==
  /\ export.step = "ended" /\ export.number < MaxExports
  /\ export' = [number |-> export.number + 1, step |-> "sending", sent |-> 0]
  /\ UNCHANGED <<setup, log, queue, expired, answer, consumer, faults>>

\* Nothing polls the producer between two sends, so librdkafka counts every
\* message sent, delivered or not, until the flush.
QueueIsFull == export.sent >= QueueLimit

Send ==
  /\ export.step = "sending" /\ export.sent < rows /\ ~QueueIsFull
  /\ queue' = queue \union {[row |-> export.sent + 1, export |-> export.number]}
  /\ export' = [export EXCEPT !.sent = @ + 1]
  /\ UNCHANGED <<setup, log, expired, answer, consumer, faults>>

\* The producer is dropped with the call, which purges what it still holds.
Answered(a) ==
  /\ answer' = [answer EXCEPT ![export.number] = a]
  /\ export' = [export EXCEPT !.step = "ended"]
  /\ queue' = {}

\* A row has no payload, or librdkafka refuses the message.
SendFails ==
  /\ export.step = "sending" /\ export.sent < rows
  /\ IF QueueIsFull THEN UNCHANGED faults ELSE Fault
  /\ Answered("error")
  /\ UNCHANGED <<setup, log, expired, consumer>>

\* Mutant: no flush before the return.
Unflushed == TRUE
\* flush returns when no message is left, whatever became of them.
Flushed == queue = {}

FlushReturns ==
  /\ export.step = "sending" /\ export.sent = rows
  /\ Flushed
  /\ Answered("ok")
  /\ UNCHANGED <<setup, log, expired, consumer, faults>>

FlushTimesOut ==
  /\ export.step = "sending" /\ export.sent = rows
  /\ queue # {} /\ Fault
  /\ Answered("error")
  /\ UNCHANGED <<setup, log, expired, consumer>>

-----------------------------------------------------------------------------
(* librdkafka and the broker, while an export sends and flushes *)

Appended(m) ==
  log' = [log EXCEPT ![PartitionOf[m.row]] = Append(@, m)]

Deliver(m) ==
  /\ Appended(m)
  /\ queue' = queue \ {m}
  /\ UNCHANGED <<setup, export, expired, answer, consumer, faults>>

\* The acknowledgement is lost: the message is sent again, or given up.
DeliverUnheard(m) ==
  /\ Appended(m) /\ Fault
  /\ UNCHANGED <<setup, producer, consumer>>

\* message.timeout.ms has passed.
Expire(m) ==
  /\ Fault
  /\ queue' = queue \ {m} /\ expired' = expired \union {m}
  /\ UNCHANGED <<setup, log, export, answer, consumer>>

-----------------------------------------------------------------------------
(* The host and its windows *)

\* Mutant: auto.offset.reset is not passed on, and librdkafka's is latest.
ResetToLatest(p) == Len(log[p])
\* Where a consumer without a position goes on, once it is assigned p.
ResetTo(p) == IF reset = "earliest" THEN 0 ELSE Len(log[p])

StartAt(p) == IF committed[p] = None THEN ResetTo(p) ELSE committed[p]

BeginWindow ==
  /\ step = "idle"
  /\ step' = "polling" /\ window' = <<>>
  /\ pos' = IF host = "windows" THEN Unassigned ELSE pos
  /\ UNCHANGED <<setup, log, producer, committed, landed, faults>>

Assign(p) ==
  /\ step = "polling" /\ pos[p] = None
  /\ pos' = [pos EXCEPT ![p] = StartAt(p)]
  /\ UNCHANGED <<setup, log, producer, step, window, committed, landed, faults>>

WindowIsOpen == Len(window) < MaxRecords

Poll(p) ==
  /\ step = "polling" /\ WindowIsOpen
  /\ pos[p] # None /\ pos[p] < Len(log[p])
  /\ window' = Append(window, Offset(p, pos[p] + 1))
  /\ pos' = [pos EXCEPT ![p] = @ + 1]
  /\ UNCHANGED <<setup, log, producer, step, committed, landed, faults>>

\* The window is full, or its 15 seconds have passed, whatever it holds.
EndWindow ==
  /\ step = "polling"
  /\ step' = "polled"
  /\ UNCHANGED <<setup, log, producer, pos, window, committed, landed, faults>>

\* The host's loop ends with the error and starts again with a new consumer.
StartAgain ==
  /\ step' = "idle" /\ window' = <<>> /\ pos' = Unassigned
  /\ UNCHANGED <<committed, landed>>

PollFails ==
  /\ step = "polling" /\ WindowIsOpen /\ Fault
  /\ StartAgain
  /\ UNCHANGED <<setup, log, producer>>

\* Mutant: a record that does not parse is left out.
LandingInPart(records) == {{at \in records : RowAt(at) \notin setup.bad}}
\* The landing DataSet of a window, if there is one: a record that does not
\* parse fails them all.
LandingOf(records) ==
  IF \E at \in records : RowAt(at) \in setup.bad THEN {} ELSE {records}

Land ==
  /\ step = "polled"
  /\ \E table \in LandingOf(Range(window)) : landed' = landed \union table
  /\ step' = "landed"
  /\ UNCHANGED <<setup, log, producer, pos, window, committed, faults>>

LandingFails ==
  /\ step = "polled" /\ LandingOf(Range(window)) = {}
  /\ StartAgain
  /\ UNCHANGED <<setup, log, producer, faults>>

\* A host of poll_kafka_window has no consumer it could commit with.
GoOn ==
  /\ step = "landed"
  /\ step' = "idle" /\ window' = <<>>
  /\ committed' = IF host = "windows" THEN committed
                  ELSE [p \in Partitions |->
                          IF pos[p] = None THEN committed[p] ELSE pos[p]]
  /\ UNCHANGED <<setup, log, producer, pos, landed, faults>>

HostCrashes ==
  /\ step # "idle" /\ Fault
  /\ StartAgain
  /\ UNCHANGED <<setup, log, producer>>

-----------------------------------------------------------------------------
Export == BeginExport \/ Send \/ SendFails \/ FlushReturns \/ FlushTimesOut
Deliveries == \E m \in queue : Deliver(m) \/ DeliverUnheard(m) \/ Expire(m)
Windows == BeginWindow \/ EndWindow \/ Land \/ LandingFails \/ GoOn
Polls == \E p \in Partitions : Assign(p) \/ Poll(p)

StreamNext == Export \/ Deliveries \/ Windows \/ Polls \/ PollFails \/ HostCrashes

\* The host goes on, and a partition that could be polled window after window
\* is: 15 seconds are sometimes enough.  Nobody has to export.
StreamFairness ==
  /\ WF_streamVars(Windows)
  /\ \A p \in Partitions : SF_streamVars(Assign(p)) /\ SF_streamVars(Poll(p))

StreamSpec == StreamInit /\ [][StreamNext]_streamVars /\ StreamFairness

-----------------------------------------------------------------------------
(***************************************************************************)
(* What Ok(sent) of export_dataset_to_kafka means: each row is in the      *)
(* topic, or its message timed out, which flush does not tell.  It does    *)
(* not mean that each row was delivered (producer.rs: "flush before return *)
(* (at-least-once)"), and no DataSet above the queue's limit gets it.      *)
(***************************************************************************)
OkIsSettled == \A k \in Exports : answer[k] = "ok" =>
  /\ rows <= QueueLimit
  /\ \A r \in 1..rows :
       LET m == [row |-> r, export |-> k]
       IN  m \in expired \union Range(log[PartitionOf[r]])

(***************************************************************************)
(* At least once: no record before a committed offset is missing from the  *)
(* landing table, with crashes, poll errors and records that do not parse, *)
(* if the group began at the earliest offset.  Windows are landed whole or *)
(* not at all.                                                             *)
(***************************************************************************)
CommittedIsLanded == reset = "earliest" =>
  \A p \in Partitions : \A n \in 1..committed[p] : Offset(p, n) \in landed

(***************************************************************************)
(* A host with a consumer of its own lands every record, if all of them    *)
(* parse: once nobody exports any more it has them all, whatever failed    *)
(* before (docs/adr/007: "At-least-once baseline").                        *)
(***************************************************************************)
EverythingLanded == []<>(
  (host = "consumer" /\ reset = "earliest" /\ setup.bad = {}) =>
    \A p \in Partitions : \A n \in DOMAIN log[p] : Offset(p, n) \in landed)

(***************************************************************************)
(* What KafkaStreamSource says of poll_window: "poll the next bounded      *)
(* window".  Nothing having gone wrong, a window has no record that a      *)
(* window before it had.                                                   *)
(***************************************************************************)
WindowIsNext == faults = 0 /\ step \in {"polling", "polled"} =>
  \A i \in DOMAIN window : window[i] \notin landed
=============================================================================
