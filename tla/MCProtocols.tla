----------------------------- MODULE MCProtocols -----------------------------
(***************************************************************************)
(* The parts that never end: the semaphore of an engine, incremental loads *)
(* up to a watermark, and the producer and the consumers of Kafka.  They   *)
(* have nothing in common, so each runs while nothing happens to the       *)
(* others, with its own fairness.                                          *)
(***************************************************************************)
EXTENDS Semaphore, MCOrderedIngest, MCKafkaStream

VARIABLE part   \* which of them runs

Idle(states) == CHOOSE state \in states : TRUE

SemaphoreIsIdle == sem = NewSemaphore(Callers, MaxPermits)
IngestIsIdle ==
  /\ load = Idle(Loads) /\ published = 0 /\ call = "idle"
  /\ listed = 0 /\ next = 1 /\ batch = <<>> /\ maximum = 0 /\ told = <<>>
  /\ floor = 0 /\ taken = [row \in AllRows |-> 0] /\ failures = 0 /\ crashes = 0
StreamIsIdle == setup = Idle(Setups) /\ StreamInit

ProtocolsInit ==
  \/ part = "semaphore" /\ SemaphoreInit /\ IngestIsIdle /\ StreamIsIdle
  \/ part = "ingest" /\ Init /\ SemaphoreIsIdle /\ StreamIsIdle
  \/ part = "stream" /\ StreamInit /\ SemaphoreIsIdle /\ IngestIsIdle

ProtocolsNext ==
  \/ part = "semaphore" /\ SemaphoreNext /\ UNCHANGED <<part, vars, streamVars>>
  \/ part = "ingest" /\ Next /\ UNCHANGED <<part, sem, streamVars>>
  \/ part = "stream" /\ StreamNext /\ UNCHANGED <<part, sem, vars>>

ProtocolsSpec ==
  /\ ProtocolsInit /\ [][ProtocolsNext]_<<part, sem, vars, streamVars>>
  /\ WF_sem(part = "semaphore" /\ \E t \in Callers : AcquireStep(t))
  /\ WF_vars(part = "ingest" /\ CallStep)
  /\ WF_streamVars(part = "stream" /\ Windows)
  /\ \A p \in Partitions :
       /\ SF_streamVars(part = "stream" /\ Assign(p))
       /\ SF_streamVars(part = "stream" /\ Poll(p))
=============================================================================
