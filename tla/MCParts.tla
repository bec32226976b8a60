------------------------------- MODULE MCParts -------------------------------
(***************************************************************************)
(* The parts whose calls end and that promise nothing of when: the         *)
(* algorithms, the pipeline requests of a host, and the metrics that the   *)
(* threads of an engine share.  They have nothing in common, so one runs   *)
(* while the others are over.                                              *)
(***************************************************************************)
EXTENDS MCAlgorithms, MCPipelineRun, ExecutionMetrics

VARIABLE part   \* which of them runs

NoAlgorithm == NoChunks /\ NoReduction /\ NoFrame /\ NoReport /\ NoTrip
NoRequest == request = (CHOOSE given \in Requests : TRUE) /\ Init

PartsInit ==
  \/ part = "algorithms" /\ AlgorithmsInit /\ NoRequest /\ MetricsInit
  \/ part = "pipeline" /\ Init /\ NoAlgorithm /\ MetricsInit
  \/ part = "metrics" /\ MetricsInit /\ NoAlgorithm /\ NoRequest

PartsNext ==
  \/ part = "algorithms" /\ AlgorithmsNext /\ UNCHANGED <<part, vars, metricsVars>>
  \/ part = "pipeline" /\ Next /\ UNCHANGED <<part, AlgorithmsVars, metricsVars>>
  \/ part = "metrics" /\ MetricsNext /\ UNCHANGED <<part, AlgorithmsVars, vars>>

PartsSpec == PartsInit /\ [][PartsNext]_<<part, AlgorithmsVars, vars, metricsVars>>
=============================================================================
