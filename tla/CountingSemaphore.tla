------------------------- MODULE CountingSemaphore -------------------------
(***************************************************************************)
(* What a counting semaphore promises to its callers, with no mutex, no    *)
(* condition variable and no counter: at most MaxPermits callers are       *)
(* inside at once, and a free place is not left empty for ever while       *)
(* somebody asks for it.  It promises nothing about which caller is next.  *)
(***************************************************************************)
EXTENDS Naturals, FiniteSets

CONSTANTS Callers,      \* those that may call acquire
          MaxPermits    \* the argument of Semaphore::new

VARIABLES asking,       \* callers inside acquire that have no permit yet
          inside        \* callers that hold a permit

vars == <<asking, inside>>

Init == asking = {} /\ inside = {}

Ask(c) ==
  /\ c \notin asking \cup inside
  /\ asking' = asking \cup {c}
  /\ UNCHANGED inside

Enter(c) ==
  /\ c \in asking
  /\ Cardinality(inside) < MaxPermits
  /\ asking' = asking \ {c}
  /\ inside' = inside \cup {c}

Leave(c) ==
  /\ c \in inside
  /\ inside' = inside \ {c}
  /\ UNCHANGED asking

Next == \E c \in Callers : Ask(c) \/ Enter(c) \/ Leave(c)

SafeSpec == Init /\ [][Next]_vars

Spec == SafeSpec /\ WF_vars(\E c \in Callers : Enter(c))
=============================================================================
