---------------------------- MODULE SemaphoreOps ----------------------------
(***************************************************************************)
(* The state of one src/execution/semaphore.rs Semaphore and the critical  *)
(* sections of its methods, as operators on a record.  Every section runs  *)
(* with the `permits` mutex held from its first to its last line, so each  *)
(* is one atomic step:                                                     *)
(*                                                                         *)
(*   permits   the number behind the Mutex                                 *)
(*   phase[c]  where caller c stands:                                      *)
(*               "out"       not in the semaphore                          *)
(*               "entering"  in acquire, about to take the mutex and read  *)
(*                           the counter: on the first pass, or back from  *)
(*                           Condvar::wait                                 *)
(*               "waiting"   asleep in Condvar::wait                       *)
(*               "holding"   acquire has returned                          *)
(*   waited    the callers whose current acquire has been through          *)
(*             Condvar::wait (the local variable `waited`)                 *)
(***************************************************************************)
EXTENDS Naturals

Phases == {"out", "entering", "waiting", "holding"}

InPhase(s, p) == {c \in DOMAIN s.phase : s.phase[c] = p}

\* Callers a notification or a spurious wakeup has sent back to the mutex.
Woken(s) == InPhase(s, "entering") \cap s.waited

NewSemaphore(C, n) ==
  [permits |-> n, phase |-> [c \in C |-> "out"], waited |-> {}]

Move(s, c, p) == [s.phase EXCEPT ![c] = p]

Called(s, c) ==
  [permits |-> s.permits, phase |-> Move(s, c, "entering"),
   waited |-> s.waited \ {c}]

\* The loop of acquire: past `while *g == 0`, or into Condvar::wait.
\* Mutant: `if *g == 0` for `while *g == 0`, no second look after a wait.
TakeOnceWoken(s, c) ==
  s.phase[c] = "entering" /\ (s.permits > 0 \/ c \in s.waited)

CanTake(s, c) == s.phase[c] = "entering" /\ s.permits > 0

\* Mutant: a woken caller takes its permit for handed over, not counted out.
TakenAsHandedOver(s, c) ==
  [permits |-> IF c \in s.waited THEN s.permits ELSE s.permits - 1,
   phase |-> Move(s, c, "holding"), waited |-> s.waited]

Taken(s, c) ==
  [permits |-> s.permits - 1, phase |-> Move(s, c, "holding"),
   waited |-> s.waited]

MustWait(s, c) == s.phase[c] = "entering" /\ s.permits = 0
Waiting(s, c) ==
  [permits |-> s.permits, phase |-> Move(s, c, "waiting"),
   waited |-> s.waited \cup {c}]

\* Condvar::wait returns: notified, or spuriously as std allows.
WokenUp(s, c) ==
  [permits |-> s.permits, phase |-> Move(s, c, "entering"),
   waited |-> s.waited]

\* release: one more permit and, still under the mutex, notify_one, which
\* wakes one of the sleepers, any of them, and is lost when there is none.
Freed(s, c) ==
  [permits |-> s.permits + 1, phase |-> Move(s, c, "out"),
   waited |-> s.waited \ {c}]

\* Mutant: release without notify_one.
ReleaseInSilence(s, c) == {Freed(s, c)}

AfterRelease(s, c) ==
  LET freed == Freed(s, c)
  IN  IF InPhase(s, "waiting") = {} THEN {freed}
      ELSE {WokenUp(freed, d) : d \in InPhase(s, "waiting")}
=============================================================================
