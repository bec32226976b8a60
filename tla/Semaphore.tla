----------------------------- MODULE Semaphore -----------------------------
(***************************************************************************)
(* src/execution/semaphore.rs: a blocking counting semaphore made of a     *)
(* Mutex<usize> and a Condvar, driven by callers that acquire and release  *)
(* for ever.  The engine makes one per run (module ExecutionEngine).       *)
(***************************************************************************)
EXTENDS SemaphoreOps, FiniteSets

CONSTANTS Callers, MaxPermits

ASSUME CallersAssumption == IsFiniteSet(Callers)
\* The assertion of Semaphore::new.
ASSUME MaxPermitsAssumption == MaxPermits \in Nat \ {0}

VARIABLE sem

SemaphoreInit == sem = NewSemaphore(Callers, MaxPermits)

CallAcquire(c) == sem.phase[c] = "out" /\ sem' = Called(sem, c)

TakePermit(c) == CanTake(sem, c) /\ sem' = Taken(sem, c)

StartWaiting(c) == MustWait(sem, c) /\ sem' = Waiting(sem, c)

SpuriousWakeup(c) == sem.phase[c] = "waiting" /\ sem' = WokenUp(sem, c)

Release(c) == sem.phase[c] = "holding" /\ sem' \in AfterRelease(sem, c)

\* A caller that has the mutex runs the body of acquire's loop once.
AcquireStep(c) == TakePermit(c) \/ StartWaiting(c)

SemaphoreNext == \E c \in Callers :
  CallAcquire(c) \/ AcquireStep(c) \/ SpuriousWakeup(c) \/ Release(c)

SemaphoreSafeSpec == SemaphoreInit /\ [][SemaphoreNext]_sem

(***************************************************************************)
(* std's Mutex is not fair to any one thread; it does let some thread that *)
(* wants it through.  Nobody has to release.                               *)
(***************************************************************************)
SemaphoreSpec == SemaphoreSafeSpec /\ WF_sem(\E c \in Callers : AcquireStep(c))
-----------------------------------------------------------------------------
Holding == InPhase(sem, "holding")
Asking == InPhase(sem, "entering") \cup InPhase(sem, "waiting")

SemaphoreTypeOK ==
  sem \in [permits: Nat, phase: [Callers -> Phases], waited: SUBSET Callers]

SleepersHaveWaited == InPhase(sem, "waiting") \subseteq sem.waited

(***************************************************************************)
(* A permit is in the counter or with one caller: acquire and release lose *)
(* none and make none, whoever is woken and whoever overtakes it.          *)
(***************************************************************************)
PermitConservation == sem.permits + Cardinality(Holding) = MaxPermits

(***************************************************************************)
(* No wakeup is lost.  notify_one is called once per release and may find  *)
(* nobody asleep, and a caller that never slept may take the permit before *)
(* the one it was meant for; still, while somebody sleeps, every permit in *)
(* the counter is matched by a woken caller on its way to the mutex.       *)
(***************************************************************************)
SleepersAreMatched ==
  InPhase(sem, "waiting") # {} => sem.permits <= Cardinality(Woken(sem))

(***************************************************************************)
(* What SleepersAreMatched is for: nobody sleeps beside a free permit with *)
(* no awake caller to take it.                                             *)
(***************************************************************************)
NoLostWakeup ==
  (sem.permits > 0 /\ InPhase(sem, "waiting") # {})
     => InPhase(sem, "entering") # {}

(***************************************************************************)
(* The Mutex, the Condvar and the counter together are the counting        *)
(* semaphore: at most MaxPermits callers inside, and a free place is taken *)
(* when somebody asks for it.                                              *)
(***************************************************************************)
Abstract == INSTANCE CountingSemaphore WITH asking <- Asking, inside <- Holding

SemaphoreIInv == /\ SemaphoreTypeOK
                 /\ PermitConservation
                 /\ SleepersHaveWaited
                 /\ SleepersAreMatched

ImplementsCountingSemaphore == Abstract!Spec
ImplementsSafely == Abstract!SafeSpec
=============================================================================
