------------------------ MODULE SharedCountersProofs ------------------------
(***************************************************************************)
(* Proofs about modules Semaphore and ExecutionMetrics, the counters that  *)
(* the threads of a pool share: for every finite set of callers and number *)
(* of permits, every finite pool of threads and every number of calls,     *)
(* chunks and rows.                                                        *)
(***************************************************************************)
EXTENDS Semaphore, ExecutionMetrics, FiniteSetTheorems, TLAPS

USE CallersAssumption, MaxPermitsAssumption, ThreadsAssumption, SizesAssumption

-----------------------------------------------------------------------------
(* The semaphore                                                           *)

\* The record a semaphore is, with its domain made visible to the provers.
LEMMA PhaseDomain ==
  ASSUME SemaphoreTypeOK
  PROVE  /\ sem.permits \in Nat
         /\ sem.phase \in [Callers -> Phases]
         /\ DOMAIN sem.phase = Callers
         /\ sem.waited \in SUBSET Callers
         /\ \A p : InPhase(sem, p) = {k \in Callers : sem.phase[k] = p}
BY DEF SemaphoreTypeOK, InPhase

\* What each section does to the four sets of callers the invariants count.
LEMMA StepSets ==
  ASSUME SemaphoreTypeOK, NEW k \in Callers
  PROVE  /\ CallAcquire(k) =>
              /\ k \notin Asking \cup Holding
              /\ Asking' = Asking \cup {k}
              /\ Holding' = Holding
              /\ InPhase(sem, "waiting")' = InPhase(sem, "waiting")
              /\ Woken(sem)' = Woken(sem)
              /\ sem'.permits = sem.permits
         /\ TakePermit(k) =>
              /\ k \in Asking /\ k \notin Holding
              /\ Asking' = Asking \ {k}
              /\ Holding' = Holding \cup {k}
              /\ InPhase(sem, "waiting")' = InPhase(sem, "waiting")
              /\ Woken(sem)' = Woken(sem) \ {k}
              /\ sem.permits > 0 /\ sem'.permits = sem.permits - 1
         /\ StartWaiting(k) =>
              /\ Asking' = Asking /\ Holding' = Holding
              /\ InPhase(sem, "waiting")' = InPhase(sem, "waiting") \cup {k}
              /\ Woken(sem)' = Woken(sem) \ {k}
              /\ sem.permits = 0 /\ sem'.permits = 0
         /\ SpuriousWakeup(k) =>
              /\ Asking' = Asking /\ Holding' = Holding
              /\ InPhase(sem, "waiting")' = InPhase(sem, "waiting") \ {k}
              /\ k \notin Woken(sem)
              /\ SleepersHaveWaited => Woken(sem)' = Woken(sem) \cup {k}
              /\ sem'.permits = sem.permits
         /\ Release(k) =>
              /\ k \in Holding /\ k \notin Asking
              /\ Asking' = Asking
              /\ Holding' = Holding \ {k}
              /\ sem'.permits = sem.permits + 1
              /\ \/ /\ InPhase(sem, "waiting") = {}
                    /\ InPhase(sem, "waiting")' = {}
                 \/ \E d \in InPhase(sem, "waiting") :
                      /\ InPhase(sem, "waiting")'
                           = InPhase(sem, "waiting") \ {d}
                      /\ d \notin Woken(sem)
                      /\ SleepersHaveWaited => Woken(sem)' = Woken(sem) \cup {d}
<1>1. CallAcquire(k) =>
        /\ k \notin Asking \cup Holding
        /\ Asking' = Asking \cup {k}
        /\ Holding' = Holding
        /\ InPhase(sem, "waiting")' = InPhase(sem, "waiting")
        /\ Woken(sem)' = Woken(sem)
        /\ sem'.permits = sem.permits
  BY PhaseDomain DEF CallAcquire, Called, Move, InPhase, Woken, Asking, Holding
<1>2. TakePermit(k) =>
        /\ k \in Asking /\ k \notin Holding
        /\ Asking' = Asking \ {k}
        /\ Holding' = Holding \cup {k}
        /\ InPhase(sem, "waiting")' = InPhase(sem, "waiting")
        /\ Woken(sem)' = Woken(sem) \ {k}
        /\ sem.permits > 0 /\ sem'.permits = sem.permits - 1
  BY PhaseDomain
     DEF TakePermit, CanTake, Taken, Move, InPhase, Woken, Asking, Holding
<1>3. StartWaiting(k) =>
        /\ Asking' = Asking /\ Holding' = Holding
        /\ InPhase(sem, "waiting")' = InPhase(sem, "waiting") \cup {k}
        /\ Woken(sem)' = Woken(sem) \ {k}
        /\ sem.permits = 0 /\ sem'.permits = 0
  BY PhaseDomain
     DEF StartWaiting, MustWait, Waiting, Move, InPhase, Woken, Asking, Holding
<1>4. SpuriousWakeup(k) =>
        /\ Asking' = Asking /\ Holding' = Holding
        /\ InPhase(sem, "waiting")' = InPhase(sem, "waiting") \ {k}
        /\ k \notin Woken(sem)
        /\ SleepersHaveWaited => Woken(sem)' = Woken(sem) \cup {k}
        /\ sem'.permits = sem.permits
  BY PhaseDomain DEF SpuriousWakeup, WokenUp, Move, InPhase, Woken, Asking,
                     Holding, SleepersHaveWaited
<1>5. ASSUME Release(k)
      PROVE  /\ k \in Holding /\ k \notin Asking
             /\ Asking' = Asking
             /\ Holding' = Holding \ {k}
             /\ sem'.permits = sem.permits + 1
             /\ \/ /\ InPhase(sem, "waiting") = {}
                   /\ InPhase(sem, "waiting")' = {}
                \/ \E d \in InPhase(sem, "waiting") :
                     /\ InPhase(sem, "waiting")' = InPhase(sem, "waiting") \ {d}
                     /\ d \notin Woken(sem)
                     /\ SleepersHaveWaited => Woken(sem)' = Woken(sem) \cup {d}
  <2>1. CASE InPhase(sem, "waiting") = {}
    <3>1. sem' = Freed(sem, k)
      BY <1>5, <2>1 DEF Release, AfterRelease
    <3> QED
      BY <1>5, <2>1, <3>1, PhaseDomain
         DEF Release, Freed, Move, InPhase, Asking, Holding
  <2>2. CASE InPhase(sem, "waiting") # {}
    <3>1. PICK d \in InPhase(sem, "waiting") : sem' = WokenUp(Freed(sem, k), d)
      BY <1>5, <2>2 DEF Release, AfterRelease
    <3>2. d \in Callers /\ d # k /\ sem.phase[d] = "waiting"
      BY <1>5, PhaseDomain DEF Release, InPhase
    <3>3. /\ sem'.permits = sem.permits + 1
          /\ sem'.phase = [sem.phase EXCEPT ![k] = "out", ![d] = "entering"]
          /\ sem'.waited = sem.waited \ {k}
      BY <3>1 DEF WokenUp, Freed, Move
    <3>4. /\ k \in Holding /\ k \notin Asking
          /\ Asking' = Asking
          /\ Holding' = Holding \ {k}
      BY <1>5, <3>2, <3>3, PhaseDomain DEF Release, InPhase, Asking, Holding
    <3>5. /\ InPhase(sem, "waiting")' = InPhase(sem, "waiting") \ {d}
          /\ d \notin Woken(sem)
          /\ SleepersHaveWaited => Woken(sem)' = Woken(sem) \cup {d}
      BY <1>5, <3>2, <3>3, PhaseDomain
         DEF Release, InPhase, Woken, SleepersHaveWaited
    <3> QED
      BY <3>3, <3>4, <3>5
  <2> QED
    BY <2>1, <2>2
<1> QED
  BY <1>1, <1>2, <1>3, <1>4, <1>5
-----------------------------------------------------------------------------
\* Callers are finitely many, so the sets the invariants count are finite.
LEMMA FinitePhases ==
  ASSUME SemaphoreTypeOK
  PROVE  /\ IsFiniteSet(Holding) /\ Cardinality(Holding) \in Nat
         /\ IsFiniteSet(Woken(sem)) /\ Cardinality(Woken(sem)) \in Nat
<1>1. Holding \subseteq Callers /\ Woken(sem) \subseteq Callers
  BY PhaseDomain DEF Holding, Woken
<1> QED
  BY <1>1, FS_Subset, FS_CardinalityType

LEMMA RemoveOne ==
  ASSUME NEW S, IsFiniteSet(S), NEW x
  PROVE  /\ Cardinality(S \ {x}) \in Nat
         /\ Cardinality(S \ {x}) >= Cardinality(S) - 1
<1>1. Cardinality(S) \in Nat
  BY FS_CardinalityType
<1>2. CASE x \in S
  <2>1. Cardinality(S \ {x}) = Cardinality(S) - 1
    BY <1>2, FS_RemoveElement
  <2>2. Cardinality(S \ {x}) \in Nat
    BY FS_RemoveElement, FS_CardinalityType
  <2> QED
    BY <1>1, <2>1, <2>2
<1>3. CASE x \notin S
  <2>1. S \ {x} = S
    BY <1>3
  <2>2. Cardinality(S \ {x}) = Cardinality(S)
    BY <2>1, Zenon
  <2> QED
    BY <1>1, <2>2
<1> QED
  BY <1>2, <1>3

LEMMA SemaphoreTypeStep == SemaphoreTypeOK /\ [SemaphoreNext]_sem => SemaphoreTypeOK'
<1> SUFFICES ASSUME SemaphoreTypeOK, SemaphoreNext PROVE SemaphoreTypeOK'
  BY DEF SemaphoreTypeOK
<1>1. PICK k \in Callers : CallAcquire(k) \/ AcquireStep(k)
                              \/ SpuriousWakeup(k) \/ Release(k)
  BY DEF SemaphoreNext
<1>2. CASE CallAcquire(k)
  BY <1>2 DEF CallAcquire, Called, Move, SemaphoreTypeOK, Phases
<1>3. CASE TakePermit(k)
  BY <1>3 DEF TakePermit, CanTake, Taken, Move, SemaphoreTypeOK, Phases
<1>4. CASE StartWaiting(k)
  BY <1>4 DEF StartWaiting, MustWait, Waiting, Move, SemaphoreTypeOK, Phases
<1>5. CASE SpuriousWakeup(k)
  BY <1>5 DEF SpuriousWakeup, WokenUp, Move, SemaphoreTypeOK, Phases
<1>6. CASE Release(k)
  <2>1. Freed(sem, k) \in [permits: Nat, phase: [Callers -> Phases],
                           waited: SUBSET Callers]
    BY DEF SemaphoreTypeOK, Freed, Move, Phases
  <2>2. \A d \in Callers : WokenUp(Freed(sem, k), d) \in
          [permits: Nat, phase: [Callers -> Phases], waited: SUBSET Callers]
    BY <2>1 DEF WokenUp, Move, Phases
  <2>3. InPhase(sem, "waiting") \subseteq Callers
    BY PhaseDomain
  <2> QED
    BY <1>6, <2>1, <2>2, <2>3 DEF Release, AfterRelease, SemaphoreTypeOK
<1> QED
  BY <1>1, <1>2, <1>3, <1>4, <1>5, <1>6 DEF AcquireStep

LEMMA ConservationStep ==
  ASSUME SemaphoreTypeOK, PermitConservation, [SemaphoreNext]_sem
  PROVE  PermitConservation'
<1> USE FinitePhases
<1>1. CASE UNCHANGED sem
  BY <1>1 DEF PermitConservation, Holding, InPhase
<1>2. ASSUME NEW k \in Callers,
             CallAcquire(k) \/ StartWaiting(k) \/ SpuriousWakeup(k)
      PROVE  PermitConservation'
  BY <1>2, StepSets DEF PermitConservation
<1>3. ASSUME NEW k \in Callers, TakePermit(k)
      PROVE  PermitConservation'
  <2>1. Cardinality(Holding') = Cardinality(Holding) + 1
    BY <1>3, StepSets, FS_AddElement
  <2> QED
    BY <1>3, <2>1, StepSets, PhaseDomain DEF PermitConservation
<1>4. ASSUME NEW k \in Callers, Release(k)
      PROVE  PermitConservation'
  <2>1. Cardinality(Holding') = Cardinality(Holding) - 1
    BY <1>4, StepSets, FS_RemoveElement
  <2> QED
    BY <1>4, <2>1, StepSets, PhaseDomain DEF PermitConservation
<1> QED
  BY <1>1, <1>2, <1>3, <1>4 DEF SemaphoreNext, AcquireStep

\* A sleeper is one whose acquire has been through Condvar::wait.
LEMMA SleepersStep ==
  ASSUME SemaphoreTypeOK, SleepersHaveWaited, [SemaphoreNext]_sem
  PROVE  SleepersHaveWaited'
<1>1. SemaphoreTypeOK'
  BY SemaphoreTypeStep
<1>2. \A p : InPhase(sem, p)' = {k \in Callers : sem'.phase[k] = p}
  BY <1>1, PhaseDomain DEF SemaphoreTypeOK, InPhase
<1>3. CASE UNCHANGED sem
  BY <1>3 DEF SleepersHaveWaited, InPhase
<1>4. ASSUME NEW k \in Callers, CallAcquire(k) \/ AcquireStep(k)
                                   \/ SpuriousWakeup(k)
      PROVE  SleepersHaveWaited'
  BY <1>2, <1>4, PhaseDomain
     DEF SleepersHaveWaited, AcquireStep, CallAcquire, TakePermit, StartWaiting,
         SpuriousWakeup, CanTake, MustWait, Called, Taken, Waiting, WokenUp, Move
<1>5. ASSUME NEW k \in Callers, Release(k)
      PROVE  SleepersHaveWaited'
  <2>1. sem'.waited = sem.waited \ {k}
    BY <1>5 DEF Release, AfterRelease, Freed, WokenUp
  <2>2. InPhase(sem, "waiting")' \subseteq InPhase(sem, "waiting")
    BY <1>5, StepSets
  <2>3. k \notin InPhase(sem, "waiting")
    BY <1>5, PhaseDomain DEF Release
  <2> QED
    BY <2>1, <2>2, <2>3 DEF SleepersHaveWaited
<1> QED
  BY <1>3, <1>4, <1>5 DEF SemaphoreNext

LEMMA MatchedStep ==
  ASSUME SemaphoreTypeOK, SleepersHaveWaited, SleepersAreMatched, [SemaphoreNext]_sem
  PROVE  SleepersAreMatched'
<1> USE FinitePhases, PhaseDomain
<1>1. CASE UNCHANGED sem
  BY <1>1 DEF SleepersAreMatched, InPhase, Woken
<1>2. ASSUME NEW k \in Callers, CallAcquire(k)
      PROVE  SleepersAreMatched'
  BY <1>2, StepSets DEF SleepersAreMatched
<1>3. ASSUME NEW k \in Callers, TakePermit(k)
      PROVE  SleepersAreMatched'
  <2>1. Woken(sem)' = Woken(sem) \ {k}
    BY <1>3, StepSets
  <2>2. /\ Cardinality(Woken(sem)') \in Nat
        /\ Cardinality(Woken(sem)') >= Cardinality(Woken(sem)) - 1
    BY <2>1, RemoveOne
  <2> QED
    BY <1>3, <2>2, StepSets DEF SleepersAreMatched
<1>4. ASSUME NEW k \in Callers, StartWaiting(k)
      PROVE  SleepersAreMatched'
  <2>1. Woken(sem)' = Woken(sem) \ {k}
    BY <1>4, StepSets
  <2>2. Cardinality(Woken(sem)') \in Nat
    BY <2>1, FS_Subset, FS_CardinalityType
  <2> QED
    BY <1>4, <2>2, StepSets DEF SleepersAreMatched
<1>5. ASSUME NEW k \in Callers, SpuriousWakeup(k)
      PROVE  SleepersAreMatched'
  <2>1. Cardinality(Woken(sem)') = Cardinality(Woken(sem)) + 1
    BY <1>5, StepSets, FS_AddElement
  <2>2. InPhase(sem, "waiting") # {}
    BY <1>5 DEF SpuriousWakeup
  <2> QED
    BY <1>5, <2>1, <2>2, StepSets DEF SleepersAreMatched
<1>6. ASSUME NEW k \in Callers, Release(k)
      PROVE  SleepersAreMatched'
  <2>1. CASE InPhase(sem, "waiting")' = {}
    BY <2>1 DEF SleepersAreMatched
  <2>2. CASE InPhase(sem, "waiting")' # {}
    <3>1. PICK d \in InPhase(sem, "waiting") :
            d \notin Woken(sem) /\ Woken(sem)' = Woken(sem) \cup {d}
      BY <1>6, <2>2, StepSets
    <3>2. Cardinality(Woken(sem)') = Cardinality(Woken(sem)) + 1
      BY <3>1, FS_AddElement
    <3>3. sem'.permits = sem.permits + 1
      BY <1>6, StepSets
    <3> QED
      BY <3>1, <3>2, <3>3 DEF SleepersAreMatched
  <2> QED
    BY <2>1, <2>2
<1> QED
  BY <1>1, <1>2, <1>3, <1>4, <1>5, <1>6 DEF SemaphoreNext, AcquireStep
-----------------------------------------------------------------------------
(***************************************************************************)
(* Types, permit conservation and matched sleepers hold together in every  *)
(* reachable state of Semaphore::acquire and release, for every number of  *)
(* callers and permits.                                                    *)
(***************************************************************************)
THEOREM Invariance == SemaphoreSafeSpec => []SemaphoreIInv
<1>1. SemaphoreInit => SemaphoreIInv
  <2> SUFFICES ASSUME SemaphoreInit PROVE SemaphoreIInv
    OBVIOUS
  <2>1. SemaphoreTypeOK
    BY DEF SemaphoreInit, NewSemaphore, SemaphoreTypeOK, Phases
  <2>2. Holding = {} /\ InPhase(sem, "waiting") = {}
    BY <2>1, PhaseDomain DEF SemaphoreInit, NewSemaphore, Holding
  <2>3. sem.permits = MaxPermits
    BY DEF SemaphoreInit, NewSemaphore
  <2> QED
    BY <2>1, <2>2, <2>3, FS_EmptySet
       DEF SemaphoreIInv, PermitConservation, SleepersHaveWaited, SleepersAreMatched
<1>2. SemaphoreIInv /\ [SemaphoreNext]_sem => SemaphoreIInv'
  BY SemaphoreTypeStep, ConservationStep, SleepersStep, MatchedStep DEF SemaphoreIInv
<1> QED
  BY <1>1, <1>2, PTL DEF SemaphoreSafeSpec

(***************************************************************************)
(* The record semaphore.rs keeps has its type in every reachable state.    *)
(***************************************************************************)
THEOREM SemaphoreTyped == SemaphoreSpec => []SemaphoreTypeOK
<1>1. SemaphoreIInv => SemaphoreTypeOK
  BY DEF SemaphoreIInv
<1> QED
  BY <1>1, Invariance, PTL DEF SemaphoreSpec

(***************************************************************************)
(* acquire and release neither lose nor make a permit.                     *)
(***************************************************************************)
THEOREM PermitsAreConserved == SemaphoreSpec => []PermitConservation
<1>1. SemaphoreIInv => PermitConservation
  BY DEF SemaphoreIInv
<1> QED
  BY <1>1, Invariance, PTL DEF SemaphoreSpec

(***************************************************************************)
(* While a caller sleeps, each free permit has a woken caller of its own.  *)
(***************************************************************************)
THEOREM SleepersStayMatched == SemaphoreSpec => []SleepersAreMatched
<1>1. SemaphoreIInv => SleepersAreMatched
  BY DEF SemaphoreIInv
<1> QED
  BY <1>1, Invariance, PTL DEF SemaphoreSpec

(***************************************************************************)
(* No caller sleeps beside a free permit unless another is on its way to   *)
(* the mutex: one notify_one per release is enough.                        *)
(***************************************************************************)
THEOREM NoWakeupIsLost == SemaphoreSpec => []NoLostWakeup
<1>1. SemaphoreIInv => NoLostWakeup
  <2> SUFFICES ASSUME SemaphoreIInv, sem.permits > 0, InPhase(sem, "waiting") # {}
               PROVE  InPhase(sem, "entering") # {}
    BY DEF NoLostWakeup
  <2>1. SemaphoreTypeOK /\ sem.permits \in Nat /\ sem.permits <= Cardinality(Woken(sem))
    BY PhaseDomain DEF SemaphoreIInv, SleepersAreMatched
  <2>2. Woken(sem) # {}
    BY <2>1, FinitePhases, FS_EmptySet
  <2> QED
    BY <2>2 DEF Woken
<1> QED
  BY <1>1, Invariance, PTL DEF SemaphoreSpec

(***************************************************************************)
(* The Mutex<usize> and the Condvar implement the counting semaphore: a    *)
(* permit is granted only while fewer than MaxPermits callers hold one,    *)
(* and waiting, waking and rechecking are invisible to the callers.        *)
(***************************************************************************)
THEOREM Implementation == SemaphoreSafeSpec => ImplementsSafely
<1>1. SemaphoreInit => Abstract!Init
  <2> SUFFICES ASSUME SemaphoreInit PROVE Abstract!Init
    OBVIOUS
  <2>1. SemaphoreTypeOK
    BY DEF SemaphoreInit, NewSemaphore, SemaphoreTypeOK, Phases
  <2> QED
    BY <2>1, PhaseDomain DEF SemaphoreInit, NewSemaphore, Abstract!Init, Asking, Holding
<1>2. SemaphoreIInv /\ [SemaphoreNext]_sem => [Abstract!Next]_Abstract!vars
  <2> SUFFICES ASSUME SemaphoreIInv, [SemaphoreNext]_sem PROVE [Abstract!Next]_Abstract!vars
    OBVIOUS
  <2>1. SemaphoreTypeOK /\ PermitConservation
    BY DEF SemaphoreIInv
  <2>2. CASE UNCHANGED sem
    BY <2>2 DEF Abstract!vars, Asking, Holding, InPhase
  <2>3. ASSUME NEW k \in Callers, CallAcquire(k)
        PROVE  Abstract!Ask(k)
    BY <2>1, <2>3, StepSets DEF Abstract!Ask
  <2>4. ASSUME NEW k \in Callers, TakePermit(k)
        PROVE  Abstract!Enter(k)
    <3>1. Cardinality(Holding) < MaxPermits
      BY <2>1, <2>4, StepSets, PhaseDomain, FinitePhases DEF PermitConservation
    <3> QED
      BY <2>1, <2>4, <3>1, StepSets
         DEF Abstract!Enter, Abstract!Cardinality, Cardinality
  <2>5. ASSUME NEW k \in Callers, StartWaiting(k) \/ SpuriousWakeup(k)
        PROVE  UNCHANGED Abstract!vars
    BY <2>1, <2>5, StepSets DEF Abstract!vars
  <2>6. ASSUME NEW k \in Callers, Release(k)
        PROVE  Abstract!Leave(k)
    BY <2>1, <2>6, StepSets DEF Abstract!Leave
  <2> QED
    BY <2>2, <2>3, <2>4, <2>5, <2>6 DEF SemaphoreNext, AcquireStep, Abstract!Next
<1> QED
  BY <1>1, <1>2, Invariance, PTL DEF SemaphoreSafeSpec, ImplementsSafely, Abstract!SafeSpec
-----------------------------------------------------------------------------
(* The metrics                                                             *)

LEMMA FiniteActive ==
  /\ IsFiniteSet(Active) /\ Cardinality(Active) \in Nat
  /\ Active = {} => Cardinality(Active) = 0
<1>1. Active \subseteq Threads
  BY DEF Active
<1> QED
  BY <1>1, FS_Subset, FS_CardinalityType, FS_EmptySet

LEMMA OrderLengths == Len(ResetOrder) = 8 /\ Len(LoadOrder) = 7
BY DEF ResetOrder, LoadOrder

\* The store of begin_run at each place of ResetOrder.
LEMMA ResetPlaces ==
  /\ \A i \in 1..8 : ResetOrder[i] \in Fields
  /\ \A i \in 1..7 : LoadOrder[i] \in Fields
  /\ ResetOrder[7] = "active" /\ ResetOrder[8] = "max"
BY DEF ResetOrder, LoadOrder, Fields

\* The steps that leave the counters active_chunks and max_active_chunks, and
\* every thread's place among the active ones, as they are.
LEMMA QuietStep ==
  ASSUME NEW t \in Threads, MetricsIInv,
         \/ TakeChunk(t) \/ OnThrottleWait(t) \/ CountStarted(t)
         \/ OnRowProcessed(t) \/ CountFinished(t)
  PROVE  /\ c'["active"] = c["active"] /\ c'["max"] = c["max"]
         /\ Active' = Active /\ InUpdate' = InUpdate
         /\ UNCHANGED <<now, peak, caller, resetting>>
BY DEF MetricsIInv, MetricsTypeOK, TakeChunk, OnThrottleWait, CountStarted, OnRowProcessed,
       CountFinished, Add, Goto, ThreadOnly, Active, InUpdate, Fields

LEMMA Names ==
  /\ "run_id" \in Fields /\ "elapsed" \in Fields /\ "rows" \in Fields
  /\ "started" \in Fields /\ "finished" \in Fields /\ "throttle" \in Fields
  /\ "active" \in Fields /\ "max" \in Fields
  /\ "out" \in Places /\ "throttle" \in Places /\ "started" \in Places
  /\ "active" \in Places /\ "load" \in Places /\ "cas" \in Places
  /\ "row" \in Places /\ "inactive" \in Places
BY DEF Fields, Places

\* What the helpers of the actions leave the types of.
LEMMA HelperTypes ==
  ASSUME MetricsTypeOK
  PROVE  /\ \A f \in Fields, n \in Nat : Add(f, n) => c' \in [Fields -> Nat]
         /\ \A t \in Threads, p \in Places :
              Goto(t, p) => pc' \in [Threads -> Places]
         /\ \A t \in Threads : MaxRecorded(t) =>
              /\ pc' \in [Threads -> Places]
              /\ now' \in [Threads -> Nat] /\ cur' \in [Threads -> Nat]
<1>1. ASSUME NEW f \in Fields, NEW n \in Nat, Add(f, n)
      PROVE  c' \in [Fields -> Nat]
  BY <1>1 DEF MetricsTypeOK, Add
<1>2. ASSUME NEW t \in Threads, NEW p \in Places, Goto(t, p)
      PROVE  pc' \in [Threads -> Places]
  BY <1>2 DEF MetricsTypeOK, Goto
<1>3. ASSUME NEW t \in Threads, MaxRecorded(t)
      PROVE  now' \in [Threads -> Nat] /\ cur' \in [Threads -> Nat]
  BY <1>3 DEF MetricsTypeOK, MaxRecorded
<1> QED
  BY <1>1, <1>2, <1>3, Names DEF MaxRecorded

LEMMA MetricsTypeStep == MetricsIInv /\ [MetricsNext]_metricsVars => MetricsTypeOK'
<1> SUFFICES ASSUME MetricsIInv, [MetricsNext]_metricsVars PROVE MetricsTypeOK'
  OBVIOUS
<1>0. MetricsTypeOK
  BY DEF MetricsIInv
<1> USE <1>0
<1>1. CASE CallBegins
  BY <1>1, OrderLengths DEF MetricsTypeOK, CallBegins
<1>2. CASE ResetField
  <2>1. resetting \in 1..8 /\ resetting' \in 1..9
    BY <1>2, OrderLengths DEF MetricsTypeOK, ResetField
  <2>2. ResetOrder[resetting] \in Fields
    BY <2>1, ResetPlaces
  <2>3. c' \in [Fields -> Nat]
    BY <1>2, <2>2 DEF MetricsTypeOK, ResetField
  <2> QED
    BY <1>2, <2>1, <2>3, OrderLengths DEF MetricsTypeOK, ResetField
<1>3. CASE ChunksBegin
  BY <1>3 DEF MetricsTypeOK, ChunksBegin
<1>4. CASE EndRun
  BY <1>4, Names, HelperTypes DEF MetricsTypeOK, EndRun
<1>5. ASSUME NEW t \in Threads, TakeChunk(t) PROVE MetricsTypeOK'
  <2>1. left' \in 0..Chunks /\ todo' \in [Threads -> 0..RowsEach]
    BY <1>5, Names DEF MetricsTypeOK, TakeChunk
  <2> QED
    BY <1>5, <2>1, Names, HelperTypes
       DEF MetricsTypeOK, ThreadOnly, TakeChunk
<1>6. ASSUME NEW t \in Threads, OnThrottleWait(t) PROVE MetricsTypeOK'
  BY <1>6, Names, HelperTypes DEF MetricsTypeOK, ThreadOnly, OnThrottleWait
<1>7. ASSUME NEW t \in Threads, CountStarted(t) PROVE MetricsTypeOK'
  BY <1>7, Names, HelperTypes DEF MetricsTypeOK, ThreadOnly, CountStarted
<1>8. ASSUME NEW t \in Threads, CountActive(t) PROVE MetricsTypeOK'
  <2>1. c["active"] + 1 \in Nat
    BY Names DEF MetricsTypeOK
  <2>2. now' \in [Threads -> Nat]
    BY <1>8, <2>1 DEF MetricsTypeOK, CountActive
  <2>3. peak' \in Nat
    BY <1>8, <2>1 DEF MetricsTypeOK, CountActive
  <2> QED
    BY <1>8, <2>2, <2>3, Names, HelperTypes
       DEF MetricsTypeOK, ThreadOnly, CountActive
<1>9. ASSUME NEW t \in Threads, LoadMax(t) PROVE MetricsTypeOK'
  <2>1. CASE now[t] <= c["max"]
    BY <1>9, <2>1, Names, HelperTypes
       DEF MetricsTypeOK, ThreadOnly, LoadMax
  <2>2. CASE ~(now[t] <= c["max"])
    BY <1>9, <2>2, Names, HelperTypes
       DEF MetricsTypeOK, ThreadOnly, LoadMax
  <2> QED
    BY <2>1, <2>2
<1>10. ASSUME NEW t \in Threads, ExchangeMax(t) PROVE MetricsTypeOK'
  <2>1. CASE MayExchange(t)
    <3>1. c' \in [Fields -> Nat]
      BY <1>10, <2>1, Names, HelperTypes
       DEF MetricsTypeOK, ThreadOnly, ExchangeMax
    <3> QED
      BY <1>10, <2>1, <3>1, Names, HelperTypes
       DEF MetricsTypeOK, ThreadOnly, ExchangeMax
  <2>2. CASE ~MayExchange(t)
    BY <1>10, <2>2, Names, HelperTypes
       DEF MetricsTypeOK, ThreadOnly, ExchangeMax
  <2> QED
    BY <2>1, <2>2
<1>11. ASSUME NEW t \in Threads, OnRowProcessed(t) PROVE MetricsTypeOK'
  <2>1. todo' \in [Threads -> 0..RowsEach]
    BY <1>11 DEF MetricsTypeOK, OnRowProcessed
  <2>2. done' \in [1..MaxRuns -> Nat]
    <3>1. /\ done \in [1..MaxRuns -> Nat]
          /\ done' = [done EXCEPT ![c["run_id"]] = @ + 1]
      BY <1>11 DEF MetricsTypeOK, OnRowProcessed
    <3>2. \A n \in 1..MaxRuns : done'[n] \in Nat
      <4> SUFFICES ASSUME NEW n \in 1..MaxRuns PROVE done'[n] \in Nat
        OBVIOUS
      <4>1. CASE n = c["run_id"]
        BY <3>1, <4>1
      <4>2. CASE n # c["run_id"]
        BY <3>1, <4>2
      <4> QED
        BY <4>1, <4>2
    <3> QED
      BY <3>1, <3>2
  <2> QED
    BY <1>11, <2>1, <2>2, Names, HelperTypes
       DEF MetricsTypeOK, ThreadOnly, OnRowProcessed
<1>12. ASSUME NEW t \in Threads, CountFinished(t) PROVE MetricsTypeOK'
  BY <1>12, Names, HelperTypes DEF MetricsTypeOK, ThreadOnly, CountFinished
<1>13. ASSUME NEW t \in Threads, CountInactive(t) PROVE MetricsTypeOK'
  <2>1. t \in Active /\ c["active"] = Cardinality(Active)
    BY <1>13 DEF MetricsIInv, CountInactive, Active, ThreadsOutBetweenCalls,
                 ActiveIsCounted
  <2>2. Cardinality(Active) # 0
    BY <2>1, FiniteActive, FS_EmptySet
  <2>3. c["active"] - 1 \in Nat
    BY <2>1, <2>2, FiniteActive
  <2>4. c' \in [Fields -> Nat]
    BY <1>13, <2>3, Names DEF MetricsTypeOK, CountInactive
  <2> QED
    BY <1>13, <2>4, Names, HelperTypes
       DEF MetricsTypeOK, ThreadOnly, CountInactive
<1>14. CASE LoadField
  <2> DEFINE place == Len(seen) + 1
             value == c[LoadOrder[place]]
  <2>1. seen \in Seq(Nat) /\ Len(seen) \in Nat /\ Len(seen) < 7
    BY <1>14, OrderLengths DEF MetricsTypeOK, LoadField
  <2>2. value \in Nat
    <3>1. place \in 1..7
      BY <2>1
    <3>2. LoadOrder[place] \in Fields
      BY <3>1, ResetPlaces
    <3> QED
      BY <3>2 DEF MetricsTypeOK
  <2>3. seen' = Append(seen, value)
    BY <1>14 DEF LoadField
  <2>4. seen' \in Seq(Nat) /\ Len(seen') <= 7
    <3> HIDE DEF value
    <3> QED
      BY <2>1, <2>2, <2>3
  <2>5. overlap' \in {"none", "begin_run"}
    BY <1>14 DEF MetricsTypeOK, LoadField
  <2> QED
    BY <1>14, <2>4, <2>5, OrderLengths DEF MetricsTypeOK, LoadField
<1>15. CASE NextSnapshot
  BY <1>15, OrderLengths DEF MetricsTypeOK, NextSnapshot
<1>16. CASE UNCHANGED metricsVars
  BY <1>16 DEF MetricsTypeOK, metricsVars
<1> QED
  BY <1>1, <1>2, <1>3, <1>4, <1>5, <1>6, <1>7, <1>8, <1>9, <1>10, <1>11, <1>12,
     <1>13, <1>14, <1>15, <1>16 DEF MetricsNext, ChunkStep, CallerStep
-----------------------------------------------------------------------------
\* A step of one thread: the counts it keeps, and the peak it carries.
LEMMA ThreadStep ==
  ASSUME MetricsIInv, NEW t \in Threads, ChunkStep(t)
  PROVE  ActiveIsCounted' /\ PeakIsCarried' /\ caller = "running"
<1>0. caller = "running" /\ caller' = caller
  BY DEF MetricsIInv, ThreadsOutBetweenCalls, ChunkStep, TakeChunk, OnThrottleWait,
         CountStarted, CountActive, LoadMax, ExchangeMax, OnRowProcessed,
         CountFinished, CountInactive, ThreadOnly
<1>1. /\ c["active"] = Cardinality(Active) /\ c["active"] <= peak
      /\ c["max"] <= peak /\ c["max"] \in Nat /\ peak \in Nat
      /\ \A u \in InUpdate : now[u] <= peak
      /\ c["max"] = peak \/ \E u \in InUpdate : now[u] = peak
      /\ now \in [Threads -> Nat] /\ c \in [Fields -> Nat]
      /\ pc \in [Threads -> Places]
  BY <1>0 DEF MetricsIInv, MetricsTypeOK, ActiveIsCounted, PeakIsCarried, Fields
<1>2. CASE \/ TakeChunk(t) \/ OnThrottleWait(t) \/ CountStarted(t)
           \/ OnRowProcessed(t) \/ CountFinished(t)
  BY <1>0, <1>1, <1>2, QuietStep DEF ActiveIsCounted, PeakIsCarried
<1>3. CASE CountActive(t)
  <2>1. /\ c'["active"] = c["active"] + 1 /\ c'["max"] = c["max"]
        /\ now' = [now EXCEPT ![t] = c["active"] + 1]
        /\ peak' = IF c["active"] + 1 > peak THEN c["active"] + 1 ELSE peak
    BY <1>1, <1>3 DEF CountActive, Add, Fields
  <2>2. t \notin Active /\ Active' = Active \cup {t}
    BY <1>1, <1>3 DEF CountActive, Goto, Active
  <2>3. t \notin InUpdate /\ InUpdate' = InUpdate \cup {t}
    BY <1>1, <1>3 DEF CountActive, Goto, InUpdate
  <2>4. Cardinality(Active') = Cardinality(Active) + 1
    BY <2>2, FiniteActive, FS_AddElement
  <2>5. ActiveIsCounted'
    BY <1>1, <2>1, <2>4, FiniteActive DEF ActiveIsCounted
  <2>6. /\ c["active"] \in Nat
        /\ now'[t] = c["active"] + 1
        /\ \A u \in InUpdate : now'[u] = now[u] /\ now[u] \in Nat
    BY <1>1, <2>1, <2>3, FiniteActive DEF InUpdate
  <2>7. PeakIsCarried'
    BY <1>1, <2>1, <2>3, <2>6 DEF PeakIsCarried
  <2> QED
    BY <1>0, <2>5, <2>7
<1>4. ASSUME MaxRecorded(t), pc[t] \in {"load", "cas"}, UNCHANGED <<peak, caller>>,
             c'["active"] = c["active"], c'["max"] \in Nat,
             c'["max"] <= peak, c["max"] <= c'["max"], now[t] <= c'["max"]
      PROVE  ActiveIsCounted' /\ PeakIsCarried'
  <2>1. Active' = Active /\ InUpdate' = InUpdate \ {t} /\ t \in InUpdate
    BY <1>1, <1>4 DEF MaxRecorded, Goto, Active, InUpdate
  <2>2. \A u \in InUpdate \ {t} : now'[u] = now[u]
    BY <1>1, <1>4 DEF MaxRecorded, InUpdate
  <2>3. now[t] \in Nat
    BY <1>1
  <2> QED
    BY <1>1, <1>4, <2>1, <2>2, <2>3 DEF ActiveIsCounted, PeakIsCarried
<1>5. CASE LoadMax(t)
  <2>1. CASE now[t] <= c["max"]
    BY <1>0, <1>1, <1>4, <1>5, <2>1 DEF LoadMax, ThreadOnly
  <2>2. CASE ~(now[t] <= c["max"])
    <3>1. Active' = Active /\ InUpdate' = InUpdate /\ UNCHANGED <<c, now, peak>>
      BY <1>1, <1>5, <2>2 DEF LoadMax, Goto, Active, InUpdate
    <3> QED
      BY <1>0, <1>1, <3>1 DEF ActiveIsCounted, PeakIsCarried
  <2> QED
    BY <1>0, <2>1, <2>2
<1>6. CASE ExchangeMax(t)
  <2>1. CASE MayExchange(t)
    <3>1. /\ c'["max"] = now[t] /\ c'["active"] = c["active"]
          /\ MaxRecorded(t) /\ pc[t] = "cas" /\ UNCHANGED <<peak, caller>>
      BY <1>1, <1>6, <2>1 DEF ExchangeMax, ThreadOnly, Fields
    <3>2. now[t] \in Nat /\ now[t] <= peak
      BY <1>1, <3>1 DEF InUpdate
    <3>3. c["max"] <= now[t]
      BY <1>1, <2>1, <3>1 DEF MetricsIInv, MayExchange, CasIsAbove
    <3> QED
      BY <1>0, <1>1, <1>4, <3>1, <3>2, <3>3
  <2>2. CASE ~MayExchange(t)
    <3>1. Active' = Active /\ InUpdate' = InUpdate /\ UNCHANGED <<c, now, peak>>
      BY <1>1, <1>6, <2>2 DEF ExchangeMax, Goto, Active, InUpdate
    <3> QED
      BY <1>0, <1>1, <3>1 DEF ActiveIsCounted, PeakIsCarried
  <2> QED
    BY <2>1, <2>2
<1>7. CASE CountInactive(t)
  <2>1. /\ c'["active"] = c["active"] - 1 /\ c'["max"] = c["max"]
        /\ UNCHANGED <<now, peak>>
    BY <1>1, <1>7 DEF CountInactive, Fields
  <2>2. t \in Active /\ Active' = Active \ {t} /\ InUpdate' = InUpdate
    BY <1>1, <1>7 DEF CountInactive, Goto, Active, InUpdate
  <2>3. Cardinality(Active') = Cardinality(Active) - 1
    BY <2>2, FiniteActive, FS_RemoveElement
  <2> QED
    BY <1>0, <1>1, <2>1, <2>2, <2>3, FiniteActive
       DEF ActiveIsCounted, PeakIsCarried
<1> QED
  BY <1>0, <1>2, <1>3, <1>5, <1>6, <1>7 DEF ChunkStep
-----------------------------------------------------------------------------
LEMMA PlacesStep == MetricsIInv /\ [MetricsNext]_metricsVars => ThreadsOutBetweenCalls' /\ CasIsAbove'
<1> SUFFICES ASSUME MetricsIInv, [MetricsNext]_metricsVars
             PROVE  ThreadsOutBetweenCalls' /\ CasIsAbove'
  OBVIOUS
<1>1. MetricsTypeOK /\ ThreadsOutBetweenCalls /\ CasIsAbove
  BY DEF MetricsIInv
<1>2. CASE CallerStep \/ LoadField \/ NextSnapshot \/ UNCHANGED metricsVars
  BY <1>1, <1>2 DEF CallerStep, CallBegins, ResetField, ChunksBegin, EndRun,
       LoadField, NextSnapshot, metricsVars, ThreadsOutBetweenCalls, CasIsAbove
<1>3. ASSUME NEW t \in Threads, ChunkStep(t)
      PROVE  ThreadsOutBetweenCalls' /\ CasIsAbove'
  <2>1. caller = "running" /\ caller' = caller
    BY <1>3, ThreadStep
       DEF ChunkStep, TakeChunk, OnThrottleWait, CountStarted, CountActive,
           LoadMax, ExchangeMax, OnRowProcessed, CountFinished, CountInactive,
           ThreadOnly
  <2>2. ThreadsOutBetweenCalls'
    BY <2>1 DEF ThreadsOutBetweenCalls
  <2> SUFFICES ASSUME NEW u \in Threads, pc'[u] = "cas"
               PROVE  cur'[u] < now'[u]
    BY <2>2 DEF CasIsAbove
  <2>3. pc[u] = "cas" => cur[u] < now[u]
    BY <1>1 DEF CasIsAbove
  <2>4. /\ pc \in [Threads -> Places]
        /\ now \in [Threads -> Nat] /\ cur \in [Threads -> Nat]
        /\ c["max"] \in Nat
    BY <1>1, Names DEF MetricsTypeOK
  <2>5. CASE u # t
    <3>1. pc'[u] = pc[u] /\ now'[u] = now[u] /\ cur'[u] = cur[u]
      BY <1>3, <2>4, <2>5
         DEF ChunkStep, TakeChunk, OnThrottleWait, CountStarted, CountActive,
             LoadMax, ExchangeMax, OnRowProcessed, CountFinished,
             CountInactive, MaxRecorded, Goto
    <3> QED
      BY <2>3, <3>1
  <2>6. CASE u = t
    <3>1. LoadMax(t)
      BY <1>3, <2>4, <2>6
         DEF ChunkStep, TakeChunk, OnThrottleWait, CountStarted, CountActive,
             LoadMax, ExchangeMax, OnRowProcessed, CountFinished,
             CountInactive, MaxRecorded, Goto
    <3>2. ~(now[t] <= c["max"]) /\ cur'[t] = c["max"] /\ now' = now
      BY <2>4, <2>6, <3>1 DEF LoadMax, MaxRecorded, Goto
    <3> QED
      BY <2>4, <2>6, <3>2
  <2> QED
    BY <2>5, <2>6
<1> QED
  BY <1>2, <1>3 DEF MetricsNext

\* The caller's own steps: begin_run leaves the counters at zero before a
\* chunk starts, and nobody is in a chunk when the call is over.
LEMMA CallerAndMonitorStep ==
  ASSUME MetricsIInv, CallerStep \/ LoadField \/ NextSnapshot \/ UNCHANGED metricsVars
  PROVE  ClearedInOrder' /\ ActiveIsCounted' /\ PeakIsCarried'
<1>1. /\ MetricsTypeOK /\ ThreadsOutBetweenCalls /\ ClearedInOrder
      /\ ActiveIsCounted /\ PeakIsCarried
  BY DEF MetricsIInv
<1>2. CASE CallBegins
  BY <1>2 DEF CallBegins, ClearedInOrder, ActiveIsCounted, PeakIsCarried
<1>3. CASE ResetField
  <2>1. /\ resetting \in 1..8 /\ resetting' = resetting + 1
        /\ caller = "begin" /\ caller' = "begin"
    BY <1>1, <1>3, OrderLengths DEF ResetField, MetricsTypeOK
  <2>2. ResetOrder[resetting] # "run_id" =>
          c' = [c EXCEPT ![ResetOrder[resetting]] = 0]
    BY <1>3 DEF ResetField
  <2>3. CASE resetting < 7
    BY <2>1, <2>3 DEF ClearedInOrder, ActiveIsCounted, PeakIsCarried
  <2>4. CASE resetting = 7
    <3>1. c'["active"] = 0
      BY <1>1, <2>2, <2>4, ResetPlaces, Names DEF MetricsTypeOK
    <3> QED
      BY <2>1, <2>4, <3>1 DEF ClearedInOrder, ActiveIsCounted, PeakIsCarried
  <2>5. CASE resetting = 8
    <3>1. c' = [c EXCEPT !["max"] = 0]
      BY <2>2, <2>5, ResetPlaces
    <3>2. c'["max"] = 0 /\ c'["active"] = c["active"]
      BY <1>1, <3>1, Names DEF MetricsTypeOK
    <3>3. c["active"] = 0
      BY <1>1, <2>1, <2>5 DEF ClearedInOrder
    <3> QED
      BY <2>1, <2>5, <3>2, <3>3
         DEF ClearedInOrder, ActiveIsCounted, PeakIsCarried
  <2> QED
    BY <2>1, <2>3, <2>4, <2>5
<1>4. CASE ChunksBegin
  <2>1. c["active"] = 0 /\ c["max"] = 0
    BY <1>1, <1>4, OrderLengths DEF ChunksBegin, ClearedInOrder, MetricsTypeOK
  <2>2. \A t \in Threads : pc[t] = "out"
    BY <1>1, <1>4 DEF ChunksBegin, ThreadsOutBetweenCalls
  <2>3. Active' = {} /\ InUpdate' = {}
    BY <1>4, <2>2 DEF ChunksBegin, Active, InUpdate
  <2> QED
    BY <1>4, <2>1, <2>3, FS_EmptySet
       DEF ChunksBegin, ClearedInOrder, ActiveIsCounted, PeakIsCarried
<1>5. CASE EndRun
  <2>1. c'["active"] = c["active"] /\ c'["max"] = c["max"]
    BY <1>1, <1>5, Names DEF EndRun, Add, MetricsTypeOK
  <2>2. Active' = Active /\ InUpdate' = InUpdate
    BY <1>5 DEF EndRun, Active, InUpdate
  <2> QED
    BY <1>1, <1>5, <2>1, <2>2
       DEF EndRun, ClearedInOrder, ActiveIsCounted, PeakIsCarried
<1>6. CASE LoadField \/ NextSnapshot \/ UNCHANGED metricsVars
  <2>1. UNCHANGED <<c, pc, now, caller, resetting, peak>>
    BY <1>6 DEF LoadField, NextSnapshot, metricsVars
  <2>2. Active' = Active /\ InUpdate' = InUpdate
    BY <2>1 DEF Active, InUpdate
  <2> QED
    BY <1>1, <2>1, <2>2 DEF ClearedInOrder, ActiveIsCounted, PeakIsCarried
<1> QED
  BY <1>2, <1>3, <1>4, <1>5, <1>6 DEF CallerStep
-----------------------------------------------------------------------------
(***************************************************************************)
(* The counters of ExecutionMetrics keep their invariant through every     *)
(* interleaving of the methods, for every number of threads.               *)
(***************************************************************************)
THEOREM MetricsInvariance == MetricsSpec => []MetricsIInv
<1>1. MetricsInit => MetricsIInv
  <2> SUFFICES ASSUME MetricsInit PROVE MetricsIInv
    OBVIOUS
  <2>1. MetricsTypeOK
    BY Names, OrderLengths DEF MetricsInit, MetricsTypeOK
  <2> QED
    BY <2>1 DEF MetricsInit, MetricsIInv, CasIsAbove, ThreadsOutBetweenCalls, ClearedInOrder,
                ActiveIsCounted, PeakIsCarried
<1>2. MetricsIInv /\ [MetricsNext]_metricsVars => MetricsIInv'
  <2> SUFFICES ASSUME MetricsIInv, [MetricsNext]_metricsVars PROVE MetricsIInv'
    OBVIOUS
  <2>1. ASSUME NEW t \in Threads, ChunkStep(t)
        PROVE  ClearedInOrder' /\ ActiveIsCounted' /\ PeakIsCarried'
    <3>1. caller' = "running"
      BY <2>1, ThreadStep
         DEF ChunkStep, TakeChunk, OnThrottleWait, CountStarted, CountActive,
             LoadMax, ExchangeMax, OnRowProcessed, CountFinished,
             CountInactive, ThreadOnly
    <3> QED
      BY <2>1, <3>1, ThreadStep DEF ClearedInOrder
  <2> QED
    BY <2>1, MetricsTypeStep, PlacesStep, CallerAndMonitorStep DEF MetricsIInv, MetricsNext
<1> QED
  BY <1>1, <1>2, PTL DEF MetricsSpec

(***************************************************************************)
(* Every counter stays a natural number: on_chunk_end never takes          *)
(* active_chunks below zero while calls follow one another.                *)
(***************************************************************************)
THEOREM MetricsTyped == MetricsSpec => []MetricsTypeOK
<1>1. MetricsIInv => MetricsTypeOK
  BY DEF MetricsIInv
<1> QED
  BY <1>1, MetricsInvariance, PTL

(***************************************************************************)
(* active_chunks is the number of threads inside a chunk.                  *)
(***************************************************************************)
THEOREM ActiveIsExact == MetricsSpec => []ActiveIsCounted
<1>1. MetricsIInv => ActiveIsCounted
  BY DEF MetricsIInv
<1> QED
  BY <1>1, MetricsInvariance, PTL

(***************************************************************************)
(* The compare-and-exchange loop of update_max_usize loses no maximum:     *)
(* when a call is over, max_active_chunks is the peak of active_chunks.    *)
(***************************************************************************)
THEOREM PeakIsExact == MetricsSpec => []PeakIsRecorded
<1>1. MetricsIInv => PeakIsRecorded
  BY DEF MetricsIInv, ThreadsOutBetweenCalls, PeakIsCarried, PeakIsRecorded, InUpdate
<1> QED
  BY <1>1, MetricsInvariance, PTL

-----------------------------------------------------------------------------
(* Why a snapshot is not torn: what the counters say of the chunks of a    *)
(* call, and what a snapshot that has loaded some of them says of those    *)
(* that are left.                                                          *)

\* The rows still to go, and the threads before the count of started and
\* before the count of finished chunks.
Togo == {p \in Threads \X (1..RowsEach) : p[2] <= todo[p[1]]}
Entering == {t \in Threads : pc[t] \in {"throttle", "started"}}
Inside == {t \in Threads : pc[t] \notin {"out", "inactive"}}

TodoFollows == \A t \in Threads :
  /\ pc[t] \in {"out", "inactive"} => todo[t] = 0
  /\ pc[t] \in {"throttle", "started", "active", "load", "cas"} => todo[t] = RowsEach

ChunksAreCounted == caller \in {"running", "over"} =>
  /\ c["rows"] + Cardinality(Togo) + RowsEach * left = RowsEach * Chunks
  /\ c["started"] + Cardinality(Entering) + left = Chunks
  /\ c["finished"] + Cardinality(Inside) + left = Chunks
  /\ caller = "over" => left = 0
  /\ caller = "running" => c["elapsed"] = 0

RowsAreDone ==
  /\ c["run_id"] <= MaxRuns
  /\ caller = "idle" => c["run_id"] = 0
  /\ caller = "begin" /\ resetting = 1 => c["run_id"] < MaxRuns
  /\ caller = "begin" /\ resetting > 1 => c["run_id"] >= 1 /\ done[c["run_id"]] = 0
  /\ caller \in {"running", "over"} =>
       c["run_id"] >= 1 /\ done[c["run_id"]] = c["rows"]
  /\ \A n \in 1..MaxRuns : n > c["run_id"] => done[n] = 0

ResetInOrder == caller = "begin" =>
  /\ resetting > 2 => c["elapsed"] = 0
  /\ resetting > 3 => c["rows"] = 0
  /\ resetting > 4 => c["started"] = 0
  /\ resetting > 5 => c["finished"] = 0

SoFar == (seen # <<>> /\ overlap = "none") =>
  /\ caller # "begin" /\ seen[1] = c["run_id"]
  /\ c["run_id"] > 0 =>
       /\ Len(seen) >= 2 /\ seen[2] > 0 => caller = "over"
       /\ Len(seen) >= 3 =>
            seen[3] <= c["rows"] /\ (seen[2] > 0 => seen[3] = c["rows"])
       /\ Len(seen) >= 4 =>
            seen[3] <= RowsEach * seen[4] /\ (seen[2] > 0 => seen[4] = c["started"])
       /\ Len(seen) >= 5 => (seen[2] > 0 => seen[5] = c["finished"])

SnapshotInv == /\ TodoFollows /\ ChunksAreCounted /\ RowsAreDone /\ ResetInOrder
               /\ SoFar

LEMMA FiniteRows ==
  ASSUME MetricsTypeOK
  PROVE  /\ IsFiniteSet(Togo) /\ Cardinality(Togo) \in Nat
         /\ IsFiniteSet(Entering) /\ Cardinality(Entering) \in Nat
         /\ IsFiniteSet(Inside) /\ Cardinality(Inside) \in Nat
         /\ \A T : IsFiniteSet(T) =>
              /\ IsFiniteSet(T \X (1..RowsEach))
              /\ Cardinality(T \X (1..RowsEach)) = Cardinality(T) * RowsEach
<1>1. IsFiniteSet(1..RowsEach) /\ Cardinality(1..RowsEach) = RowsEach
  <2>1. 1 \in Int /\ RowsEach \in Int
    OBVIOUS
  <2>2. /\ IsFiniteSet(1..RowsEach)
        /\ Cardinality(1..RowsEach) = IF 1 > RowsEach THEN 0 ELSE RowsEach - 1 + 1
    BY <2>1, FS_Interval
  <2> QED
    BY <2>2
<1>2. \A T : IsFiniteSet(T) =>
        /\ IsFiniteSet(T \X (1..RowsEach))
        /\ Cardinality(T \X (1..RowsEach)) = Cardinality(T) * RowsEach
  BY <1>1, FS_Product
<1>3. Togo \subseteq Threads \X (1..RowsEach) /\ Entering \subseteq Threads
      /\ Inside \subseteq Threads
  BY DEF Togo, Entering, Inside
<1>4. IsFiniteSet(Togo) /\ IsFiniteSet(Entering) /\ IsFiniteSet(Inside)
  BY <1>2, <1>3, FS_Subset
<1> QED
  BY <1>2, <1>4, FS_CardinalityType

\* The thread that is given a chunk has all its rows to go.
LEMMA TogoTakes ==
  ASSUME MetricsTypeOK, NEW t \in Threads, todo[t] = 0,
         todo' = [todo EXCEPT ![t] = RowsEach]
  PROVE  Cardinality(Togo') = Cardinality(Togo) + RowsEach
<1> DEFINE own == {t} \X (1..RowsEach)
<1>1. todo \in [Threads -> 0..RowsEach]
  BY DEF MetricsTypeOK
<1>2. \A u \in Threads : todo'[u] = IF u = t THEN RowsEach ELSE todo[u]
  BY <1>1
<1>3. Togo' = Togo \cup own
  BY <1>1, <1>2 DEF Togo
<1>4. Togo \cap own = {}
  BY <1>1 DEF Togo
<1>5. IsFiniteSet({t}) /\ Cardinality({t}) = 1
  BY FS_Singleton
<1>6. IsFiniteSet(own) /\ Cardinality(own) = Cardinality({t}) * RowsEach
  BY <1>5, FiniteRows
<1> HIDE DEF own
<1>7. /\ IsFiniteSet(Togo) /\ Cardinality(Togo) \in Nat
  BY FiniteRows
<1>8. Cardinality(Togo \cup own)
        = Cardinality(Togo) + Cardinality(own) - Cardinality(Togo \cap own)
  BY <1>6, <1>7, FS_Union
<1>9. Cardinality(Togo \cap own) = 0
  BY <1>4, FS_EmptySet
<1>10. Cardinality(own) = RowsEach
  BY <1>5, <1>6
<1> QED
  BY <1>3, <1>7, <1>8, <1>9, <1>10

\* on_row_processed takes one of them away.
LEMMA TogoGoes ==
  ASSUME MetricsTypeOK, NEW t \in Threads, todo[t] > 0,
         todo' = [todo EXCEPT ![t] = @ - 1]
  PROVE  Cardinality(Togo') = Cardinality(Togo) - 1
<1> DEFINE row == <<t, todo[t]>>
<1>1. todo \in [Threads -> 0..RowsEach] /\ todo[t] \in 1..RowsEach
  BY DEF MetricsTypeOK
<1>2. \A u \in Threads : todo'[u] = IF u = t THEN todo[t] - 1 ELSE todo[u]
  BY <1>1
<1>3. row \in Togo
  BY <1>1 DEF Togo
<1>4. Togo' = Togo \ {row}
  <2>1. \A u \in Threads, k \in 1..RowsEach :
          k <= todo'[u] <=> k <= todo[u] /\ <<u, k>> # row
    BY <1>1, <1>2
  <2> HIDE DEF row
  <2>2. \A p : p \in Togo' <=> p \in Togo \ {row}
    BY <2>1 DEF Togo
  <2>3. Togo' \subseteq Togo \ {row} /\ Togo \ {row} \subseteq Togo'
    BY <2>2, Zenon
  <2> QED
    BY <2>3, Zenon
<1> HIDE DEF row
<1>5. IsFiniteSet(Togo)
  BY FiniteRows
<1>6. Cardinality(Togo \ {row}) = Cardinality(Togo) - 1
  BY <1>3, <1>5, FS_RemoveElement
<1> QED
  BY <1>4, <1>6

\* Where a step takes a thread.
LEMMA Going ==
  ASSUME MetricsTypeOK, NEW t \in Threads, NEW p \in Places, Goto(t, p)
  PROVE  /\ pc'[t] = p /\ \A u \in Threads \ {t} : pc'[u] = pc[u]
         /\ Entering' = IF p \in {"throttle", "started"} THEN Entering \cup {t}
                        ELSE Entering \ {t}
         /\ Inside' = IF p \notin {"out", "inactive"} THEN Inside \cup {t}
                      ELSE Inside \ {t}
<1>1. pc'[t] = p /\ \A u \in Threads \ {t} : pc'[u] = pc[u]
  BY DEF MetricsTypeOK, Goto
<1> QED
  BY <1>1 DEF Entering, Inside

\* No more rows are done than the started chunks hold.
LEMMA RowsOfStarted ==
  ASSUME MetricsTypeOK, TodoFollows, ChunksAreCounted, caller \in {"running", "over"}
  PROVE  c["rows"] <= RowsEach * c["started"]
<1> DEFINE e == Cardinality(Entering)
           g == Cardinality(Togo)
           s == c["started"]
           n == c["rows"]
<1>1. /\ n + g + RowsEach * left = RowsEach * Chunks /\ s + e + left = Chunks
  BY DEF ChunksAreCounted
<1>2. /\ IsFiniteSet(Togo) /\ g \in Nat /\ IsFiniteSet(Entering) /\ e \in Nat
      /\ IsFiniteSet(Entering \X (1..RowsEach))
      /\ Cardinality(Entering \X (1..RowsEach)) = e * RowsEach
  BY FiniteRows
<1>3. Entering \X (1..RowsEach) \subseteq Togo
  BY DEF Entering, Togo, TodoFollows
<1>4. Cardinality(Entering \X (1..RowsEach)) <= g
  BY <1>2, <1>3, FS_Subset
<1>5. s \in Nat /\ n \in Nat /\ left \in Nat
  BY Names DEF MetricsTypeOK
<1> HIDE DEF e, g, s, n
<1>6. RowsEach * (s + e + left) = RowsEach * s + e * RowsEach + RowsEach * left
  BY <1>2, <1>5, SMT
<1>7. RowsEach * s \in Int /\ e * RowsEach \in Int /\ RowsEach * left \in Int
  BY <1>2, <1>5, SMT
<1> QED
  BY <1>1, <1>2, <1>4, <1>5, <1>6, <1>7 DEF n, s

LEMMA Adding ==
  ASSUME MetricsTypeOK, NEW f \in Fields, NEW n \in Nat, Add(f, n)
  PROVE  c'[f] = c[f] + n /\ \A g \in Fields \ {f} : c'[g] = c[g]
BY DEF MetricsTypeOK, Add

\* A counter and the threads it will still count.
LEMMA OneLess ==
  ASSUME NEW S, IsFiniteSet(S), NEW t \in S
  PROVE  Cardinality(S \ {t}) = Cardinality(S) - 1
BY FS_RemoveElement

LEMMA OneMore ==
  ASSUME NEW S, IsFiniteSet(S), NEW t, t \notin S
  PROVE  Cardinality(S \cup {t}) = Cardinality(S) + 1
BY FS_AddElement

LEMMA SumsTake ==
  ASSUME MetricsTypeOK, TodoFollows, ChunksAreCounted, NEW t \in Threads, TakeChunk(t)
  PROVE  ChunksAreCounted'
<1>1. /\ caller = "running" /\ caller' = caller /\ c' = c /\ left > 0
      /\ left' = left - 1 /\ todo' = [todo EXCEPT ![t] = RowsEach]
      /\ pc[t] = "out" /\ left \in Nat
      /\ \E p \in {"throttle", "started"} : Goto(t, p)
  BY DEF TakeChunk, MetricsTypeOK
<1>2. todo[t] = 0 /\ t \notin Entering /\ t \notin Inside
  BY <1>1 DEF TodoFollows, Entering, Inside
<1>3. Entering' = Entering \cup {t} /\ Inside' = Inside \cup {t}
  BY <1>1, Going, Names
<1>4. /\ Cardinality(Entering') = Cardinality(Entering) + 1
      /\ Cardinality(Inside') = Cardinality(Inside) + 1
  BY <1>2, <1>3, FiniteRows, OneMore
<1>5. Cardinality(Togo') = Cardinality(Togo) + RowsEach
  BY <1>1, <1>2, TogoTakes
<1>6. RowsEach * (left - 1) = RowsEach * left - RowsEach /\ RowsEach * left \in Int
  BY <1>1, SMT
<1>7. /\ Cardinality(Entering) \in Nat /\ Cardinality(Inside) \in Nat
      /\ Cardinality(Togo) \in Nat
      /\ c["rows"] \in Nat /\ c["started"] \in Nat /\ c["finished"] \in Nat
  BY FiniteRows, Names DEF MetricsTypeOK
<1>8. /\ c["rows"] + Cardinality(Togo) + RowsEach * left = RowsEach * Chunks
      /\ c["started"] + Cardinality(Entering) + left = Chunks
      /\ c["finished"] + Cardinality(Inside) + left = Chunks /\ c["elapsed"] = 0
  BY <1>1 DEF ChunksAreCounted
<1>9. c["rows"] + Cardinality(Togo') + RowsEach * left' = RowsEach * Chunks
  BY <1>1, <1>5, <1>6, <1>7, <1>8
<1>10. /\ c["started"] + Cardinality(Entering') + left' = Chunks
       /\ c["finished"] + Cardinality(Inside') + left' = Chunks
  BY <1>1, <1>4, <1>7, <1>8
<1> QED
  BY <1>1, <1>8, <1>9, <1>10 DEF ChunksAreCounted

\* The steps of a thread in its chunk: what each counts and no longer has to.
LEMMA SumsInChunk ==
  ASSUME MetricsIInv, TodoFollows, ChunksAreCounted, NEW t \in Threads, ChunkStep(t),
         ~TakeChunk(t)
  PROVE  ChunksAreCounted'
<1>1. MetricsTypeOK /\ caller = "running" /\ caller' = caller /\ left' = left
  BY ThreadStep DEF MetricsIInv, ChunkStep, OnThrottleWait, CountStarted, CountActive,
     LoadMax, ExchangeMax, OnRowProcessed, CountFinished, CountInactive, ThreadOnly
<1>2. /\ c["rows"] + Cardinality(Togo) + RowsEach * left = RowsEach * Chunks
      /\ c["started"] + Cardinality(Entering) + left = Chunks
      /\ c["finished"] + Cardinality(Inside) + left = Chunks /\ c["elapsed"] = 0
  BY <1>1 DEF ChunksAreCounted
<1>3. /\ IsFiniteSet(Togo) /\ Cardinality(Togo) \in Nat
      /\ IsFiniteSet(Entering) /\ Cardinality(Entering) \in Nat
      /\ IsFiniteSet(Inside) /\ Cardinality(Inside) \in Nat
      /\ c["rows"] \in Nat /\ c["started"] \in Nat /\ c["finished"] \in Nat
  BY <1>1, FiniteRows, Names DEF MetricsTypeOK
<1>4. SUFFICES /\ c'["rows"] + Cardinality(Togo') = c["rows"] + Cardinality(Togo)
               /\ c'["started"] + Cardinality(Entering')
                    = c["started"] + Cardinality(Entering)
               /\ c'["finished"] + Cardinality(Inside')
                    = c["finished"] + Cardinality(Inside)
               /\ c'["elapsed"] = c["elapsed"]
  BY <1>1, <1>2 DEF ChunksAreCounted
<1>5. CASE CountStarted(t)
  <2>1. /\ pc[t] = "started" /\ Add("started", 1) /\ Goto(t, "active") /\ todo' = todo
    BY <1>5 DEF CountStarted
  <2>2. /\ t \in Entering /\ t \in Inside
    BY <2>1 DEF Entering, Inside
  <2>3. Entering' = Entering \ {t} /\ Inside' = Inside /\ Togo' = Togo
    BY <1>1, <2>1, <2>2, Going, Names DEF Togo
  <2>4. /\ c'["started"] = c["started"] + 1 /\ c'["rows"] = c["rows"]
        /\ c'["finished"] = c["finished"] /\ c'["elapsed"] = c["elapsed"]
    BY <1>1, <2>1, Adding, Names
  <2>5. Cardinality(Entering') = Cardinality(Entering) - 1
    BY <1>3, <2>2, <2>3, OneLess
  <2> QED
    BY <1>3, <2>3, <2>4, <2>5
<1>6. CASE CountFinished(t)
  <2>1. /\ pc[t] = "row" /\ Add("finished", 1) /\ Goto(t, "inactive") /\ todo' = todo
    BY <1>6 DEF CountFinished
  <2>2. /\ t \notin Entering /\ t \in Inside
    BY <2>1 DEF Entering, Inside
  <2>3. Entering' = Entering /\ Inside' = Inside \ {t} /\ Togo' = Togo
    <3>1. Entering' = Entering /\ Inside' = Inside \ {t}
      BY <1>1, <2>1, <2>2, Going, Names
    <3> QED
      BY <2>1, <3>1 DEF Togo
  <2>4. /\ c'["started"] = c["started"] /\ c'["rows"] = c["rows"]
        /\ c'["finished"] = c["finished"] + 1 /\ c'["elapsed"] = c["elapsed"]
    BY <1>1, <2>1, Adding, Names
  <2>5. Cardinality(Inside') = Cardinality(Inside) - 1
    BY <1>3, <2>2, <2>3, OneLess
  <2> QED
    BY <1>3, <2>3, <2>4, <2>5
<1>7. CASE OnRowProcessed(t)
  <2>1. /\ pc[t] = "row" /\ Add("rows", 1) /\ pc' = pc /\ todo[t] > 0
        /\ todo' = [todo EXCEPT ![t] = @ - 1]
    BY <1>7 DEF OnRowProcessed
  <2>2. Entering' = Entering /\ Inside' = Inside
    BY <2>1 DEF Entering, Inside
  <2>3. Cardinality(Togo') = Cardinality(Togo) - 1
    BY <1>1, <2>1, TogoGoes
  <2>4. /\ c'["started"] = c["started"] /\ c'["rows"] = c["rows"] + 1
        /\ c'["finished"] = c["finished"] /\ c'["elapsed"] = c["elapsed"]
    BY <1>1, <2>1, Adding, Names
  <2> QED
    BY <1>3, <2>2, <2>3, <2>4
<1>8. CASE \/ OnThrottleWait(t) \/ CountActive(t) \/ LoadMax(t) \/ ExchangeMax(t)
           \/ CountInactive(t)
  <2>1. /\ todo' = todo /\ pc[t] \in {"throttle", "active", "load", "cas", "inactive"}
        /\ \/ c' = c
           \/ \E g \in {"throttle", "active", "max"} :
                \E n : c' = [c EXCEPT ![g] = n]
    BY <1>8 DEF OnThrottleWait, CountActive, LoadMax, ExchangeMax, CountInactive, Add
  <2>2. \E p \in Places :
          /\ Goto(t, p)
          /\ p \in {"throttle", "started"} <=> pc[t] \in {"throttle", "started"}
          /\ p \in {"out", "inactive"} <=> pc[t] \in {"out", "inactive"}
    BY <1>8, Names DEF OnThrottleWait, CountActive, LoadMax, ExchangeMax, CountInactive,
                       MaxRecorded
  <2>3. Entering' = Entering /\ Inside' = Inside /\ Togo' = Togo
    BY <1>1, <2>1, <2>2, Going DEF Entering, Inside, Togo
  <2>4. /\ c'["started"] = c["started"] /\ c'["rows"] = c["rows"]
        /\ c'["finished"] = c["finished"] /\ c'["elapsed"] = c["elapsed"]
    BY <1>1, <2>1, Names DEF MetricsTypeOK
  <2> QED
    BY <2>3, <2>4
<1> QED
  BY <1>5, <1>6, <1>7, <1>8 DEF ChunkStep

Rest == LoadField \/ NextSnapshot \/ UNCHANGED metricsVars

LEMMA SumsOfCalls ==
  ASSUME MetricsIInv, TodoFollows, ChunksAreCounted, ResetInOrder, CallerStep \/ Rest
  PROVE  ChunksAreCounted'
<1>1. MetricsTypeOK /\ ThreadsOutBetweenCalls
  BY DEF MetricsIInv
<1>2. CASE CallBegins \/ ResetField
  BY <1>2 DEF CallBegins, ResetField, ChunksAreCounted
<1>3. CASE ChunksBegin
  <2>1. \A t \in Threads : pc[t] = "out" /\ todo[t] = 0
    BY <1>1, <1>3 DEF ChunksBegin, ThreadsOutBetweenCalls, TodoFollows
  <2>2. Togo = {} /\ Entering = {} /\ Inside = {}
    BY <2>1 DEF Togo, Entering, Inside
  <2>3. Togo' = {} /\ Entering' = {} /\ Inside' = {}
    BY <1>3, <2>2 DEF ChunksBegin, Togo, Entering, Inside
  <2>4. /\ c["rows"] = 0 /\ c["started"] = 0 /\ c["finished"] = 0 /\ c["elapsed"] = 0
    BY <1>1, <1>3, OrderLengths DEF ChunksBegin, ResetInOrder, MetricsTypeOK
  <2>5. /\ caller' = "running" /\ left' = Chunks /\ c' = c
    BY <1>3 DEF ChunksBegin
  <2>6. Cardinality({}) = 0 /\ RowsEach * Chunks \in Nat
    BY FS_EmptySet, SMT
  <2> QED
    BY <2>3, <2>4, <2>5, <2>6 DEF ChunksAreCounted
<1>4. CASE EndRun
  <2>1. /\ c'["rows"] = c["rows"] /\ c'["started"] = c["started"]
        /\ c'["finished"] = c["finished"]
    BY <1>1, <1>4, Adding, Names DEF EndRun
  <2>2. Togo' = Togo /\ Entering' = Entering /\ Inside' = Inside
    BY <1>4 DEF EndRun, Togo, Entering, Inside
  <2> QED
    BY <1>4, <2>1, <2>2 DEF EndRun, ChunksAreCounted
<1>5. CASE Rest
  <2>1. UNCHANGED <<c, pc, todo, left, caller>>
    BY <1>5 DEF Rest, LoadField, NextSnapshot, metricsVars
  <2>2. Togo' = Togo /\ Entering' = Entering /\ Inside' = Inside
    BY <2>1 DEF Togo, Entering, Inside
  <2> QED
    BY <2>1, <2>2 DEF ChunksAreCounted
<1> QED
  BY <1>2, <1>3, <1>4, <1>5 DEF CallerStep

LEMMA TodoStep ==
  MetricsTypeOK /\ TodoFollows /\ [MetricsNext]_metricsVars => TodoFollows'
<1> SUFFICES ASSUME MetricsTypeOK, TodoFollows, [MetricsNext]_metricsVars,
                    NEW u \in Threads
             PROVE  /\ pc'[u] \in {"out", "inactive"} => todo'[u] = 0
                    /\ pc'[u] \in {"throttle", "started", "active", "load", "cas"}
                         => todo'[u] = RowsEach
  BY DEF TodoFollows
<1>1. CASE UNCHANGED <<pc, todo>>
  BY <1>1 DEF TodoFollows
<1>2. ASSUME NEW t \in Threads, ChunkStep(t), t # u
      PROVE  pc'[u] = pc[u] /\ todo'[u] = todo[u]
  BY <1>2 DEF ChunkStep, TakeChunk, OnThrottleWait, CountStarted, CountActive, LoadMax,
              ExchangeMax, OnRowProcessed, CountFinished, CountInactive, MaxRecorded, Goto,
              MetricsTypeOK
<1>3. CASE ChunkStep(u)
  <2>1. \A p : Goto(u, p) => pc'[u] = p
    BY DEF Goto, MetricsTypeOK
  <2>2. CASE TakeChunk(u)
    BY <2>1, <2>2 DEF TakeChunk, MetricsTypeOK
  <2>3. CASE OnRowProcessed(u)
    BY <2>3 DEF OnRowProcessed
  <2>4. CASE OnThrottleWait(u) \/ CountStarted(u) \/ CountActive(u) \/ LoadMax(u)
             \/ ExchangeMax(u)
    BY <2>1, <2>4 DEF OnThrottleWait, CountStarted, CountActive, LoadMax, ExchangeMax,
                      MaxRecorded, TodoFollows
  <2>5. CASE CountFinished(u) \/ CountInactive(u)
    BY <2>1, <2>5 DEF CountFinished, CountInactive, TodoFollows
  <2> QED
    BY <1>3, <2>2, <2>3, <2>4, <2>5 DEF ChunkStep
<1>4. CASE CallerStep \/ Rest
  BY <1>1, <1>4 DEF CallerStep, CallBegins, ResetField, ChunksBegin, EndRun, Rest,
                    LoadField, NextSnapshot, metricsVars
<1>5. ASSUME NEW t \in Threads, ChunkStep(t), t # u
      PROVE  /\ pc'[u] \in {"out", "inactive"} => todo'[u] = 0
             /\ pc'[u] \in {"throttle", "started", "active", "load", "cas"}
                  => todo'[u] = RowsEach
  BY <1>2, <1>5 DEF TodoFollows
<1> QED
  BY <1>3, <1>4, <1>5 DEF MetricsNext, Rest

LEMMA ResetNames ==
  /\ ResetOrder[1] = "run_id" /\ ResetOrder[2] = "elapsed" /\ ResetOrder[3] = "rows"
  /\ ResetOrder[4] = "started" /\ ResetOrder[5] = "finished"
  /\ \A i \in 2..8 : ResetOrder[i] \in Fields \ {"run_id"}
BY DEF ResetOrder, Fields

\* What a store of begin_run leaves.
LEMMA ResetStores ==
  ASSUME MetricsTypeOK, ResetField
  PROVE  /\ resetting \in 1..8 /\ resetting' = resetting + 1
         /\ caller = "begin" /\ caller' = "begin"
         /\ resetting = 1 => c'["run_id"] = c["run_id"] + 1
         /\ resetting > 1 => /\ c'[ResetOrder[resetting]] = 0
                             /\ c'["run_id"] = c["run_id"]
         /\ \A g \in Fields \ {"run_id"} : c[g] = 0 => c'[g] = 0
<1> DEFINE f == ResetOrder[resetting]
           n == IF f = "run_id" THEN c[f] + 1 ELSE 0
<1>1. /\ resetting \in 1..8 /\ resetting' = resetting + 1
      /\ caller = "begin" /\ caller' = "begin"
  BY OrderLengths DEF ResetField, MetricsTypeOK
<1>2. f \in Fields
  BY <1>1, ResetPlaces
<1>3. c' = [c EXCEPT ![f] = n] /\ c \in [Fields -> Nat]
  BY DEF ResetField, MetricsTypeOK
<1>4. (resetting = 1 => f = "run_id") /\ (resetting > 1 => f # "run_id")
  BY <1>1, ResetNames
<1>5. n = IF f = "run_id" THEN c["run_id"] + 1 ELSE 0
  OBVIOUS
<1> HIDE DEF f, n
<1>6. c'[f] = n /\ \A g \in Fields : g # f => c'[g] = c[g]
  BY <1>2, <1>3
<1> QED
  BY <1>1, <1>2, <1>4, <1>5, <1>6, Names DEF f

LEMMA ResetStep ==
  ASSUME MetricsIInv, ResetInOrder, [MetricsNext]_metricsVars
  PROVE  ResetInOrder'
<1>1. MetricsTypeOK
  BY DEF MetricsIInv
<1>2. CASE ResetField
  <2>1. /\ resetting \in 1..8 /\ resetting' = resetting + 1 /\ caller = "begin"
        /\ resetting > 1 => c'[ResetOrder[resetting]] = 0
        /\ \A g \in Fields \ {"run_id"} : c[g] = 0 => c'[g] = 0
    BY <1>1, <1>2, ResetStores
  <2>2. /\ resetting = 2 => c'["elapsed"] = 0
        /\ resetting = 3 => c'["rows"] = 0
        /\ resetting = 4 => c'["started"] = 0
        /\ resetting = 5 => c'["finished"] = 0
    BY <2>1, ResetNames
  <2>3. /\ c["elapsed"] = 0 => c'["elapsed"] = 0
        /\ c["rows"] = 0 => c'["rows"] = 0
        /\ c["started"] = 0 => c'["started"] = 0
        /\ c["finished"] = 0 => c'["finished"] = 0
    BY <2>1, Names
  <2> QED
    BY <2>1, <2>2, <2>3 DEF ResetInOrder
<1>3. ASSUME NEW t \in Threads, ChunkStep(t) PROVE caller' # "begin"
  BY <1>3, ThreadStep DEF ChunkStep, TakeChunk, OnThrottleWait, CountStarted, CountActive,
     LoadMax, ExchangeMax, OnRowProcessed, CountFinished, CountInactive, ThreadOnly
<1>4. CASE CallBegins \/ ChunksBegin \/ EndRun
  BY <1>4 DEF CallBegins, ChunksBegin, EndRun, ResetInOrder
<1>5. CASE Rest
  BY <1>5 DEF Rest, LoadField, NextSnapshot, metricsVars, ResetInOrder
<1> QED
  BY <1>2, <1>3, <1>4, <1>5 DEF MetricsNext, CallerStep, Rest, ResetInOrder

\* What a thread's step leaves of a call.
LEMMA ThreadKeeps ==
  ASSUME MetricsIInv, NEW t \in Threads, ChunkStep(t)
  PROVE  /\ MetricsTypeOK /\ caller = "running"
         /\ UNCHANGED <<caller, resetting, seen, overlap>>
         /\ c'["run_id"] = c["run_id"] /\ c'["elapsed"] = c["elapsed"]
         /\ c'["rows"] >= c["rows"] /\ c'["started"] >= c["started"]
         /\ \/ c'["rows"] = c["rows"] /\ done' = done
            \/ /\ c'["rows"] = c["rows"] + 1
               /\ done' = [done EXCEPT ![c["run_id"]] = @ + 1]
<1>1. MetricsTypeOK /\ caller = "running"
  BY ThreadStep DEF MetricsIInv
<1>2. UNCHANGED <<caller, resetting, seen, overlap>>
  BY DEF ChunkStep, TakeChunk, OnThrottleWait, CountStarted, CountActive,
         LoadMax, ExchangeMax, OnRowProcessed, CountFinished, CountInactive, ThreadOnly
<1>3. c["rows"] \in Nat /\ c["started"] \in Nat
  BY <1>1, Names DEF MetricsTypeOK
<1>4. CASE OnRowProcessed(t)
  <2>1. Add("rows", 1) /\ done' = [done EXCEPT ![c["run_id"]] = @ + 1]
    BY <1>4 DEF OnRowProcessed
  <2> QED
    BY <1>1, <1>2, <1>3, <2>1, Adding, Names
<1>5. CASE CountStarted(t)
  <2>1. Add("started", 1) /\ done' = done
    BY <1>5 DEF CountStarted
  <2> QED
    BY <1>1, <1>2, <1>3, <2>1, Adding, Names
<1>6. CASE ~OnRowProcessed(t) /\ ~CountStarted(t)
  <2>1. /\ done' = done
        /\ \/ c' = c
           \/ \E g \in {"throttle", "active", "max", "finished"} :
                \E n : c' = [c EXCEPT ![g] = n]
    BY <1>6 DEF ChunkStep, TakeChunk, OnThrottleWait, CountActive, LoadMax, ExchangeMax,
                CountFinished, CountInactive, Add
  <2>2. /\ c'["started"] = c["started"] /\ c'["rows"] = c["rows"]
        /\ c'["run_id"] = c["run_id"] /\ c'["elapsed"] = c["elapsed"]
    BY <1>1, <2>1, Names DEF MetricsTypeOK
  <2> QED
    BY <1>1, <1>2, <1>3, <2>1, <2>2
<1> QED
  BY <1>4, <1>5, <1>6

LEMMA DoneStep ==
  ASSUME MetricsIInv, RowsAreDone, ResetInOrder, [MetricsNext]_metricsVars
  PROVE  RowsAreDone'
<1> DEFINE k == c["run_id"]
<1>1. /\ MetricsTypeOK /\ k \in Nat /\ c["rows"] \in Nat
      /\ done \in [1..MaxRuns -> Nat] /\ k <= MaxRuns
  BY Names DEF MetricsIInv, MetricsTypeOK, RowsAreDone
<1>2. ASSUME NEW t \in Threads, ChunkStep(t) PROVE RowsAreDone'
  <2>1. /\ caller = "running" /\ caller' = caller /\ c'["run_id"] = k
        /\ \/ c'["rows"] = c["rows"] /\ done' = done
           \/ /\ c'["rows"] = c["rows"] + 1
              /\ done' = [done EXCEPT ![k] = @ + 1]
    BY <1>2, ThreadKeeps
  <2>2. k >= 1 /\ done[k] = c["rows"] /\ \A n \in 1..MaxRuns : n > k => done[n] = 0
    BY <2>1 DEF RowsAreDone
  <2> HIDE DEF k
  <2>3. done'[k] = c'["rows"] /\ \A n \in 1..MaxRuns : n > k => done'[n] = 0
    BY <1>1, <2>1, <2>2
  <2> QED
    BY <1>1, <2>1, <2>2, <2>3 DEF RowsAreDone
<1>3. CASE CallBegins
  BY <1>1, <1>3 DEF CallBegins, RowsAreDone
<1>4. CASE ResetField
  <2>1. /\ resetting \in 1..8 /\ resetting' = resetting + 1
        /\ caller = "begin" /\ caller' = "begin" /\ done' = done
        /\ resetting = 1 => c'["run_id"] = k + 1
        /\ resetting > 1 => c'["run_id"] = k
    BY <1>1, <1>4, ResetStores DEF ResetField
  <2>2. CASE resetting = 1
    <3>1. k < MaxRuns /\ \A n \in 1..MaxRuns : n > k => done[n] = 0
      BY <2>1, <2>2 DEF RowsAreDone
    <3> HIDE DEF k
    <3>2. k + 1 \in 1..MaxRuns /\ done[k + 1] = 0
      BY <1>1, <3>1
    <3> QED
      BY <1>1, <2>1, <2>2, <3>1, <3>2 DEF RowsAreDone
  <2>3. CASE resetting > 1
    BY <1>1, <2>1, <2>3 DEF RowsAreDone
  <2> QED
    BY <2>1, <2>2, <2>3
<1>5. CASE ChunksBegin
  <2>1. c["rows"] = 0 /\ resetting > 1 /\ caller = "begin"
    BY <1>1, <1>5, OrderLengths DEF ChunksBegin, ResetInOrder, MetricsTypeOK
  <2> QED
    BY <1>5, <2>1 DEF ChunksBegin, RowsAreDone
<1>6. CASE EndRun
  <2>1. c'["rows"] = c["rows"] /\ c'["run_id"] = k
    BY <1>1, <1>6, Adding, Names DEF EndRun
  <2> QED
    BY <1>6, <2>1 DEF EndRun, RowsAreDone
<1>7. CASE Rest
  BY <1>7 DEF Rest, LoadField, NextSnapshot, metricsVars, RowsAreDone
<1> QED
  BY <1>2, <1>3, <1>4, <1>5, <1>6, <1>7 DEF MetricsNext, CallerStep, Rest

LEMMA LoadNames ==
  /\ LoadOrder[1] = "run_id" /\ LoadOrder[2] = "elapsed" /\ LoadOrder[3] = "rows"
  /\ LoadOrder[4] = "started" /\ LoadOrder[5] = "finished"
BY DEF LoadOrder

\* One load more.
LEMMA SoFarLoads ==
  ASSUME MetricsIInv, SnapshotInv, LoadField
  PROVE  SoFar'
<1> DEFINE n == Len(seen)
           x == c[LoadOrder[n + 1]]
<1>1. /\ MetricsTypeOK /\ seen \in Seq(Nat) /\ n \in 0..6 /\ seen' = Append(seen, x)
      /\ UNCHANGED <<c, caller>>
      /\ overlap' = IF caller = "begin" THEN "begin_run"
                    ELSE IF seen = <<>> THEN "none" ELSE overlap
  <2>1. MetricsTypeOK /\ seen \in Seq(Nat) /\ n \in Nat
    BY DEF MetricsIInv, MetricsTypeOK
  <2>2. n < 7
    BY OrderLengths DEF LoadField
  <2>3. /\ seen' = Append(seen, x) /\ UNCHANGED <<c, caller>>
        /\ overlap' = IF caller = "begin" THEN "begin_run"
                      ELSE IF seen = <<>> THEN "none" ELSE overlap
    BY DEF LoadField
  <2> HIDE DEF n, x
  <2>4. n \in 0..6
    BY <2>1, <2>2
  <2> QED
    BY <2>1, <2>3, <2>4
<1>2. x \in Nat
  <2>1. n + 1 \in 1..7
    <3> HIDE DEF n
    <3> QED
      BY <1>1
  <2>2. LoadOrder[n + 1] \in Fields
    BY <2>1, ResetPlaces
  <2> QED
    BY <1>1, <2>2 DEF MetricsTypeOK
<1>3. /\ n = 0 => x = c["run_id"]
      /\ n = 1 => x = c["elapsed"]
      /\ n = 2 => x = c["rows"]
      /\ n = 3 => x = c["started"]
      /\ n = 4 => x = c["finished"]
  <2>1. /\ n = 0 => n + 1 = 1
        /\ n = 1 => n + 1 = 2
        /\ n = 2 => n + 1 = 3
        /\ n = 3 => n + 1 = 4
        /\ n = 4 => n + 1 = 5
    <3> HIDE DEF n
    <3> QED
      OBVIOUS
  <2> QED
    BY <2>1, LoadNames, Zenon
<1> HIDE DEF x
<1>4. /\ Len(seen') = n + 1 /\ seen'[n + 1] = x
      /\ \A i \in 1..n : seen'[i] = seen[i]
  BY <1>1, <1>2
<1>5. seen = <<>> <=> n = 0
  BY <1>1
<1> HIDE DEF n
<1>6. /\ c["rows"] \in Nat /\ c["started"] \in Nat /\ c["elapsed"] \in Nat
      /\ \A i \in 1..n : seen[i] \in Nat
  <2>1. /\ c["rows"] \in Nat /\ c["started"] \in Nat /\ c["elapsed"] \in Nat
    BY <1>1, Names DEF MetricsTypeOK
  <2>2. \A i \in 1..n : seen[i] \in Nat
    BY <1>1 DEF n
  <2> QED
    BY <2>1, <2>2
<1> SUFFICES ASSUME overlap' = "none"
             PROVE  /\ caller # "begin" /\ seen'[1] = c["run_id"]
                    /\ c["run_id"] > 0 =>
                         /\ n + 1 >= 2 /\ seen'[2] > 0 => caller = "over"
                         /\ n + 1 >= 3 =>
                              seen'[3] <= c["rows"] /\ (seen'[2] > 0 => seen'[3] = c["rows"])
                         /\ n + 1 >= 4 =>
                              /\ seen'[3] <= RowsEach * seen'[4]
                              /\ seen'[2] > 0 => seen'[4] = c["started"]
                         /\ n + 1 >= 5 => (seen'[2] > 0 => seen'[5] = c["finished"])
  BY <1>1, <1>4 DEF SoFar
<1>7. caller # "begin" /\ (n > 0 => overlap = "none")
  BY <1>1, <1>5
<1>8. CASE n = 0
  BY <1>3, <1>4, <1>7, <1>8
<1>9. CASE n > 0
  <2>1. /\ seen[1] = c["run_id"]
        /\ c["run_id"] > 0 =>
             /\ n >= 2 /\ seen[2] > 0 => caller = "over"
             /\ n >= 3 => seen[3] <= c["rows"] /\ (seen[2] > 0 => seen[3] = c["rows"])
             /\ n >= 4 => /\ seen[3] <= RowsEach * seen[4]
                          /\ seen[2] > 0 => seen[4] = c["started"]
             /\ n >= 5 => (seen[2] > 0 => seen[5] = c["finished"])
    BY <1>1, <1>5, <1>7, <1>9 DEF SnapshotInv, SoFar, n
  <2>2. seen'[1] = c["run_id"]
    BY <1>1, <1>4, <1>9, <2>1
  <2> SUFFICES ASSUME c["run_id"] > 0
               PROVE  /\ n + 1 >= 2 /\ seen'[2] > 0 => caller = "over"
                      /\ n + 1 >= 3 =>
                           seen'[3] <= c["rows"] /\ (seen'[2] > 0 => seen'[3] = c["rows"])
                      /\ n + 1 >= 4 => /\ seen'[3] <= RowsEach * seen'[4]
                                       /\ seen'[2] > 0 => seen'[4] = c["started"]
                      /\ n + 1 >= 5 => (seen'[2] > 0 => seen'[5] = c["finished"])
    BY <1>7, <2>2
  <2>3. caller \in {"running", "over"}
    BY <1>1, <1>7 DEF SnapshotInv, RowsAreDone, MetricsTypeOK
  <2>4. CASE n = 1
    <3>1. seen'[2] > 0 => caller = "over"
      BY <1>3, <1>4, <2>3, <2>4 DEF SnapshotInv, ChunksAreCounted
    <3> QED
      BY <2>4, <3>1
  <2>5. CASE n = 2
    BY <1>3, <1>4, <1>6, <2>1, <2>5
  <2>6. CASE n = 3
    <3>1. c["rows"] <= RowsEach * c["started"]
      BY <1>1, <2>3, RowsOfStarted DEF SnapshotInv
    <3>2. RowsEach * c["started"] \in Nat
      BY <1>6, SMT
    <3> QED
      BY <1>3, <1>4, <1>6, <2>1, <2>6, <3>1, <3>2
  <2>7. CASE n = 4
    BY <1>3, <1>4, <2>1, <2>7
  <2>8. CASE n \in 5..6
    BY <1>4, <2>1, <2>8
  <2> QED
    BY <1>1, <1>9, <2>4, <2>5, <2>6, <2>7, <2>8 DEF n
<1> QED
  BY <1>1, <1>8, <1>9 DEF n

LEMMA SoFarStep ==
  ASSUME MetricsIInv, SnapshotInv, [MetricsNext]_metricsVars
  PROVE  SoFar'
<1>1. /\ MetricsTypeOK /\ SoFar /\ c["rows"] \in Nat
      /\ seen \in Seq(Nat) /\ \A i \in 1..Len(seen) : seen[i] \in Nat
  <2>1. MetricsTypeOK /\ SoFar
    BY DEF MetricsIInv, SnapshotInv
  <2>2. c["rows"] \in Nat /\ seen \in Seq(Nat)
    BY <2>1, Names DEF MetricsTypeOK
  <2>3. \A i \in 1..Len(seen) : seen[i] \in Nat
    BY <2>2
  <2> QED
    BY <2>1, <2>2, <2>3
<1>2. ASSUME NEW t \in Threads, ChunkStep(t) PROVE SoFar'
  <2>1. /\ caller = "running" /\ UNCHANGED <<caller, seen, overlap>>
        /\ c'["run_id"] = c["run_id"] /\ c'["rows"] >= c["rows"]
        /\ c'["rows"] \in Nat
    <3>1. c'["rows"] \in Nat
      BY <1>1, <1>2, ThreadKeeps
    <3> QED
      BY <1>2, <3>1, ThreadKeeps
  <2> QED
    BY <1>1, <2>1 DEF SoFar
<1>3. CASE CallBegins
  BY <1>3 DEF CallBegins, SoFar
<1>4. CASE ResetField \/ ChunksBegin
  BY <1>1, <1>4 DEF ResetField, ChunksBegin, SoFar
<1>5. CASE EndRun
  <2>1. /\ c'["rows"] = c["rows"] /\ c'["run_id"] = c["run_id"]
        /\ c'["started"] = c["started"] /\ c'["finished"] = c["finished"]
    BY <1>1, <1>5, Adding, Names DEF EndRun
  <2>2. caller' = "over" /\ UNCHANGED <<seen, overlap>>
    BY <1>5 DEF EndRun
  <2> QED
    BY <1>1, <2>1, <2>2 DEF SoFar
<1>6. CASE NextSnapshot
  BY <1>6 DEF NextSnapshot, SoFar
<1>7. CASE UNCHANGED metricsVars
  BY <1>1, <1>7 DEF metricsVars, SoFar
<1> QED
  BY <1>2, <1>3, <1>4, <1>5, <1>6, <1>7, SoFarLoads DEF MetricsNext, CallerStep

LEMMA SeenAt ==
  /\ Seen("run_id") = seen[1] /\ Seen("elapsed") = seen[2] /\ Seen("rows") = seen[3]
  /\ Seen("started") = seen[4] /\ Seen("finished") = seen[5]
<1>1. \A i \in 1..Len(LoadOrder) :
        /\ LoadOrder[i] = "run_id" <=> i = 1
        /\ LoadOrder[i] = "elapsed" <=> i = 2
        /\ LoadOrder[i] = "rows" <=> i = 3
        /\ LoadOrder[i] = "started" <=> i = 4
        /\ LoadOrder[i] = "finished" <=> i = 5
  BY DEF LoadOrder
<1>2. \A k \in 1..5 : k \in 1..Len(LoadOrder)
  BY OrderLengths
<1>3. Seen("run_id") = seen[1]
  BY <1>1, <1>2 DEF Seen
<1>4. Seen("elapsed") = seen[2]
  BY <1>1, <1>2 DEF Seen
<1>5. Seen("rows") = seen[3]
  BY <1>1, <1>2 DEF Seen
<1>6. Seen("started") = seen[4]
  BY <1>1, <1>2 DEF Seen
<1>7. Seen("finished") = seen[5]
  BY <1>1, <1>2 DEF Seen
<1> QED
  BY <1>3, <1>4, <1>5, <1>6, <1>7

\* When a call is over, each of its chunks has been counted, with its rows.
LEMMA AllIsCounted ==
  ASSUME MetricsIInv, ChunksAreCounted, TodoFollows, caller = "over"
  PROVE  /\ c["rows"] = Chunks * RowsEach
         /\ c["started"] = Chunks /\ c["finished"] = Chunks
<1>1. MetricsTypeOK /\ \A t \in Threads : pc[t] = "out" /\ todo[t] = 0
  BY DEF MetricsIInv, ThreadsOutBetweenCalls, TodoFollows
<1>2. Togo = {} /\ Entering = {} /\ Inside = {}
  BY <1>1 DEF Togo, Entering, Inside
<1>3. /\ c["rows"] + Cardinality(Togo) + RowsEach * left = RowsEach * Chunks
      /\ c["started"] + Cardinality(Entering) + left = Chunks
      /\ c["finished"] + Cardinality(Inside) + left = Chunks /\ left = 0
  BY DEF ChunksAreCounted
<1>4. /\ Cardinality({}) = 0 /\ RowsEach * 0 = 0 /\ RowsEach * Chunks = Chunks * RowsEach
      /\ RowsEach * Chunks \in Nat
  BY FS_EmptySet, SMT
<1>5. c["rows"] \in Nat /\ c["started"] \in Nat /\ c["finished"] \in Nat
  BY <1>1, Names DEF MetricsTypeOK
<1> QED
  BY <1>2, <1>3, <1>4, <1>5

(***************************************************************************)
(* The counters and a snapshot under way stay in step, though the threads  *)
(* go on counting between the loads of ExecutionMetrics::snapshot.         *)
(***************************************************************************)
THEOREM SnapshotInvariance == MetricsSpec => []SnapshotInv
<1>1. MetricsInit => SnapshotInv
  <2> SUFFICES ASSUME MetricsInit PROVE SnapshotInv
    OBVIOUS
  <2>1. c["run_id"] = 0
    BY Names DEF MetricsInit
  <2> QED
    BY <2>1 DEF MetricsInit, SnapshotInv, TodoFollows, ChunksAreCounted, RowsAreDone,
                ResetInOrder, SoFar
<1>2. MetricsIInv /\ SnapshotInv /\ [MetricsNext]_metricsVars => SnapshotInv'
  <2> SUFFICES ASSUME MetricsIInv, SnapshotInv, [MetricsNext]_metricsVars
               PROVE  SnapshotInv'
    OBVIOUS
  <2>1. /\ TodoFollows /\ ChunksAreCounted /\ RowsAreDone /\ ResetInOrder
        /\ MetricsTypeOK
    BY DEF SnapshotInv, MetricsIInv
  <2>2. ChunksAreCounted'
    BY <2>1, SumsTake, SumsInChunk, SumsOfCalls DEF MetricsNext, Rest
  <2> QED
    BY <2>1, <2>2, TodoStep, DoneStep, ResetStep, SoFarStep DEF SnapshotInv
<1> QED
  BY <1>1, <1>2, MetricsInvariance, PTL DEF MetricsSpec

(***************************************************************************)
(* A snapshot no begin_run overlaps is about one run, for every number of  *)
(* threads, chunks and rows, and however the loads and counts interleave.  *)
(***************************************************************************)
THEOREM SnapshotIsUntorn == MetricsSpec => []UntornSnapshot
<1>1. MetricsIInv /\ SnapshotInv => UntornSnapshot
  <2> SUFFICES ASSUME MetricsIInv, SnapshotInv, WholeSnapshot, overlap = "none", seen[1] > 0
               PROVE  /\ seen[3] <= done[seen[1]] /\ seen[3] <= RowsEach * seen[4]
                      /\ seen[2] > 0 => /\ seen[3] = Chunks * RowsEach
                                        /\ seen[4] = Chunks /\ seen[5] = Chunks
    BY SeenAt DEF UntornSnapshot
  <2>1. Len(seen) = 7 /\ seen # <<>> /\ MetricsTypeOK
    BY OrderLengths DEF WholeSnapshot, MetricsIInv
  <2>2. /\ caller # "begin" /\ seen[1] = c["run_id"]
        /\ seen[2] > 0 => caller = "over"
        /\ seen[3] <= c["rows"] /\ (seen[2] > 0 => seen[3] = c["rows"])
        /\ seen[3] <= RowsEach * seen[4] /\ (seen[2] > 0 => seen[4] = c["started"])
        /\ seen[2] > 0 => seen[5] = c["finished"]
    BY <2>1 DEF SnapshotInv, SoFar
  <2>3. done[seen[1]] = c["rows"]
    BY <2>1, <2>2 DEF SnapshotInv, RowsAreDone, MetricsTypeOK
  <2> QED
    BY <2>2, <2>3, AllIsCounted DEF SnapshotInv
<1> QED
  BY <1>1, MetricsInvariance, SnapshotInvariance, PTL
=============================================================================
