------------------------ MODULE CircuitBreakerProofs ------------------------
(***************************************************************************)
(* Proofs about CircuitBreaker for every number of threads and every      *)
(* value of the thresholds, the timeout, the window size and the failure  *)
(* rate: the type invariant, and that the counters always agree with the  *)
(* breaker's state (BreakerStateInv).                                      *)
(***************************************************************************)
EXTENDS CircuitBreaker, SequenceTheorems, TLAPS

(* Appending an outcome to metrics.calls keeps it a sequence of outcomes  *)
(* of at most window_size entries: the deque evicts its oldest entry.     *)
LEMMA RecordBounded ==
    ASSUME NEW w \in Seq(BOOLEAN), NEW ok \in BOOLEAN, Len(w) <= WindowSize
    PROVE  /\ Record(w, ok) \in Seq(BOOLEAN)
           /\ Len(Record(w, ok)) <= WindowSize
<1>1. /\ Append(w, ok) \in Seq(BOOLEAN)
      /\ Append(w, ok) # << >>
      /\ Len(Append(w, ok)) = Len(w) + 1
  BY AppendProperties
<1>2. CASE Len(w) < WindowSize
  BY <1>1, <1>2, ConstantsAssumption DEF Record
<1>3. CASE ~(Len(w) < WindowSize)
  <2>1. /\ Tail(Append(w, ok)) \in Seq(BOOLEAN)
        /\ Len(Tail(Append(w, ok))) = Len(w)
    BY <1>1, HeadTailProperties
  <2> QED
    BY <1>3, <2>1, ConstantsAssumption DEF Record
<1> QED
  BY <1>2, <1>3

USE ConstantsAssumption

(* TypeOK split into its Boolean-valued part, which Zenon handles, and    *)
(* the rest, which needs arithmetic.                                       *)
TypeBool ==
    /\ hasLastFailure \in BOOLEAN
    /\ probe \in [Threads -> BOOLEAN]

TypeRest ==
    /\ state \in CircuitState
    /\ failureCount \in Nat
    /\ successCount \in Nat
    /\ elapsed \in 0..RecoveryTimeout
    /\ window \in Seq(BOOLEAN)
    /\ Len(window) <= WindowSize
    /\ pc \in [Threads -> Pc]
    /\ result \in [Threads -> Result]
    /\ probeOK \in Nat

LEMMA TypeSplit == TypeOK <=> TypeBool /\ TypeRest
BY Zenon DEF TypeOK, TypeBool, TypeRest

(* No step of any thread, of reset(), of a `state` read or of the clock  *)
(* takes the breaker's variables out of their types.                      *)
LEMMA TypeStep == TypeOK /\ [Next]_vars => TypeOK'
<1> SUFFICES ASSUME TypeBool, TypeRest, [Next]_vars PROVE TypeBool' /\ TypeRest'
  BY Zenon DEF TypeOK, TypeBool, TypeRest
<1>1. TypeBool'
  <2>1. ASSUME NEW t \in Threads, Call(t) PROVE TypeBool'
    BY <2>1, Zenon DEF Call, TypeBool, ToHalfOpen
  <2>2. ASSUME NEW t \in Threads, Success(t) \/ OtherError(t) PROVE TypeBool'
    BY <2>2, Zenon DEF Success, OtherError, TypeBool
  <2>3. ASSUME NEW t \in Threads, Failure(t) PROVE TypeBool'
    BY <2>3, Zenon DEF Failure, TypeBool
  <2>4. ASSUME NEW t \in Threads, AfterFailure(t) PROVE TypeBool'
    BY <2>4, Zenon DEF AfterFailure, LazyStateCheck, TypeBool
  <2>5. CASE StateProperty \/ Reset \/ Tick \/ UNCHANGED vars
    BY <2>5, Zenon DEF StateProperty, LazyStateCheck, Reset, Tick, vars, TypeBool
  <2> QED
    BY <2>1, <2>2, <2>3, <2>4, <2>5 DEF Next
<1>2. TypeRest'
  <2>1. ASSUME NEW t \in Threads, Call(t) PROVE TypeRest'
    BY <2>1 DEF TypeBool, Call, TypeRest, ToHalfOpen, CircuitState, CLOSED, OPEN,
                HALF_OPEN, Pc, Result
  <2>2. ASSUME NEW t \in Threads, Success(t) PROVE TypeRest'
    <3>1. window' \in Seq(BOOLEAN) /\ Len(window') <= WindowSize
      BY <2>2, RecordBounded DEF Success, TypeRest
    <3>2. /\ state' \in CircuitState
          /\ failureCount' \in Nat /\ successCount' \in Nat /\ probeOK' \in Nat
      <4>1. CASE state = HALF_OPEN
        BY <2>2, <4>1 DEF TypeBool, Success, TypeRest, ToClosed, CircuitState
      <4>2. CASE state # HALF_OPEN
        BY <2>2, <4>2 DEF Success, TypeRest
      <4> QED
        BY <4>1, <4>2
    <3>3. /\ elapsed' \in 0..RecoveryTimeout
          /\ pc' \in [Threads -> Pc] /\ result' \in [Threads -> Result]
      BY <2>2 DEF Success, TypeRest, Pc, Result
    <3> QED
      BY <3>1, <3>2, <3>3 DEF TypeRest
  <2>3. ASSUME NEW t \in Threads, Failure(t) PROVE TypeRest'
    <3>1. window' \in Seq(BOOLEAN) /\ Len(window') <= WindowSize
      BY <2>3, RecordBounded DEF Failure, TypeRest
    <3>2. /\ state' \in CircuitState
          /\ failureCount' \in Nat /\ successCount' \in Nat /\ probeOK' \in Nat
      <4>1. CASE state = CLOSED
        <5>1. CASE failureCount + 1 >= FailureThreshold \/ FailureRateReached(window')
          <6>1. state' = OPEN /\ failureCount' = 0 /\ successCount' = 0 /\ probeOK' = probeOK
            BY <2>3, <4>1, <5>1, Zenon DEF Failure, ToOpen, CLOSED, OPEN, HALF_OPEN
          <6> QED
            BY <6>1 DEF TypeRest, CircuitState
        <5>2. CASE ~(failureCount + 1 >= FailureThreshold \/ FailureRateReached(window'))
          BY <2>3, <4>1, <5>2 DEF Failure, TypeRest, CircuitState,
                                CLOSED, OPEN, HALF_OPEN
        <5> QED
          BY <5>1, <5>2
      <4>2. CASE state = HALF_OPEN
        <5>1. state' = OPEN /\ failureCount' = 0 /\ successCount' = 0 /\ probeOK' = probeOK
          BY <2>3, <4>2, Zenon DEF Failure, ToOpen, CLOSED, OPEN, HALF_OPEN
        <5> QED
          BY <5>1 DEF TypeRest, CircuitState
      <4>3. CASE state = OPEN
        <5>1. UNCHANGED <<state, failureCount, successCount, probeOK>>
          BY <2>3, <4>3, Zenon DEF Failure, CLOSED, OPEN, HALF_OPEN
        <5> QED
          BY <5>1 DEF TypeRest
      <4> QED
        BY <4>1, <4>2, <4>3 DEF TypeRest, CircuitState
    <3>3. /\ elapsed' \in 0..RecoveryTimeout
          /\ pc' \in [Threads -> Pc] /\ result' \in [Threads -> Result]
      BY <2>3 DEF Failure, TypeRest, Pc, Result
    <3> QED
      BY <3>1, <3>2, <3>3 DEF TypeRest
  <2>4. ASSUME NEW t \in Threads, AfterFailure(t) PROVE TypeRest'
    BY <2>4 DEF TypeBool, AfterFailure, LazyStateCheck, TypeRest, ToHalfOpen,
                CircuitState, CLOSED, OPEN, HALF_OPEN, Pc, Result
  <2>5. ASSUME NEW t \in Threads, OtherError(t) PROVE TypeRest'
    BY <2>5 DEF TypeBool, OtherError, TypeRest, Pc, Result
  <2>6. CASE StateProperty
    BY <2>6 DEF TypeBool, StateProperty, LazyStateCheck, TypeRest, ToHalfOpen,
                CircuitState, CLOSED, OPEN, HALF_OPEN
  <2>7. CASE Reset
    BY <2>7 DEF TypeBool, Reset, TypeRest, ToClosed, CircuitState, CLOSED, OPEN,
                HALF_OPEN
  <2>8. CASE Tick
    BY <2>8 DEF TypeBool, Tick, TypeRest
  <2>9. CASE UNCHANGED vars
    BY <2>9 DEF TypeBool, vars, TypeRest
  <2> QED
    BY <2>1, <2>2, <2>3, <2>4, <2>5, <2>6, <2>7, <2>8, <2>9 DEF Next
<1> QED
  BY <1>1, <1>2

(* The initial state of a new CircuitBreaker is well typed.              *)
LEMMA TypeInit == Init => TypeOK
<1> SUFFICES ASSUME Init PROVE TypeBool /\ TypeRest
  BY TypeSplit
<1>1. TypeBool
  BY Zenon DEF Init, TypeBool
<1>2. window \in Seq(BOOLEAN) /\ Len(window) <= WindowSize
  BY EmptySeq DEF Init
<1>3. TypeRest
  BY <1>2 DEF Init, TypeRest, CircuitState, CLOSED, OPEN, HALF_OPEN, Pc, Result
<1> QED
  BY <1>1, <1>3

(* The state, counters, clock, window and per-thread records of the       *)
(* breaker keep their types in every step of every thread.                *)
THEOREM TypeCorrect == Spec => []TypeOK
<1>1. Init => TypeOK
  BY TypeInit
<1>2. TypeOK /\ [Next]_vars => TypeOK'
  BY TypeStep
<1> QED
  BY <1>1, <1>2, PTL DEF Spec

(* The inductive invariant: the types together with BreakerStateInv.     *)
(* BreakerStateInv alone is not inductive, because a step's effect on the *)
(* counters depends on their being numbers.                                *)
IInv == TypeOK /\ BreakerStateInv

(* Every atomic section that can change the breaker's state (the lazy     *)
(* OPEN -> HALF_OPEN check in `state`, _on_success, _on_failure, reset)   *)
(* keeps the counters consistent with the state, whichever thread runs it *)
(* and whatever calls of other threads are still in flight.               *)
LEMMA StateStep == IInv /\ [Next]_vars => BreakerStateInv'
<1> SUFFICES ASSUME TypeOK, BreakerStateInv, [Next]_vars PROVE BreakerStateInv'
  BY DEF IInv
<1> USE DEF CLOSED, OPEN, HALF_OPEN
<1>1. ASSUME NEW t \in Threads, Call(t) PROVE BreakerStateInv'
  <2>1. CASE state = OPEN /\ ShouldAttemptReset
    <3>1. state' = HALF_OPEN /\ failureCount' = 0 /\ successCount' = 0
      BY <1>1, <2>1, Zenon DEF Call, ToHalfOpen
    <3>2. QED
      BY <3>1, ConstantsAssumption DEF BreakerStateInv
  <2>2. CASE ~(state = OPEN /\ ShouldAttemptReset)
    <3>1. UNCHANGED <<state, failureCount, successCount, hasLastFailure>>
      BY <1>1, <2>2, Zenon DEF Call
    <3>2. QED
      BY <3>1, Zenon DEF BreakerStateInv
  <2> QED
    BY <2>1, <2>2
<1>2. ASSUME NEW t \in Threads, Success(t) PROVE BreakerStateInv'
  <2>1. CASE state = HALF_OPEN /\ successCount + 1 >= SuccessThreshold
    <3>1. state' = CLOSED /\ failureCount' = 0 /\ successCount' = 0
      BY <1>2, <2>1, Zenon DEF Success, ToClosed
    <3>2. QED
      BY <3>1, ConstantsAssumption DEF BreakerStateInv
  <2>2. CASE state = HALF_OPEN /\ ~(successCount + 1 >= SuccessThreshold)
    <3>1. /\ successCount' = successCount + 1
          /\ UNCHANGED <<state, failureCount>>
      BY <1>2, <2>2, Zenon DEF Success
    <3>2. QED
      BY <2>2, <3>1, ConstantsAssumption DEF BreakerStateInv, TypeOK
  <2>3. CASE state # HALF_OPEN
    <3>1. /\ failureCount' = 0
          /\ UNCHANGED <<state, successCount, hasLastFailure>>
      BY <1>2, <2>3, Zenon DEF Success
    <3>2. QED
      BY <2>3, <3>1, ConstantsAssumption DEF BreakerStateInv
  <2> QED
    BY <2>1, <2>2, <2>3
<1>3. ASSUME NEW t \in Threads, Failure(t) PROVE BreakerStateInv'
  <2>1. hasLastFailure' = TRUE
    BY <1>3 DEF Failure
  <2>2. CASE state = CLOSED /\ (failureCount + 1 >= FailureThreshold
                                \/ FailureRateReached(window'))
    <3>1. state' = OPEN /\ failureCount' = 0 /\ successCount' = 0
      BY <1>3, <2>2, Zenon DEF Failure, ToOpen
    <3>2. QED
      BY <2>1, <3>1 DEF BreakerStateInv
  <2>3. CASE state = CLOSED /\ ~(failureCount + 1 >= FailureThreshold
                                 \/ FailureRateReached(window'))
    <3>1. /\ failureCount' = failureCount + 1
          /\ UNCHANGED <<state, successCount>>
      BY <1>3, <2>3, Zenon DEF Failure
    <3>2. failureCount + 1 < FailureThreshold
      BY <2>3, ConstantsAssumption DEF TypeOK
    <3>3. QED
      BY <2>3, <3>1, <3>2 DEF BreakerStateInv
  <2>4. CASE state = HALF_OPEN
    <3>1. state' = OPEN /\ failureCount' = 0 /\ successCount' = 0
      BY <1>3, <2>4, Zenon DEF Failure, ToOpen
    <3>2. QED
      BY <2>1, <3>1 DEF BreakerStateInv
  <2>5. CASE state = OPEN
    <3>1. UNCHANGED <<state, failureCount, successCount>>
      BY <1>3, <2>5, Zenon DEF Failure
    <3>2. QED
      BY <2>1, <2>5, <3>1 DEF BreakerStateInv
  <2> QED
    BY <2>2, <2>3, <2>4, <2>5 DEF TypeOK, CircuitState
(* The lazy check of the `state` property, shared by AfterFailure and     *)
(* StateProperty, which leave hasLastFailure alone.                       *)
<1>4. ASSUME LazyStateCheck, UNCHANGED hasLastFailure PROVE BreakerStateInv'
  <2>1. CASE state = OPEN /\ ShouldAttemptReset
    <3>1. state' = HALF_OPEN /\ failureCount' = 0 /\ successCount' = 0
      BY <1>4, <2>1, Zenon DEF LazyStateCheck, ToHalfOpen
    <3>2. QED
      BY <3>1, ConstantsAssumption DEF BreakerStateInv
  <2>2. CASE ~(state = OPEN /\ ShouldAttemptReset)
    <3>1. UNCHANGED <<state, failureCount, successCount, hasLastFailure>>
      BY <1>4, <2>2, Zenon DEF LazyStateCheck
    <3>2. QED
      BY <3>1, Zenon DEF BreakerStateInv
  <2> QED
    BY <2>1, <2>2
<1>5. ASSUME NEW t \in Threads, AfterFailure(t) PROVE BreakerStateInv'
  BY <1>4, <1>5 DEF AfterFailure
<1>6. CASE StateProperty
  BY <1>4, <1>6 DEF StateProperty
<1>7. CASE Reset
  <2>1. state' = CLOSED /\ failureCount' = 0 /\ successCount' = 0
    BY <1>7, Zenon DEF Reset, ToClosed
  <2>2. QED
    BY <2>1, ConstantsAssumption DEF BreakerStateInv
<1>8. ASSUME NEW t \in Threads, OtherError(t) \/ Tick \/ UNCHANGED vars
      PROVE  BreakerStateInv'
  <2>1. UNCHANGED <<state, failureCount, successCount, hasLastFailure>>
    BY <1>8, Zenon DEF OtherError, Tick, vars
  <2>2. QED
    BY <2>1, Zenon DEF BreakerStateInv
<1> QED
  BY <1>1, <1>2, <1>3, <1>5, <1>6, <1>7, <1>8, ConstantsAssumption DEF Next

(* Whatever the interleaving of the threads, the breaker's counters agree *)
(* with its state: CLOSED has fewer than failure_threshold failures and   *)
(* no successes counted, HALF_OPEN no failures and fewer than             *)
(* success_threshold successes, and an OPEN breaker has zero counters and *)
(* a recorded _last_failure_time (so _should_attempt_reset can hold).     *)
THEOREM StateInvariant == Spec => []BreakerStateInv
<1>1. Init => IInv
  <2>1. Init => BreakerStateInv
    <3>1. 0 < FailureThreshold
      BY ConstantsAssumption
    <3>2. QED
      BY <3>1, Zenon DEF Init, BreakerStateInv, CLOSED, OPEN, HALF_OPEN
  <2> QED
    BY <2>1, TypeInit DEF IInv
<1>2. IInv /\ [Next]_vars => IInv'
  BY TypeStep, StateStep, Zenon DEF IInv
<1>3. IInv => BreakerStateInv
  BY DEF IInv
<1> QED
  BY <1>1, <1>2, <1>3, PTL DEF Spec

-----------------------------------------------------------------------------
(* Refinement: the breaker implements BreakerAbstract under AbsPhase.     *)

(* The phase a position in call() stands for.                              *)
PhaseOf(x) == CASE x = "idle" -> "idle"
                [] x = "calling" -> "running"
                [] x = "failed" -> "failing"

(* When one thread moves in call(), only its phase changes, to the phase  *)
(* of its new position.                                                    *)
LEMMA PhaseUpdate ==
    ASSUME NEW t \in Threads, NEW x \in Pc, pc \in [Threads -> Pc],
           pc' = [pc EXCEPT ![t] = x]
    PROVE  /\ AbsPhase[t] = PhaseOf(pc[t])
           /\ AbsPhase' = [AbsPhase EXCEPT ![t] = PhaseOf(x)]
BY DEF AbsPhase, PhaseOf, Pc

(* A step that leaves every thread where it is leaves the phases alone.   *)
LEMMA PhaseStutter ==
    ASSUME pc' = pc PROVE AbsPhase' = AbsPhase
BY DEF AbsPhase

(* Every step of the breaker is a step of BreakerAbstract or leaves its  *)
(* state and every phase unchanged: an admitted call() is Admit (after the *)
(* lazy recovery check), a rejected one a stutter; _on_success,           *)
(* _on_failure and an unexpected exception are Complete with their        *)
(* outcome; the second `state` read after a failure is Return; a `state`  *)
(* read elsewhere is Recover or a stutter; reset() is Reset; the clock a  *)
(* stutter.                                                                *)
LEMMA RefinementStep == TypeOK /\ [Next]_vars => [Abs!Next]_Abs!absVars
<1> SUFFICES ASSUME TypeOK, [Next]_vars PROVE [Abs!Next]_Abs!absVars
    OBVIOUS
<1>0. /\ state \in CircuitState /\ pc \in [Threads -> Pc]
    BY DEF TypeOK
<1>1. ASSUME NEW t \in Threads, Call(t) PROVE [Abs!Next]_Abs!absVars
    <2>1. CASE state = OPEN /\ ~ShouldAttemptReset
        <3>1. state' = state /\ pc' = pc
            BY <1>1, <2>1 DEF Call
        <3>2. QED
            BY <3>1, PhaseStutter DEF Abs!absVars
    <2>2. CASE ~(state = OPEN /\ ~ShouldAttemptReset)
        <3>1. /\ pc[t] = "idle" /\ pc' = [pc EXCEPT ![t] = "calling"]
              /\ state' = IF state = OPEN THEN HALF_OPEN ELSE state
            BY <1>1, <2>2 DEF Call, ToHalfOpen
        <3>2. AbsPhase[t] = "idle"
              /\ AbsPhase' = [AbsPhase EXCEPT ![t] = "running"]
            BY <1>0, <3>1, PhaseUpdate DEF PhaseOf, Pc
        <3>3. Abs!Admit(t)
            BY <3>1, <3>2 DEF Abs!Admit, OPEN, HALF_OPEN, Abs!OPEN, Abs!HALF_OPEN
        <3>4. QED
            BY <3>3 DEF Abs!Next
    <2>3. QED
        BY <2>1, <2>2
<1>2. ASSUME NEW t \in Threads, Success(t) PROVE [Abs!Next]_Abs!absVars
    <2>1. AbsPhase[t] = "running"
          /\ AbsPhase' = [AbsPhase EXCEPT ![t] = "idle"]
        BY <1>0, <1>2, PhaseUpdate DEF Success, PhaseOf, Pc
    <2>2. state' \in Abs!After(state, "success")
        BY <1>0, <1>2 DEF Success, ToClosed, Abs!After, CircuitState,
              CLOSED, OPEN, HALF_OPEN, Abs!CLOSED, Abs!OPEN, Abs!HALF_OPEN
    <2>3. Abs!Complete(t, "success")
        BY <2>1, <2>2 DEF Abs!Complete
    <2>4. QED
        BY <2>3 DEF Abs!Next, Abs!Outcome
<1>3. ASSUME NEW t \in Threads, Failure(t) PROVE [Abs!Next]_Abs!absVars
    <2>1. AbsPhase[t] = "running"
          /\ AbsPhase' = [AbsPhase EXCEPT ![t] = "failing"]
        BY <1>0, <1>3, PhaseUpdate DEF Failure, PhaseOf, Pc
    <2>2. state' \in Abs!After(state, "failure")
        BY <1>0, <1>3 DEF Failure, ToOpen, Abs!After, CircuitState,
              CLOSED, OPEN, HALF_OPEN, Abs!CLOSED, Abs!OPEN, Abs!HALF_OPEN
    <2>3. Abs!Complete(t, "failure")
        BY <2>1, <2>2 DEF Abs!Complete
    <2>4. QED
        BY <2>3 DEF Abs!Next, Abs!Outcome
<1>4. ASSUME NEW t \in Threads, OtherError(t) PROVE [Abs!Next]_Abs!absVars
    <2>1. AbsPhase[t] = "running"
          /\ AbsPhase' = [AbsPhase EXCEPT ![t] = "idle"]
        BY <1>0, <1>4, PhaseUpdate DEF OtherError, PhaseOf, Pc
    <2>2. state' \in Abs!After(state, "other")
        BY <1>4 DEF OtherError, Abs!After
    <2>3. Abs!Complete(t, "other")
        BY <2>1, <2>2 DEF Abs!Complete
    <2>4. QED
        BY <2>3 DEF Abs!Next, Abs!Outcome
<1>5. ASSUME NEW t \in Threads, AfterFailure(t) PROVE [Abs!Next]_Abs!absVars
    <2>1. AbsPhase[t] = "failing"
          /\ AbsPhase' = [AbsPhase EXCEPT ![t] = "idle"]
        BY <1>0, <1>5, PhaseUpdate DEF AfterFailure, PhaseOf, Pc
    <2>2. state' \in IF state = OPEN THEN {OPEN, HALF_OPEN} ELSE {state}
        BY <1>5 DEF AfterFailure, LazyStateCheck, ToHalfOpen
    <2>3. Abs!Return(t)
        BY <2>1, <2>2 DEF Abs!Return, OPEN, HALF_OPEN, Abs!OPEN, Abs!HALF_OPEN
    <2>4. QED
        BY <2>3 DEF Abs!Next
<1>6. CASE StateProperty
    <2>1. pc' = pc
        BY <1>6 DEF StateProperty
    <2>2. CASE state = OPEN /\ ShouldAttemptReset
        BY <1>6, <2>1, <2>2, PhaseStutter
           DEF StateProperty, LazyStateCheck, ToHalfOpen, Abs!Recover,
               Abs!Next, OPEN, HALF_OPEN, Abs!OPEN, Abs!HALF_OPEN
    <2>3. CASE ~(state = OPEN /\ ShouldAttemptReset)
        BY <1>6, <2>1, <2>3, PhaseStutter
           DEF StateProperty, LazyStateCheck, Abs!absVars
    <2>4. QED
        BY <2>2, <2>3
<1>7. CASE Reset
    BY <1>7, PhaseStutter DEF Reset, ToClosed, Abs!Reset, Abs!Next,
       CLOSED, Abs!CLOSED
<1>8. CASE Tick
    BY <1>8, PhaseStutter DEF Tick, Abs!absVars
<1>9. CASE UNCHANGED vars
    BY <1>9, PhaseStutter DEF vars, Abs!absVars
<1>10. QED
    BY <1>1, <1>2, <1>3, <1>4, <1>5, <1>6, <1>7, <1>8, <1>9 DEF Next

(* The breaker implements the state machine it promises: whatever the     *)
(* interleaving of its callers, of `state` reads, reset() and the clock,  *)
(* an operation runs only after its call was admitted in CLOSED or        *)
(* HALF_OPEN, the breaker moves only along the arrows a completing call's *)
(* outcome allows, an OPEN breaker only recovers to HALF_OPEN, and        *)
(* reset() forces CLOSED.                                                  *)
THEOREM Refinement == Spec => BreakerRefinement
<1>1. Init => Abs!Init
    BY DEF Init, Abs!Init, AbsPhase, CLOSED, Abs!CLOSED
<1>2. QED
    BY <1>1, RefinementStep, TypeCorrect, PTL DEF Spec, BreakerRefinement, Abs!Spec

=============================================================================
