--------------------------- MODULE CircuitBreaker ---------------------------
(***************************************************************************)
(* The circuit breaker of services/common/circuit_breaker.py: one          *)
(* CircuitBreaker instance shared by several caller threads.  Every        *)
(* section the code runs under _state_lock (the `state` property,          *)
(* _on_success, _on_failure, reset) is one atomic step; the protected      *)
(* operation runs outside the lock, so a thread's call is split into its   *)
(* admission, the outcome of the operation, and (after an expected         *)
(* failure) the second read of `state` in call().                          *)
(*                                                                         *)
(* Time: the only use of the clock is _should_attempt_reset, which         *)
(* compares time.time() - _last_failure_time with recovery_timeout.  The   *)
(* model keeps that difference saturated at RecoveryTimeout (`elapsed`),   *)
(* and whether _last_failure_time is still None (`hasLastFailure`).        *)
(* failure_rate_threshold is the fraction RateNum / RateDen.               *)
(***************************************************************************)
EXTENDS Naturals, Sequences, FiniteSets

CONSTANTS
    Threads,            \* the caller threads sharing the breaker
    FailureThreshold,   \* failure_threshold
    SuccessThreshold,   \* success_threshold
    RecoveryTimeout,    \* recovery_timeout, in ticks of the model clock
    WindowSize,         \* window_size: maxlen of CircuitBreakerMetrics.calls
    RateNum, RateDen,   \* failure_rate_threshold = RateNum / RateDen
    HasFallback,        \* fallback_function is not None
    OtherErrors         \* the operation may raise outside expected_exception

ASSUME ConstantsAssumption ==
    /\ Threads # {}
    /\ FailureThreshold \in Nat \ {0}
    /\ SuccessThreshold \in Nat \ {0}
    /\ RecoveryTimeout \in Nat \ {0}
    /\ WindowSize \in Nat
    /\ RateNum \in Nat
    /\ RateDen \in Nat \ {0}
    /\ HasFallback \in BOOLEAN
    /\ OtherErrors \in BOOLEAN

CLOSED == "CLOSED"
OPEN == "OPEN"
HALF_OPEN == "HALF_OPEN"
CircuitState == {CLOSED, OPEN, HALF_OPEN}

(* Where a caller thread is in call(): not in it, running the operation   *)
(* outside the lock, or between _on_failure and the second `state` read.  *)
Pc == {"idle", "calling", "failed"}

(* What the last call() of a thread gave its caller.                      *)
Result == {"none", "returned", "raised", "open_error", "fallback"}

VARIABLES
    state,           \* _state
    failureCount,    \* _failure_count
    successCount,    \* _success_count
    hasLastFailure,  \* _last_failure_time is not None
    elapsed,         \* min(time.time() - _last_failure_time, recovery_timeout)
    window,          \* metrics.calls: outcomes, TRUE = success, oldest first
    pc,              \* per thread: position in call()
    result,          \* per thread: outcome of its last call()
    probe,           \* ghost: the thread was admitted in the current HALF_OPEN
    probeOK          \* ghost: successes of such probes in the current HALF_OPEN

vars == <<state, failureCount, successCount, hasLastFailure, elapsed,
          window, pc, result, probe, probeOK>>

-----------------------------------------------------------------------------
(* metrics.calls.append(outcome) on a deque(maxlen=window_size): the      *)
(* oldest entry is evicted once the deque is full.                        *)
(* Mutant: a plain list instead of a bounded deque.                       *)
RecordUnbounded(w, ok) == Append(w, ok)

Record(w, ok) ==
    IF Len(w) < WindowSize THEN Append(w, ok) ELSE Tail(Append(w, ok))

(* get_failure_rate() >= failure_rate_threshold, in exact arithmetic; an  *)
(* empty window (window_size = 0) has rate 0.0.                            *)
FailureRateReached(w) ==
    IF w = <<>> THEN RateNum = 0
    ELSE Cardinality({i \in 1..Len(w) : ~w[i]}) * RateDen >= RateNum * Len(w)

(* _should_attempt_reset                                                  *)
ShouldAttemptReset == hasLastFailure /\ elapsed >= RecoveryTimeout

(* _transition_to_open, _transition_to_half_open, _transition_to_closed.  *)
(* Listeners are notified best-effort and their errors are swallowed; the *)
(* circuit_opened_at stamp is statistics only.                            *)
(* Mutant: _transition_to_open without `_failure_count = 0`.               *)
ToOpenKeepCount ==
    /\ state' = OPEN
    /\ UNCHANGED failureCount
    /\ successCount' = 0

ToOpen ==
    /\ state' = OPEN
    /\ failureCount' = 0
    /\ successCount' = 0

ToHalfOpen ==
    /\ state' = HALF_OPEN
    /\ successCount' = 0
    /\ failureCount' = 0

ToClosed ==
    /\ state' = CLOSED
    /\ failureCount' = 0
    /\ successCount' = 0

(* The `state` property: under the lock, an OPEN breaker whose recovery   *)
(* timeout has elapsed moves to HALF_OPEN.  A new HALF_OPEN period starts *)
(* with no probes.                                                         *)
LazyStateCheck ==
    IF state = OPEN /\ ShouldAttemptReset
    THEN /\ ToHalfOpen
         /\ probe' = [t \in Threads |-> FALSE]
         /\ probeOK' = 0
    ELSE UNCHANGED <<state, failureCount, successCount, probe, probeOK>>

-----------------------------------------------------------------------------
Init ==
    /\ state = CLOSED
    /\ failureCount = 0
    /\ successCount = 0
    /\ hasLastFailure = FALSE
    /\ elapsed = 0
    /\ window = <<>>
    /\ pc = [t \in Threads |-> "idle"]
    /\ result = [t \in Threads |-> "none"]
    /\ probe = [t \in Threads |-> FALSE]
    /\ probeOK = 0

(* Mutant: call() tests self._state instead of the `state` property, so   *)
(* the lazy OPEN -> HALF_OPEN check never runs on the call path.           *)
CallNoLazy(t) ==
    /\ pc[t] = "idle"
    /\ IF state = OPEN
       THEN /\ result' = [result EXCEPT ![t] =
                             IF HasFallback THEN "fallback" ELSE "open_error"]
            /\ UNCHANGED <<state, failureCount, successCount, pc, probe, probeOK>>
       ELSE /\ probe' = [probe EXCEPT ![t] = (state = HALF_OPEN)]
            /\ pc' = [pc EXCEPT ![t] = "calling"]
            /\ UNCHANGED <<state, failureCount, successCount, probeOK, result>>
    /\ UNCHANGED <<hasLastFailure, elapsed, window>>

(* call(), up to the invocation of the operation: read `state`; if OPEN   *)
(* the call is rejected with the fallback's result or CircuitBreakerError *)
(* (record_rejection only counts); otherwise the thread goes on to run    *)
(* the operation outside the lock.                                         *)
Call(t) ==
    /\ pc[t] = "idle"
    /\ IF state = OPEN /\ ~ShouldAttemptReset
       THEN /\ result' = [result EXCEPT ![t] =
                             IF HasFallback THEN "fallback" ELSE "open_error"]
            /\ UNCHANGED <<state, failureCount, successCount, pc, probe, probeOK>>
       ELSE /\ IF state = OPEN
               THEN /\ ToHalfOpen
                    /\ probeOK' = 0
               ELSE UNCHANGED <<state, failureCount, successCount, probeOK>>
            /\ probe' = [(IF state = OPEN THEN [u \in Threads |-> FALSE] ELSE probe)
                           EXCEPT ![t] = (state' = HALF_OPEN)]
            /\ pc' = [pc EXCEPT ![t] = "calling"]
            /\ UNCHANGED result
    /\ UNCHANGED <<hasLastFailure, elapsed, window>>

(* The operation returned: _on_success under the lock.                    *)
Success(t) ==
    /\ pc[t] = "calling"
    /\ window' = Record(window, TRUE)
    /\ IF state = HALF_OPEN
       THEN /\ probeOK' = IF probe[t] THEN probeOK + 1 ELSE probeOK
            /\ IF successCount + 1 >= SuccessThreshold
               THEN ToClosed
               ELSE /\ successCount' = successCount + 1
                    /\ UNCHANGED <<state, failureCount>>
       ELSE /\ failureCount' = 0
            /\ UNCHANGED <<state, successCount, probeOK>>
    /\ pc' = [pc EXCEPT ![t] = "idle"]
    /\ result' = [result EXCEPT ![t] = "returned"]
    /\ UNCHANGED <<hasLastFailure, elapsed, probe>>

(* Mutant: _on_failure without its HALF_OPEN branch (no reopen).          *)
FailureNoReopen(t) ==
    /\ pc[t] = "calling"
    /\ window' = Record(window, FALSE)
    /\ hasLastFailure' = TRUE
    /\ elapsed' = 0
    /\ IF state = CLOSED /\ (failureCount + 1 >= FailureThreshold
                              \/ FailureRateReached(window'))
       THEN ToOpen
       ELSE IF state = CLOSED
            THEN /\ failureCount' = failureCount + 1
                 /\ UNCHANGED <<state, successCount>>
            ELSE UNCHANGED <<state, failureCount, successCount>>
    /\ pc' = [pc EXCEPT ![t] = "failed"]
    /\ UNCHANGED <<result, probe, probeOK>>

(* The operation raised an expected_exception: _on_failure under the lock.*)
Failure(t) ==
    /\ pc[t] = "calling"
    /\ window' = Record(window, FALSE)
    /\ hasLastFailure' = TRUE
    /\ elapsed' = 0
    /\ CASE state = CLOSED ->
              IF \/ failureCount + 1 >= FailureThreshold
                 \/ FailureRateReached(window')
              THEN ToOpen
              ELSE /\ failureCount' = failureCount + 1
                   /\ UNCHANGED <<state, successCount>>
         [] state = HALF_OPEN -> ToOpen
         [] state = OPEN -> UNCHANGED <<state, failureCount, successCount>>
    /\ pc' = [pc EXCEPT ![t] = "failed"]
    /\ UNCHANGED <<result, probe, probeOK>>

(* After _on_failure, call() reads `state` again (which may itself move   *)
(* OPEN to HALF_OPEN); if HALF_OPEN and a fallback exists its result is   *)
(* returned, otherwise the exception is re-raised.                         *)
AfterFailure(t) ==
    /\ pc[t] = "failed"
    /\ LazyStateCheck
    /\ pc' = [pc EXCEPT ![t] = "idle"]
    /\ result' = [result EXCEPT ![t] =
                    IF state' = HALF_OPEN /\ HasFallback THEN "fallback"
                                                         ELSE "raised"]
    /\ UNCHANGED <<hasLastFailure, elapsed, window>>

(* The operation raised an exception that is not an expected_exception:   *)
(* it propagates and nothing is recorded.                                  *)
OtherError(t) ==
    /\ OtherErrors
    /\ pc[t] = "calling"
    /\ pc' = [pc EXCEPT ![t] = "idle"]
    /\ result' = [result EXCEPT ![t] = "raised"]
    /\ UNCHANGED <<state, failureCount, successCount, hasLastFailure, elapsed,
                   window, probe, probeOK>>

(* Reading the public `state` property from outside call().               *)
StateProperty ==
    /\ LazyStateCheck
    /\ UNCHANGED <<hasLastFailure, elapsed, window, pc, result>>

(* reset(): administrative, forces CLOSED under the lock.                 *)
Reset ==
    /\ ToClosed
    /\ UNCHANGED <<hasLastFailure, elapsed, window, pc, result, probe, probeOK>>

(* The clock advances; only the time since the last failure matters.      *)
Tick ==
    /\ hasLastFailure
    /\ elapsed < RecoveryTimeout
    /\ elapsed' = elapsed + 1
    /\ UNCHANGED <<state, failureCount, successCount, hasLastFailure, window,
                   pc, result, probe, probeOK>>

Next ==
    \/ \E t \in Threads :
          \/ Call(t)
          \/ Success(t)
          \/ Failure(t)
          \/ AfterFailure(t)
          \/ OtherError(t)
    \/ StateProperty
    \/ Reset
    \/ Tick

Spec == Init /\ [][Next]_vars

(* Fairness.  The clock always advances; an operation that was invoked    *)
(* eventually returns or raises (the wrapped calls carry timeouts); a     *)
(* thread that has failed finishes call().  Nothing makes callers call:   *)
(* CallerFairness is not part of the specification, only a hypothesis of  *)
(* Recovery.                                                               *)
ThreadFairness ==
    \A t \in Threads :
        /\ WF_vars(Success(t) \/ Failure(t) \/ OtherError(t))
        /\ WF_vars(AfterFailure(t))

CallerFairness == \A t \in Threads : WF_vars(Call(t))

FairSpec == Spec /\ WF_vars(Tick) /\ ThreadFairness

-----------------------------------------------------------------------------
(* Type invariant.                                                         *)
TypeOK ==
    /\ state \in CircuitState
    /\ failureCount \in Nat
    /\ successCount \in Nat
    /\ hasLastFailure \in BOOLEAN
    /\ elapsed \in 0..RecoveryTimeout
    /\ window \in Seq(BOOLEAN)
    /\ Len(window) <= WindowSize
    /\ pc \in [Threads -> Pc]
    /\ result \in [Threads -> Result]
    /\ probe \in [Threads -> BOOLEAN]
    /\ probeOK \in Nat

(* The counters agree with the state, whatever the interleaving of the    *)
(* threads' _on_success, _on_failure, lazy `state` checks and reset():    *)
(* a CLOSED breaker has seen fewer than failure_threshold failures since  *)
(* its last success, a HALF_OPEN one fewer than success_threshold         *)
(* successes, every transition zeroed the counters, and an OPEN breaker   *)
(* has a _last_failure_time, without which _should_attempt_reset would    *)
(* never hold and the breaker would stay OPEN for ever.                   *)
BreakerStateInv ==
    /\ state = CLOSED => successCount = 0 /\ failureCount < FailureThreshold
    /\ state = HALF_OPEN => failureCount = 0 /\ successCount < SuccessThreshold
    /\ state = OPEN => failureCount = 0 /\ successCount = 0 /\ hasLastFailure

(* The breaker has no timer: OPEN -> HALF_OPEN happens only inside a read *)
(* of `state`.  If callers keep calling, an OPEN breaker eventually lets  *)
(* a probe through (or is reset), however many in-flight calls fail late  *)
(* and push _last_failure_time forward.  Without callers it stays OPEN.   *)
Recovery == CallerFairness => ((state = OPEN) ~> (state # OPEN))

(* The breaker implements the state machine it promises (BreakerAbstract, *)
(* spec sections 3 and 4.1): the operation of a call runs only after the  *)
(* call was admitted in CLOSED or HALF_OPEN, the state moves only along   *)
(* the arrows the outcome of a completing call allows (a failure in       *)
(* HALF_OPEN reopens, only a success closes a HALF_OPEN breaker), an OPEN *)
(* breaker only recovers to HALF_OPEN, and reset() forces CLOSED.  A      *)
(* thread's phase is its position in call().                               *)
AbsPhase == [t \in Threads |-> CASE pc[t] = "idle" -> "idle"
                                 [] pc[t] = "calling" -> "running"
                                 [] pc[t] = "failed" -> "failing"]

Abs == INSTANCE BreakerAbstract WITH state <- state, phase <- AbsPhase

BreakerRefinement == Abs!Spec

(* Every success counted towards closing a HALF_OPEN breaker comes from a *)
(* call admitted in that HALF_OPEN period (a probe).  The code counts any *)
(* success that completes while HALF_OPEN, also of a call admitted while  *)
(* CLOSED, before the breaker opened.                                      *)
HalfOpenCountsOnlyProbes == state = HALF_OPEN => successCount <= probeOK

=============================================================================
