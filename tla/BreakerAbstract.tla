--------------------------- MODULE BreakerAbstract --------------------------
(***************************************************************************)
(* What a circuit breaker promises its callers, without counters, clock or *)
(* rolling window: the state machine of spec section 4.1 and the rule that *)
(* a protected operation only starts while the breaker is not OPEN.        *)
(*                                                                         *)
(*   phase    per caller: idle, running its protected operation, or       *)
(*            failing (a failure was recorded, call() not yet returned)  *)
(*                                                                         *)
(* A call is admitted in CLOSED or HALF_OPEN (an OPEN breaker may first    *)
(* move to HALF_OPEN, the lazy recovery check); when it completes, the     *)
(* breaker may move only along the arrows its outcome allows; an OPEN      *)
(* breaker recovers to HALF_OPEN by itself; reset() forces CLOSED.         *)
(***************************************************************************)
CONSTANT Threads

VARIABLES state, phase

CLOSED == "CLOSED"
OPEN == "OPEN"
HALF_OPEN == "HALF_OPEN"

absVars == <<state, phase>>

(* How an operation ended: returned, raised an expected exception, or     *)
(* raised something the breaker does not count.                            *)
Outcome == {"success", "failure", "other"}

(* The states the breaker may be in after a call completes with outcome o *)
(* in state s.                                                              *)
After(s, o) ==
    IF o = "other" \/ s = OPEN THEN {s}
    ELSE IF s = CLOSED
         THEN IF o = "success" THEN {CLOSED} ELSE {CLOSED, OPEN}
         ELSE IF o = "success" THEN {HALF_OPEN, CLOSED} ELSE {OPEN}

Init ==
    /\ state = CLOSED
    /\ phase = [t \in Threads |-> "idle"]

Admit(t) ==
    /\ phase[t] = "idle"
    /\ state' = IF state = OPEN THEN HALF_OPEN ELSE state
    /\ phase' = [phase EXCEPT ![t] = "running"]

(* A recorded failure leaves the caller failing until call() returns.     *)
Complete(t, o) ==
    /\ phase[t] = "running"
    /\ state' \in After(state, o)
    /\ phase' = [phase EXCEPT ![t] = IF o = "failure" THEN "failing" ELSE "idle"]

(* The lazy recovery check, by a `state` read anywhere.                   *)
Recover ==
    /\ state = OPEN
    /\ state' = HALF_OPEN
    /\ UNCHANGED phase

(* call() returns after a recorded failure; its own `state` read may      *)
(* recover an OPEN breaker.                                                *)
Return(t) ==
    /\ phase[t] = "failing"
    /\ state' \in IF state = OPEN THEN {OPEN, HALF_OPEN} ELSE {state}
    /\ phase' = [phase EXCEPT ![t] = "idle"]

Reset ==
    /\ state' = CLOSED
    /\ UNCHANGED phase

Next ==
    \/ \E t \in Threads :
          \/ Admit(t)
          \/ \E o \in Outcome : Complete(t, o)
          \/ Return(t)
    \/ Recover
    \/ Reset

Spec == Init /\ [][Next]_absVars

=============================================================================
