------------------------------ MODULE Deployment ------------------------------
(***************************************************************************)
(* DeploymentManager.deploy_with_canary (services/grand_central/          *)
(* gc_client.py) against the Grand Central service: validate, a change    *)
(* record, the deploy POST under tenacity's @retry (three attempts),      *)
(* wait_for_deployment's polling loop with its timeout, the closing       *)
(* change record, and the rollback in the `except Exception` handler.     *)
(*                                                                         *)
(* The service holds the deployments it has created, each running,        *)
(* completed, failed or rolled_back, and moves a running one on by        *)
(* itself.  Every request may fail with a RequestException; a POST may    *)
(* fail after the service acted on it (the response is lost).  Time is   *)
(* counted in polls of wait_for_deployment (one per 30 s sleep).          *)
(***************************************************************************)
EXTENDS Naturals, Sequences

CONSTANTS
    MaxAttempts, \* stop_after_attempt(3)
    Timeout      \* wait_for_deployment's timeout, in polls

ASSUME ConstantsAssumption ==
    /\ MaxAttempts \in Nat \ {0}
    /\ Timeout \in Nat

Statuses == {"running", "completed", "failed", "rolled_back"}

VARIABLES
    pc,         \* where deploy_with_canary is
    tries,      \* attempts of the deploy POST so far
    deps,       \* the service: the statuses of the deployments it created, in order
    depId,      \* deployment['id'] once known (an index of deps), else 0
    polls,      \* polls of wait_for_deployment so far
    seen,       \* ghost: wait_for_deployment saw depId completed
    rollback,   \* ghost: "none", or whether the rollback POST went "ok" or "failed"
    result      \* "none" while running, then "returned" or "raised"

vars == <<pc, tries, deps, depId, polls, seen, rollback, result>>

-----------------------------------------------------------------------------
(* Mutant: the handler catches only RequestException, so a failed or     *)
(* timed-out deployment is not rolled back.                               *)
CaughtNarrow(kind) == kind = "request"

(* `except Exception` around the wait and the closing change record: it  *)
(* catches a RequestException, the Exception for a failed deployment and *)
(* the TimeoutError alike.                                                 *)
Caught(kind) == kind \in {"request", "failed", "timeout"}

(* An exception of the given kind raised inside the try block.           *)
RaiseInTry(kind) ==
    IF Caught(kind)
    THEN /\ pc' = "rollback"
         /\ UNCHANGED result
    ELSE /\ pc' = "done"
         /\ result' = "raised"

-----------------------------------------------------------------------------
Init ==
    /\ pc = "validate"
    /\ tries = 0
    /\ deps = <<>>
    /\ depId = 0
    /\ polls = 0
    /\ seen = FALSE
    /\ rollback = "none"
    /\ result = "none"

(* validate_deployment: valid, invalid (ValueError) or a RequestException. *)
Validate ==
    /\ pc = "validate"
    /\ \/ /\ pc' = "record"
          /\ UNCHANGED result
       \/ /\ pc' = "done"
          /\ result' = "raised"
    /\ UNCHANGED <<tries, deps, depId, polls, seen, rollback>>

(* The first create_change_record; its failure propagates.                *)
OpenRecord ==
    /\ pc = "record"
    /\ \/ /\ pc' = "deploy"
          /\ UNCHANGED result
       \/ /\ pc' = "done"
          /\ result' = "raised"
    /\ UNCHANGED <<tries, deps, depId, polls, seen, rollback>>

(* Mutant: the attempt limit tested with `>`, one attempt too many.       *)
DeployAttemptOffByOne(o) ==
    /\ pc = "deploy"
    /\ deps' = IF o \in {"ok", "lost"} THEN Append(deps, "running") ELSE deps
    /\ IF o = "ok"
       THEN /\ depId' = Len(deps')
            /\ pc' = "wait"
            /\ UNCHANGED <<tries, result>>
       ELSE /\ tries' = tries + 1
            /\ IF tries + 1 > MaxAttempts
               THEN pc' = "done" /\ result' = "raised"
               ELSE UNCHANGED <<pc, result>>
            /\ UNCHANGED depId
    /\ UNCHANGED <<polls, seen, rollback>>

(* One attempt of the deploy POST.  "ok": created and answered; "lost":   *)
(* created, but the answer is lost to a RequestException; "refused": a    *)
(* RequestException with nothing created.  tenacity retries a failed     *)
(* attempt until the third, whose failure propagates (RetryError).  The  *)
(* canary sleep follows a success.                                         *)
DeployAttempt(o) ==
    /\ pc = "deploy"
    /\ deps' = IF o \in {"ok", "lost"} THEN Append(deps, "running") ELSE deps
    /\ IF o = "ok"
       THEN /\ depId' = Len(deps')
            /\ pc' = "wait"
            /\ UNCHANGED <<tries, result>>
       ELSE /\ tries' = tries + 1
            /\ IF tries + 1 = MaxAttempts
               THEN pc' = "done" /\ result' = "raised"
               ELSE UNCHANGED <<pc, result>>
            /\ UNCHANGED depId
    /\ UNCHANGED <<polls, seen, rollback>>

(* One round of wait_for_deployment's loop while the time is not up: a   *)
(* status read that raises, or completed (return), failed / rolled_back  *)
(* (raise Exception), anything else (sleep and poll again).              *)
Poll ==
    /\ pc = "wait"
    /\ polls < Timeout
    /\ \/ RaiseInTry("request") /\ UNCHANGED <<polls, seen>>
       \/ /\ deps[depId] = "completed"
          /\ pc' = "final"
          /\ seen' = TRUE
          /\ UNCHANGED <<polls, result>>
       \/ /\ deps[depId] \in {"failed", "rolled_back"}
          /\ RaiseInTry("failed")
          /\ UNCHANGED <<polls, seen>>
       \/ /\ deps[depId] = "running"
          /\ polls' = polls + 1
          /\ UNCHANGED <<pc, seen, result>>
    /\ UNCHANGED <<tries, deps, depId, rollback>>

(* Mutant: the loop's exit returns the last status instead of raising.   *)
WaitTimeoutReturns ==
    /\ pc = "wait"
    /\ polls >= Timeout
    /\ pc' = "final"
    /\ UNCHANGED <<tries, deps, depId, polls, seen, rollback, result>>

(* The loop's time is up: TimeoutError.                                    *)
WaitTimeout ==
    /\ pc = "wait"
    /\ polls >= Timeout
    /\ RaiseInTry("timeout")
    /\ UNCHANGED <<tries, deps, depId, polls, seen, rollback>>

(* The closing create_change_record, inside the try: success returns the *)
(* id, a failure goes to the handler.                                     *)
CloseRecord ==
    /\ pc = "final"
    /\ \/ /\ pc' = "done"
          /\ result' = "returned"
       \/ RaiseInTry("request")
    /\ UNCHANGED <<tries, deps, depId, polls, seen, rollback>>

(* The handler: rollback_deployment (the service rolls the deployment    *)
(* back), then re-raise; a failing rollback raises its own exception.    *)
Rollback ==
    /\ pc = "rollback"
    /\ \/ /\ deps' = [deps EXCEPT ![depId] = "rolled_back"]
          /\ rollback' = "ok"
       \/ /\ rollback' = "failed"
          /\ UNCHANGED deps
    /\ pc' = "done"
    /\ result' = "raised"
    /\ UNCHANGED <<tries, depId, polls, seen>>

(* The service finishes a running deployment, either way.                  *)
Progress(i) ==
    /\ deps[i] = "running"
    /\ \E s \in {"completed", "failed"} : deps' = [deps EXCEPT ![i] = s]
    /\ UNCHANGED <<pc, tries, depId, polls, seen, rollback, result>>

Next ==
    \/ Validate \/ OpenRecord
    \/ \E o \in {"ok", "lost", "refused"} : DeployAttempt(o)
    \/ Poll \/ WaitTimeout \/ CloseRecord \/ Rollback
    \/ \E i \in DOMAIN deps : Progress(i)

Spec == Init /\ [][Next]_vars

-----------------------------------------------------------------------------
(* Type invariant.                                                         *)
TypeOK ==
    /\ pc \in {"validate", "record", "deploy", "wait", "final", "rollback", "done"}
    /\ tries \in 0..MaxAttempts
    /\ deps \in Seq(Statuses)
    /\ depId \in 0..Len(deps)
    /\ polls \in 0..Timeout
    /\ seen \in BOOLEAN
    /\ rollback \in {"none", "ok", "failed"}
    /\ result \in {"none", "returned", "raised"}

(* deploy_with_canary returns a deployment id only for a deployment the  *)
(* service reports completed.                                              *)
ReturnedIsCompleted == result = "returned" => deps[depId] = "completed"

(* When deploy_with_canary raises after its deployment was created, that *)
(* deployment has been rolled back, unless the rollback request itself   *)
(* failed: a failed, timed-out or unreadable deployment is not left in   *)
(* place.                                                                  *)
GaveUpRolledBack ==
    result = "raised" /\ depId # 0 /\ rollback # "failed" =>
        deps[depId] = "rolled_back"

(* One call of deploy_with_canary creates at most one deployment on the  *)
(* service.                                                                *)
SingleDeployment == Len(deps) <= 1

(* The manager never rolls back a deployment that wait_for_deployment    *)
(* reported completed.                                                     *)
NoRollbackOfCompleted == seen => rollback = "none"

=============================================================================
