------------------------------ MODULE Suppression -----------------------------
(***************************************************************************)
(* DeploymentSuppressionManager (services/alert-suppression/              *)
(* suppression_client.py) and the suppressions service behind             *)
(* AlertSuppressionClient: suppress_for_deployment creates a suppression  *)
(* of duration_minutes (30) and records its id under the deployment id in *)
(* active_suppressions; restore_after_deployment deletes it and forgets   *)
(* it; extend_for_rollback extends it.                                    *)
(*                                                                         *)
(* The service keeps every suppression it created, with the deployment   *)
(* id of its metadata and its end time; alerts are suppressed while the   *)
(* clock is before the end.  A request may fail with a RequestException,  *)
(* and a POST may fail after the service created the suppression.  The    *)
(* manager's methods are called one at a time, so each is one step.       *)
(***************************************************************************)
EXTENDS Naturals

CONSTANTS
    Deployments, \* deployment ids
    Duration,    \* duration_minutes, in ticks
    ExtendBy,    \* extend_for_rollback's additional_minutes, in ticks
    MaxIds,      \* bound on the suppressions created
    MaxTime,     \* bound on the clock
    MaxEnd       \* bound on an end time, so extensions stop

Ids == 1..MaxIds

VARIABLES
    now,     \* datetime.utcnow()
    created, \* the service: the ids it has created, 0..created
    svc,     \* the service: per id, [dep, end, live]; live is FALSE once deleted
    active   \* active_suppressions: per deployment, the id recorded, or 0

vars == <<now, created, svc, active>>

Suppressing(i) == i \in 1..created /\ svc[i].live /\ now < svc[i].end

-----------------------------------------------------------------------------
Init ==
    /\ now = 0
    /\ created = 0
    /\ svc = [i \in Ids |-> [dep |-> CHOOSE d \in Deployments : TRUE, end |-> 0, live |-> FALSE]]
    /\ active = [d \in Deployments |-> 0]

(* AlertSuppressionClient.create_deployment_suppression for d: the POST  *)
(* of a suppression ending Duration after now.  "ok": created and         *)
(* answered; "lost": created, but the RequestException propagates;        *)
(* "refused": the RequestException with nothing created.                  *)
CreateSuppression(d, o) ==
    IF o = "refused"
    THEN UNCHANGED <<created, svc>>
    ELSE /\ created' = created + 1
         /\ svc' = [svc EXCEPT ![created + 1] = [dep |-> d, end |-> now + Duration, live |-> TRUE]]

(* delete_suppression(i): "ok": deleted and answered; "lost": deleted,   *)
(* but the RequestException propagates (lost response, or an HTTP error   *)
(* after the deletion); "refused": the RequestException with nothing      *)
(* deleted.                                                                *)
DeleteSuppression(i, o) ==
    svc' = IF o = "refused" THEN svc ELSE [svc EXCEPT ![i].live = FALSE]

(* update_suppression(i, extend_minutes): the PATCH extends a suppression *)
(* the service still has (for a deleted one it raises, changing nothing). *)
UpdateSuppression(i) ==
    /\ svc[i].live
    /\ svc' = [svc EXCEPT ![i].end = @ + ExtendBy]

(* suppress_for_deployment(d): the id of a created suppression is         *)
(* recorded, replacing whatever d had; an exception propagates with       *)
(* nothing recorded.                                                       *)
Suppress(d, o) ==
    /\ created < MaxIds
    /\ CreateSuppression(d, o)
    /\ active' = IF o = "ok" THEN [active EXCEPT ![d] = created + 1] ELSE active
    /\ UNCHANGED now

(* restore_after_deployment(d): for a recorded d, delete_suppression;     *)
(* only when it returns is the entry deleted (an exception propagates and *)
(* the entry stays).                                                       *)
Restore(d, o) ==
    /\ active[d] # 0
    /\ DeleteSuppression(active[d], o)
    /\ active' = IF o = "ok" THEN [active EXCEPT ![d] = 0] ELSE active
    /\ UNCHANGED <<now, created>>

(* extend_for_rollback(d): for a recorded d, update_suppression.          *)
Extend(d) ==
    /\ active[d] # 0
    /\ svc[active[d]].end + ExtendBy <= MaxEnd
    /\ UpdateSuppression(active[d])
    /\ UNCHANGED <<now, created, active>>

Tick ==
    /\ now < MaxTime
    /\ now' = now + 1
    /\ UNCHANGED <<created, svc, active>>

Next ==
    \/ \E d \in Deployments :
          \/ \E o \in {"ok", "lost", "refused"} : Suppress(d, o)
          \/ \E o \in {"ok", "lost", "refused"} : Restore(d, o)
          \/ Extend(d)
    \/ Tick

Spec == Init /\ [][Next]_vars

-----------------------------------------------------------------------------
(* Type invariant.                                                         *)
TypeOK ==
    /\ now \in 0..MaxTime
    /\ created \in 0..MaxIds
    /\ svc \in [Ids -> [dep : Deployments, end : Nat, live : BOOLEAN]]
    /\ active \in [Deployments -> 0..created]

(* restore_after_deployment and extend_for_rollback act on a suppression *)
(* of the deployment they are given: a recorded id names a suppression    *)
(* the service created for that same deployment, however POSTs and        *)
(* DELETEs fail and whatever suppress_for_deployment overwrote.           *)
RecordedForDeployment ==
    \A d \in Deployments : active[d] # 0 => svc[active[d]].dep = d

(* What active_suppressions records is what the service holds: a         *)
(* recorded id names a suppression the service created for that same    *)
(* deployment and has not deleted.                                        *)
RecordedIsLive ==
    \A d \in Deployments :
        active[d] # 0 => svc[active[d]].dep = d /\ svc[active[d]].live

(* Every suppression that is silencing alerts is recorded in             *)
(* active_suppressions, so restore_after_deployment can end it: no        *)
(* suppression outlives the manager's knowledge of it.                    *)
NoUntrackedSuppression ==
    \A i \in Ids : Suppressing(i) => active[svc[i].dep] = i

=============================================================================
