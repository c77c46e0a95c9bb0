--------------------------- MODULE DeploymentProofs ---------------------------
(***************************************************************************)
(* Proofs that deploy_with_canary's invariants hold for every attempt     *)
(* limit and every timeout.                                                *)
(***************************************************************************)
EXTENDS Deployment, SequenceTheorems, TLAPS

(* The inductive invariant.  Besides the type, it ties each position of  *)
(* deploy_with_canary to what is known there: no attempt is counted       *)
(* before the deploy loop, and inside it one attempt is still left;      *)
(* before the deploy POST succeeded no deployment id is held, from then   *)
(* on one is; the closing change record is only reached for a completed   *)
(* deployment; the rollback ghost is set only by the handler, which ends  *)
(* the call; and a call that raised holding an id went through the        *)
(* handler.                                                                *)
IInv ==
    /\ TypeOK
    /\ pc \in {"validate", "record"} => tries = 0
    /\ pc = "deploy" => tries < MaxAttempts
    /\ pc \in {"validate", "record", "deploy"} => depId = 0
    /\ pc \in {"wait", "final", "rollback"} => depId # 0
    /\ result = "none" <=> pc # "done"
    /\ pc = "final" => deps[depId] = "completed"
    /\ result = "returned" => depId # 0 /\ deps[depId] = "completed"
    /\ rollback # "none" => pc = "done"
    /\ rollback = "ok" => depId # 0 /\ deps[depId] = "rolled_back"
    /\ result = "raised" /\ depId # 0 => rollback # "none"

(* The initial state: validate, nothing created, nothing returned.       *)
LEMMA InitIInv == Init => IInv
<1>1. <<>> \in Seq(Statuses) /\ Len(<<>>) = 0
    BY EmptySeq
<1>2. Init => TypeOK
    <2> SUFFICES ASSUME Init PROVE TypeOK
        OBVIOUS
    <2>1. tries \in 0..MaxAttempts /\ polls \in 0..Timeout
        BY ConstantsAssumption DEF Init
    <2>2. deps \in Seq(Statuses) /\ Len(deps) = 0 /\ depId = 0
        BY <1>1, Zenon DEF Init
    <2>3. depId \in 0..Len(deps)
        BY <2>2
    <2>4. QED
        BY <2>1, <2>2, <2>3, Zenon DEF Init, TypeOK
<1>3. QED
    BY <1>2 DEF Init, IInv

(* The statuses the code writes into a deployment record.                 *)
LEMMA StatusValues ==
    {"running", "completed", "failed", "rolled_back"} \subseteq Statuses
BY DEF Statuses

(* Every step of deploy_with_canary, and of the service, keeps IInv.     *)
LEMMA NextIInv == IInv /\ [Next]_vars => IInv'
<1> SUFFICES ASSUME IInv, [Next]_vars PROVE IInv'
    OBVIOUS
<1> USE ConstantsAssumption
<1>1. CASE Validate
    BY <1>1 DEF Validate, IInv, TypeOK
<1>2. CASE OpenRecord
    <2>1. CASE pc' = "deploy" /\ UNCHANGED result
        BY <1>2, <2>1 DEF OpenRecord, IInv, TypeOK
    <2>2. CASE pc' = "done" /\ result' = "raised"
        BY <1>2, <2>2 DEF OpenRecord, IInv, TypeOK
    <2>3. QED
        BY <1>2, <2>1, <2>2 DEF OpenRecord
<1>3. ASSUME NEW o \in {"ok", "lost", "refused"}, DeployAttempt(o)
      PROVE IInv'
    <2>1. /\ pc = "deploy" /\ depId = 0 /\ result = "none"
          /\ rollback = "none" /\ tries < MaxAttempts
        BY <1>3 DEF DeployAttempt, IInv, TypeOK
    <2>2. /\ Append(deps, "running") \in Seq(Statuses)
          /\ Len(Append(deps, "running")) = Len(deps) + 1
        BY AppendProperties, StatusValues DEF IInv, TypeOK
    <2>3. CASE o = "ok"
        BY <1>3, <2>1, <2>2, <2>3 DEF DeployAttempt, IInv, TypeOK
    <2>4. CASE o # "ok"
        <3>1. /\ deps' \in Seq(Statuses) /\ Len(deps') >= Len(deps)
              /\ depId' = 0 /\ tries' = tries + 1
              /\ UNCHANGED <<polls, seen, rollback>>
            BY <1>3, <2>1, <2>2, <2>4 DEF DeployAttempt, IInv, TypeOK
        <3>2. CASE tries + 1 = MaxAttempts
            BY <1>3, <2>1, <2>4, <3>1, <3>2 DEF DeployAttempt, IInv, TypeOK
        <3>3. CASE tries + 1 # MaxAttempts
            BY <1>3, <2>1, <2>4, <3>1, <3>3 DEF DeployAttempt, IInv, TypeOK
        <3>4. QED
            BY <3>2, <3>3
    <2>5. QED
        BY <2>3, <2>4
<1>4. CASE Poll
    <2>1. /\ pc = "wait" /\ depId \in 1..Len(deps) /\ result = "none"
          /\ rollback = "none"
        BY <1>4 DEF Poll, IInv, TypeOK
    <2>2. CASE RaiseInTry("request") /\ UNCHANGED <<polls, seen>>
        BY <1>4, <2>1, <2>2 DEF Poll, RaiseInTry, Caught, IInv, TypeOK
    <2>3. CASE deps[depId] = "completed" /\ pc' = "final" /\ seen' = TRUE
               /\ UNCHANGED <<polls, result>>
        BY <1>4, <2>1, <2>3 DEF Poll, IInv, TypeOK
    <2>4. CASE RaiseInTry("failed") /\ UNCHANGED <<polls, seen>>
        BY <1>4, <2>1, <2>4 DEF Poll, RaiseInTry, Caught, IInv, TypeOK
    <2>5. CASE polls' = polls + 1 /\ UNCHANGED <<pc, seen, result>>
        BY <1>4, <2>1, <2>5 DEF Poll, IInv, TypeOK
    <2>6. QED
        BY <1>4, <2>2, <2>3, <2>4, <2>5 DEF Poll
<1>5. CASE WaitTimeout
    BY <1>5 DEF WaitTimeout, RaiseInTry, Caught, IInv, TypeOK
<1>6. CASE CloseRecord
    <2>1. CASE pc' = "done" /\ result' = "returned"
        BY <1>6, <2>1 DEF CloseRecord, IInv, TypeOK
    <2>2. CASE RaiseInTry("request")
        BY <1>6, <2>2 DEF CloseRecord, RaiseInTry, Caught, IInv, TypeOK
    <2>3. QED
        BY <1>6, <2>1, <2>2 DEF CloseRecord
<1>7. CASE Rollback
    <2>1. depId \in 1..Len(deps) /\ deps \in Seq(Statuses)
        BY <1>7 DEF Rollback, IInv, TypeOK
    <2>2. CASE deps' = [deps EXCEPT ![depId] = "rolled_back"]
               /\ rollback' = "ok"
        <3>1. /\ deps' \in Seq(Statuses) /\ Len(deps') = Len(deps)
              /\ deps'[depId] = "rolled_back"
            BY <2>1, <2>2, ExceptSeq, StatusValues
        <3>2. QED
            BY <1>7, <2>1, <2>2, <3>1 DEF Rollback, IInv, TypeOK
    <2>3. CASE rollback' = "failed" /\ UNCHANGED deps
        BY <1>7, <2>1, <2>3 DEF Rollback, IInv, TypeOK
    <2>4. QED
        BY <1>7, <2>2, <2>3 DEF Rollback
<1>8. ASSUME NEW i \in DOMAIN deps, Progress(i)
      PROVE IInv'
    <2>1. /\ deps \in Seq(Statuses) /\ i \in 1..Len(deps)
          /\ deps[i] = "running"
        BY <1>8 DEF Progress, IInv, TypeOK
    <2>2. PICK v \in {"completed", "failed"} : deps' = [deps EXCEPT ![i] = v]
        BY <1>8 DEF Progress
    <2>3. /\ deps' \in Seq(Statuses) /\ Len(deps') = Len(deps)
          /\ \A j \in 1..Len(deps) : j # i => deps'[j] = deps[j]
        BY <2>1, <2>2, ExceptSeq, StatusValues
    <2>4. QED
        BY <1>8, <2>1, <2>3 DEF Progress, IInv, TypeOK
<1>9. CASE UNCHANGED vars
    BY <1>9 DEF vars, IInv, TypeOK
<1>10. QED
    BY <1>1, <1>2, <1>3, <1>4, <1>5, <1>6, <1>7, <1>8, <1>9 DEF Next

(* IInv holds in every state of every behaviour of deploy_with_canary.    *)
THEOREM Invariant == Spec => []IInv
BY InitIInv, NextIInv, PTL DEF Spec

(* Type correctness: the attempt counter never passes max_attempts, the   *)
(* poll counter never passes the timeout, and the deployment id held is   *)
(* always 0 or that of a created deployment.                               *)
THEOREM TypeCorrect == Spec => []TypeOK
<1>1. IInv => TypeOK
    BY DEF IInv
<1>2. QED
    BY Invariant, <1>1, PTL

(* deploy_with_canary returns a change id only for a deployment the       *)
(* service reported completed, and that status is never taken back.        *)
THEOREM Returned == Spec => []ReturnedIsCompleted
<1>1. IInv => ReturnedIsCompleted
    BY DEF IInv, ReturnedIsCompleted
<1>2. QED
    BY Invariant, <1>1, PTL

(* A call that raises while holding a deployment id has rolled that       *)
(* deployment back, unless rollback_deployment itself failed: no raise    *)
(* path of deploy_with_canary skips the handler.                           *)
THEOREM GaveUp == Spec => []GaveUpRolledBack
<1>1. IInv => GaveUpRolledBack
    BY DEF IInv, TypeOK, GaveUpRolledBack
<1>2. QED
    BY Invariant, <1>1, PTL

=============================================================================
