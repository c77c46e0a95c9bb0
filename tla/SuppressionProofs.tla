-------------------------- MODULE SuppressionProofs --------------------------
(***************************************************************************)
(* Proof that every id DeploymentSuppressionManager's active_suppressions *)
(* records for a deployment names a suppression the service created for   *)
(* that same deployment (RecordedForDeployment), for any deployments,     *)
(* durations and bounds, whatever the service answers (a created          *)
(* suppression, a POST lost after creation, a refused request, a DELETE   *)
(* that took effect and still raised, a refused DELETE).  That the id is  *)
(* also live does not hold: a DELETE that takes effect and raises leaves  *)
(* the dead id recorded (RecordedIsLive, violated under MC_Suppression.cfg).*)
(*                                                                         *)
(* RecordedForDeployment alone is not inductive: when                      *)
(* suppress_for_deployment records a new id, a deployment already         *)
(* recorded must not point at that id, whose service entry has just been  *)
(* overwritten.  TypeOK gives this: every recorded id is at most          *)
(* `created`, and the new id is created + 1.                               *)
(***************************************************************************)
EXTENDS Suppression, TLAPS

(* The hypotheses on the constants: there is a deployment to name in the  *)
(* initial service entries, and durations and bounds are whole numbers of *)
(* ticks (duration_minutes and additional_minutes are non-negative).       *)
ConstantsOK ==
    /\ Deployments # {}
    /\ Duration \in Nat
    /\ ExtendBy \in Nat
    /\ MaxIds \in Nat
    /\ MaxTime \in Nat

IInv == TypeOK /\ RecordedForDeployment

(* The service holds nothing and the manager records nothing at start.    *)
LEMMA InitIInv ==
    ASSUME ConstantsOK
    PROVE  Init => IInv
<1> SUFFICES ASSUME Init PROVE IInv
    OBVIOUS
<1>1. (CHOOSE d \in Deployments : TRUE) \in Deployments
    BY DEF ConstantsOK
<1>2. TypeOK
    <2>1. [dep |-> CHOOSE d \in Deployments : TRUE, end |-> 0, live |-> FALSE]
              \in [dep : Deployments, end : Nat, live : BOOLEAN]
        BY <1>1
    <2>2. svc \in [Ids -> [dep : Deployments, end : Nat, live : BOOLEAN]]
        BY <2>1 DEF Init
    <2>3. now \in 0..MaxTime /\ created \in 0..MaxIds
              /\ active \in [Deployments -> 0..created]
        BY DEF ConstantsOK, Init
    <2> QED
        BY <2>2, <2>3 DEF TypeOK
<1>3. RecordedForDeployment
    BY DEF Init, RecordedForDeployment
<1> QED
    BY <1>2, <1>3 DEF IInv

(* Every call of the manager, with every answer of the service, and the   *)
(* passing of time keep the invariant.                                     *)
LEMMA NextIInv ==
    ASSUME ConstantsOK
    PROVE  IInv /\ [Next]_vars => IInv'
<1> SUFFICES ASSUME IInv, [Next]_vars PROVE IInv'
    OBVIOUS
<1> USE DEF ConstantsOK, IInv, TypeOK, RecordedForDeployment
<1>1. ASSUME NEW d \in Deployments, NEW o \in {"ok", "lost", "refused"},
             Suppress(d, o)
      PROVE  IInv'
    <2>1. CASE o = "refused"
        BY <1>1, <2>1 DEF Suppress, CreateSuppression
    <2>2. CASE o # "refused"
        <3>1. /\ created' = created + 1
              /\ created + 1 \in Ids
              /\ svc' = [svc EXCEPT ![created + 1] =
                            [dep |-> d, end |-> now + Duration, live |-> TRUE]]
              /\ UNCHANGED now
            BY <1>1, <2>2 DEF Suppress, CreateSuppression, Ids
        <3>2. TypeOK'
            <4>1. [dep |-> d, end |-> now + Duration, live |-> TRUE]
                      \in [dep : Deployments, end : Nat, live : BOOLEAN]
                OBVIOUS
            <4>2. svc' \in [Ids -> [dep : Deployments, end : Nat, live : BOOLEAN]]
                BY <3>1, <4>1
            <4>3. active' \in [Deployments -> 0..created']
                BY <1>1, <3>1 DEF Suppress
            <4>4. now' \in 0..MaxTime /\ created' \in 0..MaxIds
                BY <3>1 DEF Ids
            <4> QED
                BY <4>2, <4>3, <4>4
        <3>3. ASSUME NEW e \in Deployments, active'[e] # 0
              PROVE  svc'[active'[e]].dep = e
            <4>1. CASE o = "ok" /\ e = d
                BY <1>1, <3>1, <4>1, <3>3 DEF Suppress
            <4>2. CASE ~(o = "ok" /\ e = d)
                <5>1. active'[e] = active[e] /\ active[e] \in 1..created
                    BY <1>1, <4>2, <3>3 DEF Suppress
                <5> QED
                    BY <3>1, <5>1 DEF Ids
            <4> QED
                BY <4>1, <4>2
        <3> QED
            BY <3>2, <3>3
    <2> QED
        BY <2>1, <2>2
<1>2. ASSUME NEW d \in Deployments, NEW o \in {"ok", "lost", "refused"},
             Restore(d, o)
      PROVE  IInv'
    <2> DEFINE i == active[d]
    <2>1. /\ i \in 1..created
          /\ active' \in {active, [active EXCEPT ![d] = 0]}
          /\ UNCHANGED <<now, created>>
        BY <1>2 DEF Restore
    <2>2. active' \in [Deployments -> 0..created']
          /\ \A e \in Deployments : active'[e] # 0 => active'[e] = active[e]
        BY <2>1
    <2>3. CASE o = "refused"
        <3>1. svc' = svc
            BY <1>2, <2>3 DEF Restore, DeleteSuppression
        <3> QED
            BY <2>1, <2>2, <3>1
    <2>4. CASE o # "refused"
        <3>1. svc' = [svc EXCEPT ![i].live = FALSE]
            BY <1>2, <2>4 DEF Restore, DeleteSuppression
        <3>2. /\ svc' \in [Ids -> [dep : Deployments, end : Nat, live : BOOLEAN]]
              /\ \A j \in Ids : svc'[j].dep = svc[j].dep
            <4>1. i \in Ids /\ svc[i] \in [dep : Deployments, end : Nat, live : BOOLEAN]
                BY <2>1 DEF Ids
            <4>2. svc'[i] = [dep |-> svc[i].dep, end |-> svc[i].end, live |-> FALSE]
                BY <3>1, <4>1
            <4>3. \A j \in Ids \ {i} : svc'[j] = svc[j]
                BY <3>1, <4>1
            <4>4. svc' = [j \in Ids |-> svc'[j]]
                BY <3>1
            <4>5. \A j \in Ids : svc'[j] \in [dep : Deployments, end : Nat, live : BOOLEAN]
                                  /\ svc'[j].dep = svc[j].dep
                <5> SUFFICES ASSUME NEW j \in Ids
                             PROVE  svc'[j] \in [dep : Deployments, end : Nat, live : BOOLEAN]
                                    /\ svc'[j].dep = svc[j].dep
                    OBVIOUS
                <5>1. CASE j = i
                    <6>1. svc[i].dep \in Deployments /\ svc[i].end \in Nat
                        BY <4>1
                    <6>2. [dep |-> svc[i].dep, end |-> svc[i].end, live |-> FALSE]
                              \in [dep : Deployments, end : Nat, live : BOOLEAN]
                        BY <6>1
                    <6>3. svc'[i].dep = svc[i].dep
                        BY <4>2
                    <6> QED
                        BY <4>2, <5>1, <6>2, <6>3
                <5>2. CASE j # i
                    <6>1. svc'[j] = svc[j]
                        BY <4>3, <5>2
                    <6>2. svc[j] \in [dep : Deployments, end : Nat, live : BOOLEAN]
                        OBVIOUS
                    <6> QED
                        BY <6>1, <6>2
                <5> QED
                    BY <5>1, <5>2
            <4> QED
                BY <4>4, <4>5
        <3>3. ASSUME NEW e \in Deployments, active'[e] # 0
              PROVE  svc'[active'[e]].dep = e
            <4>1. active'[e] = active[e]
                BY <2>2, <3>3
            <4>2. active[e] \in 0..created /\ created \in 0..MaxIds
                OBVIOUS
            <4>3. active[e] \in Ids
                BY <3>3, <4>1, <4>2 DEF Ids
            <4> QED
                BY <3>2, <3>3, <4>1, <4>3
        <3> QED
            BY <2>1, <2>2, <3>2, <3>3
    <2> QED
        BY <2>3, <2>4

<1>3. ASSUME NEW d \in Deployments, Extend(d) PROVE IInv'
    <2>1. /\ active[d] \in 1..created
          /\ svc' = [svc EXCEPT ![active[d]].end = @ + ExtendBy]
          /\ UNCHANGED <<now, created, active>>
        BY <1>3 DEF Extend, UpdateSuppression
    <2> DEFINE i == active[d]
    <2>2. /\ i \in Ids
          /\ svc[i] \in [dep : Deployments, end : Nat, live : BOOLEAN]
          /\ svc'[i] = [dep |-> svc[i].dep, end |-> svc[i].end + ExtendBy,
                        live |-> svc[i].live]
          /\ \A j \in Ids \ {i} : svc'[j] = svc[j]
          /\ svc' = [j \in Ids |-> svc'[j]]
        <3>1. i \in Ids /\ svc[i] \in [dep : Deployments, end : Nat, live : BOOLEAN]
            BY <2>1 DEF Ids
        <3>2. svc'[i] = [dep |-> svc[i].dep, end |-> svc[i].end + ExtendBy,
                         live |-> svc[i].live]
            BY <2>1, <3>1
        <3>3. \A j \in Ids \ {i} : svc'[j] = svc[j]
            BY <2>1
        <3>4. svc' = [j \in Ids |-> svc'[j]]
            BY <2>1
        <3> QED
            BY <3>1, <3>2, <3>3, <3>4
    <2>3. \A j \in Ids : svc'[j] \in [dep : Deployments, end : Nat, live : BOOLEAN]
        <3> SUFFICES ASSUME NEW j \in Ids
                     PROVE  svc'[j] \in [dep : Deployments, end : Nat, live : BOOLEAN]
            OBVIOUS
        <3>1. CASE j = i
            <4>1. [dep |-> svc[i].dep, end |-> svc[i].end + ExtendBy,
                   live |-> svc[i].live]
                      \in [dep : Deployments, end : Nat, live : BOOLEAN]
                BY <2>2
            <4> QED
                BY <2>2, <3>1, <4>1
        <3>2. CASE j # i
            <4>1. j \in Ids \ {i} /\ svc[j] \in [dep : Deployments, end : Nat, live : BOOLEAN]
                BY <3>2
            <4> QED
                BY <2>2, <4>1
        <3> QED
            BY <3>1, <3>2
    <2>4. TypeOK'
        BY <2>1, <2>2, <2>3
    <2>5. ASSUME NEW e \in Deployments, active'[e] # 0
          PROVE  svc'[active'[e]].dep = e
        <3>1. active'[e] = active[e] /\ active[e] \in Ids
            BY <2>1, <2>5 DEF Ids
        <3>2. svc'[active[e]].dep = svc[active[e]].dep
            BY <2>2, <3>1
        <3> QED
            BY <2>5, <3>1, <3>2
    <2> QED
        BY <2>4, <2>5
<1>4. CASE Tick
    BY <1>4 DEF Tick
<1>5. CASE UNCHANGED vars
    BY <1>5 DEF vars
<1> QED
    BY <1>1, <1>2, <1>3, <1>4, <1>5 DEF Next

(* restore_after_deployment and extend_for_rollback act on a suppression *)
(* of the deployment they are given: in every run, each id                *)
(* active_suppressions records for a deployment names a suppression the   *)
(* service created for that deployment, whatever requests failed, were    *)
(* lost or took effect and still raised.                                   *)
THEOREM RecordedForDeploymentHolds ==
    ASSUME ConstantsOK
    PROVE  Spec => []RecordedForDeployment
<1>1. Init => IInv
    BY InitIInv
<1>2. IInv /\ [Next]_vars => IInv'
    BY NextIInv
<1>3. IInv => RecordedForDeployment
    BY DEF IInv
<1> QED
    BY <1>1, <1>2, <1>3, PTL DEF Spec

=============================================================================
