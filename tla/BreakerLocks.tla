----------------------------- MODULE BreakerLocks ----------------------------
(***************************************************************************)
(* The locks of services/common/circuit_breaker.py: a breaker's            *)
(* _state_lock, its CircuitBreakerMetrics.lock and the registry's _lock,   *)
(* all threading.Lock (not re-entrant), and the order in which each public *)
(* operation takes and releases them.  The breaker's data is modelled in   *)
(* CircuitBreaker; here an operation is the sequence of lock operations    *)
(* its code performs, with nested calls inlined, and threads interleave    *)
(* those lock operations.  One breaker is registered in the registry.      *)
(*                                                                         *)
(* A thread that tries to take a lock it already holds waits for ever,    *)
(* as a threading.Lock does.                                               *)
(***************************************************************************)
EXTENDS Naturals, Sequences

CONSTANTS
    Threads,       \* threads using the breaker and the registry
    NoOwner,       \* model value: a free lock
    StatsReaders   \* some thread calls get_stats / registry.get_all_stats

StateLock == "state_lock"        \* CircuitBreaker._state_lock
MetricsLock == "metrics_lock"    \* CircuitBreakerMetrics.lock
RegistryLock == "registry_lock"  \* CircuitBreakerRegistry._lock
Locks == {StateLock, MetricsLock, RegistryLock}

Acq(l) == <<"acq", l>>
Rel(l) == <<"rel", l>>

VARIABLES
    owner,  \* per lock: the thread holding it, or NoOwner
    prog    \* per thread: the lock operations its current call still performs

vars == <<owner, prog>>

-----------------------------------------------------------------------------
(* The `state` property: under _state_lock (a transition and its          *)
(* listeners run inside).                                                  *)
StateRead == <<Acq(StateLock), Rel(StateLock)>>

(* record_rejection                                                        *)
RecordRejection == <<Acq(MetricsLock), Rel(MetricsLock)>>

(* _on_success: record_success inside _state_lock.                         *)
OnSuccess == <<Acq(StateLock), Acq(MetricsLock), Rel(MetricsLock), Rel(StateLock)>>

(* _on_failure in CLOSED: record_failure, then get_failure_rate for the   *)
(* rate rule, both inside _state_lock.  In HALF_OPEN or OPEN the rate is  *)
(* not read.                                                               *)
OnFailureClosed ==
    <<Acq(StateLock), Acq(MetricsLock), Rel(MetricsLock),
                      Acq(MetricsLock), Rel(MetricsLock), Rel(StateLock)>>

OnFailureOther == <<Acq(StateLock), Acq(MetricsLock), Rel(MetricsLock), Rel(StateLock)>>

(* call(): the state read, then rejection, or the operation (no lock)     *)
(* followed by _on_success, or by _on_failure and a second state read.    *)
CallPaths ==
    { StateRead \o RecordRejection,
      StateRead \o OnSuccess,
      StateRead \o OnFailureClosed \o StateRead,
      StateRead \o OnFailureOther \o StateRead }

(* reset()                                                                 *)
ResetProg == <<Acq(StateLock), Rel(StateLock)>>

(* CircuitBreakerMetrics.get_stats: get_failure_rate is called while      *)
(* self.lock is held and takes self.lock again.                            *)
MetricsGetStats == <<Acq(MetricsLock), Acq(MetricsLock), Rel(MetricsLock), Rel(MetricsLock)>>

(* CircuitBreaker.get_stats: metrics.get_stats, then the `state` read.    *)
GetStats == MetricsGetStats \o StateRead

(* CircuitBreakerRegistry.register, get_all_stats and reset_all.          *)
Register == <<Acq(RegistryLock), Rel(RegistryLock)>>
GetAllStats == <<Acq(RegistryLock)>> \o GetStats \o <<Rel(RegistryLock)>>

ResetAll == <<Acq(RegistryLock)>> \o ResetProg \o <<Rel(RegistryLock)>>

(* What a thread may be asked to do.                                       *)
Programs ==
    CallPaths \cup {ResetProg, Register, ResetAll}
              \cup (IF StatsReaders THEN {GetStats, GetAllStats} ELSE {})

-----------------------------------------------------------------------------
Init ==
    /\ owner = [l \in Locks |-> NoOwner]
    /\ prog = [t \in Threads |-> <<>>]

(* An idle thread starts one of the operations.                            *)
Begin(t) ==
    /\ prog[t] = <<>>
    /\ \E p \in Programs : prog' = [prog EXCEPT ![t] = p]
    /\ UNCHANGED owner

(* `with lock:` entered: only when the lock is free.  A thread holding    *)
(* the lock is not let in either.                                          *)
Acquire(t) ==
    /\ prog[t] # <<>>
    /\ Head(prog[t])[1] = "acq"
    /\ owner[Head(prog[t])[2]] = NoOwner
    /\ owner' = [owner EXCEPT ![Head(prog[t])[2]] = t]
    /\ prog' = [prog EXCEPT ![t] = Tail(@)]

(* `with lock:` left.                                                      *)
Release(t) ==
    /\ prog[t] # <<>>
    /\ Head(prog[t])[1] = "rel"
    /\ owner' = [owner EXCEPT ![Head(prog[t])[2]] = NoOwner]
    /\ prog' = [prog EXCEPT ![t] = Tail(@)]

Next == \E t \in Threads : Begin(t) \/ Acquire(t) \/ Release(t)

(* Every runnable thread is scheduled, and a thread waiting for a lock    *)
(* that is free again and again gets it (strong fairness: threading.Lock *)
(* makes no FIFO promise, so this assumes the OS does not starve a waiter *)
(* and leaves only real deadlocks).  Callers start operations when they   *)
(* like.                                                                   *)
FairSpec == Init /\ [][Next]_vars
            /\ \A t \in Threads : SF_vars(Acquire(t)) /\ WF_vars(Release(t))

-----------------------------------------------------------------------------
(* The locks are taken in one global order, registry before state before  *)
(* metrics, and never twice: a thread about to wait for a lock holds that *)
(* lock or one that comes after it.  This rules out every deadlock of     *)
(* the breaker: two threads each holding the lock the other waits for     *)
(* (e.g. _on_success and _on_failure, or reset_all and a call), and a     *)
(* thread waiting for a threading.Lock it holds itself.                   *)
Rank(l) == CASE l = RegistryLock -> 1 [] l = StateLock -> 2 [] l = MetricsLock -> 3

LockOrder ==
    \A t \in Threads :
        prog[t] # <<>> /\ Head(prog[t])[1] = "acq" =>
            \A l \in Locks : owner[l] = t => Rank(l) < Rank(Head(prog[t])[2])

(* Every operation a thread starts on the breaker or the registry (a      *)
(* call, reset, register, reset_all, get_stats, get_all_stats) returns,   *)
(* as a monitoring endpoint that reads get_stats expects.                 *)
OpsComplete == \A t \in Threads : (prog[t] # <<>>) ~> (prog[t] = <<>>)

=============================================================================
