----------------------------- MODULE FeatureFlags -----------------------------
(***************************************************************************)
(* FeatureFlagsClient.is_enabled (services/feature-flags/                 *)
(* feature_flags_client.py) and the two callers that pass it a context.   *)
(* is_enabled is wrapped in functools.lru_cache, keyed by its arguments;  *)
(* its body keeps _cache_timestamp, a dict of fetch times per             *)
(* "feature:context" key, and empties the whole lru_cache when it finds   *)
(* its key's timestamp older than cache_ttl.                               *)
(*                                                                         *)
(* Contexts are abstracted to two: None, the only one the lru_cache can   *)
(* hash, and a dict, which the lru_cache wrapper refuses with TypeError   *)
(* before the body runs.  The evaluation service holds one Boolean per    *)
(* feature; it is switched off by emergency_kill_switch and on by a       *)
(* rollout update, and a request to it may fail.                          *)
(***************************************************************************)
EXTENDS Naturals

CONSTANTS
    Threads,   \* caller threads
    Features,  \* feature names
    TTL,       \* cache_ttl_seconds, in ticks
    MaxTime,   \* bound on the clock
    None,      \* model value: no entry
    TypeError, \* model value: the call raised TypeError
    KeyError   \* model value: the call raised KeyError

VARIABLES
    now,        \* datetime.now()
    enabled,    \* per feature: the service's answer
    lru,        \* per feature: None or the Boolean the lru_cache holds for (feature, None)
    stamp,      \* per feature: None or _cache_timestamp[key]
    pc,         \* per thread: its position in the body of is_enabled
    feat,       \* per thread: the feature of its current call
    res,        \* per thread: the value its body will return
    ret,        \* per thread: None while calling, else what the call gave
    start,      \* per thread: ghost, when its current call began
    disabledAt  \* per feature: ghost, None or when the service switched it off

vars == <<now, enabled, lru, stamp, pc, feat, res, ret, start, disabledAt>>

-----------------------------------------------------------------------------
Init ==
    /\ now = 0
    /\ enabled \in [Features -> BOOLEAN]
    /\ lru = [f \in Features |-> None]
    /\ stamp = [f \in Features |-> None]
    /\ pc = [t \in Threads |-> "idle"]
    /\ feat = [t \in Threads |-> CHOOSE f \in Features : TRUE]
    /\ res = [t \in Threads |-> FALSE]
    /\ ret = [t \in Threads |-> None]
    /\ start = [t \in Threads |-> 0]
    /\ disabledAt = [f \in Features |-> None]

(* is_enabled(f) called with no context: the lru_cache wrapper returns    *)
(* the value it holds for the key, or runs the body.                       *)
IsEnabled(t, f) ==
    /\ pc[t] = "idle"
    /\ feat' = [feat EXCEPT ![t] = f]
    /\ start' = [start EXCEPT ![t] = now]
    /\ IF lru[f] # None
       THEN /\ ret' = [ret EXCEPT ![t] = lru[f]]
            /\ UNCHANGED pc
       ELSE /\ ret' = [ret EXCEPT ![t] = None]
            /\ pc' = [pc EXCEPT ![t] = "check"]
    /\ UNCHANGED <<now, enabled, lru, stamp, res, disabledAt>>

(* FeatureFlagDecorator.flag's wrapper: it passes the dict                *)
(* kwargs.get('_feature_context', {}) as context, which lru_cache cannot  *)
(* hash; the TypeError escapes the wrapper and the gated function never   *)
(* runs.                                                                   *)
FlagWrapper(t, f) ==
    /\ pc[t] = "idle"
    /\ feat' = [feat EXCEPT ![t] = f]
    /\ start' = [start EXCEPT ![t] = now]
    /\ ret' = [ret EXCEPT ![t] = TypeError]
    /\ UNCHANGED <<now, enabled, lru, stamp, pc, res, disabledAt>>

(* `if cache_key in self._cache_timestamp`.                                *)
Check(t) ==
    /\ pc[t] = "check"
    /\ pc' = [pc EXCEPT ![t] = IF stamp[feat[t]] # None THEN "read" ELSE "request"]
    /\ UNCHANGED <<now, enabled, lru, stamp, feat, res, ret, start, disabledAt>>

(* `self._cache_timestamp[cache_key]` compared with cache_ttl: the read   *)
(* raises KeyError (outside the try) when another thread deleted the key  *)
(* since the test.                                                         *)
ReadStamp(t) ==
    /\ pc[t] = "read"
    /\ IF stamp[feat[t]] = None
       THEN /\ ret' = [ret EXCEPT ![t] = KeyError]
            /\ pc' = [pc EXCEPT ![t] = "idle"]
       ELSE /\ pc' = [pc EXCEPT ![t] = IF now - stamp[feat[t]] > TTL
                                       THEN "clear" ELSE "request"]
            /\ UNCHANGED ret
    /\ UNCHANGED <<now, enabled, lru, stamp, feat, res, start, disabledAt>>

(* is_enabled.cache_clear() empties the lru_cache for every key, then     *)
(* `del self._cache_timestamp[cache_key]`, which raises KeyError (outside *)
(* the try) when another thread deleted the key since the test.           *)
Clear(t) ==
    /\ pc[t] = "clear"
    /\ lru' = [f \in Features |-> None]
    /\ IF stamp[feat[t]] # None
       THEN /\ stamp' = [stamp EXCEPT ![feat[t]] = None]
            /\ pc' = [pc EXCEPT ![t] = "request"]
            /\ UNCHANGED ret
       ELSE /\ ret' = [ret EXCEPT ![t] = KeyError]
            /\ pc' = [pc EXCEPT ![t] = "idle"]
            /\ UNCHANGED stamp
    /\ UNCHANGED <<now, enabled, feat, res, start, disabledAt>>

(* The GET to /features/evaluate: on success the timestamp is written and *)
(* the service's answer returned; a RequestException gives False and no   *)
(* timestamp.                                                              *)
Request(t) ==
    /\ pc[t] = "request"
    /\ \/ /\ stamp' = [stamp EXCEPT ![feat[t]] = now]
          /\ res' = [res EXCEPT ![t] = enabled[feat[t]]]
       \/ /\ res' = [res EXCEPT ![t] = FALSE]
          /\ UNCHANGED stamp
    /\ pc' = [pc EXCEPT ![t] = "return"]
    /\ UNCHANGED <<now, enabled, lru, feat, ret, start, disabledAt>>

(* The body returns; the lru_cache keeps the result unless the key was    *)
(* filled by another thread meanwhile.                                    *)
Return(t) ==
    /\ pc[t] = "return"
    /\ lru' = IF lru[feat[t]] = None THEN [lru EXCEPT ![feat[t]] = res[t]] ELSE lru
    /\ ret' = [ret EXCEPT ![t] = res[t]]
    /\ pc' = [pc EXCEPT ![t] = "idle"]
    /\ UNCHANGED <<now, enabled, stamp, feat, res, start, disabledAt>>

(* emergency_kill_switch(f): the service disables the feature.            *)
KillSwitch(f) ==
    /\ enabled[f]
    /\ enabled' = [enabled EXCEPT ![f] = FALSE]
    /\ disabledAt' = [disabledAt EXCEPT ![f] = now]
    /\ UNCHANGED <<now, lru, stamp, pc, feat, res, ret, start>>

(* update_rollout(f, 100): the service enables the feature again.         *)
EnableRollout(f) ==
    /\ ~enabled[f]
    /\ enabled' = [enabled EXCEPT ![f] = TRUE]
    /\ disabledAt' = [disabledAt EXCEPT ![f] = None]
    /\ UNCHANGED <<now, lru, stamp, pc, feat, res, ret, start>>

Tick ==
    /\ now < MaxTime
    /\ now' = now + 1
    /\ UNCHANGED <<enabled, lru, stamp, pc, feat, res, ret, start, disabledAt>>

Next ==
    \/ \E t \in Threads :
          \/ \E f \in Features : IsEnabled(t, f) \/ FlagWrapper(t, f)
          \/ Check(t) \/ ReadStamp(t) \/ Clear(t) \/ Request(t) \/ Return(t)
    \/ \E f \in Features : KillSwitch(f) \/ EnableRollout(f)
    \/ Tick

Spec == Init /\ [][Next]_vars

-----------------------------------------------------------------------------
(* Type invariant.                                                         *)
TypeOK ==
    /\ now \in 0..MaxTime
    /\ enabled \in [Features -> BOOLEAN]
    /\ lru \in [Features -> BOOLEAN \cup {None}]
    /\ stamp \in [Features -> 0..MaxTime \cup {None}]
    /\ pc \in [Threads -> {"idle", "check", "read", "clear", "request", "return"}]
    /\ feat \in [Threads -> Features]
    /\ res \in [Threads -> BOOLEAN]
    /\ ret \in [Threads -> BOOLEAN \cup {None, TypeError, KeyError}]

(* is_enabled answers or fails open with False; it never lets the        *)
(* KeyError of its cache bookkeeping escape: the membership test, the     *)
(* read and the `del` of the timestamp agree even when threads interleave.*)
NoKeyError == \A t \in Threads : ret[t] # KeyError

(* A function gated by FeatureFlagDecorator.flag either runs or returns  *)
(* default_return; the flag lookup itself never raises.                   *)
FlagGatesCall == \A t \in Threads : ret[t] # TypeError

(* Once emergency_kill_switch(f) has taken effect on the service, a call *)
(* of is_enabled(f) that begins more than cache_ttl later does not answer *)
(* True (the TTL is the longest a cached answer is meant to live).        *)
Killed(f, t0) == disabledAt[f] # None /\ t0 - disabledAt[f] > TTL

KillSwitchHonoured ==
    [][\A t \in Threads :
         (\/ \E f \in Features : IsEnabled(t, f)
          \/ Return(t)) /\ ret'[t] = TRUE => ~Killed(feat'[t], start'[t])]_vars

=============================================================================
