------------------------------ MODULE RateLimiter -----------------------------
(***************************************************************************)
(* The rate limiting client of services/rate-limiting/rate_limiter.py as   *)
(* RateLimitDecorator.limit uses it: every call of a decorated function    *)
(* asks the remote service (check_rate_limit); when the service cannot be  *)
(* reached and fail_open is set, the call falls back to local_rate_limit,  *)
(* a fixed-window counter per "identifier:window" key kept in              *)
(* _local_cache under _cache_lock.                                         *)
(*                                                                         *)
(* A call is one atomic step: the remote check touches no shared state and *)
(* local_rate_limit runs entirely under _cache_lock.  Time is the value of *)
(* time.time() in whole ticks; the service's answer is chosen freely.      *)
(***************************************************************************)
EXTENDS Naturals, Sequences, FiniteSets

CONSTANTS
    Funcs,          \* decorated functions
    Ids,            \* identifiers extracted from the calls
    FallbackLimit,  \* per function: fallback_limit
    FallbackWindow, \* per function: fallback_window, in ticks
    FailOpen,       \* the client's fail_open
    MaxTime         \* bound on the clock

(* What the service said: allowed, not allowed, or a RequestException.   *)
Remote == {"allowed", "denied", "error"}

(* The _local_cache key f"{identifier}:{window_seconds}".                *)
Key(f, id) == <<id, FallbackWindow[f]>>
Keys == {Key(f, id) : f \in Funcs, id \in Ids}

VARIABLES
    now,        \* time.time()
    cache,      \* _local_cache: per key [count, reset_time]; absent keys not in DOMAIN
    outcome,    \* per function: what its last call did ("none", "ran", "raised")
    fallbackLog \* ghost: per function and identifier, the times of calls let through in an outage

vars == <<now, cache, outcome, fallbackLog>>

-----------------------------------------------------------------------------
(* check_rate_limit: (allowed, fail_open) from the service's answer.     *)
(* An unreachable service gives (True, fail_open) when fail_open is set  *)
(* and (False, -) otherwise.                                              *)
CheckRateLimit(r) ==
    CASE r = "allowed" -> [allowed |-> TRUE, failOpen |-> FALSE]
      [] r = "denied" -> [allowed |-> FALSE, failOpen |-> FALSE]
      [] r = "error" -> [allowed |-> FailOpen, failOpen |-> FailOpen]

(* The cache entry for a key; the defaultdict creates a missing one with *)
(* count 0 and reset_time = time.time().                                 *)
Entry(k) == IF k \in DOMAIN cache THEN cache[k] ELSE [count |-> 0, reset |-> now]

(* The entry after the window test: a window that has passed restarts.    *)
Refreshed(k, w) ==
    IF now > Entry(k).reset THEN [count |-> 0, reset |-> now + w] ELSE Entry(k)

LocalAllows(e, limit) == ~(e.count >= limit)

(* local_rate_limit(identifier, limit, window): the new cache and the     *)
(* answer.                                                                 *)
LocalRateLimit(k, limit, w) ==
    LET e == Refreshed(k, w)
    IN IF LocalAllows(e, limit)
       THEN [ok |-> TRUE, entry |-> [e EXCEPT !.count = @ + 1]]
       ELSE [ok |-> FALSE, entry |-> e]

-----------------------------------------------------------------------------
Init ==
    /\ now = 0
    /\ cache = [k \in {} |-> [count |-> 0, reset |-> 0]]
    /\ outcome = [f \in Funcs |-> "none"]
    /\ fallbackLog = [c \in Funcs \X Ids |-> <<>>]

(* A call of decorated function f for identifier id (the wrapper of       *)
(* RateLimitDecorator.limit).  The local limiter is consulted only when   *)
(* the check failed open and fallback_limit is non-zero; otherwise the    *)
(* service's answer stands.  A refused call raises                         *)
(* RateLimitExceededException, an allowed one runs the function.          *)
Call(f, id, r) ==
    LET chk == CheckRateLimit(r)
        k == Key(f, id)
        loc == LocalRateLimit(k, FallbackLimit[f], FallbackWindow[f])
        local == chk.failOpen /\ FallbackLimit[f] # 0
        allowed == IF local THEN loc.ok ELSE chk.allowed
    IN /\ cache' = IF local
                   THEN [x \in DOMAIN cache \cup {k} |-> IF x = k THEN loc.entry ELSE cache[x]]
                   ELSE cache
       /\ outcome' = [outcome EXCEPT ![f] = IF allowed THEN "ran" ELSE "raised"]
       /\ fallbackLog' = IF allowed /\ chk.failOpen
                         THEN [fallbackLog EXCEPT ![<<f, id>>] = Append(@, now)]
                         ELSE fallbackLog
       /\ UNCHANGED now

Tick ==
    /\ now < MaxTime
    /\ now' = now + 1
    /\ UNCHANGED <<cache, outcome, fallbackLog>>

Next ==
    \/ \E f \in Funcs, id \in Ids, r \in Remote : Call(f, id, r)
    \/ Tick

Spec == Init /\ [][Next]_vars

-----------------------------------------------------------------------------
(* Type invariant; a counter never exceeds the largest limit checked      *)
(* against it.                                                             *)
MaxLimit == CHOOSE m \in {FallbackLimit[f] : f \in Funcs} :
                \A f \in Funcs : FallbackLimit[f] <= m

TypeOK ==
    /\ now \in 0..MaxTime
    /\ DOMAIN cache \subseteq Keys
    /\ \A k \in DOMAIN cache : cache[k].count \in 0..MaxLimit /\ cache[k].reset \in Nat
    /\ outcome \in [Funcs -> {"none", "ran", "raised"}]
    /\ \A c \in Funcs \X Ids : fallbackLog[c] \in Seq(0..MaxTime)

(* The number of calls of f for id let through in an outage at t0..t1.   *)
FallbackCalls(f, id, t0, t1) ==
    LET log == fallbackLog[<<f, id>>]
    IN Cardinality({i \in 1..Len(log) : log[i] \in t0..t1})

(* While the service is unreachable, a decorated function admits at most  *)
(* twice its fallback_limit calls per identifier in any fallback_window   *)
(* (the fixed window's worst case: a full window right before a reset and *)
(* another right after), whatever other functions share its identifier    *)
(* and window.  This is what fallback_limit promises a caller relying on the  *)
(* local limiter during an outage.                                        *)
FallbackBounded ==
    \A f \in Funcs, id \in Ids, t0 \in 0..now :
        FallbackCalls(f, id, t0, t0 + FallbackWindow[f]) <= 2 * FallbackLimit[f]

=============================================================================
