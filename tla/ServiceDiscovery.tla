--------------------------- MODULE ServiceDiscovery ---------------------------
(***************************************************************************)
(* The two caches of BiosecurityClient (services/service-discovery/        *)
(* biosecurity_client.py) in front of Vault: discover_service is wrapped   *)
(* in functools.lru_cache, and its body consults a TTL cache (_cache,      *)
(* _cache_timestamps under _cache_lock) before reading Vault.              *)
(* refresh_credentials drops one TTL entry and clears the whole lru_cache; *)
(* a daemon thread drops TTL entries older than twice the TTL.             *)
(*                                                                         *)
(* A service's endpoint and credentials are a version number that Vault   *)
(* rotates.  Each caller thread runs discover_service in the steps the     *)
(* code separates (lru lookup, TTL lookup under the lock, Vault read       *)
(* outside it, TTL store under the lock, lru store on return), or          *)
(* refresh_credentials in its two steps.                                   *)
(***************************************************************************)
EXTENDS Naturals

CONSTANTS
    Threads,     \* caller threads
    Services,    \* (service_name, service_type) cache keys
    TTL,         \* cache_ttl_seconds, in ticks
    MaxVersion,  \* bound on Vault rotations per service
    MaxTime,     \* bound on the clock
    None,        \* model value: no entry / no value
    Raised       \* model value: the call raised

Versions == 0..MaxVersion

VARIABLES
    now,        \* datetime.now()
    vault,      \* per service: the version Vault holds
    ttlCache,   \* per service: None or [ver, ts] (_cache with _cache_timestamps)
    lru,        \* per service: None or the version lru_cache holds
    pc,         \* per thread: its position in discover_service / refresh_credentials
    svc,        \* per thread: the service of its current call
    val,        \* per thread: the version its call has fetched
    ret,        \* per thread: None while calling, else what the call gave
    floor,      \* per thread: ghost, the version of the last completed refresh of svc at call start
    refreshed,  \* per service: ghost, Vault's version when its last refresh began
    refreshing, \* per thread: ghost, the version its running refresh will record
    superseded  \* per service and version: ghost, when Vault moved past it

vars == <<now, vault, ttlCache, lru, pc, svc, val, ret, floor, refreshed,
          refreshing, superseded>>

-----------------------------------------------------------------------------
Init ==
    /\ now = 0
    /\ vault = [s \in Services |-> 0]
    /\ ttlCache = [s \in Services |-> None]
    /\ lru = [s \in Services |-> None]
    /\ pc = [t \in Threads |-> "idle"]
    /\ svc = [t \in Threads |-> CHOOSE s \in Services : TRUE]
    /\ val = [t \in Threads |-> 0]
    /\ ret = [t \in Threads |-> None]
    /\ floor = [t \in Threads |-> 0]
    /\ refreshed = [s \in Services |-> 0]
    /\ refreshing = [t \in Threads |-> 0]
    /\ superseded = [s \in Services |-> [v \in Versions |-> MaxTime]]

ghost == <<floor, refreshed, refreshing, superseded>>

(* discover_service(s) called: the lru_cache wrapper returns a cached     *)
(* value without running the body; otherwise the body starts.             *)
Discover(t, s) ==
    /\ pc[t] = "idle"
    /\ svc' = [svc EXCEPT ![t] = s]
    /\ floor' = [floor EXCEPT ![t] = refreshed[s]]
    /\ IF lru[s] # None
       THEN /\ ret' = [ret EXCEPT ![t] = lru[s]]
            /\ UNCHANGED pc
       ELSE /\ ret' = [ret EXCEPT ![t] = None]
            /\ pc' = [pc EXCEPT ![t] = "ttl"]
    /\ UNCHANGED <<now, vault, ttlCache, lru, val, refreshed, refreshing, superseded>>

(* Under _cache_lock: an entry younger than the TTL is the result.        *)
CheckCache(t) ==
    /\ pc[t] = "ttl"
    /\ LET e == ttlCache[svc[t]]
       IN IF e # None /\ now - e.ts < TTL
          THEN /\ val' = [val EXCEPT ![t] = e.ver]
               /\ pc' = [pc EXCEPT ![t] = "return"]
          ELSE /\ pc' = [pc EXCEPT ![t] = "vault"]
               /\ UNCHANGED val
    /\ UNCHANGED <<now, vault, ttlCache, lru, svc, ret, ghost>>

(* vault.read outside the lock: the current version, or an exception      *)
(* that propagates (nothing is cached).                                   *)
ReadVault(t) ==
    /\ pc[t] = "vault"
    /\ \/ /\ val' = [val EXCEPT ![t] = vault[svc[t]]]
          /\ pc' = [pc EXCEPT ![t] = "store"]
          /\ UNCHANGED ret
       \/ /\ pc' = [pc EXCEPT ![t] = "idle"]
          /\ ret' = [ret EXCEPT ![t] = Raised]
          /\ UNCHANGED val
    /\ UNCHANGED <<now, vault, ttlCache, lru, svc, ghost>>

(* Under _cache_lock: the fetched value is cached with the current time.  *)
StoreCache(t) ==
    /\ pc[t] = "store"
    /\ ttlCache' = [ttlCache EXCEPT ![svc[t]] = [ver |-> val[t], ts |-> now]]
    /\ pc' = [pc EXCEPT ![t] = "return"]
    /\ UNCHANGED <<now, vault, lru, svc, val, ret, ghost>>

(* The body returns; lru_cache keeps the result unless another thread    *)
(* stored one for the key meanwhile.                                      *)
Return(t) ==
    /\ pc[t] = "return"
    /\ lru' = IF lru[svc[t]] = None THEN [lru EXCEPT ![svc[t]] = val[t]] ELSE lru
    /\ ret' = [ret EXCEPT ![t] = val[t]]
    /\ pc' = [pc EXCEPT ![t] = "idle"]
    /\ UNCHANGED <<now, vault, ttlCache, svc, val, ghost>>

(* refresh_credentials(s): first, under _cache_lock, the TTL entry goes.  *)
RefreshDrop(t, s) ==
    /\ pc[t] = "idle"
    /\ ttlCache' = [ttlCache EXCEPT ![s] = None]
    /\ svc' = [svc EXCEPT ![t] = s]
    /\ refreshing' = [refreshing EXCEPT ![t] = vault[s]]
    /\ pc' = [pc EXCEPT ![t] = "clear"]
    /\ UNCHANGED <<now, vault, lru, val, ret, floor, refreshed, superseded>>

(* ... then discover_service.cache_clear() empties the lru_cache for      *)
(* every key, and the refresh returns.                                    *)
RefreshClear(t) ==
    /\ pc[t] = "clear"
    /\ lru' = [s \in Services |-> None]
    /\ refreshed' = [refreshed EXCEPT ![svc[t]] = refreshing[t]]
    /\ pc' = [pc EXCEPT ![t] = "idle"]
    /\ UNCHANGED <<now, vault, ttlCache, svc, val, ret, floor, refreshing, superseded>>

(* The cleanup thread, once a minute: entries older than twice the TTL go.*)
Cleanup ==
    /\ ttlCache' = [s \in Services |->
                      IF ttlCache[s] # None /\ now - ttlCache[s].ts > 2 * TTL
                      THEN None ELSE ttlCache[s]]
    /\ UNCHANGED <<now, vault, lru, pc, svc, val, ret, ghost>>

(* Vault's secret for a service is rotated by its owners.                 *)
Rotate(s) ==
    /\ vault[s] < MaxVersion
    /\ vault' = [vault EXCEPT ![s] = @ + 1]
    /\ superseded' = [superseded EXCEPT ![s][vault[s]] = now]
    /\ UNCHANGED <<now, ttlCache, lru, pc, svc, val, ret, floor, refreshed, refreshing>>

Tick ==
    /\ now < MaxTime
    /\ now' = now + 1
    /\ UNCHANGED <<vault, ttlCache, lru, pc, svc, val, ret, ghost>>

Next ==
    \/ \E t \in Threads :
          \/ \E s \in Services : Discover(t, s) \/ RefreshDrop(t, s)
          \/ CheckCache(t) \/ ReadVault(t) \/ StoreCache(t) \/ Return(t)
          \/ RefreshClear(t)
    \/ Cleanup
    \/ \E s \in Services : Rotate(s)
    \/ Tick

Spec == Init /\ [][Next]_vars

(* The cleanup loop is a daemon thread that runs every minute.            *)
FairSpec == Spec /\ WF_vars(Cleanup) /\ WF_vars(Tick)

-----------------------------------------------------------------------------
(* Type invariant.                                                         *)
TypeOK ==
    /\ now \in 0..MaxTime
    /\ vault \in [Services -> Versions]
    /\ \A s \in Services :
          ttlCache[s] = None \/ ttlCache[s] \in [ver : Versions, ts : 0..MaxTime]
    /\ lru \in [Services -> Versions \cup {None}]
    /\ pc \in [Threads -> {"idle", "ttl", "vault", "store", "return", "clear"}]
    /\ svc \in [Threads -> Services]
    /\ val \in [Threads -> Versions]
    /\ ret \in [Threads -> Versions \cup {None, Raised}]

(* An entry the cleanup thread finds older than twice the TTL is           *)
(* eventually dropped or replaced: the TTL cache does not keep a service   *)
(* nobody asks for any more.                                               *)
Expired(s) == ttlCache[s] # None /\ now - ttlCache[s].ts > 2 * TTL

ExpiredEventuallyRemoved == \A s \in Services : Expired(s) ~> ~Expired(s)

(* refresh_credentials(s) makes later lookups see Vault's current secret: *)
(* a discover_service(s) call that starts after a refresh of s has        *)
(* returned gives a version at least as new as the one Vault held when    *)
(* that refresh began (what a caller rotating a password and refreshing   *)
(* relies on).                                                             *)
RefreshEffective ==
    \A t \in Threads : ret[t] \in Versions => ret[t] >= floor[t]

(* discover_service never returns a secret that Vault replaced cache_ttl  *)
(* or more ago, the freshness the TTL cache is there to give.             *)
Fresh(s, v) == v = vault[s] \/ now - superseded[s][v] < TTL

BoundedStaleness ==
    [][\A t \in Threads :
         (\/ \E s \in Services : Discover(t, s)
          \/ Return(t)) /\ ret'[t] \in Versions => Fresh(svc'[t], ret'[t])]_vars

=============================================================================
