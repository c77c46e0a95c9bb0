--------------------------- MODULE ConnectionManager ---------------------------
(***************************************************************************)
(* ServiceConnectionManager (services/service-discovery/                  *)
(* biosecurity_client.py): get_postgres_connection / get_redis_client     *)
(* return the pool or client kept in _connections for a name, creating    *)
(* and storing one on a miss; close_all closes every stored one and       *)
(* clears the dict.  _connections is a plain dict with no lock, used by   *)
(* whichever threads call the manager.                                    *)
(*                                                                         *)
(* A connection (pool or client) is an index into `conns`, its open or    *)
(* closed status.  The steps are the ones the code separates: the         *)
(* membership test, discovery plus creation, the store; and close_all's   *)
(* iteration, one entry per step, then the clear.  Python's dict          *)
(* iteration raises RuntimeError at its next step once a key was added.   *)
(***************************************************************************)
EXTENDS Naturals, Sequences, FiniteSets

CONSTANTS
    Threads,  \* threads using the manager
    Names,    \* db_name / cache_name values
    MaxConns, \* bound on the connections created
    None      \* model value: no entry

VARIABLES
    table,   \* _connections: per name, None or a connection
    conns,   \* per connection created so far: "open" or "closed"
    pc,      \* per thread: "idle", "create", "store", "close"
    name,    \* per thread: the name of its current get
    made,    \* per thread: the connection it created and has not stored
    todo,    \* per thread in close_all: the names its iteration has still to visit
    resized  \* per thread in close_all: the dict changed size since its iteration began

vars == <<table, conns, pc, name, made, todo, resized>>

Stored == {n \in Names : table[n] # None}

-----------------------------------------------------------------------------
Init ==
    /\ table = [n \in Names |-> None]
    /\ conns = <<>>
    /\ pc = [t \in Threads |-> "idle"]
    /\ name = [t \in Threads |-> CHOOSE n \in Names : TRUE]
    /\ made = [t \in Threads |-> 0]
    /\ todo = [t \in Threads |-> {}]
    /\ resized = [t \in Threads |-> FALSE]

(* get_*(n): a stored connection is returned; otherwise creation starts. *)
Get(t, n) ==
    /\ pc[t] = "idle"
    /\ name' = [name EXCEPT ![t] = n]
    /\ pc' = [pc EXCEPT ![t] = IF table[n] # None THEN "idle" ELSE "create"]
    /\ UNCHANGED <<table, conns, made, todo, resized>>

(* The biosecurity lookup and the ThreadedConnectionPool / redis.Redis   *)
(* constructor: a new open connection, or an exception that propagates.  *)
Create(t) ==
    /\ pc[t] = "create"
    /\ \/ /\ Len(conns) < MaxConns
          /\ conns' = Append(conns, "open")
          /\ made' = [made EXCEPT ![t] = Len(conns) + 1]
          /\ pc' = [pc EXCEPT ![t] = "store"]
       \/ /\ pc' = [pc EXCEPT ![t] = "idle"]
          /\ UNCHANGED <<conns, made>>
    /\ UNCHANGED <<table, name, todo, resized>>

(* self._connections[n] = conn; return conn.  A new key resizes the dict *)
(* under every close_all iterating at the time.                           *)
Store(t) ==
    /\ pc[t] = "store"
    /\ table' = [table EXCEPT ![name[t]] = made[t]]
    /\ resized' = [u \in Threads |-> resized[u] \/ (pc[u] = "close" /\ table[name[t]] = None)]
    /\ pc' = [pc EXCEPT ![t] = "idle"]
    /\ UNCHANGED <<conns, name, made, todo>>

(* close_all() begins iterating over _connections.                        *)
CloseAll(t) ==
    /\ pc[t] = "idle"
    /\ pc' = [pc EXCEPT ![t] = "close"]
    /\ todo' = [todo EXCEPT ![t] = Stored]
    /\ resized' = [resized EXCEPT ![t] = FALSE]
    /\ UNCHANGED <<table, conns, name, made>>

(* One iteration: the dict changed size, so RuntimeError escapes         *)
(* close_all and nothing is cleared; or the next entry, if still there,  *)
(* is closed                                                               *)
(* (closeall() / close(); an error there is logged and skipped).          *)
CloseNext(t) ==
    /\ pc[t] = "close"
    /\ todo[t] # {}
    /\ IF resized[t]
       THEN /\ pc' = [pc EXCEPT ![t] = "idle"]
            /\ UNCHANGED <<conns, todo>>
       ELSE \E n \in todo[t] :
               /\ todo' = [todo EXCEPT ![t] = @ \ {n}]
               /\ conns' = IF table[n] # None THEN [conns EXCEPT ![table[n]] = "closed"] ELSE conns
               /\ UNCHANGED pc
    /\ UNCHANGED <<table, name, made, resized>>

(* The iteration ends (a resized dict raises here too); then             *)
(* self._connections.clear(), which resizes the dict under any other     *)
(* close_all iterating.                                                    *)
CloseClear(t) ==
    /\ pc[t] = "close"
    /\ todo[t] = {}
    /\ IF resized[t]
       THEN UNCHANGED <<table, resized>>
       ELSE /\ table' = [n \in Names |-> None]
            /\ resized' = [u \in Threads |-> resized[u] \/ (pc[u] = "close" /\ Stored # {})]
    /\ pc' = [pc EXCEPT ![t] = "idle"]
    /\ UNCHANGED <<conns, name, made, todo>>

Next ==
    \E t \in Threads :
        \/ \E n \in Names : Get(t, n)
        \/ Create(t) \/ Store(t)
        \/ CloseAll(t) \/ CloseNext(t) \/ CloseClear(t)

Spec == Init /\ [][Next]_vars

-----------------------------------------------------------------------------
(* Type invariant.                                                         *)
TypeOK ==
    /\ table \in [Names -> (1..MaxConns) \cup {None}]
    /\ conns \in Seq({"open", "closed"})
    /\ pc \in [Threads -> {"idle", "create", "store", "close"}]
    /\ todo \in [Threads -> SUBSET Names]

(* Every open connection the manager created is either in _connections,  *)
(* where close_all will close it, or about to be stored by the thread    *)
(* that created it: no pool or client is dropped while still open.        *)
NoLeakedConnection ==
    \A i \in 1..Len(conns) :
        conns[i] = "open" =>
            \/ \E n \in Names : table[n] = i
            \/ \E t \in Threads : pc[t] = "store" /\ made[t] = i

=============================================================================
