---------------------------- MODULE QueryEndpoint ----------------------------
(***************************************************************************)
(* POST /query of the data-processor service (services/data-processor/    *)
(* app.py) with execute_query: the body, loaded by QueryRequestSchema, is *)
(* serialised with json.dumps into the Redis cache key "query:<body>"; a  *)
(* live cached answer is returned, otherwise execute_query reads the      *)
(* table of the query_type and the answer is cached for 300 s (setex).    *)
(*                                                                         *)
(* A body is abstracted to its query_type and to whether it has a         *)
(* start_time or end_time: the schema loads those into datetime objects,  *)
(* which json.dumps (no `default=`) refuses with TypeError.  A table's    *)
(* contents are a version that other writers bump.  Every Redis and       *)
(* database call may fail; `except Exception` answers 500.                *)
(***************************************************************************)
EXTENDS Naturals

CONSTANTS
    Clients,     \* Flask request threads
    QueryTTL,    \* the setex TTL of a cached answer (300 s), in ticks
    MaxVersion,  \* bound on the writes to a table
    MaxTime,     \* bound on the clock
    None         \* model value: no entry / no answer

Tables == {"aggregated", "raw"}
QueryTypes == Tables \cup {"other"}

(* Schema-valid bodies: query_type is any string; `timed`: a start_time  *)
(* or end_time is given.                                                   *)
Bodies == [type : QueryTypes, timed : BOOLEAN]

VARIABLES
    now,     \* time.time() of Redis
    db,      \* per table: the version of its rows
    cache,   \* per body: None or [rows, exp], the "query:<body>" entry
    pc,      \* per thread: "idle", "exec" (in execute_query), "store" (before setex)
    body,    \* per thread: the body of its current request
    rows,    \* per thread: the rows execute_query returned
    answer   \* per thread: None or [code, dep]: the status, and whether a
             \* Redis or database failure caused it

vars == <<now, db, cache, pc, body, rows, answer>>

Live(e) == e # None /\ now < e.exp

Answer(c, code, dep) == answer' = [answer EXCEPT ![c] = [code |-> code, dep |-> dep]]

-----------------------------------------------------------------------------
Init ==
    /\ now = 0
    /\ db = [t \in Tables |-> 0]
    /\ cache = [q \in Bodies |-> None]
    /\ pc = [c \in Clients |-> "idle"]
    /\ body = [c \in Clients |-> CHOOSE q \in Bodies : TRUE]
    /\ rows = [c \in Clients |-> 0]
    /\ answer = [c \in Clients |-> None]

(* query(): the cache key json.dumps(data, sort_keys=True) raises         *)
(* TypeError for a datetime; then redis_client.get: a failure, a live     *)
(* entry (200 with it), or a miss.                                        *)
Lookup(c, q) ==
    /\ pc[c] = "idle"
    /\ body' = [body EXCEPT ![c] = q]
    /\ CASE q.timed ->
              Answer(c, 500, FALSE) /\ UNCHANGED <<pc, rows>>
         [] Live(cache[q]) ->
              /\ \/ Answer(c, 200, FALSE) /\ rows' = [rows EXCEPT ![c] = cache[q].rows]
                 \/ Answer(c, 500, TRUE) /\ UNCHANGED rows
              /\ UNCHANGED pc
         [] OTHER ->
              \/ Answer(c, 500, TRUE) /\ UNCHANGED <<pc, rows>>
              \/ pc' = [pc EXCEPT ![c] = "exec"] /\ UNCHANGED <<rows, answer>>
    /\ UNCHANGED <<now, db, cache>>

(* execute_query: an unknown query_type raises ValueError; otherwise the  *)
(* SELECT on the table returns its rows, or the database call fails.      *)
Execute(c) ==
    /\ pc[c] = "exec"
    /\ IF body[c].type \notin Tables
       THEN Answer(c, 500, FALSE) /\ pc' = [pc EXCEPT ![c] = "idle"] /\ UNCHANGED rows
       ELSE \/ /\ rows' = [rows EXCEPT ![c] = db[body[c].type]]
               /\ pc' = [pc EXCEPT ![c] = "store"]
               /\ UNCHANGED answer
            \/ Answer(c, 500, TRUE) /\ pc' = [pc EXCEPT ![c] = "idle"] /\ UNCHANGED rows
    /\ UNCHANGED <<now, db, cache, body>>

(* setex(cache_key, 300, json.dumps(results)) and 200, or a Redis failure *)
(* and 500.                                                                *)
Store(c) ==
    /\ pc[c] = "store"
    /\ \/ /\ cache' = [cache EXCEPT ![body[c]] = [rows |-> rows[c], exp |-> now + QueryTTL]]
          /\ Answer(c, 200, FALSE)
       \/ Answer(c, 500, TRUE) /\ UNCHANGED cache
    /\ pc' = [pc EXCEPT ![c] = "idle"]
    /\ UNCHANGED <<now, db, body, rows>>

(* Another writer changes a table.                                        *)
Write(t) ==
    /\ db[t] < MaxVersion
    /\ db' = [db EXCEPT ![t] = @ + 1]
    /\ UNCHANGED <<now, cache, pc, body, rows, answer>>

Tick ==
    /\ now < MaxTime
    /\ now' = now + 1
    /\ UNCHANGED <<db, cache, pc, body, rows, answer>>

Next ==
    \/ \E c \in Clients :
          \/ \E q \in Bodies : Lookup(c, q)
          \/ Execute(c) \/ Store(c)
    \/ \E t \in Tables : Write(t)
    \/ Tick

Spec == Init /\ [][Next]_vars

-----------------------------------------------------------------------------
(* Type invariant.                                                         *)
TypeOK ==
    /\ now \in 0..MaxTime
    /\ db \in [Tables -> 0..MaxVersion]
    /\ pc \in [Clients -> {"idle", "exec", "store"}]
    /\ body \in [Clients -> Bodies]

(* A schema-valid /query of a known query_type (QueryRequestSchema        *)
(* accepts start_time and end_time) fails only when Redis or the database *)
(* does: the handler's own steps do not turn it into a 500.               *)
ValidQueryAnswered ==
    \A c \in Clients :
        answer[c] # None /\ answer[c].code = 500 /\ ~answer[c].dep =>
            body[c].type \notin Tables

=============================================================================
