----------------------------- MODULE DataProcessor -----------------------------
(***************************************************************************)
(* The /process and /process/status endpoints of the data-processor       *)
(* service (services/data-processor/app.py) with the Celery task          *)
(* process_data_task they submit, Redis between them.                     *)
(*                                                                         *)
(* A request names one item (a data_id and a processing_type).  Flask     *)
(* handles requests on concurrent threads; a /process request looks up    *)
(* "processing:<item>" in Redis, submits the task (apply_async), then     *)
(* stores "task:<id>" with a one-hour TTL.  A worker runs the task: it    *)
(* bumps the active_tasks gauge, computes, stores "result:<item>" with a  *)
(* one-hour TTL, and drops the gauge in `finally`.  Celery's state of a   *)
(* task moves PENDING, STARTED, then SUCCESS or FAILURE.  Redis entries   *)
(* live until their expiry time; a Redis or broker call may fail.         *)
(***************************************************************************)
EXTENDS Naturals, Sequences, FiniteSets

CONSTANTS
    Clients,   \* Flask request threads
    Items,     \* (data_id, processing_type) pairs
    TTL,       \* the setex TTL of task info and results (3600 s), in ticks
    MaxTasks,  \* bound on the tasks submitted
    MaxTime,   \* bound on the clock
    None       \* model value: no entry

VARIABLES
    now,     \* time.time()
    tasks,   \* Celery: per submitted task, [item, state]
    results, \* Redis "result:<item>": per item, None or its expiry time
    infos,   \* Redis "task:<id>": per task id, None or its expiry time
    gauge,   \* the active_tasks gauge
    pc,      \* per client thread: "idle" or "store" (between apply_async and setex)
    mine,    \* per client thread: the id of the task it submitted
    answer   \* per client thread: ghost, its last status answer and whether
             \* the task's result key was live then

vars == <<now, tasks, results, infos, gauge, pc, mine, answer>>

TaskIds == 1..Len(tasks)

(* A Redis entry with expiry e is there at time now.                      *)
Live(e) == e # None /\ now < e

-----------------------------------------------------------------------------
Init ==
    /\ now = 0
    /\ tasks = <<>>
    /\ results = [k \in Items |-> None]
    /\ infos = [i \in 1..MaxTasks |-> None]
    /\ gauge = 0
    /\ pc = [c \in Clients |-> "idle"]
    /\ mine = [c \in Clients |-> 0]
    /\ answer = [c \in Clients |-> None]

(* POST /process for item k.  The "processing:<item>" key is read, but    *)
(* nothing ever writes it, so the read misses; apply_async then queues    *)
(* the task.  A failure of either call returns 500.                        *)
Submit(c, k) ==
    /\ pc[c] = "idle"
    /\ Len(tasks) < MaxTasks
    /\ \/ /\ tasks' = Append(tasks, [item |-> k, state |-> "PENDING"])
          /\ mine' = [mine EXCEPT ![c] = Len(tasks) + 1]
          /\ pc' = [pc EXCEPT ![c] = "store"]
       \/ UNCHANGED <<tasks, mine, pc>>
    /\ UNCHANGED <<now, results, infos, gauge, answer>>

(* ... then setex("task:<id>", 3600, ...) and the 202 answer; a failing   *)
(* setex answers 500, with the task already queued.                        *)
StoreInfo(c) ==
    /\ pc[c] = "store"
    /\ \/ infos' = [infos EXCEPT ![mine[c]] = now + TTL]
       \/ UNCHANGED infos
    /\ pc' = [pc EXCEPT ![c] = "idle"]
    /\ UNCHANGED <<now, tasks, results, gauge, mine, answer>>

(* GET /process/status/<id>: 404 without live task info, else Celery's   *)
(* state as queued, processing, completed or failed.                      *)
StatusName(s) ==
    CASE s = "PENDING" -> "queued"
      [] s = "STARTED" -> "processing"
      [] s = "SUCCESS" -> "completed"
      [] s = "FAILURE" -> "failed"

Status(c, i) ==
    /\ pc[c] = "idle"
    /\ answer' = [answer EXCEPT ![c] =
                    [status |-> IF Live(infos[i]) THEN StatusName(tasks[i].state)
                                                  ELSE "not_found",
                     result |-> Live(results[tasks[i].item])]]
    /\ UNCHANGED <<now, tasks, results, infos, gauge, pc, mine>>

(* A worker picks the task up: STARTED, active_tasks.inc().               *)
Start(i) ==
    /\ tasks[i].state = "PENDING"
    /\ tasks' = [tasks EXCEPT ![i].state = "STARTED"]
    /\ gauge' = gauge + 1
    /\ UNCHANGED <<now, results, infos, pc, mine, answer>>

(* The task body ends: the result stored with setex and SUCCESS, or an    *)
(* exception (an unknown processing_type, a database or Redis error, the  *)
(* soft time limit) and FAILURE.  `finally` drops the gauge either way.   *)
Finish(i, ok) ==
    /\ tasks[i].state = "STARTED"
    /\ IF ok
       THEN /\ results' = [results EXCEPT ![tasks[i].item] = now + TTL]
            /\ tasks' = [tasks EXCEPT ![i].state = "SUCCESS"]
       ELSE /\ tasks' = [tasks EXCEPT ![i].state = "FAILURE"]
            /\ UNCHANGED results
    /\ gauge' = gauge - 1
    /\ UNCHANGED <<now, infos, pc, mine, answer>>

Tick ==
    /\ now < MaxTime
    /\ now' = now + 1
    /\ UNCHANGED <<tasks, results, infos, gauge, pc, mine, answer>>

Next ==
    \/ \E c \in Clients :
          \/ \E k \in Items : Submit(c, k)
          \/ StoreInfo(c)
          \/ \E i \in TaskIds : Status(c, i)
    \/ \E i \in TaskIds : Start(i) \/ \E ok \in BOOLEAN : Finish(i, ok)
    \/ Tick

Spec == Init /\ [][Next]_vars

-----------------------------------------------------------------------------
(* Type invariant.                                                         *)
TypeOK ==
    /\ now \in 0..MaxTime
    /\ tasks \in Seq([item : Items, state : {"PENDING", "STARTED", "SUCCESS", "FAILURE"}])
    /\ results \in [Items -> Nat \cup {None}]
    /\ infos \in [1..MaxTasks -> Nat \cup {None}]
    /\ gauge \in Nat
    /\ pc \in [Clients -> {"idle", "store"}]

(* The active_tasks gauge counts the tasks a worker is running, whatever *)
(* way earlier tasks ended.                                                *)
GaugeCountsRunning ==
    gauge = Cardinality({i \in TaskIds : tasks[i].state = "STARTED"})

(* A status answer "completed" comes with a result_key that can still be *)
(* read: the result outlives the task info that makes the task visible.  *)
CompletedHasResult ==
    \A c \in Clients :
        answer[c] # None /\ answer[c].status = "completed" => answer[c].result

(* /process answers from the cache ("Check cache first") when the result *)
(* of the same data and processing type is stored: it queues no task for *)
(* an item whose result is live.                                           *)
SubmitOnlyOnMiss ==
    [][\A c \in Clients, k \in Items :
         Submit(c, k) /\ tasks' # tasks => ~Live(results[k])]_vars

=============================================================================
