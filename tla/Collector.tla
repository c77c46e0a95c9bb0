------------------------------ MODULE Collector ------------------------------
(***************************************************************************)
(* POST /collect of the data-collector service (services/data-collector/  *)
(* app.py): a JSON object or list of data points is validated as a whole  *)
(* (the list comprehension of data_schema.load), then each point is       *)
(* pushed on the Redis list data_queue with its own lpush, and the answer *)
(* is 202.  A wrong Content-Type or a body that does not load answers 400 *)
(* (or 500 for a JSON error Flask raises itself); a Redis error in the    *)
(* loop answers 500.  Flask serves requests on concurrent threads.        *)
(*                                                                         *)
(* A request is <<client, k>>, its k-th one; a point is its index in the  *)
(* request.  GET /stats only reads the length of data_queue.              *)
(***************************************************************************)
EXTENDS Naturals, Sequences

CONSTANTS
    Clients,   \* clients of the endpoint (one request at a time each)
    MaxItems,  \* bound on the points of a request
    MaxReqs,   \* bound on the requests of a client
    None       \* model value: no answer yet

ASSUME ConstantsAssumption ==
    /\ MaxItems \in Nat \ {0}
    /\ MaxReqs \in Nat

Requests == Clients \X (1..MaxReqs)

VARIABLES
    queue,   \* data_queue: the points pushed, <<client, k, index>>, in push order
    sent,    \* per client: requests sent so far
    size,    \* per request: the points of its body
    next,    \* per client: index of the next point collect_data pushes
    pc,      \* per client: "idle" or "push" (its request is in the loop)
    answer   \* per request: None or its status code

vars == <<queue, sent, size, next, pc, answer>>

(* The points of request r in data_queue, as the sequence of their        *)
(* indices in push order.                                                  *)
ItemsOf(r) ==
    LET s == SelectSeq(queue, LAMBDA e : <<e[1], e[2]>> = r)
    IN [i \in DOMAIN s |-> s[i][3]]

-----------------------------------------------------------------------------
Init ==
    /\ queue = <<>>
    /\ sent = [c \in Clients |-> 0]
    /\ size = [r \in Requests |-> 0]
    /\ next = [c \in Clients |-> 0]
    /\ pc = [c \in Clients |-> "idle"]
    /\ answer = [r \in Requests |-> None]

(* Mutant: each point validated inside the push loop: the points before   *)
(* the first invalid one are queued, then 400.                             *)
SendValidateInLoop(c, n, bad) ==
    /\ pc[c] = "idle"
    /\ sent[c] < MaxReqs
    /\ sent' = [sent EXCEPT ![c] = @ + 1]
    /\ IF bad = 0
       THEN /\ pc' = [pc EXCEPT ![c] = "push"]
            /\ size' = [size EXCEPT ![<<c, sent[c] + 1>>] = n]
            /\ next' = [next EXCEPT ![c] = 1]
            /\ UNCHANGED <<queue, answer>>
       ELSE /\ queue' = queue \o [i \in 1..bad - 1 |-> <<c, sent[c] + 1, i>>]
            /\ answer' = [answer EXCEPT ![<<c, sent[c] + 1>>] = 400]
            /\ UNCHANGED <<size, next, pc>>

(* collect_data for a body of n points whose first invalid one is `bad`  *)
(* (0: all valid): any invalid point, like a wrong Content-Type, answers  *)
(* 400 before anything is pushed; otherwise the push loop starts.         *)
Send(c, n, bad) ==
    /\ pc[c] = "idle"
    /\ sent[c] < MaxReqs
    /\ sent' = [sent EXCEPT ![c] = @ + 1]
    /\ IF bad = 0
       THEN /\ pc' = [pc EXCEPT ![c] = "push"]
            /\ size' = [size EXCEPT ![<<c, sent[c] + 1>>] = n]
            /\ next' = [next EXCEPT ![c] = 1]
            /\ UNCHANGED <<queue, answer>>
       ELSE /\ answer' = [answer EXCEPT ![<<c, sent[c] + 1>>] = 400]
            /\ UNCHANGED <<queue, size, next, pc>>

(* One iteration: lpush of the next point, then 202 after the last one;  *)
(* or lpush raises, `except Exception` answers 500, and the points pushed *)
(* before stay queued.                                                     *)
Push(c) ==
    /\ pc[c] = "push"
    /\ \/ /\ queue' = Append(queue, <<c, sent[c], next[c]>>)
          /\ IF next[c] = size[<<c, sent[c]>>]
             THEN /\ answer' = [answer EXCEPT ![<<c, sent[c]>>] = 202]
                  /\ pc' = [pc EXCEPT ![c] = "idle"]
                  /\ UNCHANGED next
             ELSE /\ next' = [next EXCEPT ![c] = @ + 1]
                  /\ UNCHANGED <<answer, pc>>
       \/ /\ answer' = [answer EXCEPT ![<<c, sent[c]>>] = 500]
          /\ pc' = [pc EXCEPT ![c] = "idle"]
          /\ UNCHANGED <<queue, next>>
    /\ UNCHANGED <<sent, size>>

Next ==
    \E c \in Clients :
        \/ \E n \in 1..MaxItems, bad \in 0..MaxItems : bad <= n /\ Send(c, n, bad)
        \/ Push(c)

Spec == Init /\ [][Next]_vars

-----------------------------------------------------------------------------
(* Type invariant.                                                         *)
TypeOK ==
    /\ queue \in Seq(Requests \X (1..MaxItems))
    /\ pc \in [Clients -> {"idle", "push"}]
    /\ answer \in [Requests -> {None, 202, 400, 500}]

(* A request answered 202 had every one of its points queued exactly      *)
(* once and in order, and one answered 400 had none queued: validation of *)
(* the whole body comes before the first lpush, whatever the other        *)
(* request threads push meanwhile.                                        *)
AnswerMatchesQueue ==
    \A r \in Requests :
        /\ answer[r] = 202 => ItemsOf(r) = [i \in 1..size[r] |-> i]
        /\ answer[r] = 400 => ItemsOf(r) = <<>>

(* A request the service did not accept (an error answer) left nothing in *)
(* data_queue, so a client that sends it again does not queue a point     *)
(* twice.                                                                  *)
ErrorQueuesNothing ==
    \A r \in Requests : answer[r] \in {400, 500} => ItemsOf(r) = <<>>

=============================================================================
