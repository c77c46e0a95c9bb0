----------------------------- MODULE LagMonitor -----------------------------
(***************************************************************************)
(* The lag-monitor thread of OptimizedKafkaConsumer (_monitor_lag in      *)
(* services/kafka-consumer/optimized_consumer.py), composed with the      *)
(* consumer of BatchConsumer.  start() runs it on a daemon thread; while  *)
(* self.running it reads, for each assigned partition, the consumer's     *)
(* position() and end_offsets(), and sets the lag gauge of the partition  *)
(* to their difference.  A failing read is logged and retried later.      *)
(***************************************************************************)
EXTENDS BatchConsumer

VARIABLE
    lag   \* LAG_GAUGE: per partition, the last value set

allVars == <<vars, lag>>

-----------------------------------------------------------------------------
LagInit == Init /\ lag = [p \in Partitions |-> 0]

(* One iteration of the for loop of _monitor_lag for partition p: end is  *)
(* the log end (end_offsets), current the fetch position, lag = end -     *)
(* current.                                                                *)
MonitorLag(p) ==
    /\ running
    /\ lag' = [lag EXCEPT ![p] = LogEnd - position[p]]
    /\ UNCHANGED vars

LagNext ==
    \/ Next /\ UNCHANGED lag
    \/ \E p \in Partitions : MonitorLag(p)

LagSpec == LagInit /\ [][LagNext]_allVars

-----------------------------------------------------------------------------
(* Spec sections 3 and 5: the lag exported for a partition is its backlog *)
(* end_offset - committed offset, the records the group has not yet got   *)
(* through, as sampled by each iteration of the lag monitor.              *)
LagIsBacklog ==
    [][\A p \in Partitions : MonitorLag(p) => lag'[p] = LogEnd - committed[p]]_allVars

=============================================================================
