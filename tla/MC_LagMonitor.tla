---------------------------- MODULE MC_LagMonitor ----------------------------
(* Model-checking instance of LagMonitor: two partitions as model values. *)
EXTENDS LagMonitor

CONSTANTS p1, p2

MCPartitions == {p1, p2}

=============================================================================
