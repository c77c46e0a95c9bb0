-------------------------- MODULE MC_BatchConsumer --------------------------
(* Model-checking instance of BatchConsumer: two partitions as model       *)
(* values.                                                                 *)
EXTENDS BatchConsumer

CONSTANTS p1, p2

MCPartitions == {p1, p2}

=============================================================================
