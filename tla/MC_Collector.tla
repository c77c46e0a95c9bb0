------------------------------ MODULE MC_Collector ------------------------------
(* Model-checking instance of Collector: two clients as model values.     *)
EXTENDS Collector

CONSTANTS c1, c2

MCClients == {c1, c2}

=============================================================================
