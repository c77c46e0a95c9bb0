------------------------- MODULE MC_CircuitBreaker -------------------------
(* Model-checking instance of CircuitBreaker: two caller threads, small   *)
(* thresholds and a window shorter than failure_threshold, so that both   *)
(* ways of opening (count and rate) and eviction from the window occur.   *)
EXTENDS CircuitBreaker

CONSTANTS t1, t2

MCThreads == {t1, t2}

=============================================================================
