---------------------------- MODULE MC_RateLimiter -----------------------------
EXTENDS RateLimiter, TLC

CONSTANTS fa, fb, i1

MCFuncs == {fa, fb}
MCIds == {i1}

(* fa and fb share the window, hence the counter of an identifier; their  *)
(* limits differ.                                                          *)
MCLimit == fa :> 1 @@ fb :> 2
MCWindow == fa :> 2 @@ fb :> 2

(* A fallback_limit of 0 for fa.                                           *)
MCLimitZero == fa :> 0 @@ fb :> 2

=============================================================================
