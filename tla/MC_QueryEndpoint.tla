--------------------------- MODULE MC_QueryEndpoint ---------------------------
(* Model-checking instance of QueryEndpoint: two request threads.        *)
EXTENDS QueryEndpoint

CONSTANTS c1, c2

MCClients == {c1, c2}

=============================================================================
