--------------------------- MODULE MC_DataProcessor ---------------------------
EXTENDS DataProcessor

CONSTANTS c1, c2, k1

MCClients == {c1, c2}
MCItems == {k1}

=============================================================================
