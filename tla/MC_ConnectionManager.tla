------------------------- MODULE MC_ConnectionManager -------------------------
EXTENDS ConnectionManager

CONSTANTS t1, t2, n1, n2

MCOneThread == {t1}
MCThreads == {t1, t2}
MCNames == {n1, n2}

=============================================================================
