-------------------------- MODULE MC_ServiceDiscovery --------------------------
EXTENDS ServiceDiscovery

CONSTANTS t1, t2, s1

MCThreads == {t1, t2}
MCServices == {s1}

=============================================================================
