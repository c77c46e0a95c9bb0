---------------------------- MODULE MC_FeatureFlags ----------------------------
EXTENDS FeatureFlags

CONSTANTS t1, t2, f1, f2

MCThreads == {t1, t2}
MCOneFeature == {f1}
MCFeatures == {f1, f2}

=============================================================================
