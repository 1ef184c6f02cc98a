---------------------------- MODULE MCNightlyJobs ----------------------------
EXTENDS NightlyJobs

MCTables == {"runs", "adaptive_features"}
MCThresholds == {0}
MCExpiry == {1}

=============================================================================
