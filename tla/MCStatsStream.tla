---------------------------- MODULE MCStatsStream ----------------------------
EXTENDS StatsStream

CONSTANTS v1, v2

MCValues == {v1, v2}
=============================================================================
