---------------------------- MODULE MCStatsCache ----------------------------
(* TLC instance of StatsCache.                                             *)
EXTENDS StatsCache, TLC
=============================================================================
