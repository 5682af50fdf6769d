------------------------- MODULE MCMigrationMonitor -------------------------
(***************************************************************************)
(* Instances of MigrationMonitor for TLC.  Every activation needs a        *)
(* watcher: one per request and one per restart.                           *)
(***************************************************************************)
EXTENDS MigrationMonitor, TLC

ASSUME EnoughWatchers == Cardinality(Watchers) >= Cardinality(Reqs) + MaxRestarts

Symmetry == Permutations(Reqs) \cup Permutations(Stops)
=============================================================================
