-------------------------- MODULE MCUpgradeMonitor --------------------------
(***************************************************************************)
(* Two resources of two operations, the first one older.                   *)
(***************************************************************************)
EXTENDS UpgradeMonitor, TLC

CONSTANTS c1, c2, o1, o2

OpOf2 == c1 :> o1 @@ c2 :> o2
Age2  == c1 :> 1 @@ c2 :> 2
=============================================================================
