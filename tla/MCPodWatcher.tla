----------------------------- MODULE MCPodWatcher -----------------------------
(* Instances of PodWatcher for TLC. *)
EXTENDS PodWatcher

CONSTANTS p1, ip1

OnePod == {p1}

OwnAddress == [p \in Pods |-> ip1]
==============================================================================
