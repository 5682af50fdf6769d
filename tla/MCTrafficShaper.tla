--------------------------- MODULE MCTrafficShaper ---------------------------
(* Instances of TrafficShaper for TLC. *)
EXTENDS TrafficShaper

CONSTANTS p1, p2, ip1, ip2, m1, m2

OnePod == {p1}
OwnAddress == [p \in Pods |-> IF p = p1 THEN ip1 ELSE ip2]
PodURLs == {PodURL[p] : p \in Pods}
TwoMemberships == {m1, m2}
==============================================================================
