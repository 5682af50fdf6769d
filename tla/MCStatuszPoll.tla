---------------------------- MODULE MCStatuszPoll ----------------------------
(* Instances of StatuszPoll for TLC. *)
EXTENDS StatuszPoll

CONSTANTS u1, u2, m1, m2

TwoURLs == {u1, u2}

TwoMemberships == {m1, m2}
=============================================================================
