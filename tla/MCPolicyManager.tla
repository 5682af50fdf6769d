-------------------------- MODULE MCPolicyManager --------------------------
(* Two policies, one with a pod-scoped rule and managed ports and one plain  *)
(* deny, two operator commands at a time beside the daemon.                  *)
EXTENDS PolicyManager, TLC

CONSTANTS o1, o2, d, a, b, e, c1, c2

MCOps == {o1, o2}
MCNames == {a, b}
MCConfs == {"stamp", "deny"}
MCSetsOf == [c \in MCConfs |-> IF c = "stamp" THEN Fams ELSE CidrFams]

MCAddrs(v4, v6) == [f \in CidrFams |-> IF f = "v4" THEN v4 ELSE v6]
MCReq(v, n, c, cidrs, pd, fc) ==
    [verb |-> v, name |-> n, conf |-> c, cidrs |-> cidrs, pod |-> pd, force |-> fc]

MCRequests ==
    { MCReq("create", a, "stamp", MCAddrs({e}, {}), c1, FALSE),
      MCReq("create", a, "stamp", MCAddrs({}, {e}), c2, TRUE),
      MCReq("create", a, "deny", MCAddrs({}, {}), NoPod, TRUE),
      MCReq("create", b, "deny", MCAddrs({e}, {}), NoPod, FALSE),
      MCReq("delete", a, "deny", MCAddrs({}, {}), NoPod, FALSE),
      MCReq("delete", b, "deny", MCAddrs({}, {}), NoPod, FALSE),
      MCReq("add", b, "deny", MCAddrs({e}, {e}), NoPod, FALSE),
      MCReq("remove", b, "deny", MCAddrs({e}, {}), NoPod, FALSE),
      MCReq("set", a, "deny", MCAddrs({}, {e}), NoPod, FALSE),
      MCReq("install", a, "deny", MCAddrs({}, {}), NoPod, FALSE) }

MCWrite(n, f, es) == [name |-> n, fam |-> f, how |-> "set", elems |-> es]
MCTicks == { <<>>, <<MCWrite(a, "v4", {e}), MCWrite(a, "v6", {}), MCWrite(a, "ports", {e})>> }

MCDoc(cs) == Render(cs, [n \in DOMAIN cs |-> [f \in MCSetsOf[cs[n]] |-> IF f = "v4" THEN {e} ELSE {}]], c1)
MCProvisioned == { MCDoc((a :> "stamp") @@ (b :> "deny")) }
=============================================================================
