---------------------------- MODULE NetworkPlane ----------------------------
(***************************************************************************)
(* The steps that lay the static network plane of a block node and take it *)
(* away (internal/workflows/steps/step_network_*.go), with the operations  *)
(* of the firewall, policy and shape managers they call: the host firewall *)
(* table, the policies and their table, the boot units that replay both,   *)
(* and the tc shape of the two directions.  PolicyManager models the       *)
(* policy manager's own concurrency; here one command runs at a time.      *)
(***************************************************************************)
EXTENDS KubeOps

CONSTANTS canonicalBNPolicies,   \* the policies a block node has, in order
          obsoleteBNPolicies     \* those of an earlier release

HostConfig == <<"host-firewall", "yaml">>      \* tuned: with an allow rule of the operator's
HostConfigPrev == <<"host-firewall", "previous-yaml">>
HostNft == <<"host-firewall", "nft">>
HostTable == <<"host-firewall", "live">>
FirewallDecision == <<"state", "host-firewall">>         \* patched: disabled
FirewallAllowlist == <<"state", "host-firewall-cidrs">>
Policy(p) == <<p, "registry">>
WeaverNft == <<"workload-policy", "nft">>
WorkloadTable == <<"workload-policy", "live">>
NftUnit == <<"network-nft", "unit">>
NftEnabled == <<"network-nft", "enabled">>
NftRunning == <<"network-nft", "running">>
EgressDevice == <<"egress", "device">>
EgressClasses == <<"egress", "classes">>       \* tuned: with rates of the operator's
EgressScript == <<"egress", "boot-script">>    \* patched: it removes the shape
EgressLive == <<"egress", "live">>
TcUnit == <<"bandwidth-shaper", "unit">>
TcEnabled == <<"bandwidth-shaper", "enabled">>
TcRunning == <<"bandwidth-shaper", "running">>
IngressDevice == <<"ingress", "device">>
IngressClasses == <<"ingress", "classes">>

PolicyNames == {canonicalBNPolicies[k] : k \in DOMAIN canonicalBNPolicies}
               \cup {obsoleteBNPolicies[k] : k \in DOMAIN obsoleteBNPolicies}
FirewallFiles == {HostConfig, HostConfigPrev, HostNft}
NetworkThings ==
    FirewallFiles
    \cup {HostTable, FirewallDecision, FirewallAllowlist, WeaverNft, WorkloadTable, NftUnit, NftEnabled,
          NftRunning, EgressDevice, EgressClasses, EgressScript, EgressLive, TcUnit, TcEnabled, TcRunning,
          IngressDevice, IngressClasses}
    \cup {Policy(p) : p \in PolicyNames}

(* ------------------------- the boot units --------------------------------- *)

\* A unit file that is already there is taken for reloaded and enabled.
EnsureUnit(unit, enabled, write, mark) ==
    <<Mark(Unless(write, Intact({unit})), mark),
      When(DaemonReload, {mark}), When(Logged(Set({enabled})), {mark})>>
EnsureNetworkNftUnit(mark) == EnsureUnit(NftUnit, NftEnabled, Copy({NftUnit}), mark)
EnsureTcEgressUnit == EnsureUnit(TcUnit, TcEnabled, Set({TcUnit}), "unit")

\* The unit loads whichever of the two files is there, as it is.
Tuned(f) == Exactly({f}, {"tuned"})
NotTuned(f) == Exactly({f}, Content \ {"tuned"})
RestartNetworkNftService ==
    <<Needing(Set({NftRunning}), Intact({NftUnit})),
      UnlessAny(Set({HostTable}), {Gone({HostNft}), Tuned(HostNft)}),
      Unless(Tune({HostTable}), NotTuned(HostNft)),
      Unless(Set({WorkloadTable}), Gone({WeaverNft}))>>

\* A file that stays without a loaded table for it is what the step keeps the
\* unit for: the unit goes only when the host firewall's file is gone.
NftServiceTeardown ==
    Step({Exists({HostNft}), Gone({NftUnit})},
         <<Logged(Unless(Rm({NftRunning}), Gone({NftRunning}))), Rm({NftEnabled}), Rm({NftUnit}),
           Logged(DaemonReload)>>, <<>>)

RemoveTcEgressUnit ==
    <<Mark(Unless(Check(Nothing), Gone({TcUnit})), "present"),
      When(Logged(Unless(Rm({TcRunning}), Gone({TcRunning}))), {"present"}),
      When(Rm({TcEnabled}), {"present"}), When(Rm({TcUnit}), {"present"}),
      Rm({EgressScript}), When(DaemonReload, {"present"})>>
TcEgressServiceTeardown == Step({}, RemoveTcEgressUnit, <<>>)

(* ------------------------- the host firewall ------------------------------- *)

\* What a step writes has the operator's own setting when the step has this
\* mark.  The config is the truth; a host that has lost it falls back on the
\* nft file, which does not say which rules are named ones.
load == <<Unless(Check(Exists({HostNft})), Exists({HostConfig})),
          Mark(Unless(Check(Nothing), NotTuned(HostConfig)), "tuned")>>
Written(f) == <<Barring(Set({f}), {"tuned"}), When(Tune({f}), {"tuned"})>>

\* Checked by nft, kept, written, and loaded by the unit.  A previous config
\* that cannot be kept is removed.
check == Set({})
retainPreviousConfig ==
    AllLogged(<<UnlessAny(Mark(Set({HostConfigPrev}), "kept"), {Gone({HostConfig}), Tuned(HostConfig)}),
                Unless(Mark(Tune({HostConfigPrev}), "kept"), NotTuned(HostConfig)),
                Unless(Barring(Rm({HostConfigPrev}), {"kept"}), Gone({HostConfig}))>>)
applyAndPersist ==
    <<check>> \o retainPreviousConfig \o Written(HostConfig) \o Written(HostNft)
    \o EnsureNetworkNftUnit("unit") \o RestartNetworkNftService

DeleteFirewall == <<Unless(Rm({HostTable}), Gone({HostTable})),
                    Rm({HostNft}), Rm({HostConfig}), Rm({HostConfigPrev})>>

\* Mutant: the rendered table is the resolved one, without the named rules.
RenderResolved(reconcile) ==
    Step(IF reconcile THEN {} ELSE {Exists({HostTable})},
         <<Mark(Unless(Check(Nothing), Exists({HostTable})), "new")>>
         \o applyAndPersist \o <<When(Mark(Check(Nothing), "created"), {"new"})>>,
         AllWhen(DeleteFirewall, {"created"}))

\* A table that is live is left alone, unless the command reconciles.  The
\* operator's rules are carried across.
NetworkFirewallCreate(reconcile) ==
    Step(IF reconcile THEN {} ELSE {Exists({HostTable})},
         <<Mark(Unless(Check(Nothing), NotTuned(HostConfig)), "tuned"),
           Mark(Unless(Check(Nothing), Exists({HostTable})), "new")>>
         \o applyAndPersist \o <<When(Mark(Check(Nothing), "created"), {"new"})>>,
         AllWhen(DeleteFirewall, {"created"}))
NetworkFirewallDelete == Step({}, DeleteFirewall, <<>>)

\* The verbs of network firewall.  A decision about the firewall as a whole is
\* also recorded in the state file, as well as can be.
recordHostFirewallDecision(write) == Logged(write)
CreateTable(force) ==
    <<Step(IF force THEN {} ELSE {Exists({HostTable})}, applyAndPersist, <<>>),
      Step({}, <<recordHostFirewallDecision(Set({FirewallDecision}))>>, <<>>)>>
DeleteTable == <<NetworkFirewallDelete,
                 Step({}, <<recordHostFirewallDecision(Replace({FirewallDecision}))>>, <<>>)>>

\* A rule that is declared already is left alone.
CreateRule ==
    <<Step({Tuned(HostConfig)}, load \o <<Mark(Check(Nothing), "tuned")>> \o applyAndPersist, <<>>)>>

\* Everything else loads the table, changes it and applies it: a verb that
\* names a reserved block, one that names the rule, and one that deletes it.
mutate == <<Step({}, load \o applyAndPersist, <<>>)>>
mutateRule == <<Step({}, load \o <<Check(Tuned(HostConfig))>> \o applyAndPersist, <<>>)>>
SetMany == mutate
Reapply == mutate
Add == mutateRule
DeleteRule ==
    <<Step({}, <<load[1], Check(Tuned(HostConfig))>> \o applyAndPersist, <<>>)>>

(* ------------------------------ policies ----------------------------------- *)

NewMark == <<"new1", "new2", "new3", "new4", "new5", "new6", "new7">>
ApplyMark == <<"apply1", "apply2", "apply3", "apply4", "apply5", "apply6", "apply7">>
UnitMark == <<"unit1", "unit2", "unit3", "unit4", "unit5", "unit6", "unit7">>
CreatedMark == <<"made1", "made2", "made3", "made4", "made5", "made6", "made7">>

\* The first operation of a sequence only runs with this mark.
HeadWhen(ops, m) == [ops EXCEPT ![1].when = {m}]

\* Manager.Create of the k-th policy: nothing when it is registered and the
\* table is live; otherwise kernel, registry, file and unit, in this order.
CreatePolicy(k) ==
    LET p == canonicalBNPolicies[k] IN
    <<Mark(Unless(Check(Nothing), Exists({Policy(p)})), NewMark[k]),
      Mark(Unless(Set({WorkloadTable}), Exists({Policy(p), WorkloadTable})), ApplyMark[k])>>
    \o AllWhen(<<Set({Policy(p)}), Set({WeaverNft})>>, {ApplyMark[k]})
    \o HeadWhen(EnsureNetworkNftUnit(UnitMark[k]), ApplyMark[k])
    \o <<When(Mark(Check(Nothing), CreatedMark[k]), {NewMark[k]})>>

\* Manager.Delete: the last policy takes the table and its file with it.
DeletePolicy(p) ==
    LET others == {Exists({Policy(q)}) : q \in PolicyNames \ {p}} IN
    <<UnlessAny(Rm({WorkloadTable}), others \cup {Gone({Policy(p)})}),
      UnlessAny(Rm({WeaverNft}), others \cup {Gone({Policy(p)})}),
      UnlessAny(Set({WorkloadTable}), {Gone({Policy(q) : q \in PolicyNames \ {p}}), Gone({Policy(p)})}),
      UnlessAny(Set({WeaverNft}), {Gone({Policy(q) : q \in PolicyNames \ {p}}), Gone({Policy(p)})}),
      Unless(Rm({Policy(p)}), Gone({Policy(p)}))>>

\* One policy after the other.
CreatePolicies ==
    LET n == Len(CreatePolicy(1)) IN
    [k \in 1 .. n * Len(canonicalBNPolicies) |-> CreatePolicy(1 + ((k - 1) \div n))[1 + ((k - 1) % n)]]
    \o <<>>
DeletePolicies(names) ==
    LET n == Len(DeletePolicy("none")) IN
    [k \in 1 .. n * Len(names) |-> DeletePolicy(names[1 + ((k - 1) \div n)])[1 + ((k - 1) % n)]]
    \o <<>>

\* The latest first, and only what this run created.
DeleteCreated ==
    LET n == Len(DeletePolicy("none"))
        policies == Len(canonicalBNPolicies)
        at(k) == policies - ((k - 1) \div n)
    IN  [k \in 1 .. n * policies |->
           When(DeletePolicy(canonicalBNPolicies[at(k)])[1 + ((k - 1) % n)], {CreatedMark[at(k)]})] \o <<>>

\* The pod network is read from the cluster first.
NetworkPolicyCreate ==
    Step({}, <<Check(Reachable)>> \o CreatePolicies \o DeletePolicies(obsoleteBNPolicies), DeleteCreated)

NetworkPolicyDeleteAll == Step({}, DeletePolicies(canonicalBNPolicies), <<>>)

\* The registry is rendered again; an empty one only removes the file.
RenderWeaverNft ==
    <<Unless(Set({WeaverNft}), Gone({Policy(p) : p \in PolicyNames})),
      UnlessAny(Rm({WeaverNft}), {Exists({Policy(p)}) : p \in PolicyNames})>>
NftWeaverPersist ==
    Step({},
         <<Mark(Unless(Check(Nothing), Gone({Policy(p) : p \in PolicyNames})), "registered")>>
         \o RenderWeaverNft \o HeadWhen(EnsureNetworkNftUnit("unit"), "registered")
         \o AllWhen(RestartNetworkNftService, {"registered"}), <<>>)

(* ------------------------------- shaping ----------------------------------- *)

\* Registry first, then the boot script, then the unit runs it.  Rates that
\* are recorded for the device are kept.
mergeExistingConfig(device, classes) ==
    Mark(UnlessAny(Check(Nothing), {Gone({device}), NotTuned(classes)}), "tuned")
provisionDefaults(device, classes) ==
    <<mergeExistingConfig(device, classes), Set({device})>> \o Written(classes)
ApplyTcEgressScript ==
    EnsureTcEgressUnit
    \o <<Needing(Set({TcRunning}), Intact({TcUnit, EgressScript})),
         Unless(Set({EgressLive}), Exactly({EgressScript}, Content \ {"ok"})),
         Unless(Tune({EgressLive}), NotTuned(EgressScript)),
         Unless(Rm({EgressLive}), Exactly({EgressScript}, Content \ {"patched"}))>>
ProvisionDefaultEgress ==
    provisionDefaults(EgressDevice, EgressClasses) \o Written(EgressScript) \o ApplyTcEgressScript
ProvisionDefaultIngress == provisionDefaults(IngressDevice, IngressClasses)

TeardownEgress ==
    <<Rm({EgressClasses}), Rm({EgressDevice}), Replace({EgressScript}), Rm({EgressLive})>>
    \o ApplyTcEgressScript
TeardownIngress == <<Rm({IngressClasses}), Rm({IngressDevice})>>

\* The verbs of network shape, for a class that is not the device's default.
\* The script is rendered from the registry, with default classes for those
\* that are missing.
detectNIC == Set({})
renderEgressScript ==
    <<detectNIC, Mark(UnlessAny(Check(Nothing), {Gone({EgressDevice}), NotTuned(EgressClasses)}), "tuned")>>
    \o Written(EgressScript)
CreateDevice == <<Step({}, <<Set({EgressDevice})>> \o renderEgressScript \o ApplyTcEgressScript, <<>>)>>
CreateClass ==
    <<Step({}, <<Check(Exists({EgressDevice})), Tune({EgressClasses})>> \o renderEgressScript
               \o ApplyTcEgressScript, <<>>)>>
SetClass ==
    <<Step({}, <<Check(Exists({EgressClasses})), Tune({EgressClasses}), detectNIC,
                 Needing(Tune({EgressLive}), Exists({EgressLive})), Tune({EgressScript})>>, <<>>)>>
SetIngressClass == <<Step({}, <<Check(Exists({IngressClasses})), Tune({IngressClasses})>>, <<>>)>>

\* A class that a policy stamps stays, and so does a device with a class.
DeleteClass ==
    <<Step({}, <<Check(Both(Exists({EgressClasses}), Gone({Policy(p) : p \in PolicyNames}))),
                 Rm({EgressClasses})>> \o renderEgressScript \o ApplyTcEgressScript, <<>>)>>
DeleteDevice ==
    <<Step({}, <<Check(Both(Exists({EgressDevice}), Gone({EgressClasses}))), Rm({EgressDevice})>>
               \o renderEgressScript \o ApplyTcEgressScript, <<>>)>>

TcEgressPersist == Step({}, <<Set({})>> \o ProvisionDefaultEgress, <<>>)
TcIngressRecord == Step({}, ProvisionDefaultIngress, <<>>)
TcEgressTeardown == Step({}, TeardownEgress, <<>>)
TcIngressTeardown == Step({}, TeardownIngress, <<>>)
=============================================================================
