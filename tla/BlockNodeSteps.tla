--------------------------- MODULE BlockNodeSteps ---------------------------
(***************************************************************************)
(* The steps that install, upgrade, reset and remove a block node          *)
(* (internal/workflows/steps/step_block_node.go with the manager of        *)
(* internal/blocknode), and the workflows the handlers of                  *)
(* internal/bll/blocknode build from them and from the network plane.      *)
(***************************************************************************)
EXTENDS DaemonSteps

BlockNode == "block-node"
BnRelease == Release(BlockNode)                \* ok: the version before the upgrade; patched: after it
StorageDir == <<BlockNode, "storage-dir">>     \* torn: without its owner
StorageData == <<BlockNode, "data">>
StoragePV == <<BlockNode, "pv">>
StoragePVC == <<BlockNode, "pvc">>
OptionalDir == <<BlockNode, "optional-dir">>   \* a storage only the later version has
OptionalPV == <<BlockNode, "optional-pv">>
OptionalPVC == <<BlockNode, "optional-pvc">>
ScaledDown == <<BlockNode, "scaled-down">>     \* what a release can lack
ServicesGone == <<BlockNode, "services-deleted">>
StatefulSetGone == <<BlockNode, "statefulset-deleted">>
TrafficShapingDisabled == <<"state", "traffic-shaping-disabled">>

Lacks == {ScaledDown, ServicesGone, StatefulSetGone}
InNamespace == {BnRelease, StoragePVC, OptionalPVC} \cup Lacks
BlockNodeThings ==
    InNamespace \cup {Namespace(BlockNode), StorageDir, StorageData, StoragePV, OptionalDir, OptionalPV,
                      TrafficShapingDisabled}

(* ------------------------- the manager's operations ------------------------ *)

Deployed == IsReleaseInstalled(BlockNode)
ComputeValuesFile == Set({})

\* Atomic: an install that fails is taken away again, or stays pending.
InstallBlockNodeChart ==
    Needing(Copy({BnRelease}), Both(Both(Reachable, Gone({BnRelease})),
                                    Intact({Namespace(BlockNode), StoragePVC})))
UninstallBlockNodeChart == Needing(Wipe({BnRelease} \cup Lacks), Both(Reachable, Exists({BnRelease})))

\* The pods start on the volumes of their version.
VolumesFor(later) ==
    Intact({StoragePV, StoragePVC} \cup IF later THEN {OptionalPV, OptionalPVC} ELSE {})

\* Helm's three-way merge brings back what the release lacks, and waits for
\* the pods.
UpgradeBlockNodeChart(write) ==
    LET needs == Both(Both(Reachable, Deployed), VolumesFor(write.do = "rewrite"))
    IN  <<Needing(Wipe(Lacks), needs), Needing(write, needs)>>

DeleteHelmOwnedServices == Needing(Set({ServicesGone}), Reachable)
DeleteStatefulSetForUpgrade == Needing(Set({StatefulSetGone}), Reachable)
StatefulSet == Both(Reachable, Both(Exists({BnRelease}), Gone({StatefulSetGone})))
ScaleStatefulSet(replicas) ==
    Needing(IF replicas = 0 THEN Set({ScaledDown}) ELSE Rm({ScaledDown}), StatefulSet)
AtEarlier == Exactly({BnRelease}, {"absent", "torn", "ok"})
WaitForPodReady ==
    <<Check(Both(StatefulSet, Both(Gone({ScaledDown}), VolumesFor(FALSE)))),
      Unless(Check(VolumesFor(TRUE)), AtEarlier)>>
WaitForPodsTerminated == Check(Reachable)
VerifyExternalReachable == Check(Both(Reachable, Gone({ServicesGone})))

\* A directory that exists is taken as it is.
SetupStorage == Keep({StorageDir})
ResetStorage == Rm({StorageData})
CreatePersistentVolumes ==
    <<Needing(Set({StoragePV}), Reachable), Needing(Set({StoragePVC}), Intact({Namespace(BlockNode)})),
      Unless(Needing(Set({OptionalPV, OptionalPVC}), Intact({Namespace(BlockNode)})), AtEarlier),
      Check(Intact({StoragePVC}))>>
DeleteAllPersistentVolumes ==
    <<Needing(Rm({StoragePVC, OptionalPVC}), Reachable), Needing(Rm({StoragePV, OptionalPV}), Reachable)>>
CreateOptionalStorage ==
    <<Needing(Set({OptionalPV}), Reachable), Needing(Set({OptionalPVC}), Intact({Namespace(BlockNode)}))>>
DeleteOptionalStorage ==
    AllLogged(<<Needing(Rm({OptionalPVC}), Reachable), Needing(Rm({OptionalPV}), Reachable)>>)

(* ---------------------------------- steps ---------------------------------- *)

setupBlockNodeStorage == Step({}, <<SetupStorage>>, <<>>)

\* Created or not by this step, the rollback deletes them.
createBlockNodeNamespace ==
    Step({}, <<Mark(CreateNamespace(BlockNode), "configured")>>,
         <<When(DeleteNamespace(BlockNode, InNamespace), {"configured"})>>)
createBlockNodePVs ==
    Step({}, MarkLast(CreatePersistentVolumes, "configured"),
         AllWhen(DeleteAllPersistentVolumes, {"configured"}))

installBlockNode ==
    Step({}, <<ComputeValuesFile, Unless(Mark(InstallBlockNodeChart, "installed"), Deployed)>>,
         <<When(UninstallBlockNodeChart, {"installed"})>>)
uninstallBlockNode == Step({}, <<UninstallBlockNodeChart>>, <<>>)
waitForBlockNode == Step({}, WaitForPodReady, <<>>)
verifyBlockNodeReachable == Step({}, <<VerifyExternalReachable>>, <<>>)

\* The values at the version that is installed.
reapplyBlockNode ==
    Step({}, <<ComputeValuesFile, DeleteHelmOwnedServices,
               Mark(Unless(Check(Nothing), Exactly({BnRelease}, Content \ {"ok"})), "earlier")>>
             \o AllWhen(UpgradeBlockNodeChart(Copy({BnRelease})), {"earlier"})
             \o AllBarring(UpgradeBlockNodeChart(Rewrite({BnRelease})), {"earlier"}), <<>>)

\* From the earlier version on, the storage migration and the upgrade are a
\* workflow of their own, which rolls back: the chart goes back to the version
\* it had, then the storage goes.
buildMigrationUpgradeStep ==
    <<Mark(Check(Nothing), "upgrading"), ComputeValuesFile, DeleteStatefulSetForUpgrade>>
    \o UpgradeBlockNodeChart(Rewrite({BnRelease}))
StorageMigration == <<Copy({OptionalDir})>> \o CreateOptionalStorage
BuildMigrationWorkflow == StorageMigration \o buildMigrationUpgradeStep
RollbackMigrations ==
    AllWhen(<<DeleteStatefulSetForUpgrade>> \o UpgradeBlockNodeChart(Copy({BnRelease})), {"upgrading"})
    \o AllWhen(DeleteOptionalStorage, {"migrating"})
upgradeBlockNode ==
    Mending(Step({}, <<Mark(Unless(Check(Nothing), Exactly({BnRelease}, Content \ {"ok"})), "earlier"),
                       DeleteHelmOwnedServices, When(Mark(Check(Nothing), "migrating"), {"earlier"})>>
                     \o AllWhen(BuildMigrationWorkflow, {"earlier"})
                     \o AllBarring(<<ComputeValuesFile>> \o UpgradeBlockNodeChart(Rewrite({BnRelease})),
                                   {"earlier"}), <<>>),
            RollbackMigrations)

scaleDownBlockNode ==
    Step({}, <<Mark(ScaleStatefulSet(0), "configured")>>, <<When(ScaleStatefulSet(1), {"configured"})>>)
waitForBlockNodeTerminated == Step({}, <<WaitForPodsTerminated>>, <<>>)
clearBlockNodeStorage == Step({}, <<ResetStorage>>, <<>>)
scaleUpBlockNode ==
    Step({}, <<Mark(ScaleStatefulSet(1), "configured")>>, <<When(ScaleStatefulSet(0), {"configured"})>>)
deleteBlockNodePVs == Step({}, DeleteAllPersistentVolumes, <<>>)

SetupBlockNode ==
    <<EnsureHederaOwnerStep, setupBlockNodeStorage, createBlockNodeNamespace, createBlockNodePVs,
      installBlockNode, waitForBlockNode, verifyBlockNodeReachable>>
UpgradeBlockNode(upgrade) == <<EnsureHederaOwnerStep, upgrade, waitForBlockNode, verifyBlockNodeReachable>>

\* Mutant: the data goes while the node runs.
PurgeUnderPods == <<waitForBlockNodeTerminated, clearBlockNodeStorage>>

PurgeBlockNodeStorage == <<scaleDownBlockNode, waitForBlockNodeTerminated, clearBlockNodeStorage>>
ResetBlockNode == PurgeBlockNodeStorage \o <<scaleUpBlockNode, waitForBlockNode>>
RolloutRestartBlockNode ==
    <<scaleDownBlockNode, waitForBlockNodeTerminated, scaleUpBlockNode, waitForBlockNode>>
RecreateBlockNodeStorage == <<deleteBlockNodePVs, setupBlockNodeStorage, createBlockNodePVs>>

(* ------------------------- the handlers' workflows -------------------------- *)

\* The network plane of an install, a reconfiguration or an upgrade.
NetworkPlaneSteps(firewall, shaping, teardown, reload) ==
    (IF teardown /\ ~firewall THEN <<NetworkFirewallDelete>> ELSE <<NetworkFirewallCreate(teardown)>>)
    \o (IF shaping THEN <<NetworkPolicyCreate, NftWeaverPersist, TcEgressPersist, TcIngressRecord>>
        ELSE IF teardown THEN <<NetworkPolicyDeleteAll, TcEgressTeardown>> ELSE <<>>)
    \o (IF reload /\ (shaping \/ teardown)
        THEN <<WriteBlockNodeDaemonConfigStep(shaping), RestartDaemonServiceStep>> ELSE <<>>)

\* Each step a top-level step of its own, from group g on.
Apart(g, steps) == [k \in 1 .. Len(steps) |-> [steps[k] EXCEPT !.grp = g + k]] \o <<>>

NodeOnPlane(shaping) ==
    InGroup(2, NetworkPlaneSteps(TRUE, shaping, FALSE, FALSE)) \o InGroup(3, SetupBlockNode)
    \o InGroup(4, IF shaping THEN BlockNodeDaemonConfigWorkflow ELSE <<>>)
InstallWorkflow(shaping) == InGroup(1, <<EnsureWeaverOwnerStep>>) \o NodeOnPlane(shaping)

ReconfigureWorkflow(firewall, shaping, chart) ==
    Apart(10, NetworkPlaneSteps(firewall, shaping, TRUE, TRUE)) \o chart
ReconfigureChart == InGroup(1, UpgradeBlockNode(reapplyBlockNode)) \o InGroup(2, RolloutRestartBlockNode)
ReconfigurePurge ==
    InGroup(1, PurgeBlockNodeStorage) \o InGroup(2, RecreateBlockNodeStorage)
    \o InGroup(3, UpgradeBlockNode(reapplyBlockNode))

\* An upgrade takes the decisions that are recorded: the firewall's, in the
\* first step, and the one about shaping, in the others.
SeedHostFirewallFromState == {Exactly({FirewallDecision}, {"absent", "patched"}), Gone({FirewallAllowlist})}
AsRecorded(steps) ==
    [k \in 1 .. Len(steps) |->
       [steps[k] EXCEPT !.skip = @ \cup IF k = 1 THEN SeedHostFirewallFromState
                                        ELSE {Exists({TrafficShapingDisabled})}]]
    \o <<>>
UpgradeWorkflow ==
    Apart(10, AsRecorded(NetworkPlaneSteps(TRUE, TRUE, FALSE, TRUE)))
    \o InGroup(1, UpgradeBlockNode(upgradeBlockNode))
ResetWorkflow == InGroup(1, ResetBlockNode)

\* Mutant: the workload goes before the monitor.
ChartFirst(chart) ==
    chart \o Apart(10, <<WriteBlockNodeDaemonConfigStep(FALSE), RestartDaemonServiceStep>>)
    \o Apart(20, <<NetworkPolicyDeleteAll, NftServiceTeardown, TcEgressTeardown, TcEgressServiceTeardown,
                   TcIngressTeardown>>)

\* The monitor first, then the workload, then the plane it ran on.
withPlaneTeardown(chart) ==
    Apart(10, <<WriteBlockNodeDaemonConfigStep(FALSE), RestartDaemonServiceStep>>) \o chart
    \o Apart(20, <<NetworkPolicyDeleteAll, NftServiceTeardown, TcEgressTeardown, TcEgressServiceTeardown,
                   TcIngressTeardown>>)
UninstallWorkflow == withPlaneTeardown(InGroup(1, <<uninstallBlockNode>>))
UninstallPurgeWorkflow ==
    withPlaneTeardown(InGroup(1, PurgeBlockNodeStorage) \o InGroup(2, <<deleteBlockNodePVs>>)
                      \o InGroup(3, <<uninstallBlockNode>>))
=============================================================================
