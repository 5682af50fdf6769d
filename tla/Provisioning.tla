---------------------------- MODULE Provisioning ----------------------------
(***************************************************************************)
(* The commands of the provisioner, run one after the other on one host    *)
(* with errors and kills in between: the cluster (kube cluster ...), the   *)
(* block node on its network plane (block node ...), the daemon (daemon    *)
(* service ...), the agents beside the node (alloy, teleport, external     *)
(* secrets), the provisioner itself (install, uninstall) and the startup   *)
(* migration of the cri-o socket drop-in.  The steps are those of          *)
(* ClusterSteps, BlockNodeSteps, DaemonSteps, NetworkPlane and AgentSteps; *)
(* Workflow runs them.                                                     *)
(***************************************************************************)
EXTENDS AgentSteps

CONSTANTS Sessions,   \* hosts and commands, see Workflow
          MaxFaults

VARIABLES host, recorded, seen, run, flags, faults, trail, begun, before, session

Things ==
    ClusterThings \cup NetworkThings \cup WeaverThings \cup DaemonThings \cup BlockNodeThings
    \cup AgentThings

(* ------------------------------ the commands -------------------------------- *)

\* A command of its own workflow, and one that goes through a handler.
Direct(steps, modes, accepts) ==
    [steps |-> steps, modes |-> modes, handler |-> FALSE, accepts |-> accepts,
     saves |-> Nothing, then |-> "none"]
Handled(steps, modes, accepts, saves) ==
    [steps |-> steps, modes |-> modes, handler |-> TRUE, accepts |-> accepts,
     saves |-> saves, then |-> "none"]
WithDaemon(command) == [command EXCEPT !.then = "daemon"]

\* The handlers of an install and a reconfiguration record both decisions, and
\* the allow list with a firewall that is wanted.
Decided(firewall, shaping) ==
    (TrafficShapingDisabled :> IF shaping THEN "absent" ELSE "ok")
    @@ (FirewallDecision :> IF firewall THEN "ok" ELSE "patched")
    @@ (IF firewall THEN FirewallAllowlist :> "ok" ELSE Nothing)
OnPlane == Decided(TRUE, TRUE)

\* The commands that take the mode as a flag; the others stop at an error.
Flag == {"stop", "rollback", "continue"}
Stop == {"stop"}

\* A block node is installed where none is deployed, with the cluster when
\* there is none; everything else wants one.
OnCluster == {Both(Reachable, Exactly({BnRelease}, {"absent", "torn"}))}
IsDeployed == {Both(Reachable, Deployed)}
Configured == {Exactly({DaemonYaml}, {"ok", "patched"})}

\* kube cluster install and uninstall, and what every start of a command may
\* do first.  No step of the uninstall fails, so that one mode is enough.
KubeClusterInstall == Direct(InstallClusterWorkflow, Flag, {})
KubeClusterUninstall == Direct(UninstallClusterWorkflow, {"continue"}, {})
StartupMigration == Direct(<<CrioSocketDropInMigration>>, {"rollback"}, {})

\* block node install (with a cluster, without one, without shaping), upgrade,
\* reconfigure (in place, without shaping, on other storage), reset and
\* uninstall (with --force, with --purge).
NodeFirstInstall ==
    WithDaemon(Handled(FirstInstallWorkflow, Flag, Unreachable, OnPlane))
NodeInstall == WithDaemon(Handled(InstallWorkflow(TRUE), Flag, OnCluster, OnPlane))
NodeInstallPlain == Handled(InstallWorkflow(FALSE), Flag, OnCluster, Decided(TRUE, FALSE))
NodeUpgrade == WithDaemon(Handled(UpgradeWorkflow, Flag, IsDeployed, Nothing))
NodeReconfigure ==
    WithDaemon(Handled(ReconfigureWorkflow(TRUE, TRUE, ReconfigureChart), Flag, IsDeployed, OnPlane))
NodeUnshape ==
    Handled(ReconfigureWorkflow(FALSE, FALSE, ReconfigureChart), Flag, IsDeployed, Decided(FALSE, FALSE))
NodeMove ==
    WithDaemon(Handled(ReconfigureWorkflow(TRUE, TRUE, ReconfigurePurge), Flag, IsDeployed, OnPlane))
\* A reconfiguration without a word about the firewall keeps it where it is
\* recorded or live, and deletes it elsewhere.
ResolveFirewallSeed(r) ==
    {Both(r, Exactly({FirewallDecision}, {"ok"})), Both(r, Exists({HostTable}))}
NodeKeep ==
    WithDaemon(Handled(ReconfigureWorkflow(TRUE, TRUE, ReconfigureChart), Flag,
                       UNION {ResolveFirewallSeed(r) : r \in IsDeployed}, OnPlane))
NodeKeepOff ==
    WithDaemon(Handled(ReconfigureWorkflow(FALSE, TRUE, ReconfigureChart), Flag,
                       {Both(r, Both(Exactly({FirewallDecision}, {"absent", "patched"}), Gone({HostTable}))) :
                          r \in IsDeployed},
                       Decided(FALSE, TRUE)))
NodeReset == Handled(ResetWorkflow, Flag, IsDeployed, Nothing)
NodeUninstall == Handled(UninstallWorkflow, Flag, IsDeployed, Nothing)
NodeUninstallForce == Handled(UninstallWorkflow, Flag, {}, Nothing)
NodeUninstallPurge == Handled(UninstallPurgeWorkflow, Flag, IsDeployed, Nothing)

\* What follows a block node command with shaping: a daemon that does not run
\* is installed.
ensureBlockNodeDaemon ==
    Direct(provisionBlockNodeDaemon, Stop, {Gone({DaemonRunning, TrafficShapingDisabled})})

\* daemon service install (with --daemon-bin), uninstall, start, stop and check.
ServiceInstall(local) ==
    Direct(<<resolveDaemonConfig>> \o NewDaemonServiceInstallWorkflow(local, FALSE), Stop,
           {Gone({DaemonRunning})})
ServiceUninstall == Direct(NewDaemonServiceUninstallWorkflow, Stop, Configured)
ServiceStart == Direct(NewDaemonServiceStartWorkflow, Stop, {})
ServiceStop == Direct(NewDaemonServiceStopWorkflow, Stop, {})
ServiceCheck == Direct(NewDaemonServiceCheckWorkflow, Stop, {})

\* network firewall create (with --force), create-allow-rule, add or remove or
\* set for a reserved block, the same for the rule, reapply, and delete.
FirewallCreate == Direct(CreateTable(FALSE), Stop, {})
FirewallCreateForce == Direct(CreateTable(TRUE), Stop, {})
FirewallCreateAllowRule == Direct(CreateRule, Stop, {})
FirewallSet == Direct(SetMany, Stop, {})
FirewallAdd == Direct(Add, Stop, {})
FirewallReapply == Direct(Reapply, Stop, {})
FirewallDeleteRule == Direct(DeleteRule, Stop, {})
FirewallDelete == Direct(DeleteTable, Stop, {})

\* network shape create --force, set and delete.
ShapeCreateDevice == Direct(CreateDevice, Stop, {})
ShapeCreateClass == Direct(CreateClass, Stop, {})
ShapeSet == Direct(SetClass, Stop, {})
ShapeSetIngress == Direct(SetIngressClass, Stop, {})
ShapeDeleteClass == Direct(DeleteClass, Stop, {})
ShapeDeleteDevice == Direct(DeleteDevice, Stop, {})

\* alloy, eso and teleport; install and uninstall of the provisioner.
AlloyInstall == Direct(SetupAlloyStack, Flag, {})
AlloyUninstall == Direct(TeardownAlloyStack, Flag, {})
OperatorInstall == Direct(SetupExternalSecrets, Stop, {})
SecretCreate == Direct(SetupESOSecret, Stop, {})
OperatorUninstall == Direct(TeardownExternalSecrets, Stop, {})
TeleportClusterInstall == Handled(SetupTeleportClusterAgent, Flag, {}, Nothing)
TeleportClusterUninstall == Handled(TeardownTeleportClusterAgent, Flag, {}, Nothing)
TeleportNodeInstall == Handled(SetupTeleportNodeAgent, Flag, {}, Nothing)
TeleportNodeUninstall == Handled(TeardownTeleportNodeAgent, Flag, {}, Nothing)
SelfInstall == Direct(NewSelfInstallWorkflow, Stop, {})
SelfUninstall == Direct(NewSelfUninstallWorkflow, Stop, {})

Commands ==
    [install |-> KubeClusterInstall, uninstall |-> KubeClusterUninstall, migrate |-> StartupMigration,
     setup |-> NodeFirstInstall, bnInstall |-> NodeInstall, bnPlain |-> NodeInstallPlain,
     bnUpgrade |-> NodeUpgrade, bnReconfigure |-> NodeReconfigure, bnUnshape |-> NodeUnshape,
     bnKeep |-> NodeKeep, bnKeepOff |-> NodeKeepOff, bnMove |-> NodeMove,
     bnReset |-> NodeReset, bnUninstall |-> NodeUninstall, bnForce |-> NodeUninstallForce,
     bnPurge |-> NodeUninstallPurge, daemon |-> ensureBlockNodeDaemon,
     daemonInstall |-> ServiceInstall(FALSE), daemonLocal |-> ServiceInstall(TRUE),
     daemonRemove |-> ServiceUninstall, daemonStart |-> ServiceStart, daemonStop |-> ServiceStop,
     daemonCheck |-> ServiceCheck,
     fwCreate |-> FirewallCreate, fwForce |-> FirewallCreateForce, fwRule |-> FirewallCreateAllowRule,
     fwSet |-> FirewallSet, fwAdd |-> FirewallAdd, fwReapply |-> FirewallReapply,
     fwDeleteRule |-> FirewallDeleteRule, fwDelete |-> FirewallDelete,
     shapeDevice |-> ShapeCreateDevice, shapeClass |-> ShapeCreateClass, shapeSet |-> ShapeSet,
     shapeIngress |-> ShapeSetIngress, shapeDelete |-> ShapeDeleteClass, shapeRemove |-> ShapeDeleteDevice,
     alloyInstall |-> AlloyInstall, alloyRemove |-> AlloyUninstall,
     esoInstall |-> OperatorInstall, esoSecret |-> SecretCreate, esoRemove |-> OperatorUninstall,
     agentInstall |-> TeleportClusterInstall, agentRemove |-> TeleportClusterUninstall,
     teleport |-> TeleportNodeInstall, teleportRemove |-> TeleportNodeUninstall,
     selfInstall |-> SelfInstall, selfRemove |-> SelfUninstall]

(* -------------------------------- the hosts --------------------------------- *)

\* Only the provisioner is installed.
Self == {WeaverUser, WeaverHome, Home, WeaverBin, WeaverLink, Sudoers, DaemonBin}
FreshHost ==
    [f \in Things |-> IF f \in {SwapOn, SwapFstab, SwapUnit} \cup Self THEN "ok" ELSE "absent"]

\* A cluster is up.
Patched == {Service("crio"), CrioConf, Service("kubelet"), KubeadmConf, SwapFstab}
Unpacked == {UnpackedBin(s) : s \in ClusterSoftware} \cup {UnpackedConf(s) : s \in ClusterSoftware}
Raised ==
    (SoftwareThings(ClusterSoftware) \ Unpacked)
    \cup (ClusterThings \ (SoftwareThings(ClusterSoftware) \cup InCluster \cup {SwapOn, SwapUnit}))
    \cup {Cluster, Kubeconfig, CiliumRelease, MetalLBPool} \cup {Release(c) : c \in Charts}
ReadyHost ==
    [f \in Things |-> IF f \in Patched THEN "patched" ELSE IF f \in Raised \cup Self THEN "ok" ELSE "absent"]

\* The cluster is of a release before the cri-o socket drop-in.
OlderHost ==
    [f \in Things |-> IF f \in {CrioDropIn, CrioDropInLink, CrioSocketLink} THEN "absent" ELSE ReadyHost[f]]

\* A block node serves on its plane and the daemon runs its monitor.
canonical == {Policy(canonicalBNPolicies[k]) : k \in DOMAIN canonicalBNPolicies}
obsolete == {Policy(obsoleteBNPolicies[k]) : k \in DOMAIN obsoleteBNPolicies}
Plane == (NetworkThings \ (obsolete \cup {HostConfigPrev}))
Workload == {BnRelease, Namespace(BlockNode), StorageDir, StorageData, StoragePV, StoragePVC}
ServingHost ==
    [f \in Things |->
       IF f \in Plane \cup Workload \cup (DaemonThings \ {DaemonDownload}) \cup {HederaUser, HederaMember}
       THEN "ok" ELSE ReadyHost[f]]

\* With a policy of an earlier release.
EarlierHost == [f \in Things |-> IF f \in obsolete THEN "ok" ELSE ServingHost[f]]

\* With settings of the operator's.
TunedHost ==
    [f \in Things |->
       IF f \in {HostConfig, HostNft, HostTable, EgressClasses, EgressScript, EgressLive, IngressClasses}
       THEN "tuned" ELSE ServingHost[f]]

HostsByName ==
    [fresh |-> FreshHost, ready |-> ReadyHost, older |-> OlderHost, serving |-> ServingHost,
     earlier |-> EarlierHost, tuned |-> TunedHost]

KnownSoftware == ClusterSoftware \cup {"teleport"}

INSTANCE Workflow WITH
    Program <- Commands, Hosts <- HostsByName, Software <- KnownSoftware,
    InstalledWhen <- [s \in KnownSoftware |-> VerifyInstalled(s)],
    ConfiguredWhen <- [s \in KnownSoftware |-> VerifyConfigured(s)]
-----------------------------------------------------------------------------
(* ------------------------- what a command is for ----------------------------- *)

Last == trail[Len(trail)]
Idle == run = NoRun /\ trail # <<>>
Clean == ~Last.faulty

Serving ==
    Both(Both(Reachable, Exists({Enabled("crio"), Enabled("kubelet"), Running("crio"), Running("kubelet")})),
         Intact({CiliumRelease, Release("metallb"), Release("metrics-server"), MetalLBPool}))
Lowered ==
    Gone(InCluster \cup {Bin(s) : s \in ClusterSoftware}
         \cup {Unit("crio"), Unit("kubelet"), Enabled("crio"), Enabled("kubelet"), Running("crio"),
               Running("kubelet"), DaemonYaml})
NodeUp == Both(Intact({BnRelease, StoragePV, StoragePVC}), Both(Exists({StorageDir}), Gone(Lacks)))
FirewallUp == Intact({HostTable, HostNft, NftUnit})
FirewallParts == {HostConfig, HostNft, HostTable}
EgressParts == {EgressClasses, EgressScript, EgressLive}
PlaneUp ==
    Both(Both(FirewallUp,
              Intact({WorkloadTable, WeaverNft, EgressLive, TcUnit, IngressDevice, IngressClasses})),
         Both(Intact(canonical), Gone(obsolete)))
PlaneDown == Gone({EgressLive, EgressDevice, EgressClasses} \cup canonical)
MonitorOn == Exactly({DaemonYaml}, {"ok"})
MonitorOff == Both(Exactly({DaemonYaml}, {"patched"}), Exactly({DaemonRunning}, {"absent", "patched"}))
ServingNode == Both(Both(NodeUp, MonitorOn), Both(PlaneUp, Exactly({DaemonRunning}, {"ok"})))
NodeGone ==
    Both(Gone({BnRelease, TcUnit, TcEnabled, EgressScript, IngressDevice, IngressClasses}),
         Both(PlaneDown, MonitorOff))
AlloyUp == Intact({Release("alloy"), Release("node-exporter"), Release(CRDs), AlloyConfig})
TeleportUp ==
    Both(Startable("teleport"), Exists({Unit("teleport"), Enabled("teleport"), Running("teleport")}))
DaemonFiles == {DaemonBin, DaemonLink, DaemonEnabled, DaemonRunning}
BootFiles == {NftUnit, NftEnabled, TcUnit, TcEnabled, EgressScript}

\* The migration is left out: once the drop-in's link is there it is never
\* repeated, also when the socket's link is still missing.
Goal ==
    [install |-> Both(Serving, Exists({CrioDropIn, CrioDropInLink})),
     uninstall |-> Lowered,
     migrate |-> Nothing,
     setup |-> Both(Serving, ServingNode),
     bnInstall |-> ServingNode,
     bnPlain |-> Both(NodeUp, FirewallUp),
     bnUpgrade |-> Both(NodeUp, Both(Exactly({BnRelease}, {"patched"}), Intact({OptionalPV, OptionalPVC}))),
     bnReconfigure |-> ServingNode,
     bnKeep |-> ServingNode,
     bnKeepOff |-> Both(NodeUp, Gone({HostTable, HostNft, HostConfig})),
     bnMove |-> ServingNode,
     fwCreate |-> Exists({HostTable}),
     fwForce |-> Exactly(FirewallParts, {"ok"}),
     fwRule |-> Tuned(HostConfig),
     fwSet |-> Intact(FirewallParts),
     fwAdd |-> Exactly(FirewallParts, {"tuned"}),
     fwReapply |-> Intact(FirewallParts),
     fwDeleteRule |-> Exactly(FirewallParts, {"ok"}),
     fwDelete |-> Gone(FirewallParts \cup {HostConfigPrev}),
     shapeDevice |-> Intact({EgressDevice, EgressScript, EgressLive}),
     shapeClass |-> Exactly(EgressParts, {"tuned"}),
     shapeSet |-> Exactly(EgressParts, {"tuned"}),
     shapeIngress |-> Tuned(IngressClasses),
     shapeDelete |-> Both(Gone({EgressClasses}), Exactly({EgressScript, EgressLive}, {"ok"})),
     shapeRemove |-> Gone({EgressDevice, EgressClasses}),
     bnUnshape |-> Both(Both(NodeUp, MonitorOff), PlaneDown),
     bnReset |-> Both(Intact({BnRelease}), Gone({ScaledDown, StatefulSetGone})),
     bnUninstall |-> NodeGone, bnForce |-> NodeGone, bnPurge |-> NodeGone,
     daemonInstall |-> Both(DaemonStartable, Exists(DaemonFiles)),
     daemonLocal |-> Both(DaemonStartable, Exists(DaemonFiles)),
     daemonStart |-> Exists(DaemonFiles),
     daemonCheck |-> Exists(DaemonFiles),
     daemonStop |-> Gone({DaemonRunning}),
     daemonRemove |-> Gone(DaemonFiles \cup {DaemonService, DaemonYaml}),
     alloyInstall |-> AlloyUp,
     alloyRemove |-> Both(Both(NotInstalled("alloy"), NotInstalled("node-exporter")), NotInstalled(CRDs)),
     esoInstall |-> Intact({Release("external-secrets")}),
     esoSecret |-> Exists({ESOSecret}),
     esoRemove |-> NotInstalled("external-secrets"),
     agentInstall |-> Intact({Release("teleport-cluster-agent")}),
     agentRemove |-> NotInstalled("teleport-cluster-agent"),
     teleport |-> TeleportUp,
     teleportRemove |-> Gone({Enabled("teleport"), Running("teleport")}),
     selfInstall |-> Exists({WeaverBin, Sudoers}),
     selfRemove |-> Gone(DaemonFiles \cup NetworkDir \cup BootFiles \cup {WeaverBin, WeaverLink, Sudoers})]

(* -------------------------------- properties --------------------------------- *)

\* A command that meets no fault of its own and reports success has done what
\* it is for, on whatever host earlier commands, failed, rolled back or killed
\* half way, have left: the checks that let a step be skipped (IsInstalled,
\* IsConfigured, a unit or a table that is there) never skip what is missing.
\* A command that applies the host firewall or the egress shape leaves what is
\* configured, what the next boot loads and what is live in agreement, and an
\* upgrade leaves a firewall up that was wanted.
Agree(parts) == \A f, g \in parts : host[f] = host[g]
Applies == {"fwForce", "fwSet", "fwAdd", "fwReapply", "fwDeleteRule", "bnReconfigure", "bnKeep", "bnMove"}
Shapes == {"bnInstall", "bnReconfigure", "bnKeep", "bnKeepOff", "bnMove", "setup"}
GoalReached ==
    Idle /\ Last.result = "ok" /\ Clean =>
       /\ Holds(Goal[Last.cmd], host)
       /\ Last.cmd \in Applies => Agree(FirewallParts)
       /\ Last.cmd \in Shapes => Agree(EgressParts)
       /\ Last.cmd = "bnUpgrade" /\ before[FirewallDecision] = "ok" => Holds(FirewallUp, host)

\* After an uninstall that met no fault, the install succeeds, whatever was
\* there before: the uninstall leaves nothing that an install trips over
\* (UninstallClusterWorkflow, the handlers' uninstalls, the daemon's and the
\* provisioner's own).  The charts of the agents are left out: an uninstall
\* step skips a release that is pending, and the install then finds its name
\* taken.
Again ==
    [uninstall |-> {"install", "setup"}, bnUninstall |-> {"bnInstall", "bnPlain"},
     bnPurge |-> {"bnInstall", "bnPlain"}, daemonRemove |-> {"daemonInstall"},
     selfRemove |-> {"selfInstall"}]
UninstallRecovers ==
    (/\ Idle /\ Len(trail) = 2
     /\ trail[1].cmd \in DOMAIN Again /\ trail[1].result = "ok" /\ ~trail[1].faulty
     /\ Last.cmd \in Again[trail[1].cmd] /\ Clean)
    => Last.result = "ok"

\* An install that succeeded can be run again: it succeeds and changes
\* nothing, also what a second pass of a substitution would spoil (the sed of
\* the cri-o and kubelet files, the swap lines of fstab).
Repeatable ==
    {"install", "alloyInstall", "teleport", "esoInstall", "agentInstall", "bnReconfigure", "bnUnshape"}
Rerun ==
    (/\ Idle /\ Len(trail) = 2
     /\ trail[1].cmd \in Repeatable /\ trail[1].result = "ok"
     /\ Last.cmd = trail[1].cmd /\ Clean)
    => Last.result = "ok" /\ \A f \in Things \ {ProvisionerVersion, HostConfigPrev} : host[f] = before[f]

\* What no rollback takes back: the users and the folders, the downloads and
\* what was unpacked, the first backup of the sysctl settings, the boot units
\* and the shape of the network plane, namespaces, the decision about shaping
\* in the state file, and swap, which a rollback switches on.
Leftovers ==
    {Home, SysctlBackup, MetalLBConfig, WeaverUser, WeaverHome, HederaUser, HederaMember, StorageDir,
     TrafficShapingDisabled, FirewallDecision, FirewallAllowlist, SwapOn, SwapUnit, Service("teleport"),
     NftRunning, TcRunning, EgressDevice, EgressClasses, EgressLive, IngressDevice, IngressClasses,
     Namespace("alloy"), Namespace("teleport")}
    \cup BootFiles \cup {Chart(c) : c \in Charts \cup AgentCharts}
    \cup UNION {{Dl(s), <<s, "download-configs">>, UnpackedBin(s), UnpackedConf(s)} : s \in KnownSoftware}
Touched(st) == UNION {st.does[k].on : k \in DOMAIN st.does}

\* An install that fails by one fault and rolls back leaves nothing that was
\* not there before, but the leftovers above and the things of one step, the
\* one that the fault cut short: every step that ran before it finds its flag
\* (InstalledByThisStep, ConfiguredByThisStep) and undoes itself, in reverse.
Undone ==
    (/\ Idle /\ Last.result = "undone" /\ faults =< 1
     /\ Last.cmd \in {"install", "bnInstall", "bnPlain", "alloyInstall", "agentInstall", "teleport"})
    => \E i \in DOMAIN Steps(Last.cmd) :
          \A f \in Things \ (Leftovers \cup Touched(Steps(Last.cmd)[i])) :
              before[f] = "absent" => host[f] = "absent"

\* A block node's data is only removed once its StatefulSet is scaled down
\* (PurgeBlockNodeStorage), in every mode, also when an error or a rollback
\* comes in between.
DataIsSafe ==
    [][host[StorageData] # "absent" /\ host'[StorageData] = "absent" => host[ScaledDown] # "absent"]_vars

\* What the operator has set on the network plane, an allow rule in the host
\* firewall or the rates of a class, is only taken back by a command that says
\* so: one that deletes or replaces it, or takes the plane down.  Every other
\* command that renders the plane carries it across (NetworkFirewallCreate,
\* Manager.mutate, mergeExistingConfig), in every mode, also when it is cut
\* short and run again.
TakesBack ==
    (HostConfig :> {"fwDeleteRule", "fwDelete", "fwForce", "bnUnshape", "bnKeepOff", "selfRemove"})
    @@ (EgressClasses :> {"shapeDelete", "bnUnshape", "bnUninstall", "bnForce", "bnPurge", "selfRemove"})
    @@ (IngressClasses :> {"bnUninstall", "bnForce", "bnPurge", "selfRemove"})
SettingsKept ==
    [][\A f \in DOMAIN TakesBack :
          host[f] = "tuned" /\ host'[f] # "tuned" => run.cmd \in TakesBack[f]]_vars

\* By the time an uninstall removes the block node's release, no daemon runs a
\* monitor that would shape a workload that is gone (withPlaneTeardown).  Under
\* ContinueOnError a failed step does not hold the later groups back.
MonitorGoesFirst ==
    [][(/\ run.cmd \in {"bnUninstall", "bnPurge"} /\ run.mode # "continue"
        /\ host[BnRelease] # "absent" /\ host'[BnRelease] = "absent")
       => host[DaemonRunning] # "ok"]_vars

\* An install of an agent that fails, with or without a rollback, never takes
\* away a release that was there before it (InstalledByThisStep is only set by
\* a step that installed, and by an upgrade of Alloy not at all).
AgentsKept ==
    (/\ Idle /\ Last.result \in {"failed", "undone"}
     /\ Last.cmd \in {"alloyInstall", "agentInstall", "esoInstall"})
    => \A c \in AgentCharts : before[Release(c)] # "absent" => host[Release(c)] # "absent"

\* The commands implement the life cycle of a cluster (ClusterLifecycle): an
\* install never lowers what is there unless it meets a fault or rolls back,
\* no other command raises or lowers a cluster that is not its own, and a
\* success means that the cluster serves, or that it is gone.
Lifecycle == INSTANCE ClusterLifecycle WITH
    phase <- IF Holds(Serving, host) THEN "serving"
             ELSE IF host[Cluster] = "absent" THEN "absent" ELSE "incomplete",
    job <- CASE run.of \in {"install", "setup"} -> "raise"
             [] run.of = "uninstall" -> "lower"
             [] run = NoRun -> "none"
             [] OTHER -> "other",
    excused <- run.faulty \/ run.dir = "undo",
    outcome <- IF trail = <<>> THEN "none"
               ELSE IF Last.result \in {"unsaved", "undone"} THEN "failed" ELSE Last.result
KeepsLifecycle == Lifecycle!Spec
=============================================================================
