---------------------------- MODULE ClusterSteps ----------------------------
(***************************************************************************)
(* The steps of internal/workflows/steps that provision a Kubernetes       *)
(* cluster on one host and take it down again, and the workflows of        *)
(* internal/workflows that put them in order.                              *)
(***************************************************************************)
EXTENDS SoftwareInstallers, BlockNodeSteps

CONSTANT SoloOperatorEnabled   \* models.Config.SoloOperator.Enabled

Pkg(p) == <<p, "package">>
Loaded(m) == <<m, "loaded">>
Persisted(m) == <<m, "persisted">>
Mounted(m) == <<m, "mounted">>
Fstab(m) == <<m, "fstab">>
SwapOn == <<"swap", "active">>
SwapFstab == <<"swap", "fstab">>       \* patched: commented out
SwapUnit == <<"swap", "unmasked">>
SysctlFiles == <<"sysctl", "files">>
SysctlBackup == <<"sysctl", "backup">>
SysctlApplied == <<"sysctl", "applied">>
CiliumRelease == <<"cilium", "release">>
MetalLBConfig == <<"metallb", "config-file">>
MetalLBPool == <<"metallb", "pool">>
ProvisionerVersion == <<"weaver", "provisioner-version">>

BindMounts == <<"kubernetes", "kubelet", "cilium">>
ClusterSoftware == {"crio", "kubelet", "kubectl", "helm", "k9s", "kubeadm", "cilium"}

(* ----------------------- system and node setup --------------------------- *)

RefreshSystemPackageIndex == Step({}, <<Set({})>>, <<>>)
AutoRemoveOrphanedPackages == Step({}, <<Set({})>>, <<>>)

\* The package manager's own work is one operation.
IsInstalled(p) == Exists({Pkg(p)})
InstallPackage(p) == Set({Pkg(p)})
UninstallPackage(p) == Unless(Rm({Pkg(p)}), Gone({Pkg(p)}))

\* Mutant: the rollback keeps the package.
PackageKept(p) == Step({IsInstalled(p)}, <<Mark(InstallPackage(p), "installed")>>, <<>>)

InstallSystemPackage(p) ==
    Step({IsInstalled(p)}, <<Mark(InstallPackage(p), "installed")>>,
         <<When(UninstallPackage(p), {"installed"})>>)

\* modprobe, then the file that loads it at boot.
persist(m) == Copy({Persisted(m)})
unpersist(m) == Rm({Persisted(m)})
LoadModule(m) == <<Unless(Set({Loaded(m)}), Exists({Loaded(m)})), Unless(persist(m), Intact({Persisted(m)}))>>
UnloadModule(m) == <<unpersist(m), Rm({Loaded(m)})>>

InstallKernelModule(m) ==
    Step({Intact({Loaded(m), Persisted(m)})},
         LoadModule(m) \o <<Mark(Check(Nothing), "loaded")>>,
         AllWhen(UnloadModule(m), {"loaded"}))

\* What systemd asks of the files of a service to start it.
Startable(s) ==
    CASE s = "crio" -> Both(Exactly({Bin("crio")}, {"ok"}),
                            Exactly({Service("crio"), CrioConf}, {"patched"}))
      [] s = "kubelet" -> Both(Exactly({Bin("kubelet")}, {"ok"}),
                               Exactly({Service("kubelet")}, {"patched"}))
      [] s = "teleport" -> Both(Exactly({Bin("teleport")}, {"ok"}),
                                Both(Exactly({Service("teleport")}, {"patched"}), Intact({TeleportYaml})))
      [] OTHER -> Nothing
UnitFile(s) == IF s = "nftables" THEN Exists({Pkg(s)}) ELSE Exists({Unit(s)})

EnableService(s) == Needing(Set({Enabled(s)}), UnitFile(s))
RestartService(s) == Needing(Set({Running(s)}), Both(UnitFile(s), Startable(s)))
StopService(s) == Rm({Running(s)})
DisableService(s) == Rm({Enabled(s)})

SetupSystemdService(s) ==
    Step({},
         <<DaemonReload,
           Unless(Mark(EnableService(s), "enabled"), Exists({Enabled(s)})),
           Unless(Mark(RestartService(s), "started"), Exists({Running(s)}))>>,
         <<When(DaemonReload, {"enabled", "started"}),
           When(StopService(s), {"started"}),
           When(DisableService(s), {"enabled"})>>)

TeardownSystemdService(s) == Step({}, AllLogged(<<StopService(s), DisableService(s)>>), <<>>)

systemSetupWorkflow ==
    <<SetupHomeDirectoryStructure, RefreshSystemPackageIndex,
      InstallSystemPackage("iptables"), InstallSystemPackage("gpg"),
      InstallSystemPackage("conntrack"), InstallSystemPackage("ebtables"),
      InstallSystemPackage("socat"), InstallSystemPackage("nftables"),
      SetupSystemdService("nftables"), InstallKernelModule("overlay"),
      InstallKernelModule("br_netfilter"), AutoRemoveOrphanedPackages>>

\* The checks of the host come first; they change nothing.
CheckWeaverUserStep == Step({}, <<Check(Exists({WeaverUser}))>>, <<>>)
CheckHostProfileStep == Step({}, <<Check(Nothing)>>, <<>>)
HardwareChecks == [k \in 1 .. 4 |-> Step({}, <<Check(Nothing)>>, <<>>)] \o <<>>
NewNodeSafetyCheckWorkflow ==
    <<CheckPrivilegesStep, CheckWeaverUserStep, CheckHostProfileStep>> \o HardwareChecks
NewSubstrateSafetyCheckWorkflow == <<CheckPrivilegesStep, CheckWeaverUserStep>> \o HardwareChecks
SubstrateSetupWorkflow == NewSubstrateSafetyCheckWorkflow \o systemSetupWorkflow
NodeSetupWorkflow == NewNodeSafetyCheckWorkflow \o systemSetupWorkflow

(* ----------------------- the kernel and the file system ------------------- *)

\* DisableSwap masks the units, switches swap off, and comments the fstab
\* lines out.  EnableSwap goes the other way, whoever switched swap off.
maskSystemdSwapUnits == Rm({SwapUnit})
unmaskSystemdSwapUnits == Set({SwapUnit})
SwapOffAll == Rm({SwapOn})
SwapOnAll == Set({SwapOn})
commentOutSwap == Edit({SwapFstab})
uncommentSwap == Set({SwapFstab})
DisableSwapOps == <<maskSystemdSwapUnits, SwapOffAll, commentOutSwap, DaemonReload>>
EnableSwapOps == <<uncommentSwap, unmaskSystemdSwapUnits, DaemonReload, SwapOnAll>>
DisableSwap == Step({}, DisableSwapOps, EnableSwapOps)

\* The first backup is kept.  The rollback goes through the two steps in
\* their own order and stops at the first failure.
CopyConfiguration == Copy({SysctlFiles})
BackupSettings == Keep({SysctlBackup})
LoadAllConfiguration == Set({SysctlApplied})
RestoreSettings == Needing(Rm({SysctlApplied}), Exists({SysctlBackup}))
DeleteConfiguration == Rm({SysctlFiles})
copySysctlConfigurationFiles == <<CopyConfiguration>>
reloadSysctlSettings == <<BackupSettings, Mark(LoadAllConfiguration, "backup")>>
ConfigureSysctlForKubernetes ==
    Step({}, copySysctlConfigurationFiles \o reloadSysctlSettings,
         <<DeleteConfiguration, When(RestoreSettings, {"backup"})>>)

addFstabEntry(m) == Set({Fstab(m)})
mountBind(m) == Set({Mounted(m)})
SetupBindMountsWithFstab(m) ==
    <<Unless(addFstabEntry(m), Exists({Fstab(m)})), Unless(mountBind(m), Exists({Mounted(m)}))>>
RemoveBindMountsWithFstab(m) == Rm({Mounted(m), Fstab(m)})
IsBindMountedWithFstab(m) ==
    <<Unless(Mark(Check(Nothing), "was-not-mounted"), Exists({Mounted(m)})),
      Unless(Mark(Check(Nothing), "was-not-in-fstab"), Exists({Fstab(m)}))>>

\* The rollback asks again, and removes both when either is new.
setupBindMount(m) ==
    Step({Exists({Mounted(m), Fstab(m)})},
         IsBindMountedWithFstab(m) \o SetupBindMountsWithFstab(m),
         <<When(Unless(RemoveBindMountsWithFstab(m), Gone({Mounted(m)})), {"was-not-mounted"}),
           When(Unless(RemoveBindMountsWithFstab(m), Gone({Fstab(m)})), {"was-not-in-fstab"})>>)
SetupBindMounts == [k \in 1 .. 3 |-> setupBindMount(BindMounts[k])]

teardownBindMount(m) == Step({}, <<Logged(RemoveBindMountsWithFstab(m))>>, <<>>)
teardownSandboxMounts == Step({}, <<Logged(Set({}))>>, <<>>)
TeardownBindMounts ==
    [k \in 1 .. 3 |-> teardownBindMount(BindMounts[k])] \o <<teardownSandboxMounts>>

(* --------------------- the software of the cluster ------------------------ *)

\* Every install step has this form: InstalledByThisStep is set once Install
\* returned, and the temporary folder is removed after that.
InstallStep(s, download) ==
    SoftwareStep(s, "installed",
                 MarkLast(download \o Install(s), "installed") \o Cleanup(s),
                 AllWhen(Uninstall(s), {"installed"}))

\* Mutant: a software that is configured is configured again.
ConfigureAlways(s) ==
    Step({}, MarkLast(Configure(s), "configured"), AllWhen(RemoveConfiguration(s), {"configured"}))

ConfigureStep(s) ==
    SoftwareStep(s, "configured", MarkLast(Configure(s), "configured"),
                 AllWhen(RemoveConfiguration(s), {"configured"}))

installKubelet == InstallStep("kubelet", Download("kubelet"))
configureKubelet == ConfigureStep("kubelet")
SetupKubelet == <<installKubelet, configureKubelet>>
installKubectl == InstallStep("kubectl", Download("kubectl"))
configureKubectl == ConfigureStep("kubectl")
SetupKubectl == <<installKubectl, configureKubectl>>
installHelm == InstallStep("helm", Download("helm") \o Extract("helm"))
configureHelm == ConfigureStep("helm")
SetupHelm == <<installHelm, configureHelm>>
installK9s == InstallStep("k9s", Download("k9s") \o Extract("k9s"))
configureK9s == ConfigureStep("k9s")
SetupK9s == <<installK9s, configureK9s>>
installCrio == InstallStep("crio", Download("crio") \o Extract("crio"))
configureCrio == ConfigureStep("crio")
SetupCrio == <<installCrio, configureCrio>>
installKubeadm == InstallStep("kubeadm", Download("kubeadm"))
configureKubeadm == ConfigureStep("kubeadm")
SetupKubeadm == <<installKubeadm, configureKubeadm>>
installCilium == InstallStep("cilium", Download("cilium") \o Extract("cilium"))
configureCilium == ConfigureStep("cilium")
SetupCilium == <<installCilium, configureCilium>>

VerifyExecutablesStep(s) == Step({}, <<VerifyExecutables(s)>>, <<>>)

(* --------------------------- the cluster itself --------------------------- *)

\* Everything that lives in the cluster goes with it, and a kubeconfig that is
\* left behind reaches nothing.
InCluster ==
    {Cluster, Kubeconfig, CiliumRelease, MetalLBPool, AlloyConfig, ServiceMonitor, ESOSecret, StoragePV,
     OptionalPV}
    \cup {Release(c) : c \in Charts \cup AgentCharts} \cup InNamespace \cup RBAC
    \cup {Namespace(n) : n \in {BlockNode, "alloy", "teleport"}}
KubeadmReset == Wipe(InCluster)

\* Images are pulled through a cri-o that has its policy and registries.
KubeadmPullCmd == Needing(Set({}), Both(Intact({CrioConfigs, KubeadmInit}), Exists({Running("crio")})))

\* kubeadm init refuses a host that already has a control plane, and waits
\* for a kubelet that runs with its drop-in.
KubeadmInitCmd ==
    Needing(Copy({Cluster}),
            Both(Both(Gone({Cluster}), Exists({Running("kubelet"), Running("crio")})),
                 Both(Intact({KubeadmConf, KubeadmConfLink, KubeadmInit, SysctlApplied}),
                      Both(Gone({SwapOn}), Exactly({Mounted(BindMounts[k]) : k \in 1 .. 3}, {"ok"})))))

ConfigureKubeconfig == Copy({Kubeconfig})

\* Skipped when kubectl get nodes answers.  The rollback resets the cluster
\* whether or not this step made it.
InitializeCluster ==
    Step({},
         <<VerifyExecutables("kubectl")>>
         \o AllUnless(<<VerifyExecutables("kubeadm"), KubeadmPullCmd, KubeadmInitCmd, ConfigureKubeconfig>>,
                      Reachable),
         <<VerifyExecutables("kubeadm"), KubeadmReset>>)

ResetCluster ==
    Step({}, <<Logged(Needing(KubeadmReset, Exactly({Bin("kubeadm")}, {"ok"})))>>, <<>>)

ciliumBandwidthManagerState == Check(Both(Reachable, Intact({CiliumRelease})))
installCiliumCNI ==
    Step({},
         <<VerifyExecutables("cilium")>>
         \o AllUnless(<<Mark(Needing(Copy({CiliumRelease}),
                                     Both(Both(Reachable, Gone({CiliumRelease})), Exists({CiliumConfig}))),
                             "installed")>>,
                      Exactly({CiliumRelease}, {"ok"})),
         AllWhen(<<VerifyExecutables("cilium"), Rm({CiliumRelease})>>, {"installed"}))
guardBandwidthManagerDisabled == Step({}, <<ciliumBandwidthManagerState>>, <<>>)
StartCilium == <<installCiliumCNI, guardBandwidthManagerDisabled>>

(* ------------------------------- charts ----------------------------------- *)

installMetalLB ==
    Step({IsReleaseInstalled("metallb")},
         <<AddRepo, PullAndVerify("metallb"), Mark(InstallChart("metallb"), "installed")>>,
         <<When(UninstallChart("metallb"), {"installed"})>>)
isMetalLBPodsReady == Step({}, <<WaitForResources(IsReleaseInstalled("metallb"))>>, <<>>)
prepareMetalLBConfigFile == Step({}, <<Copy({MetalLBConfig})>>, <<>>)
deployMetalLBConfig ==
    Step({}, <<Mark(Needing(Set({MetalLBPool}), Both(Reachable, Intact({MetalLBConfig}))), "installed")>>,
         <<When(Needing(Rm({MetalLBPool}), Exists({MetalLBConfig})), {"installed"})>>)
configureMetalLB == <<prepareMetalLBConfigFile, deployMetalLBConfig>>

\* Mutant: MetalLB is left without its address pool.
MetalLBWithoutPool == <<installMetalLB, isMetalLBPodsReady>>

SetupMetalLB == <<installMetalLB, isMetalLBPodsReady>> \o configureMetalLB

installMetricsServer ==
    Step({IsReleaseInstalled("metrics-server")},
         <<AddRepo, PullAndVerify("metrics-server"), Mark(InstallChart("metrics-server"), "installed")>>,
         <<When(UninstallChart("metrics-server"), {"installed"})>>)
DeployMetricsServer == <<installMetricsServer>>

InstallSoloOperator ==
    Step({IsReleaseInstalled("solo-operator")},
         <<PullAndVerify("solo-operator")>> \o DeployChart("solo-operator", "installed"),
         <<When(UninstallChart("solo-operator"), {"installed"})>>)

(* ------------------------- health and bookkeeping -------------------------- *)

CheckClusterNodesReady == WaitForResources(Intact({CiliumRelease}))
CheckClusterNamespaces == WaitForResources(Nothing)
CheckClusterConfigMaps == WaitForResources(Intact({CiliumRelease}))
CheckClusterCRDs == WaitForResources(Intact({Release("metallb")}))
CheckClusterPodsReady ==
    WaitForResources(Intact({CiliumRelease, Release("metallb"), Release("metrics-server")}
                            \cup IF SoloOperatorEnabled THEN {Release("solo-operator")} ELSE {}))
CheckClusterServices == WaitForResources(Intact({Release("metrics-server")}))
CheckClusterHealth ==
    Step({}, <<CheckClusterNodesReady, CheckClusterNamespaces, CheckClusterConfigMaps,
               CheckClusterCRDs, CheckClusterPodsReady, CheckClusterServices>>, <<>>)

RecordProvisionerVersion == Step({}, <<Logged(Set({ProvisionerVersion}))>>, <<>>)

(* ------------------------------ workflows ---------------------------------- *)

KubernetesSetupWorkflow ==
    <<DisableSwap, ConfigureSysctlForKubernetes>> \o SetupBindMounts
    \o SetupKubelet \o <<VerifyExecutablesStep("kubelet"), SetupSystemdService("kubelet")>>
    \o SetupKubectl \o SetupHelm \o SetupK9s
    \o SetupCrio \o <<VerifyExecutablesStep("crio"), SetupSystemdService("crio")>>
    \o SetupKubeadm \o <<InitializeCluster>> \o SetupCilium \o StartCilium
    \o SetupMetalLB \o DeployMetricsServer
    \o (IF SoloOperatorEnabled THEN <<InstallSoloOperator>> ELSE <<>>)
    \o <<CheckClusterHealth>>

InstallClusterWorkflow ==
    InGroup(1, SubstrateSetupWorkflow) \o InGroup(2, KubernetesSetupWorkflow)
    \o InGroup(3, <<RecordProvisionerVersion>>)

\* A block node where there is no cluster: the handler puts the cluster's
\* workflows before its own.
FirstInstallWorkflow ==
    InGroup(1, <<EnsureWeaverOwnerStep>>) \o InGroup(11, NodeSetupWorkflow)
    \o InGroup(12, KubernetesSetupWorkflow) \o NodeOnPlane(TRUE)

RemoveSystemdServiceFiles ==
    Step({}, AllLogged(<<Rm({Unit("crio")}), Rm({CrioDropInLink}), Rm({KubeadmConfLink}),
                         Rm({Unit("kubelet")}), DaemonReload>>), <<>>)
RemoveConfigDirectories ==
    Step({}, AllLogged(<<Rm({CrioContainers}), Rm({Kubeconfig})>>), <<>>)

\* Everything in /opt/solo/weaver but the downloads, the weaver's own
\* executables and the logs: the sandbox folder by folder (etcd and the
\* control plane's manifests live there), the configuration folder with the
\* daemon's files, the temporary folder, the backups and the state file.  A
\* bind mount that is still there loses the folder it shows.
CleanupSandbox ==
    <<Wipe({SysctlBackup}), Wipe(InCluster),
      Op("edit", {Mounted(BindMounts[k]) : k \in 1 .. 3}),
      Wipe({Bin(s) : s \in ClusterSoftware \cup {"teleport"}} \cup {CrioCni}),
      Wipe({CrioConf, CrioConfigs, CrioDefault, KubeadmInit, CiliumConfig, MetalLBConfig}),
      Wipe(SandboxUnitDir \cup {DaemonService}),
      Wipe({DaemonYaml, DaemonKubeconfig})>>
CleanupTemp ==
    <<Wipe({UnpackedBin(s) : s \in ClusterSoftware} \cup {UnpackedConf(s) : s \in ClusterSoftware}
           \cup {ProvisionerVersion, TrafficShapingDisabled, FirewallDecision, FirewallAllowlist})>>

\* Mutant: the machine state is kept.
CleanupKeepsState == Step({}, AllLogged(CleanupSandbox \o CleanupTemp), <<>>)

CleanupWeaverFiles == Step({}, AllLogged(CleanupSandbox \o <<Forget>> \o CleanupTemp), <<>>)

UninstallClusterWorkflow ==
    InGroup(1, <<ResetCluster, TeardownSystemdService("crio"), TeardownSystemdService("kubelet")>>
               \o TeardownBindMounts
               \o <<RemoveSystemdServiceFiles, RemoveConfigDirectories, CleanupWeaverFiles>>)

\* The startup migration that gives older hosts the socket drop-in.
CrioSocketDropInMigration ==
    Step({Gone({Unit("crio")}), CrioSocketBridgePresent},
         ReconfigureCrioSocketDropIn \o <<DaemonReload>> \o EnsureCrioSocketSymlink, <<>>)

ClusterThings ==
    SoftwareThings(ClusterSoftware) \cup InCluster
    \cup {Home, SwapOn, SwapFstab, SwapUnit, SysctlFiles, SysctlBackup, SysctlApplied,
          MetalLBConfig, ProvisionerVersion}
    \cup {Pkg(p) : p \in {"iptables", "gpg", "conntrack", "ebtables", "socat", "nftables"}}
    \cup {Loaded(m) : m \in {"overlay", "br_netfilter"}}
    \cup {Persisted(m) : m \in {"overlay", "br_netfilter"}}
    \cup {Mounted(BindMounts[k]) : k \in 1 .. 3} \cup {Fstab(BindMounts[k]) : k \in 1 .. 3}
    \cup {Chart(c) : c \in Charts}
    \cup {Enabled(s) : s \in {"crio", "kubelet", "nftables"}}
    \cup {Running(s) : s \in {"crio", "kubelet", "nftables"}}
=============================================================================
