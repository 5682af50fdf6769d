----------------------------- MODULE AgentSteps -----------------------------
(***************************************************************************)
(* The steps that install the agents beside a node and take them away:     *)
(* the Alloy stack, the External Secrets Operator and the two Teleport     *)
(* agents (internal/workflows/steps: step_alloy,                           *)
(* step_prometheus_operator_crds, step_external_secrets, step_eso_secret,  *)
(* step_teleport).                                                         *)
(***************************************************************************)
EXTENDS ClusterSteps

AgentThings ==
    {Release(c) : c \in AgentCharts} \cup {Chart(c) : c \in AgentCharts}
    \cup {Namespace("alloy"), Namespace("teleport"), AlloyConfig, ServiceMonitor, ESOSecret,
          Enabled("teleport"), Running("teleport")}
    \cup SoftwareThings({"teleport"})

\* A chart step is skipped when its release is deployed.
InstallChartStep(c, prior) ==
    Step({IsReleaseInstalled(c)}, prior \o <<PullAndVerify(c), Mark(InstallChart(c), "installed")>>,
         <<When(UninstallChart(c), {"installed"})>>)

\* An uninstall step is skipped when it is not, also when it hangs half way.
NotInstalled(c) == Exactly({Release(c)}, Content \ {"ok", "patched"})
UninstallChartStep(c) == Step({NotInstalled(c)}, <<UninstallChart(c)>>, <<>>)
PodsReady(c) == Step({}, <<WaitForResources(IsReleaseInstalled(c))>>, <<>>)

(* ------------------------------ the Alloy stack ---------------------------- *)

preCheckAlloy == Step({}, <<Check(Reachable), Set({})>>, <<>>)
PreflightAlloy == <<preCheckAlloy>>

\* The objects of a kind go with its definition.
UninstallCRDs == Needing(Wipe({Release(CRDs), ServiceMonitor}), Both(Reachable, Exists({Release(CRDs)})))
installPrometheusOperatorCRDs ==
    [InstallChartStep(CRDs, <<>>) EXCEPT !.undo = <<When(UninstallCRDs, {"installed"})>>]
isPrometheusOperatorCRDsReady == PodsReady(CRDs)
SetupPrometheusOperatorCRDs == <<installPrometheusOperatorCRDs, isPrometheusOperatorCRDsReady>>

uninstallPrometheusOperatorCRDs == Step({NotInstalled(CRDs)}, <<UninstallCRDs>>, <<>>)
TeardownPrometheusOperatorCRDs == <<uninstallPrometheusOperatorCRDs>>

createAlloyNamespace == Step({}, <<CreateNamespace("alloy")>>, <<>>)
installNodeExporter == InstallChartStep("node-exporter", <<>>)
isNodeExporterPodsReady == PodsReady("node-exporter")
uninstallNodeExporter == UninstallChartStep("node-exporter")

\* Applied anew on every run, so that the rollback deletes it on every run.
deployAlloyConfig ==
    Step({}, <<Mark(ApplyManifest({AlloyConfig}, Intact({Namespace("alloy")})), "installed")>>,
         <<When(DeleteManifest({AlloyConfig}, Nothing), {"installed"})>>)

\* Mutant: an upgrade counts as an install.
AlloyUpgradeIsOurs ==
    Step({}, <<AddRepo, PullAndVerify("alloy")>> \o DeployChart("alloy", "installed"),
         <<When(UninstallChart("alloy"), {"installed"})>>)

\* Installed or upgraded; only a fresh install is rolled back.
installAlloy ==
    Step({}, <<Mark(Unless(Check(Nothing), IsReleaseInstalled("alloy")), "fresh"),
               AddRepo, PullAndVerify("alloy")>>
             \o DeployChart("alloy", "none")
             \o <<When(Mark(Check(Nothing), "installed"), {"fresh"})>>,
         <<When(UninstallChart("alloy"), {"installed"})>>)

\* Only beside a block node.
deployBlockNodeMonitoring ==
    Step({Gone({BnRelease})},
         <<Mark(ApplyManifest({ServiceMonitor}, IsReleaseInstalled(CRDs)), "installed")>>,
         <<When(Logged(DeleteManifest({ServiceMonitor}, Nothing)), {"installed"})>>)
isAlloyPodsReady == PodsReady("alloy")
uninstallAlloy == UninstallChartStep("alloy")

SetupAlloy ==
    <<createAlloyNamespace, installNodeExporter, isNodeExporterPodsReady, deployAlloyConfig, installAlloy,
      deployBlockNodeMonitoring, isAlloyPodsReady>>
SetupAlloyStack ==
    InGroup(1, PreflightAlloy) \o InGroup(2, SetupPrometheusOperatorCRDs) \o InGroup(3, SetupAlloy)
TeardownAlloyStack ==
    InGroup(1, <<uninstallAlloy>>) \o InGroup(2, <<uninstallNodeExporter>>)
    \o InGroup(3, TeardownPrometheusOperatorCRDs)

(* --------------------------- external secrets ------------------------------ *)

installESOChart == InstallChartStep("external-secrets", <<AddRepo>>)
installExternalSecrets == installESOChart
isExternalSecretsReady == PodsReady("external-secrets")
uninstallESOChart == UninstallChartStep("external-secrets")
uninstallExternalSecrets == uninstallESOChart
SetupExternalSecrets == <<installExternalSecrets, isExternalSecretsReady>>
TeardownExternalSecrets == <<uninstallExternalSecrets>>
createESOSecret ==
    Step({}, <<ApplyManifest({ESOSecret}, IsReleaseInstalled("external-secrets"))>>, <<>>)
SetupESOSecret == <<createESOSecret>>

(* -------------------------------- Teleport --------------------------------- *)

CreateTeleportNamespace == Step({}, <<CreateNamespace("teleport")>>, <<>>)
InstallTeleportKubeAgent == InstallChartStep("teleport-cluster-agent", <<AddRepo>>)
IsTeleportPodsReady == PodsReady("teleport-cluster-agent")
SetupTeleportClusterAgent == <<CreateTeleportNamespace, InstallTeleportKubeAgent, IsTeleportPodsReady>>
uninstallTeleportKubeAgent ==
    Step(Unreachable \cup {NotInstalled("teleport-cluster-agent")},
         <<UninstallChart("teleport-cluster-agent")>>, <<>>)
TeardownTeleportClusterAgent == <<uninstallTeleportKubeAgent>>

installTeleportNodeAgent == InstallStep("teleport", Download("teleport") \o Extract("teleport"))
configureTeleportNodeAgent == ConfigureStep("teleport")
SetupTeleportNodeAgent ==
    <<installTeleportNodeAgent, configureTeleportNodeAgent, VerifyExecutablesStep("teleport"),
      SetupSystemdService("teleport")>>

\* What does not verify is taken for not installed, and left.
NotVerified == Exactly({Bin("teleport")}, Content \ {"ok"})
unconfigureTeleportNodeAgent ==
    Step({NotVerified, Exactly({Lnk("teleport")}, {"absent", "torn"})}, RemoveConfiguration("teleport"), <<>>)
uninstallTeleportNodeAgent == Step({NotVerified}, Uninstall("teleport"), <<>>)
TeardownTeleportNodeAgent ==
    <<TeardownSystemdService("teleport"), unconfigureTeleportNodeAgent, uninstallTeleportNodeAgent>>
=============================================================================
