------------------------------- MODULE KubeOps -------------------------------
(***************************************************************************)
(* What the steps ask of the cluster: whether it answers, Helm releases    *)
(* (pkg/helm) and single objects (internal/kube).                          *)
(***************************************************************************)
EXTENDS HostOps

Cluster == <<"cluster", "control-plane">>
Kubeconfig == <<"cluster", "kubeconfig">>
Chart(c) == <<c, "chart">>             \* in the downloads folder
Release(c) == <<c, "release">>         \* patched: at a later version
Namespace(n) == <<n, "namespace">>

\* The charts the provisioner deploys besides the block node's, and what the
\* agents keep in the cluster.
Charts == {"metallb", "metrics-server", "solo-operator"}
CRDs == "prometheus-operator-crds"
AgentCharts == {"alloy", "node-exporter", CRDs, "external-secrets", "teleport-cluster-agent"}
AlloyConfig == <<"alloy", "config-map">>
ServiceMonitor == <<"alloy", "service-monitor">>
ESOSecret == <<"external-secrets", "secret">>

Reachable == Intact({Cluster, Kubeconfig})
Unreachable == {Exactly({Cluster}, {"absent", "torn"}), Exactly({Kubeconfig}, {"absent", "torn"})}

\* A release that is not deployed is not installed, and its name is taken: an
\* install that was cut short is neither skipped nor repeated.
IsReleaseInstalled(c) == Intact({Release(c)})
AddRepo == Set({})
PullAndVerify(c) == Fetch({Chart(c)})
InstallChart(c) ==
    Needing(Copy({Release(c)}), Both(Both(Reachable, Intact({Chart(c)})), Gone({Release(c)})))

\* Helm reports an error for a release that is not there.
UninstallChart(c) == Needing(Rm({Release(c)}), Both(Reachable, Exists({Release(c)})))

\* An upgrade needs the release and is refused while an earlier operation on
\* it is still pending.
UpgradeChart(c) ==
    Needing(Copy({Release(c)}), Both(Both(Reachable, Intact({Chart(c)})), IsReleaseInstalled(c)))

\* DeployChart upgrades a release that exists and installs one that does not.
DeployChart(c, mark) ==
    <<Mark(Unless(Check(Reachable), Exists({Release(c)})), "not-found"),
      When(Mark(InstallChart(c), mark), {"not-found"}),
      Barring(Mark(UpgradeChart(c), mark), {"not-found"})>>

\* Waiting for objects, up to a time.
WaitForResources(r) == Check(Both(Reachable, r))

ApplyManifest(F, file) == Needing(Set(F), Both(Reachable, file))
DeleteManifest(F, file) == Needing(Rm(F), Both(Reachable, file))
CreateNamespace(n) == Needing(Set({Namespace(n)}), Reachable)
DeleteNamespace(n, F) == Needing(Wipe({Namespace(n)} \cup F), Reachable)
=============================================================================
