-------------------------- MODULE SoftwareInstallers --------------------------
(***************************************************************************)
(* The installers of pkg/software, as operations on the host: what each    *)
(* one downloads, unpacks, copies into the sandbox, links into the system  *)
(* and patches, in which order, and what its verification looks at.        *)
(***************************************************************************)
EXTENDS HostOps

\* The parts of one piece of software.
Dl(s) == <<s, "download">>             \* in the downloads folder
UnpackedBin(s) == <<s, "unpacked-bin">>     \* in the temporary folder
UnpackedConf(s) == <<s, "unpacked-configs">>
Bin(s) == <<s, "bin">>                 \* the executables in the sandbox
Lnk(s) == <<s, "link">>                \* their links in the system folder
Service(s) == <<s, "service">>         \* the unit file in the sandbox
Unit(s) == <<s, "unit">>               \* its link among the system's units
Enabled(s) == <<s, "enabled">>
Running(s) == <<s, "running">>

CrioConf == <<"crio", "10-crio.conf">>
CrioConfigs == <<"crio", "configs">>   \* policy.json, registries.conf, crictl.yaml...
CrioDefault == <<"crio", "etc-default">>
CrioCni == <<"crio", "cni-plugins">>
CrioInstallList == <<"crio", "install-list">>
CrioDropIn == <<"crio", "drop-in">>
CrioDropInLink == <<"crio", "drop-in-link">>
CrioContainers == <<"crio", "etc-containers">>
CrioSocketLink == <<"crio", "socket-link">>
KubeadmConf == <<"kubeadm", "10-kubeadm.conf">>
KubeadmConfLink == <<"kubeadm", "10-kubeadm.conf-link">>
KubeadmInit == <<"kubeadm", "kubeadm-init.yaml">>
CiliumConfig == <<"cilium", "cilium-config.yaml">>
TeleportYaml == <<"teleport", "teleport.yaml">>

\* cri-o, kubelet, kubeadm and teleport keep their unit files in one folder
\* of the sandbox.
SandboxUnitDir == {Service("crio"), CrioDropIn, Service("kubelet"), KubeadmConf,
                   Service("teleport")}

ByArchive == {"crio", "cilium", "helm", "k9s", "teleport"}
HasConfigs == {"kubelet", "kubeadm"}

(* ----------------------- the base installer ---------------------------- *)

\* A file in the downloads folder is kept when its checksum is right, and
\* removed and fetched again when not.
downloadAndVerifyArchive(s) == Fetch({Dl(s)})
downloadAndVerifyBinary(s) == Fetch({Dl(s)})
downloadConfigs(s) == Fetch({<<s, "download-configs">>})

Download(s) ==
    (IF s \in ByArchive THEN <<downloadAndVerifyArchive(s)>> ELSE <<downloadAndVerifyBinary(s)>>)
    \o (IF s \in HasConfigs THEN <<downloadConfigs(s)>> ELSE <<>>)

\* Only the executables are verified before the folder is used again: an
\* extraction that was cut short after them is not repeated.
verifyExtractedBinaries(s) == Exactly({UnpackedBin(s)}, {"ok"})
Unpack(F) == Copy(F)
extractArchive(s) == Needing(Unpack({UnpackedBin(s), UnpackedConf(s)}), Intact({Dl(s)}))

Extract(s) ==
    <<Unless(Rm({UnpackedBin(s), UnpackedConf(s)}), verifyExtractedBinaries(s)),
      Unless(extractArchive(s), verifyExtractedBinaries(s))>>

Source(s) == IF s \in ByArchive THEN Intact({UnpackedBin(s)}) ELSE Intact({Dl(s)})

\* mkdir, copy, chmod: a copy that is cut short keeps the wrong permissions.
installFile(F, r) == Needing(Copy(F), r)

performInstall(s) == <<installFile({Bin(s)}, Source(s))>>
installConfig(s, f) == <<Needing(Copy({f}), Intact({<<s, "download-configs">>}))>>
uninstallConfig(f) == <<Rm({f})>>
performConfiguration(s) == <<Link({Lnk(s)})>>
removeSandboxBinaries(s) == <<Rm({Bin(s)})>>
cleanupSymlinks(s) == <<Rm({Lnk(s)})>>
Cleanup(s) == <<Rm({UnpackedBin(s), UnpackedConf(s)})>>
replaceAllInFile(f) == Edit({f})

\* The executables must exist and carry mode 0755.
verifySandboxBinaries(s) == Exactly({Bin(s)}, {"ok"})
verifySandboxConfigs(s) == Intact({Lnk(s)})

\* VerifyExecutables checks the recorded version's checksums before a run.
VerifyExecutables(s) == Check(Exactly({Bin(s)}, {"ok"}))

(* ------------------------------- cri-o ---------------------------------- *)

copyCNIPlugins == installFile({CrioCni}, Intact({UnpackedConf("crio")}))

\* Configuration files that are already there are kept; the others are copied
\* in any order.
InstallCrio ==
    <<copyCNIPlugins,
      installFile({Bin("crio")}, Source("crio")),
      Needing(Keep({CrioConf, Service("crio"), CrioConfigs, CrioDefault}),
              Intact({UnpackedConf("crio")}))>>

\* The replacement for /usr/libexec and /etc/crio contains what it replaces.
patchCrioConf == Sed({CrioConf})
generateCrioInstallList == Copy({CrioInstallList})

\* So does the one for /usr/local/bin/crio.
patchServiceFileCrio == Sed({Service("crio")})
generateEtcDefaultCrioConfigurationFile == Copy({CrioDefault})

\* Parsed, merged and written back: the file is truncated in between.
UpdateTomlFile(f) == Needing(Edit({f}), Exactly({f}, {"ok", "patched", "twice"}))
updateCrioTomlConfig == UpdateTomlFile(CrioConf)

configureCrioSocketDropIn == <<Set({CrioDropIn}), Link({CrioDropInLink})>>

ConfigureCrio ==
    <<patchCrioConf, generateCrioInstallList, patchServiceFileCrio,
      Link({CrioContainers}), generateEtcDefaultCrioConfigurationFile,
      updateCrioTomlConfig, Link({Unit("crio")})>> \o configureCrioSocketDropIn

\* The directories are removed with everything in them.
UninstallCrio ==
    <<Rm({Bin("crio")}), Rm({CrioCni}),
      Rm({CrioConf, Service("crio")}), Wipe({CrioConfigs, CrioDefault, CrioDropIn}),
      Wipe(SandboxUnitDir), Rm({CrioInstallList})>>

RemoveConfigurationCrio ==
    <<Rm({Unit("crio")}), Rm({CrioDropInLink}), Rm({CrioContainers}), Rm({CrioDefault})>>

\* Existence only, for executables and configuration files alike.
verifySandboxBinariesCrio == Exists({Bin("crio")})
verifySandboxConfigsCrio ==
    Both(Exists({CrioConf, CrioConfigs, Service("crio"), CrioDropIn, CrioDefault}),
         Exists({Unit("crio"), CrioDropInLink, CrioContainers}))

\* The startup migration for hosts provisioned before the drop-in existed.
CrioSocketBridgePresent == Exists({CrioDropInLink})
ReconfigureCrioSocketDropIn == configureCrioSocketDropIn
EnsureCrioSocketSymlink == <<Link({CrioSocketLink})>>

(* ------------------- kubelet, kubeadm, cilium, teleport ------------------- *)

InstallKubelet == performInstall("kubelet") \o installConfig("kubelet", Service("kubelet"))
UninstallKubelet == removeSandboxBinaries("kubelet") \o uninstallConfig(Service("kubelet"))
patchServiceFileKubelet == replaceAllInFile(Service("kubelet"))
ConfigureKubelet ==
    performConfiguration("kubelet") \o <<patchServiceFileKubelet, Link({Unit("kubelet")})>>
RemoveConfigurationKubelet == <<Rm({Unit("kubelet")})>> \o cleanupSymlinks("kubelet")
verifySandboxConfigsKubelet ==
    Both(Exactly({Service("kubelet")}, {"patched"}), Intact({Unit("kubelet")}))

InstallKubeadm == performInstall("kubeadm") \o installConfig("kubeadm", KubeadmConf)
UninstallKubeadm == removeSandboxBinaries("kubeadm") \o uninstallConfig(KubeadmConf)
patchKubeadmConf == replaceAllInFile(KubeadmConf)
createKubeletServiceDirSymlink == Link({KubeadmConfLink})
configureKubeadmInit == Copy({KubeadmInit})
ConfigureKubeadm ==
    performConfiguration("kubeadm")
    \o <<patchKubeadmConf, createKubeletServiceDirSymlink, configureKubeadmInit>>
RemoveConfigurationKubeadm ==
    <<Rm({KubeadmConfLink}), Rm({KubeadmInit})>> \o cleanupSymlinks("kubeadm")
\* The links are not looked at.
verifySandboxConfigsKubeadm == Exists({KubeadmConf, KubeadmInit})

createCiliumConfigFile == Copy({CiliumConfig})
ConfigureCilium == performConfiguration("cilium") \o <<createCiliumConfigFile>>
RemoveConfigurationCilium == <<Rm({CiliumConfig})>> \o cleanupSymlinks("cilium")
verifySandboxConfigsCilium == Exists({CiliumConfig})

installServiceFileTeleport ==
    <<Needing(Copy({Service("teleport")}), Intact({UnpackedConf("teleport")}))>>
InstallTeleport == performInstall("teleport") \o installServiceFileTeleport
UninstallTeleport == removeSandboxBinaries("teleport")
runTeleportConfigure ==
    Needing(Copy({TeleportYaml}), Exactly({Bin("teleport")}, {"ok"}))
patchServiceFileTeleport == replaceAllInFile(Service("teleport"))
ConfigureTeleport ==
    performConfiguration("teleport")
    \o <<runTeleportConfigure, patchServiceFileTeleport, Link({Unit("teleport")})>>
RemoveConfigurationTeleport ==
    <<Rm({Unit("teleport")}), Logged(Rm({TeleportYaml}))>> \o cleanupSymlinks("teleport")

(* ------------------- which installer does what ------------------------ *)

Install(s) == CASE s = "crio" -> InstallCrio
                [] s = "kubelet" -> InstallKubelet
                [] s = "kubeadm" -> InstallKubeadm
                [] s = "teleport" -> InstallTeleport
                [] OTHER -> performInstall(s)

Uninstall(s) == CASE s = "crio" -> UninstallCrio
                  [] s = "kubelet" -> UninstallKubelet
                  [] s = "kubeadm" -> UninstallKubeadm
                  [] s = "teleport" -> UninstallTeleport
                  [] OTHER -> removeSandboxBinaries(s)

Configure(s) == CASE s = "crio" -> ConfigureCrio
                  [] s = "kubelet" -> ConfigureKubelet
                  [] s = "kubeadm" -> ConfigureKubeadm
                  [] s = "cilium" -> ConfigureCilium
                  [] s = "teleport" -> ConfigureTeleport
                  [] OTHER -> performConfiguration(s)

RemoveConfiguration(s) == CASE s = "crio" -> RemoveConfigurationCrio
                            [] s = "kubelet" -> RemoveConfigurationKubelet
                            [] s = "kubeadm" -> RemoveConfigurationKubeadm
                            [] s = "cilium" -> RemoveConfigurationCilium
                            [] s = "teleport" -> RemoveConfigurationTeleport
                            [] OTHER -> cleanupSymlinks(s)

VerifyInstalled(s) == IF s = "crio" THEN verifySandboxBinariesCrio ELSE verifySandboxBinaries(s)

VerifyConfigured(s) == CASE s = "crio" -> verifySandboxConfigsCrio
                         [] s = "kubelet" -> verifySandboxConfigsKubelet
                         [] s = "kubeadm" -> verifySandboxConfigsKubeadm
                         [] s = "cilium" -> verifySandboxConfigsCilium
                         [] OTHER -> verifySandboxConfigs(s)

PartsOf(s) == {Dl(s), <<s, "download-configs">>, UnpackedBin(s), UnpackedConf(s), Bin(s), Lnk(s)}
SoftwareThings(S) ==
    UNION {PartsOf(s) : s \in S}
    \cup (IF "crio" \in S THEN {Service("crio"), Unit("crio"), CrioConf, CrioConfigs, CrioDefault,
             CrioCni, CrioInstallList, CrioDropIn, CrioDropInLink, CrioContainers, CrioSocketLink}
          ELSE {})
    \cup (IF "kubelet" \in S THEN {Service("kubelet"), Unit("kubelet")} ELSE {})
    \cup (IF "kubeadm" \in S THEN {KubeadmConf, KubeadmConfLink, KubeadmInit} ELSE {})
    \cup (IF "cilium" \in S THEN {CiliumConfig} ELSE {})
    \cup (IF "teleport" \in S THEN {Service("teleport"), Unit("teleport"), TeleportYaml} ELSE {})
=============================================================================
