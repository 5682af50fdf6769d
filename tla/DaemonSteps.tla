----------------------------- MODULE DaemonSteps -----------------------------
(***************************************************************************)
(* The steps that install the provisioner itself and its daemon, and take  *)
(* them away (internal/workflows/steps: step_weaver, step_weaver_purge,    *)
(* step_ensure_*_owner, step_daemon, step_daemon_block_node,               *)
(* step_daemon_provision) and the workflows of internal/workflows (weaver, *)
(* daemon) that put them in order.                                         *)
(***************************************************************************)
EXTENDS NetworkPlane

WeaverUser == <<"weaver", "user">>
WeaverHome == <<"weaver", "home">>           \* /home/weaver
Home == <<"weaver", "folders">>              \* /opt/solo/weaver and its folders
WeaverBin == <<"weaver", "bin">>
WeaverLink == <<"weaver", "link">>
Sudoers == <<"weaver", "sudoers">>
HederaUser == <<"hedera", "user">>
HederaMember == <<"hedera", "weaver-is-member">>
DaemonBin == <<"daemon", "bin">>
DaemonDownload == <<"daemon", "download">>
DaemonService == <<"daemon", "service">>     \* the unit file in the sandbox
DaemonLink == <<"daemon", "unit">>           \* its link among the system's units
DaemonEnabled == <<"daemon", "enabled">>
DaemonRunning == <<"daemon", "running">>     \* ok: with the block node monitor; patched: without it
DaemonYaml == <<"daemon", "yaml">>           \* ok: the block node monitor is on; patched: it is off
DaemonKubeconfig == <<"daemon", "kubeconfig">>
RBAC == {<<"daemon", "sa">>, <<"daemon", "role">>, <<"daemon", "binding">>, <<"daemon", "secret">>}
AdminConf == Kubeconfig                      \* /etc/kubernetes/admin.conf goes with the kubeconfig
NetworkDir == FirewallFiles \cup {WeaverNft} \* /etc/solo-provisioner
              \cup {Policy(p) : p \in PolicyNames}
              \cup {EgressDevice, EgressClasses, IngressDevice, IngressClasses}

WeaverThings == {WeaverUser, WeaverHome, Home, WeaverBin, WeaverLink, Sudoers, HederaUser, HederaMember}
DaemonThings ==
    {DaemonBin, DaemonDownload, DaemonService, DaemonLink, DaemonEnabled, DaemonRunning, DaemonYaml,
     DaemonKubeconfig} \cup RBAC

(* ------------------------- owners and the weaver --------------------------- *)

CheckPrivilegesStep == Step({}, <<Set({})>>, <<>>)

CreateUserWithId(u) == Set({u})
AddUserToGroup == Needing(Set({HederaMember}), Exists({WeaverUser}))
EnsureWeaverOwnerStep ==
    Step({}, <<Unless(CreateUserWithId(WeaverUser), Exists({WeaverUser})), Copy({WeaverHome})>>, <<>>)

\* The weaver's user joins the group, so it has to be there.
EnsureHederaOwnerStep ==
    Step({}, <<Unless(CreateUserWithId(HederaUser), Exists({HederaUser})), AddUserToGroup>>, <<>>)

SetupHomeDirectoryStructure == Step({}, <<Set({Home})>>, <<>>)

\* Written beside and renamed; the link is replaced, and does without.
InstallWeaver == Step({}, <<Set({WeaverBin}), Logged(Link({WeaverLink}))>>, <<Rm({WeaverBin})>>)
InstallColocatedDaemonBinary == Step({}, <<Logged(Set({DaemonBin}))>>, <<>>)
InstallSudoersStep == Step({}, <<Set({Sudoers})>>, <<Rm({Sudoers})>>)
RemoveSudoersStep == Step({}, <<Rm({Sudoers})>>, <<>>)

\* A binary that is not there is an error.
UninstallWeaver ==
    Step({}, <<Needing(Rm({WeaverBin}), Exists({WeaverBin})), Logged(Rm({WeaverLink}))>>, <<>>)

CheckNoProvisionedCluster == Step({}, <<Check(Gone({AdminConf}))>>, <<>>)
RemoveNetworkConfig == Step({}, <<Wipe(NetworkDir)>>, <<>>)

(* ---------------------- the daemon's own configuration --------------------- *)

NotContent(C) == Exactly({DaemonYaml}, Content \ C)

\* What is cut short does not parse; a file that is not there is no error.
LoadDaemonConfig == Check(NotContent({"torn"}))
WriteDaemonConfig(enable) == IF enable THEN Copy({DaemonYaml}) ELSE Rewrite({DaemonYaml})

\* The file is parsed, changed, validated and written in place.  Only after
\* that does the step remember whether there was one and what was in it, and
\* a rollback that remembers nothing removes the file.
WriteBlockNodeDaemonConfigStep(enable) ==
    Step({},
         <<LoadDaemonConfig,
           Mark(Unless(Check(Nothing), NotContent({"ok"})), "read-on"),
           Mark(Unless(Check(Nothing), NotContent({"patched"})), "read-off"),
           WriteDaemonConfig(enable),
           When(Mark(Check(Nothing), "was-on"), {"read-on"}),
           When(Mark(Check(Nothing), "was-off"), {"read-off"})>>,
         <<Barring(Rm({DaemonYaml}), {"was-on", "was-off"}),
           When(Copy({DaemonYaml}), {"was-on"}), When(Rewrite({DaemonYaml}), {"was-off"})>>)

\* The daemon reads its configuration once, when it starts, and does not
\* start without one.  A component whose kubeconfig cannot be used is skipped.
DaemonStartable ==
    Both(Exactly({DaemonBin}, {"ok"}), Intact({DaemonService, DaemonLink, DaemonYaml}))
MonitorWanted == Both(Exactly({DaemonYaml}, {"ok"}), Intact({DaemonKubeconfig}))
StartDaemon ==
    <<Mark(Unless(Check(Nothing), MonitorWanted), "without"),
      Barring(Needing(Set({DaemonRunning}), DaemonStartable), {"without"}),
      When(Needing(Replace({DaemonRunning}), DaemonStartable), {"without"})>>
StopDaemon == <<Rm({DaemonRunning})>>
RestartDaemonServiceStep == Step({Gone({DaemonRunning})}, StopDaemon \o StartDaemon, <<>>)
StartDaemonServiceStep == Step({Exists({DaemonRunning})}, StartDaemon, <<>>)
StopDaemonServiceStep == Step({}, StopDaemon, <<>>)

(* ------------------------ the daemon's service ----------------------------- *)

\* From the catalog, an executable that exists is taken for installed,
\* whatever is in it.  A local file is copied over what is there.
downloadSelfRelease == Fetch({DaemonDownload})
installSelfRelease == Needing(Copy({DaemonBin}), Intact({DaemonDownload}))
verifyDaemonBinary == Exists({DaemonBin})
InstallDaemonBinaryStep(local) ==
    Step({}, <<Check(Gone({DaemonRunning}))>>
             \o IF local THEN <<Set({}), Copy({DaemonBin})>>
                ELSE <<Mark(Unless(Check(Nothing), verifyDaemonBinary), "missing")>>
                     \o AllWhen(<<downloadSelfRelease, installSelfRelease, Logged(Rm({DaemonDownload}))>>,
                                {"missing"}),
         <<Logged(Rm({DaemonBin}))>>)

removeDaemonServiceFiles == <<Logged(Rm({DaemonLink})), Logged(Rm({DaemonService}))>>
installDaemonServiceFiles == <<Mark(Copy({DaemonService}), "written"), Mark(Link({DaemonLink}), "linked")>>

\* A failure up to the enabling takes the files away again; the start does not.
InstallDaemonServiceStep ==
    <<Mending(Step({}, <<Set({})>> \o installDaemonServiceFiles \o <<DaemonReload, Set({DaemonEnabled})>>,
                   <<>>),
              AllWhen(removeDaemonServiceFiles \o <<DaemonReload>>, {"written", "linked"})),
      Step({}, StartDaemon, <<>>)>>
RemoveDaemonServiceStep ==
    Step({}, AllLogged(StopDaemon \o <<Rm({DaemonEnabled})>>) \o removeDaemonServiceFiles
             \o <<Logged(DaemonReload)>>, <<>>)
RemoveDaemonBinaryStep == Step({}, <<Rm({DaemonBin})>>, <<>>)
RemoveDaemonConfigStep == Step({}, <<Rm({DaemonYaml})>>, <<>>)

CheckDaemonServiceStep ==
    Step({}, <<Check(Exists({DaemonService, DaemonLink, DaemonEnabled, DaemonRunning, DaemonBin, Sudoers}))>>,
         <<>>)

\* A daemon that does not answer is not checked; one that does must have the
\* component, when the workflow expects it.
CheckDaemonComponentPrerequisitesStep(expected) ==
    Step({Gone({DaemonRunning})},
         <<IF expected THEN Check(Exactly({DaemonRunning}, {"ok"})) ELSE Set({})>>, <<>>)

CheckClusterStep == Step({}, <<Check(Reachable)>>, <<>>)

\* One mark per object, so that a rollback deletes what this run created.
Objects == <<<<"daemon", "sa">>, <<"daemon", "role">>, <<"daemon", "binding">>, <<"daemon", "secret">>>>
ObjectMark == <<"sa", "role", "binding", "secret">>
CreateDaemonRBACStep ==
    Step({}, [k \in 1 .. 4 |-> Mark(Unless(Needing(Set({Objects[k]}), Reachable), Exists({Objects[k]})),
                                    ObjectMark[k])] \o <<>>,
         [k \in 1 .. 4 |-> LET j == <<3, 2, 1, 4>>[k]
                           IN  When(Logged(Needing(Rm({Objects[j]}), Reachable)), {ObjectMark[j]})] \o <<>>)
DeleteDaemonRBACStep ==
    Step({}, [k \in 1 .. 4 |-> Logged(Needing(Rm({Objects[<<3, 2, 1, 4>>[k]]}), Reachable))] \o <<>>, <<>>)

\* The token's secret is awaited first.
WriteDaemonKubeconfigStep ==
    Step({}, <<Needing(Copy({DaemonKubeconfig}), Both(Reachable, Intact(RBAC)))>>,
         <<Logged(Rm({DaemonKubeconfig}))>>)
RemoveDaemonKubeconfigStep == Step({}, <<Logged(Rm({DaemonKubeconfig}))>>, <<>>)

(* ----------------------------- the workflows ------------------------------- *)

NewSelfInstallWorkflow ==
    <<CheckPrivilegesStep, EnsureWeaverOwnerStep, SetupHomeDirectoryStructure, InstallWeaver,
      InstallColocatedDaemonBinary, InstallSudoersStep>>

\* Mutant: the shared unit is looked at while the network files are there.
SelfUninstallUnitFirst ==
    <<CheckPrivilegesStep, CheckNoProvisionedCluster, RemoveDaemonServiceStep, RemoveDaemonBinaryStep,
      NftServiceTeardown, RemoveNetworkConfig, TcEgressServiceTeardown, RemoveSudoersStep, UninstallWeaver>>

\* The network files go before the shared unit, which is kept while the host
\* firewall's file is there.
NewSelfUninstallWorkflow ==
    <<CheckPrivilegesStep, CheckNoProvisionedCluster, RemoveDaemonServiceStep, RemoveDaemonBinaryStep,
      RemoveNetworkConfig, NftServiceTeardown, TcEgressServiceTeardown, RemoveSudoersStep, UninstallWeaver>>

\* A configuration that is there is used as it is; otherwise one with the
\* block node's monitor is written.
resolveDaemonConfig ==
    Step({}, <<LoadDaemonConfig, Unless(WriteDaemonConfig(TRUE), Exists({DaemonYaml}))>>, <<>>)

\* The cluster's part is only for a configuration that needs the cluster.
ForSpecs(steps) == [k \in 1 .. Len(steps) |-> [steps[k] EXCEPT !.skip = {Exactly({DaemonYaml}, {"patched"})}]]
                   \o <<>>
NewDaemonServiceInstallWorkflow(local, forced) ==
    LET specs == <<CheckClusterStep, CreateDaemonRBACStep, WriteDaemonKubeconfigStep>>
    IN
    <<CheckPrivilegesStep, InstallDaemonBinaryStep(local), EnsureHederaOwnerStep>>
    \o (IF forced THEN specs ELSE ForSpecs(specs))
    \o InstallDaemonServiceStep
    \o <<CheckDaemonServiceStep, CheckDaemonComponentPrerequisitesStep(FALSE)>>

\* The block node commands force the monitor on, whatever the configuration
\* says; one that cannot be read is an error.  An executable that is there is
\* its own source, which leaves it alone.
provisionBlockNodeDaemon ==
    <<Step({}, <<LoadDaemonConfig>>, <<>>)>> \o NewDaemonServiceInstallWorkflow(FALSE, TRUE)

\* The configuration is read before the first step and removed by one in the
\* middle, so that the steps after it go by what was read: they are one step
\* here, with a mark for it.
NewDaemonServiceUninstallWorkflow ==
    <<CheckPrivilegesStep,
      Step({}, <<Mark(Unless(Check(Nothing), NotContent({"ok"})), "specs")>>
               \o RemoveDaemonServiceStep.does \o RemoveDaemonBinaryStep.does
               \o AllWhen(RemoveDaemonKubeconfigStep.does, {"specs"}) \o RemoveDaemonConfigStep.does
               \o AllWhen(DeleteDaemonRBACStep.does, {"specs"}), <<>>)>>
NewDaemonServiceStartWorkflow == <<CheckPrivilegesStep, StartDaemonServiceStep, CheckDaemonServiceStep>>
NewDaemonServiceStopWorkflow == <<CheckPrivilegesStep, StopDaemonServiceStep>>
NewDaemonServiceCheckWorkflow == <<CheckPrivilegesStep, CheckDaemonServiceStep>>

\* After a block node was installed or reconfigured.
BlockNodeDaemonConfigWorkflow ==
    <<WriteBlockNodeDaemonConfigStep(TRUE), RestartDaemonServiceStep,
      CheckDaemonComponentPrerequisitesStep(TRUE)>>
=============================================================================
