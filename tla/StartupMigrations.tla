-------------------------- MODULE StartupMigrations --------------------------
(***************************************************************************)
(* The migrations that run before every command of the CLI                 *)
(* (cmd/cli/commands/common/run.go, internal/migration, the migrations of  *)
(* internal/state and internal/workflows that RegisterMigrations lists).   *)
(*                                                                         *)
(* An invocation reads the version recorded in state.yaml, asks every      *)
(* migration whether it applies, runs those that do in registration order, *)
(* rolls back on an error, records the running version and goes on to the  *)
(* command.  The process may be killed between any two steps and the       *)
(* Kubernetes API may come and go.  Invocations follow one another.        *)
(*                                                                         *)
(* Versions are ranks: 0 stands for 0.0.0 and anything before 0.19.1, then *)
(* 1 = 0.19.1, 2 = 0.19.2, 3 = 0.21.0, 4 = 0.25.0, the boundaries of the   *)
(* version-gated migrations.                                               *)
(***************************************************************************)
EXTENDS Integers

CONSTANTS
    Binaries,    \* versions of the CLI that get invoked
    Origins,     \* versions that may have provisioned the host; -1: not provisioned
    MaxFailures, \* bound on kills and on steps that fail
    MaxOutages   \* bound on outages of the Kubernetes API

ASSUME ConstantsAssumption ==
    /\ Binaries \subseteq 1..4 /\ Binaries # {}
    /\ Origins \subseteq -1..4
    /\ MaxFailures \in Nat /\ MaxOutages \in Nat

VARIABLES
    ver,        \* provisioner.version in state.yaml, NoFile when there is none
    schema,     \* state.version of state.yaml: "v1" or "v2"
    legacy,     \* *.installed and *.configured files exist
    legacyBin,  \* the "weaver" binary exists
    kube,       \* /etc/kubernetes/admin.conf exists
    api,        \* the Kubernetes API answers
    config,     \* settings in the cilium-config ConfigMap
    agents,     \* settings the running Cilium agents have read
    bm,         \* the Cilium Bandwidth Manager is enabled
    crio,       \* parts of the cri-o socket bridge in place
    pc, bin,    \* where the invocation is, and its version
    onDisk,     \* onDiskCLIVersion
    todo, done, \* migrations of this pass still to run, and run
    failures,   \* kills and failed steps so far
    outages,
    \* history of the model
    restarts,   \* restarts of the Cilium agents, up to RestartCap
    clean,      \* no kill, failed pass, failed record or downgrade so far
    staleRecord \* the recorded version ran ahead of the host: an older binary could
                \* not record that it provisioned it, a Cilium migration was skipped
                \* as the API did not answer, or the unified-state migration wrote
                \* the version and its pass did not end

hostVars == <<legacyBin, kube, config, agents, bm, crio>>
passVars == <<pc, bin, onDisk, todo, done>>
envVars == <<api, outages>>
ghosts == <<restarts, clean, staleRecord>>
vars == <<ver, schema, legacy, hostVars, passVars, failures, envVars, ghosts>>

NoFile == -1
RestartCap == 2

\* The Cilium settings the template of version v renders.
Template(v) == {s \in {"acceleration-disabled", "host-legacy-routing"} :
                  v >= IF s = "acceleration-disabled" THEN 1 ELSE 3}

Init ==
    \E o \in Origins :
      /\ kube = (o >= 0)
      /\ ver = IF o >= 1 THEN o ELSE NoFile
      /\ schema \in {"v1", "v2"}
      /\ legacy \in (IF o = 0 THEN BOOLEAN ELSE {FALSE})
      /\ legacyBin \in (IF o = 0 THEN BOOLEAN ELSE {FALSE})
      /\ config = Template(o)
      /\ agents \in (IF o = 1 THEN {{}, Template(o)} ELSE {Template(o)})
      /\ bm \in BOOLEAN
      /\ crio = IF o >= 4 THEN {"dropin", "loaded", "link"} ELSE {}
      /\ pc = "idle" /\ bin = 0 /\ onDisk = NoFile /\ todo = {} /\ done = {}
      /\ api = TRUE /\ failures = 0 /\ outages = 0
      /\ restarts = 0 /\ clean = TRUE /\ staleRecord = FALSE

-----------------------------------------------------------------------------
\* RegisterMigrations: the place of each migration in the registry, whose order
\* the pass keeps; and the boundary of each version-gated migration.
Registered == [unified |-> 1, schema |-> 2, binary |-> 3, acceleration |-> 4, restart |-> 5,
               routing |-> 6, crio |-> 7]
MinVersion == [acceleration |-> 1, restart |-> 2, routing |-> 3, crio |-> 4]

ResolveInstalledCLIVersion(v) == IF v = NoFile THEN 0 ELSE v

\* Variant: the boundary release itself is not counted as having crossed it.
CrossesBoundary_Strict(m, installed, current) ==
    m \in DOMAIN MinVersion /\ installed < MinVersion[m] /\ current > MinVersion[m]

CrossesBoundary(m, installed, current) ==
    m \in DOMAIN MinVersion /\ installed < MinVersion[m] /\ current >= MinVersion[m]

Applies(m, current) ==
    \/ m = "unified" /\ legacy
    \/ m = "schema" /\ ver # NoFile /\ schema = "v1"
    \/ m = "binary" /\ legacyBin
    \/ CrossesBoundary(m, ResolveInstalledCLIVersion(ver), current)

AfterMigrations == "persist"

\* RunStartupMigrations up to the workflow.
Invoke(v) ==
    /\ pc = "idle"
    /\ bin' = v
    /\ onDisk' = ver
    /\ todo' = {m \in DOMAIN Registered : Applies(m, v)}
    /\ done' = {}
    /\ pc' = IF todo' = {} THEN AfterMigrations ELSE "migrate"
    /\ clean' = (clean /\ v >= ver)
    /\ UNCHANGED <<ver, schema, legacy, hostVars, failures, envVars, restarts, staleRecord>>

\* The first of the migrations still to run.
At(m) == pc = "migrate" /\ m \in todo /\ \A n \in todo : Registered[m] <= Registered[n]

StepEnds(m) ==
    /\ done' = done \cup {m}
    /\ todo' = todo \ {m}
    /\ pc' = IF todo' = {} THEN AfterMigrations ELSE "migrate"
    /\ UNCHANGED <<bin, onDisk>>

StepErrs ==
    /\ pc' = "rollback"
    /\ todo' = {}
    /\ UNCHANGED <<bin, onDisk, done>>

\* Something outside fails: a command, a write or the process.
Failure == failures < MaxFailures /\ failures' = failures + 1

StepDone(m) == StepEnds(m) /\ UNCHANGED failures
StepFails == StepErrs /\ Failure
StepAt(l) == pc' = l /\ UNCHANGED <<bin, onDisk, todo, done, failures>>

-----------------------------------------------------------------------------

\* UnifiedStateMigration.Execute: a new manager, which is not refreshed, so its
\* flush has no baseline and fails when there is a state file already; the state
\* it writes carries the running version.  Removal is best effort.
UnifiedFlush ==
    /\ At("unified")
    /\ IF ver # NoFile
       THEN StepErrs /\ UNCHANGED <<ver, schema, failures>>
       ELSE ver' = bin /\ schema' = "v2" /\ StepAt("unified-remove")
    /\ UNCHANGED <<legacy, hostVars, envVars, ghosts>>

UnifiedRemove ==
    /\ pc = "unified-remove"
    /\ \/ legacy' = FALSE /\ StepDone("unified")
       \/ UNCHANGED legacy /\ StepEnds("unified") /\ Failure
    /\ UNCHANGED <<ver, schema, hostVars, envVars, ghosts>>

\* HelmReleaseSchemaV2Migration.Execute rewrites the file in place.
SchemaExecute ==
    /\ At("schema")
    /\ schema' = "v2"
    /\ StepDone("schema")
    /\ UNCHANGED <<ver, legacy, hostVars, envVars, ghosts>>

BinaryExecute ==
    /\ At("binary")
    /\ \/ legacyBin' = FALSE /\ StepDone("binary")
       \/ UNCHANGED legacyBin /\ StepFails
    /\ UNCHANGED <<ver, schema, legacy, kube, config, agents, bm, crio, envVars, ghosts>>

\* The Cilium migrations report success without doing anything when the API does
\* not answer.
SkippedInOutage == staleRecord' = (staleRecord \/ (kube /\ ~api))

\* `cilium upgrade` with the re-rendered template.
CiliumUpgrade(m) == config' = config \cup Template(bin) /\ StepDone(m)

AccelerationExecute ==
    /\ At("acceleration")
    /\ \/ /\ ~kube \/ ~api \/ "acceleration-disabled" \in config
          /\ UNCHANGED config /\ StepDone("acceleration")
       \/ kube /\ api /\ "acceleration-disabled" \notin config /\ CiliumUpgrade("acceleration")
       \/ /\ kube /\ api /\ "acceleration-disabled" \notin config
          /\ UNCHANGED config /\ StepFails
    /\ SkippedInOutage
    /\ UNCHANGED <<ver, schema, legacy, legacyBin, kube, agents, bm, crio, envVars,
                   restarts, clean>>

\* Variant: the test for the setting is the wrong way round.
RestartExecute_Skips ==
    /\ At("restart")
    /\ IF kube /\ api /\ "acceleration-disabled" \notin config
       THEN /\ agents' = config
            /\ restarts' = IF restarts < RestartCap THEN restarts + 1 ELSE restarts
            /\ StepDone("restart") \/ StepFails
       ELSE UNCHANGED <<agents, restarts>> /\ StepDone("restart")
    /\ SkippedInOutage
    /\ UNCHANGED <<ver, schema, legacy, legacyBin, kube, config, bm, crio, envVars,
                   clean>>

\* CiliumAgentRestartMigration.Execute: the agents read the ConfigMap when they
\* start.  The rollout may have happened although the wait for it fails.
RestartExecute ==
    /\ At("restart")
    /\ IF kube /\ api /\ "acceleration-disabled" \in config
       THEN /\ agents' = config
            /\ restarts' = IF restarts < RestartCap THEN restarts + 1 ELSE restarts
            /\ StepDone("restart") \/ StepFails
       ELSE UNCHANGED <<agents, restarts>> /\ StepDone("restart")
    /\ SkippedInOutage
    /\ UNCHANGED <<ver, schema, legacy, legacyBin, kube, config, bm, crio, envVars,
                   clean>>

\* CiliumHostLegacyRoutingMigration.Execute fails fast on the Bandwidth Manager.
RoutingExecute ==
    /\ At("routing")
    /\ LET skipped == ~kube \/ ~api
           needed == ~skipped /\ ~bm /\ "host-legacy-routing" \notin config
       IN  \/ skipped /\ UNCHANGED config /\ StepDone("routing")
           \/ ~skipped /\ bm /\ UNCHANGED <<config, failures>> /\ StepErrs
           \/ ~skipped /\ ~bm /\ ~needed /\ UNCHANGED config /\ StepDone("routing")
           \/ needed /\ CiliumUpgrade("routing")
           \/ needed /\ UNCHANGED config /\ StepFails
    /\ SkippedInOutage
    /\ UNCHANGED <<ver, schema, legacy, legacyBin, kube, agents, bm, crio, envVars,
                   restarts, clean>>

\* CrioSocketDropInMigration.Execute: drop-in, daemon-reload, symlink; nothing at
\* all when the drop-in is there.
CrioDropIn ==
    /\ At("crio")
    /\ \/ (~kube \/ "dropin" \in crio) /\ UNCHANGED crio /\ StepDone("crio")
       \/ kube /\ "dropin" \notin crio /\ crio' = crio \cup {"dropin"} /\ StepAt("crio-reload")
       \/ kube /\ "dropin" \notin crio /\ UNCHANGED crio /\ StepFails
    /\ UNCHANGED <<ver, schema, legacy, legacyBin, kube, config, agents, bm, envVars, ghosts>>

CrioReload ==
    /\ pc = "crio-reload"
    /\ \/ crio' = crio \cup {"loaded"} /\ StepAt("crio-link")
       \/ UNCHANGED crio /\ StepFails
    /\ UNCHANGED <<ver, schema, legacy, legacyBin, kube, config, agents, bm, envVars, ghosts>>

CrioLink ==
    /\ pc = "crio-link"
    /\ \/ crio' = crio \cup {"link"} /\ StepDone("crio")
       \/ UNCHANGED crio /\ StepFails
    /\ UNCHANGED <<ver, schema, legacy, legacyBin, kube, config, agents, bm, envVars, ghosts>>

Execute ==
    \/ UnifiedFlush \/ UnifiedRemove \/ SchemaExecute \/ BinaryExecute
    \/ AccelerationExecute \/ RestartExecute \/ RoutingExecute
    \/ CrioDropIn \/ CrioReload \/ CrioLink

-----------------------------------------------------------------------------
\* This pass has written its version and is not over.
Ahead == pc \notin {"persist", "command"} /\ ver = bin /\ onDisk # bin

\* RollbackOnError: the migrations run so far, last first.  The unified-state
\* rollback writes legacy files for the software in a state that it has not
\* read, so it writes none.  The schema rollback turns the file back.  The
\* others do nothing.
Rollback ==
    /\ pc = "rollback"
    /\ IF done = {}
       THEN /\ pc' = "idle" /\ clean' = FALSE
            /\ staleRecord' = (staleRecord \/ Ahead)
            /\ UNCHANGED <<done, schema>>
       ELSE /\ \E m \in done :
                 /\ \A n \in done : Registered[n] <= Registered[m]
                 /\ done' = done \ {m}
                 /\ schema' = IF m = "schema" THEN "v1" ELSE schema
            /\ UNCHANGED <<pc, clean, staleRecord>>
    /\ UNCHANGED <<ver, legacy, hostVars, envVars, failures, bin, onDisk, todo, restarts>>

\* Variant: the version is recorded only when a state file exists.
PersistVersion_OnlyExisting ==
    /\ pc = "persist"
    /\ pc' = "command"
    /\ IF onDisk # bin /\ kube /\ ver # NoFile THEN ver' = bin ELSE UNCHANGED ver
    /\ UNCHANGED <<schema, legacy, hostVars, failures, envVars, bin, onDisk, todo, done,
                   ghosts>>

\* The end of RunStartupMigrations: persistProvisionerVersion, best effort.
PersistVersion ==
    /\ pc = "persist"
    /\ pc' = "command"
    /\ IF onDisk # bin /\ kube
       THEN \/ ver' = bin /\ UNCHANGED <<clean, failures>>
            \/ Failure /\ clean' = FALSE /\ UNCHANGED ver
       ELSE UNCHANGED <<ver, clean, failures>>
    /\ schema' = IF ver = NoFile THEN "v2" ELSE schema
    /\ UNCHANGED <<legacy, hostVars, envVars, bin, onDisk, todo, done, restarts, staleRecord>>

\* A flush of a refreshed state, which is stamped with the running version.
Stamp ==
    /\ ver' = bin
    /\ schema' = IF ver = NoFile THEN "v2" ELSE schema

\* The command itself: it reads only, or flushes, or provisions the host, which
\* records the version as best it can.
Command ==
    /\ pc = "command"
    /\ pc' = "idle"
    /\ \/ UNCHANGED <<ver, schema, kube, config, agents, crio, clean, staleRecord,
                      failures>>
       \/ Stamp /\ UNCHANGED <<kube, config, agents, crio, clean, staleRecord, failures>>
       \/ /\ ~kube /\ kube' = TRUE
          /\ config' = Template(bin) /\ agents' = Template(bin)
          /\ crio' = IF bin >= 4 THEN {"dropin", "loaded", "link"} ELSE {}
          /\ \/ Stamp /\ UNCHANGED <<clean, staleRecord, failures>>
             \/ /\ Failure /\ clean' = FALSE
                /\ staleRecord' = (staleRecord \/ ver > bin)
                /\ UNCHANGED <<ver, schema>>
    /\ UNCHANGED <<legacy, legacyBin, bm, envVars, bin, onDisk, todo, done, restarts>>

-----------------------------------------------------------------------------
Crash ==
    /\ pc # "idle" /\ Failure
    /\ pc' = "idle" /\ todo' = {} /\ done' = {}
    /\ clean' = FALSE
    /\ staleRecord' = (staleRecord \/ Ahead)
    /\ UNCHANGED <<ver, schema, legacy, hostVars, bin, onDisk, envVars, restarts>>

ApiChanges ==
    /\ api' = ~api
    /\ outages' = IF api THEN outages + 1 ELSE outages
    /\ outages' <= MaxOutages
    /\ UNCHANGED <<ver, schema, legacy, hostVars, passVars, failures, ghosts>>

\* The operator disables the Bandwidth Manager, as the error asks them to.
DisableBandwidthManager ==
    /\ bm /\ bm' = FALSE
    /\ UNCHANGED <<ver, schema, legacy, legacyBin, kube, config, agents, crio, passVars, failures,
                   envVars, ghosts>>

Next ==
    \/ \E v \in Binaries : Invoke(v)
    \/ Execute \/ Rollback \/ PersistVersion \/ Command
    \/ Crash \/ ApiChanges \/ DisableBandwidthManager

Spec == Init /\ [][Next]_vars

\* A started process runs on.  The operator keeps using the newest binary and
\* follows the error's resolution.
Newest == CHOOSE v \in Binaries : \A w \in Binaries : w <= v
FairSpec ==
    /\ Spec
    /\ WF_vars(Execute \/ Rollback \/ PersistVersion \/ Command)
    /\ SF_vars(Invoke(Newest))
    /\ WF_vars(DisableBandwidthManager)
-----------------------------------------------------------------------------

\* What the migrations up to version v are for, on a provisioned host.
MigratedTo(v) ==
    /\ v >= 1 => "acceleration-disabled" \in config
    /\ v >= 2 => "acceleration-disabled" \in agents
    /\ v >= 3 => "host-legacy-routing" \in config
    /\ v >= 4 => "dropin" \in crio

\* RunStartupMigrations and Refresh stamp the running version: between two
\* invocations a recorded version means that the migrations up to it have taken
\* effect, whatever was killed, failed or downgraded before, except where the
\* record ran ahead of the host (staleRecord).
VersionMeansMigrated == kube /\ pc = "idle" /\ ~staleRecord => MigratedTo(ver)

\* RunStartupMigrations: as long as every pass succeeds and is recorded, the
\* agents are restarted at most once.
RestartedOnce == clean => restarts <= 1

\* The startup passes converge: on a provisioned host every migration up to the
\* newest binary in use takes effect for good, after any number of failed passes,
\* unless the record ran ahead of the host or a unified and a legacy state file
\* are left together, over which UnifiedStateMigration.Execute fails each time.
Converges ==
    kube ~> \/ staleRecord
            \/ pc = "idle" /\ legacy /\ ver # NoFile
            \/ [](MigratedTo(Newest))
==============================================================================
