# solo-weaver in TLA+

TLA+ specifications of solo-weaver: its concurrent and crash-prone parts, and the commands that provision a host
as workflows of steps that can fail anywhere. They are model-checked with TLC and, for the safety properties
that matter most, proved with TLAPS for every value of the constants.

Paths below are relative to the repository. `PROJECT.json` maps each definition to the lines it models and lists
the components, the runs, the hazards, the findings, and for each checked property a small change of the
code (a *variant*, an operator such as `StopWait_NoWait` next to `StopWait`) that violates it.

## The system

solo-weaver provisions a node of a Hedera network. It is a command line tool and a daemon.

| part | state | operations | interacts with |
|---|---|---|---|
| **CLI invocation** (`cmd/cli`, `internal/bll`, `internal/workflows`) | none of its own | startup migrations, then one intent: a workflow of steps with roll-back | state file, host, cluster |
| **State manager** (`internal/state`, `internal/rsl`, `internal/reality`) | `state.yaml` with a hash, `action_history.yaml`, an in-memory copy with a baseline | refresh, set, flush | other invocations, people who edit the file |
| **Startup migrations** (`internal/migration`, `internal/workflows/migration_*.go`) | recorded version, legacy files, Cilium and cri-o configuration | detect, execute, roll back, record the version | state manager, Kubernetes, systemd |
| **Migration monitor** (`internal/daemon/consensus/migration_monitor.go`) | one soak slot, a channel, a state file | start, stop, resume, watch, decommission | HTTP clients, the daemon's life cycle |
| **Upgrade monitor** (`internal/daemon/consensus/upgrade_monitor.go`) | one execution slot, finished operations, a client with a credential | list, watch, execute | Kubernetes API, kubeconfig |
| **Traffic-shaper monitor** (`internal/daemon/blocknode`) | discovered endpoint, attached veths, digest of the last apply | watch pods, attach tc, poll statusz, reconcile | Kubernetes API, privileged worker, nft |
| **Network planes** (`internal/network/{policy,shape,firewall}`) | kernel tables, boot artifacts, registries, one lock each | create, add, remove, set, delete, boot | daemon worker, operators, systemd |
| **Workflow steps and installers** (`internal/workflows`, `pkg/software`, `internal/blocknode`, `internal/bll`) | files, units, Helm releases, storage, step flags | install, configure, upgrade, reset, uninstall, roll back | state manager, network planes, Kubernetes |
| **The rest** (kube and Helm clients, UI, models, helpers) | none that others race for | | |

What makes it hard: invocations of the CLI share files without a lock; the daemon's goroutines share fields
through atomics, channels and mutexes, and are served by HTTP before they have resumed; either process can be
killed between any two writes; watches close and credentials rotate; a privileged worker may fail half-way
through; and a version recorded early hides work that was never done.

## Modules

Each module has its state, `Init`, one action per step of the code between two accesses to shared state,
and `Next`. Variables and operators keep the names of the code where TLA+ allows it. Variables listed last in a
module, under "history", are read by properties only and never by a guard.

### MigrationMonitor

Models `migration_monitor.go` and the soak handlers in `handler.go`. Four kinds of goroutine: HTTP handlers that
start (`EnqueueSwap`, `EnqueueSend`, `EnqueueStatus` are the three atomic steps of `TryEnqueue`) and stop
(`StopLoad` to `StopRemove` are those of `TryStop`), the dispatch loop (`Resume*` is `resumeIfNeeded`; `Run*` the
loop), and watchers (`Watch*`). `ProcessEnd` is a kill at any point or the normal end; the state file survives it.
With `FaultyDisk` every read, write and removal may fail. The criteria are reduced to whether all are green in a
tick. A panic in a criterion is `WatchPanic`.

### UpgradeMonitor

Models `upgrade_monitor.go`: list and seed, dispatch in order of age, the watch from the list's resource version,
`handleEvent` and the execute goroutine, which ends with an outcome `nil`, `error` or `panic`. The credential is a
generation number on the server, on disk and in the client. `leftOver` is history: resources that were seen while
the slot was busy or whose execution failed, which only the next list will see again.

### StateManager

Models `state_manager.go`, `HandleIntent` of `base_handler.go`, the resolver and the two checkers that refresh the
manager, and the state-file writes of `network firewall`. A state record is a set of *marks*, one for each command
or edit that set something, in the two parts that are carried over from different refreshes. The hash of a record
is the record. `Edit` is a person who changes the file and leaves the stored hash, drops it, or breaks the file.
History: `lost` says how a setting came to be overwritten unread, which `lateProbe`, `lateWrite` and `kept` serve
to classify.

### StartupMigrations

Models `RunStartupMigrations` and all seven registered migrations with their failures, the roll-back, the recording
of the version, and the command that follows (reads, flushes or provisions). The migrations of a pass are a set, taken
in the order of registration (`At`) and rolled back in reverse. Versions are ranks between the boundaries. `staleRecord` is history: it marks the executions in which the recorded version ran ahead of
the host, in one of three named ways (see Divergences).

### StatuszPoll, PodWatcher, TrafficShaper

`StatuszPoll` models `runStatuszPoll` with the digest gate, the check and reconcile workers and the policy lock,
with the pod watcher as an arbitrary environment. `PodWatcher` models `pod_watcher.go`: list, watch, dispatch, the
in-flight guard, one attach goroutine per pod, and the discovery of the endpoint; Kubernetes and the kernel are
external. `TrafficShaper` composes the two over the endpoint and channel of `DiscoveredEndpoint`, as `Run` does, and is shown to
implement `StatuszPoll`: `StatuszPoll` is the abstract specification of what the monitor promises towards the
worker, and the pod watcher's steps map to `Discover`, `SignalURLChanged` or a stutter.

### PolicyManager

Models `internal/network/policy`: `Create`, `Delete`, the element verbs, the daemon's `ApplyMembership`, `ApplySets`
and `ApplyPorts` (a tick with a list of set writes), `persistMembership`, and the install step `NftWeaverPersist`. Three
stores: the live table, the registry and the boot artifact, written one after the other in the order of the code.
A document is the configuration of each policy, the elements of its runtime sets and the pod CIDR. A
command holds the flock from `*Load` to its last write; the install step takes no lock. `Fail` ends a command at any
step, by an error or a kill; `Reboot` replays the artifact when the unit is enabled; `TableExists` takes a failing
nft for a missing table, as `Exists` does. Validation of a request against its siblings and overlapping prefixes
is left out: the requests tried are valid and elements are disjoint. History: `torn` (a create or delete has not
reached its last write), `lag` (a set write is not in the artifact yet) and `undercut` (the install step acted inside
a critical section, or a table was left behind).

### HostOps, Workflow

The provisioning commands are data: a command is a list of steps, a step a list of operations, and one small
machine runs them. `HostOps` says what an operation does. A *host* is a function from the things the provisioner
manages (a file, a link, a mount, a unit's state, a Helm release, a Kubernetes object, a field of the state file
that a step reads) to a content that the code can tell apart: absent, torn (cut short), ok, patched, patched
twice, or with an operator's setting. An operation has a kind (copy, link, fetch, sed, remove...), a requirement to
succeed, and a condition under which the code leaves it out; `CutShort` is what an interrupted one may leave.

`Workflow` models `internal/workflows` and `HandleIntent` as run by the automa library (external): `Begin` loads the
state file and, for a handler, refreshes the machine state from the host; `Do`, `Error` and `Kill` are one operation that
succeeds, fails or is the last; after an error the step cleans up after itself (`GoMend`) and the mode decides:
StopOnError, RollbackOnError (steps in reverse, each by the flags it has set) or ContinueOnError (which goes on
with the next *top-level* group only). `Finish` flushes the state file, which may fail, and starts the daemon
workflow that follows a block node command. A step that asks whether a software is installed asks the state that
this process loaded, as `checkInstallation` does, and not the disk.

### SoftwareInstallers, KubeOps, NetworkPlane, DaemonSteps, BlockNodeSteps, ClusterSteps, AgentSteps

These define the steps: check, operations in the order of the code, rollback, and the workflows that put them in
order.

| module | code |
|---|---|
| SoftwareInstallers | `pkg/software`: download, verify, extract, install, configure and their undo, for each installer |
| KubeOps | `pkg/helm` and `internal/kube`: what install, upgrade and uninstall do to a release that is absent, pending or deployed |
| NetworkPlane | `step_network_*.go` with the firewall, policy and shape managers, and the verbs `network firewall` and `network shape` |
| DaemonSteps | self-install and self-uninstall, owners and sudoers, `daemon.yaml`, `daemon service ...` with and without `--daemon-bin`, the daemon a block node command provisions |
| BlockNodeSteps | `step_block_node.go`, `internal/blocknode` and the workflows of `internal/bll/blocknode`: install, upgrade with its storage migration, reconfigure, reset, uninstall, purge |
| ClusterSteps | packages, kernel modules, swap, sysctl, bind mounts, cri-o, kubelet, kubeadm, Cilium, MetalLB, metrics server, and the teardown; the cri-o drop-in migration as a step |
| AgentSteps | Alloy and its CRDs, External Secrets, the two Teleport agents |

### Provisioning, ClusterLifecycle

`Provisioning` names 48 commands, what each refuses, its modes and what it saves, the hosts a session starts from,
and what each command is for (`Goal`). `ClusterLifecycle` is the abstract specification: a cluster is absent, incomplete
or serving; only an uninstall, a rollback or a fault takes it down, other commands leave it alone, and a success
without a fault means the goal is reached. `KeepsLifecycle` maps the host to the phase and shows that every
step of every command is a step of it or a stutter.

## Runs

| run | what it shows | instance and why it is enough |
|---|---|---|
| `soak_safety` | one soak in flight; a stopped watcher is over; a soak on disk stays until decommissioned or deleted; SoakStarted once; one decommission per process | 2 requests, 1 stop, 1 restart, so 3 watchers: a soak can meet its successor, a stop and a resume at once |
| `soak_live` | an accepted request is served, a persisted one is resumed, a cancelled watcher ends | 1 request, 1 stop, 1 restart, disk faults |
| `soak_startup_race` | *violation*: two soaks in flight when a POST arrives before the resume | as `soak_safety` |
| `upgrade` | one execution, one success per operation, nothing missed between list and watch, a terminal operation stays over, a ready one is executed, an outage is visible | 2 resources, all outcomes, 2 phase writes, 1 rotation, 1 restart: a write can fall before, between and after list and watch, and the slot can be busy for the second resource |
| `upgrade_panic` | *violation*: a panic marks the operation completed | as `upgrade`, without restarts and rotations |
| `state` | success is durable; no false alarm; settings are lost only in three named windows | 2 intents, 1 firewall command, 1 edit of any kind: two actors can change the file in each other's window, a third observes. Two edits were also explored once and hold |
| `startup` | a recorded version means migrated; one agent restart; the passes converge | hosts provisioned by every release or none, all four boundary releases as binaries, 2 failures or kills, 1 outage |
| `poll` | no wake-up is lost, a skip is never justified by another endpoint, the sets converge | 2 endpoints, 2 memberships, 1 change, 1 operator command, 1 restart |
| `watcher` | the dedupe never hides a needed attach; a pod that stays ready is shaped | 1 pod with 2 falls (a new sandbox or the same), faults, disconnects, 1 restart |
| `shaper` | the composition implements `StatuszPoll`; a pod that stays ready gets its sets written | 1 pod, 2 memberships, faults, disconnects, 1 restart. No operator command, no falls |
| `policy` | what boot replays is the live table and renders the registry; a command changes no sibling; the pod CIDR stays; ticks repair the artifact | 2 policies (one pod-scoped with managed ports), 2 pod CIDRs, 10 command lines of which any 2 run, in turn or at once, beside the daemon; 1 fault anywhere. Fresh or provisioned host |
| `provisioning` | a success without a fault has reached its goal on whatever an earlier command left; after an uninstall the install succeeds; an install repeats without effect; a rollback leaves at most what one step left; data goes only from a scaled-down node; an operator's settings, and agents that were there, stay; the monitor goes before the release; the life cycle is implemented | six hosts (fresh, cluster up, cluster of an older release, block node serving, with an obsolete policy, with an operator's settings), sessions of two or three commands each from a choice, every error mode a command offers, one error or kill at any operation, cut short in each possible way. One fault is what a recovery has to cope with; the third command shows the host that the recovery leaves. Two canonical and one obsolete policy stand for the lists |

Deadlock checking is off where the system may stop: when every request is answered, every invocation has ended, or
the bounds are used up.

### Fairness

Go schedules every runnable goroutine: weak fairness of the steps of each. Beyond that:

- MigrationMonitor: nobody has to send a request, and no tick or verdict is promised.
- UpgradeMonitor: the server closes every watch (`watchTimeoutSeconds`) and an execution ends. `ReadyIsExecuted`
  also needs executions to stop failing, as an antecedent: an operation that fails for ever keeps starving
  younger ones. A call with a rejected credential fails; no other error is promised or excluded.
- StartupMigrations: a process that runs goes on; the operator keeps invoking the newest binary (strong fairness,
  since kills and other invocations interleave) and follows the error that asks to disable the Bandwidth Manager.
  Failures and outages are bounded by constants.
- StatuszPoll and TrafficShaper: strong fairness of the workers' success ("do not fail for ever"), of the ticker and
  of the forced resync. The endpoint has to stop changing, as an antecedent of `Converges`.
- PodWatcher: strong fairness of resolving and attaching, and for `ReadyIsShaped` of `Disconnect`: the API server
  ends every watch, and the list that follows is what retries a failed attach.
- Provisioning: none; all its properties are safety properties.
- PolicyManager: weak fairness of the steps of a started command, strong fairness of the tick that has nothing to
  write: the daemon polls for ever with a non-blocking lock, operators hold the lock for finitely many commands, and
  with a steady peer list a tick has no set to change. Nothing else is promised; faults are bounded.

## Proofs

TLAPS checks, for any number of requests, resources, commands, edits, pods, endpoints and restarts:

| theorem | module | argument |
|---|---|---|
| `TypeCorrect`, `SingleFlightHolds`, `StopDrainedHolds` | MigrationMonitorProofs | `IndInv`. `SingleFlight` is not inductive: `soakActive` is a token that is held by the handler between swap and send, by the request in the channel, by the dispatcher, or by the working watcher, and by one of them only (`TokenInv`). `StopDrained` needs that `soakWg` is the number of watchers between Add and Done (`WgInv`) and that a stored CancelFunc, and one a stop call has loaded, is that of a spawned watcher (`CancelInv`) |
| `TypeCorrect`, `OneExecutionHolds`, `ExecutedOnceHolds`, `NothingMissedHolds`, `TerminalStaysOverHolds` | UpgradeMonitorProofs | `Slot` ties the running goroutines to `activeOpID`; `Done` says that an operation that succeeded or was seen terminal is in `completedOpIDs`, and that the one in the slot has not succeeded yet. `OpOf` may send two resources to one operation or to none: TLC's instance has two distinct ones, the proof covers the rest |
| `SoakSurvivesHolds`, `EffectsNotRepeatedHolds` | SoakEffectProofs | `EffectInv`, inductive relative to `IndInv`. It follows a request: from its handler through the channel and the dispatcher to one fresh watcher ever (`CarriedInv`, `PlaceInv`); after that only the state file brings it back, and only to the first watcher of a process. So SoakStarted is logged once (`StartedInv`) and a request that a watcher can still decommission was not decommissioned in this process (`DecommissionInv`). `SurvivalInv` says who removes the file |
| `NoFalseAlarmHolds`, `DoneIsDurableHolds`, `LostOnlyInWindowsHolds` | StateManagerProofs | `IInv`, the type invariant and two strengthenings. A process about to flush holds the hash of the file unless the file changed since it refreshed or stores none (`AlarmInv`), which `ReadsKeeps` shows once for the five steps that refresh. A process's settings are in its memory from the patch to the rename and in the file from then on, as long as nothing is lost (`DurableInv`): a rename that takes away another's settings adds a cause to `lost`. The third theorem adds `LossInv`. The comparison of hashes could be fooled if a record came back after another had replaced it; it cannot, since the mark of a writer is in no file, baseline or memory but its own before it writes (`FreshInv`). Then what the file has beyond a process's memory arrived while it was probing, after the comparison, or with the stored hash left as it was (`WindowInv`) |
| `VersionMeansMigratedHolds`, `RestartedOnceHolds` | StartupMigrationsProofs | `IndInv`. During a pass the version the pass started from still means what it says, the file has that version or the running one, and what the pass has crossed and no longer has to run has taken effect (`PassInv`); the registration order matters at one place, where the restart relies on the setting that the migration before it wrote. After a restart the restarting release or a later one is recorded, or will be when the pass ends, so the restart does not apply again (`RestartInv`) |
| `PollTypeCorrect`, `WakeupPendingHolds`, `SkipIsForEndpointHolds` | TrafficShaperProofs | `TypeOK /\ WakeupPending` of StatuszPoll is inductive; the action property follows from `GateInv`: what the gate remembers was applied for the endpoint it remembers, and a reconcile that runs is for that endpoint |
| `DedupeIsSoundHolds` | TrafficShaperProofs | a goroutine of PodWatcher about to record a veth that still exists has attached it (`Handed`), and veths of different pods or sandboxes differ |
| `ImplementsPollHolds`, `ImplementsWatcherHolds`, `BothHold` | TrafficShaperProofs | step simulation: initial states map to initial states, each step to a step or a stutter. Towards the loop this needs that no signal is owed outside the handler (`Quiet`) and that an owner means an endpoint (`Owner`); towards the watcher nothing, as the loop only takes the token. So the properties of the two, each proved by itself, hold in the composition |
| `BootRestoresLiveHolds`, `TableRendersRegistryHolds`, `SiblingsKeptHolds`, `PodKeptHolds` | PolicyManagerProofs, on PolicyInvariant | none is inductive. They hold because the flock orders the writers of the registry (`LockInv`), so that the document a create or delete rendered when it loaded still fits the registry, the table and the artifact when it writes each of them (`CreateInv`, `DeleteInv`, `SiblingsInv`), unless the install step came between (`undercut`); and the three stores agree unless a command is half way (`StoresInv`). PolicyInvariant has the invariant, the lemmas about the document operators (what `Render`, `Snapshot`, `Desired` and a set write return) and the steps that write sets, fail, reboot or persist; PolicyManagerProofs has the steps of create, delete and install, and the two action properties |

The assumptions are those named in the modules: constants of their types, sentinels outside the sets they are
sentinels for, finite sets of watchers and resources; for PolicyManager that the documents a host starts with are
well-formed and that requests and ticks are made of the declared policies, families and elements; for
StartupMigrations that releases are among the ranks 0 to 4. The proofs need no bound: `MaxFaults`, `MaxRestarts` and
their like are arbitrary numbers.

Except for `TypeCorrect`, `PollTypeCorrect`, `ImplementsWatcherHolds` and `BothHold`, each theorem above states a property that a run checks on
its instance. Every inductive invariant was first checked by TLC on the instance of the run it belongs to.

Only model-checked:

- all liveness properties: fairness and ENABLED are out of the prover's reach;
- Provisioning. Its steps are data, so a proof would have to unfold each of the 48 commands, and the properties
  compare hosts at the two ends of a whole command. A theorem for all sequences of steps would need an induction
  over the sequence, which the provers do not do.

## Findings and divergences

Two disagreements between code and comment have a run that exhibits them (findings in `PROJECT.json`):

- `resumeIfNeeded` stores `soakActive` unconditionally while HTTP requests are already served; two soaks run.
- a panic in the execute goroutine leaves `execErr` nil, so the operation counts as completed.

Others were met while modelling. The model has the behaviour, and the properties name it as an exception:

- *Soak.* `TryEnqueue` stores the status after the send, so an ended soak can be shown again
  (`migration_monitor.go:248`; `:239` says the watcher clears it). `TryStop` removes the state file after it
  released the mutex, when a successor may own it (`:292`); it waits on the shared WaitGroup, so also for a
  successor that nobody cancelled (`:289`).
- *Upgrade.* The slot may be freed during the sorted dispatch, and a younger resource then overtakes
  (`upgrade_monitor.go:459`; `:441` promises the longest-waiting first). A rejected List does not rebuild the
  client (`:301`), only a rejected watch does.
- *State.* The file can change between check and rename (`state_manager.go:346`). One state is composed from two
  refreshes with the baseline of the later (`machine_checker.go:53`). An edit that keeps the stored hash is not
  detected (`:323`). A file without a hash is reported as changed (`:218`). When the state flush fails the history
  entry is not written (`:261`). A refresh keeps the LastAction in memory, not that of the file (`:236`).
- *Startup.* A Cilium migration skipped in an outage counts as done (`migration_cilium_acceleration.go:95`,
  `run.go:377`). The first migration records the version before the others have run
  (`migration_unified_state.go:98`). A legacy file left next to the unified one makes each later pass fail
  (`:98`, `:104`). Its roll-back restores nothing (`:119`). The routing setting is not applied to running agents
  (`migration_cilium_host_legacy_routing.go:80`).
  The cri-o migration tests the drop-in only, so a failed reload or symlink is never completed
  (`migration_crio_socket_dropin.go:95`; `:122` asks to re-run the provisioner); `Goal` of Provisioning promises
  nothing for it.
- *Policy.* After a failed write of the artifact the create fails with "re-run to reconcile" (`manager.go:249`), but the
  re-run finds the policy registered and the table live and does nothing without `--force`. `Exists` takes any failure
  for a missing table (`nft.go:226`; "a genuine nft/permission error surfaces on the subsequent Apply"), but the delete of
  the last policy has no later Apply: the table can stay live with an empty registry. The install step replays empty
  sets into the live table at once and takes no lock (`step_network_nft_weaver.go:52`; `render_weaver.go:62` speaks
  of a reboot in the gap). A unit file in place is taken for an enabled unit, so a failed enable is never retried
  (`service_linux.go:37`).
- *Poll.* The digest may stem from another fetch than the one that was written
  (`traffic_shaper_monitor.go:345`), and an apply skipped on a held lock counts as done
  (`reconcile_shaper.go:67`); the forced resync repairs both.
- *Watcher.* The in-flight guard drops a ready event (`pod_watcher.go:153`), to be repaired by a later list. A
  deletion between two watches is not seen (`:72`), so the endpoint of a pod that is gone remains.
- *Steps and state.* `IsInstalled` and `IsConfigured` answer from the state that the process loaded, while their
  comments say "It refreshes from disk first" (`pkg/software/base_installer.go:740`, `:750`). On a cluster from before
  the cri-o drop-in, `kube cluster install` finds cri-o unconfigured and configures all of it again: substitutions that
  contain their own pattern apply twice. `Rerun` is about what follows a success, and holds. A torn cri-o binary passes the
  check for its existence.
- *Rollback.* The rollback of `InitializeCluster` resets a cluster that the step found and skipped
  (`step_kubeadm.go:245`); `Lifecycle` counts a rollback as an excuse for that reason. Swap and sysctl roll back
  unconditionally, and enabling swap uncomments lines that the operator had commented out.
  ContinueOnError goes on after a failed *group*; inside one it stops.
- *cri-o uninstall.* Directories are removed "only if empty" says `crio_installer.go:690`; `RemoveAll` (`:707`) takes
  them with their content, the units of kubelet in the shared folder included.
- *Network plane.* A unit file with the right content is taken for an enabled unit (`firewall/service_linux.go`,
  `shape/service_linux.go:30`). The teardown keeps the nft unit and says that "kube cluster uninstall will disable
  it" (`step_network_nft_service_teardown.go:57`), which has no such step. `create-allow-rule` repeated after a kill
  between its two writes finds the rule and applies nothing (`firewall/manager.go:144`). Deleting the device
  renders the stock shape, not an empty one (`shape/manager.go:433`).
- *Block node.* The uninstall cannot be resumed without `--force` once the release is gone. An upgrade deletes the
  StatefulSet and the services before the chart is upgraded (`blocknode/chart.go:222`, `step_block_node.go:418`), so a failed
  upgrade leaves a release without them. An existing storage directory is skipped, with or without its owner
  (`storage.go:38`). The decision about shaping is recorded also when the workflow failed.
- *Daemon and agents.* `kube cluster uninstall` removes `daemon.yaml` under a running daemon, after which
  `daemon service uninstall` is refused. The Teleport teardown on a torn installation skips its removals and
  reports success. A chart that was cut short stays pending: the uninstall skips it and the install finds its name
  taken, which `UninstallRecovers` therefore leaves out for agents.

## Not modelled

`PROJECT.json` has every part with the reason. In short:

- the daemon's supervision: start of the components, health aggregation, shutdown order. Each monitor is modelled
  with the restarts that supervision gives it;
- two commands of the shape or of the firewall plane at once (their lock makes them take turns), and commands of
  Provisioning at once: nothing in the code serialises two provisioning commands, and what they share beyond the
  state file (StateManager) and the policies (PolicyManager) is not checked;
- soak gate checks and the decommissioner (probes whose verdict is a choice), Alloy configuration, self-upgrade and
  shim, hardware probing, validation, configuration models, terminal UI: they render, read or compare, and have no
  behaviour that others depend on beyond what their users' models say.

Within the modelled parts: durations and back-off (a retry is a later step), the text of errors, logs and events, the
contents of what is installed, what an address or a rate means. In Provisioning a removal of a directory is one
operation on the things in it, a Helm release is one thing, and only one fault happens in a session.

An instance of `watcher` with two pods that hand over an address is too large to finish; the one-pod instance has the
falls, new sandboxes and reconnects that the dedupe is about, and the proof of `DedupeIsSound` covers any number of pods.

## Plan

1. **PolicyManager**: an abstract specification with one atomic set of policies that it implements outside `torn` and
   `lag`; the poll loop's `ApplySets` as its client.
2. **Two commands at once** on one host: an interleaving of `Workflow` with itself over the files that no lock guards.
3. **Daemon**: supervision, health aggregation and shutdown order over the monitors' interfaces.
4. **Algorithms**: CIDR containment and pruning, element diffs, version ordering, the precedence of effective values,
   each against a reference.
5. **Proofs**: the policy refinement.

Runs are kept to one per question.
