------------------------------ MODULE PodWatcher ------------------------------
(***************************************************************************)
(* The pod-lifecycle watcher of the block node traffic shaper              *)
(* (internal/daemon/blocknode/pod_watcher.go): the watch loop, one attach  *)
(* goroutine per pod, and the discovery of the statusz endpoint.           *)
(*                                                                         *)
(* The Kubernetes API is external.  A pod is created, becomes ready, may   *)
(* fall back, may get a new sandbox (and so a new veth) and is deleted;    *)
(* each change is an event on a watch that is open.  A veth is a pod and   *)
(* the number of its sandbox; the kernel removes the HTB with the veth.    *)
(***************************************************************************)
EXTENDS DiscoveredEndpoint, Naturals, Sequences, FiniteSets

CONSTANTS
    Pods,          \* UIDs of block node pods
    NoPod,
    PodURL,        \* the statusz URL each pod would have; pods may share an address
    Replicas,      \* how many pods exist at once
    Faults,        \* whether resolving a veth or tc-attach may fail for no reason
    Disconnects,   \* whether the API server closes the watch
    MaxFlaps       \* bound on falls from ready

ASSUME WatcherAssumption ==
    /\ NoPod \notin Pods /\ NoURL \notin {PodURL[p] : p \in Pods}
    /\ Replicas \in Nat /\ Faults \in BOOLEAN /\ Disconnects \in BOOLEAN
    /\ MaxFlaps \in Nat /\ MaxRestarts \in Nat

VARIABLES
    \* the cluster and the host
    phase,         \* of each pod: "none", "starting", "noip", "ready", "deleted"
    sandbox,       \* of each pod, the number of its sandbox
    htb,           \* veths that carry the ingress hierarchy
    flaps,
    \* the watch
    watchPc,       \* "list", "dispatch", "handle", "watch"
    pending,       \* items of the list still to dispatch
    events,        \* events on the open watch
    cur,           \* the event in hand
    \* the monitor
    attached, inflight, discoveredStatuszPod,
    \* the attach goroutine of each pod
    task,          \* "none", "start", "attach", "record", "finish"
    snapshot,      \* the phase in the event it was started with
    veth

cluster == <<phase, sandbox, htb, flaps>>
watch == <<watchPc, pending, events, cur>>
discovery == <<discoveredStatuszURL, discoveredStatuszPod, toSignal, urlChanged>>
tasks == <<attached, inflight, task, snapshot, veth>>
watcherVars == <<cluster, watch, discovery, tasks, restarted>>

NoVeth == <<NoPod, 0>>
VethOf(p) == <<p, sandbox[p]>>
Exists(p) == phase[p] \in {"starting", "noip", "ready"}
NoEvent == [type |-> "none", pod |-> NoPod, phase |-> "none"]
ContainersReady(ph) == ph \in {"noip", "ready"}

WatcherInit ==
    /\ phase = [p \in Pods |-> "none"] /\ sandbox = [p \in Pods |-> 0]
    /\ htb = {} /\ flaps = 0
    /\ watchPc = "list" /\ pending = {} /\ events = <<>> /\ cur = NoEvent
    /\ attached = [p \in Pods |-> NoVeth] /\ inflight = {}
    /\ discoveredStatuszURL = NoURL /\ discoveredStatuszPod = NoPod
    /\ toSignal = FALSE /\ urlChanged = FALSE
    /\ task = [p \in Pods |-> "none"] /\ snapshot = [p \in Pods |-> "none"]
    /\ veth = [p \in Pods |-> NoVeth]
    /\ restarted = 0

-----------------------------------------------------------------------------
\* The cluster.
Emit(type, p, ph) ==
    events' = IF watchPc = "list" THEN events
              ELSE Append(events, [type |-> type, pod |-> p, phase |-> ph])

SetPhase(type, p, ph) ==
    /\ phase' = [phase EXCEPT ![p] = ph]
    /\ Emit(type, p, ph)
    /\ UNCHANGED <<watchPc, pending, cur, discovery, tasks, restarted>>

PodCreated(p) ==
    /\ phase[p] = "none" /\ Cardinality({q \in Pods : Exists(q)}) < Replicas
    /\ SetPhase("upsert", p, "starting")
    /\ UNCHANGED <<sandbox, htb, flaps>>

PodReady(p) ==
    /\ \E ph \in {"noip", "ready"} :
         /\ <<phase[p], ph>> \in {<<"starting", "noip">>, <<"starting", "ready">>, <<"noip", "ready">>}
         /\ SetPhase("upsert", p, ph)
    /\ UNCHANGED <<sandbox, htb, flaps>>

\* A container ends, alone or with the sandbox, whose veth the kernel removes.
PodFalls(p) ==
    /\ ContainersReady(phase[p]) /\ flaps < MaxFlaps /\ flaps' = flaps + 1
    /\ \/ UNCHANGED <<sandbox, htb>>
       \/ sandbox' = [sandbox EXCEPT ![p] = @ + 1] /\ htb' = htb \ {VethOf(p)}
    /\ SetPhase("upsert", p, "starting")

PodDeleted(p) ==
    /\ Exists(p)
    /\ htb' = htb \ {VethOf(p)}
    /\ SetPhase("deleted", p, "deleted")
    /\ UNCHANGED <<sandbox, flaps>>

-----------------------------------------------------------------------------
\* Variant: a new endpoint is recorded and not signalled.
RecordDiscoveredStatusz_NoSignal(e) ==
    IF e.phase = "ready"
    THEN /\ discoveredStatuszURL' = PodURL[e.pod] /\ discoveredStatuszPod' = e.pod
         /\ UNCHANGED <<toSignal, urlChanged>>
    ELSE UNCHANGED discovery

\* recordDiscoveredStatusz, under the mutex; the signal follows the unlock.
RecordDiscoveredStatusz(e) ==
    IF e.phase = "ready"
    THEN /\ discoveredStatuszURL' = PodURL[e.pod] /\ discoveredStatuszPod' = e.pod
         /\ toSignal' = (discoveredStatuszURL # PodURL[e.pod])
         /\ UNCHANGED urlChanged
    ELSE UNCHANGED discovery

\* Variant: no initial dispatch of what the list returned.
List_WatchOnly ==
    /\ watchPc = "list"
    /\ events' = <<>> /\ watchPc' = "watch"
    /\ UNCHANGED <<cluster, pending, cur, discovery, tasks, restarted>>

\* runPodWatcher: the list, whose items are dispatched one by one.
List ==
    /\ watchPc = "list"
    /\ pending' = {[type |-> "upsert", pod |-> p, phase |-> phase[p]] : p \in {q \in Pods : Exists(q)}}
    /\ events' = <<>>
    /\ watchPc' = IF pending' = {} THEN "watch" ELSE "dispatch"
    /\ UNCHANGED <<cluster, cur, discovery, tasks, restarted>>

DispatchItem ==
    /\ watchPc = "dispatch"
    /\ \E e \in pending :
         /\ pending' = pending \ {e} /\ cur' = e
         /\ RecordDiscoveredStatusz(e)
    /\ watchPc' = "handle"
    /\ UNCHANGED <<cluster, events, tasks, restarted>>

TakeEvent(type) ==
    /\ watchPc = "watch" /\ events # <<>> /\ Head(events).type = type
    /\ cur' = Head(events) /\ events' = Tail(events)
    /\ watchPc' = "handle"
    /\ UNCHANGED <<cluster, pending, restarted>>

\* handleWatchEvent of an Added or Modified event, the first part of dispatchUpsert.
HandleUpsert ==
    /\ TakeEvent("upsert")
    /\ RecordDiscoveredStatusz(Head(events))
    /\ UNCHANGED tasks

\* handlePodDelete, its critical section.
HandlePodDelete ==
    /\ TakeEvent("deleted")
    /\ LET p == Head(events).pod
       IN  /\ IF discoveredStatuszPod = p
              THEN /\ discoveredStatuszURL' = NoURL /\ discoveredStatuszPod' = NoPod
                   /\ toSignal' = TRUE /\ UNCHANGED urlChanged
              ELSE UNCHANGED discovery
           /\ attached' = [attached EXCEPT ![p] = NoVeth]
    /\ UNCHANGED <<inflight, task, snapshot, veth>>

SignalAfterUnlock ==
    /\ urlChanged' = (urlChanged \/ toSignal) /\ toSignal' = FALSE
    /\ UNCHANGED <<discoveredStatuszURL, discoveredStatuszPod>>

\* The rest of the handler: the signal, then for an upsert the in-flight guard and
\* the goroutine.  The best-effort detach of a deleted pod finds its veth gone.
FinishEvent ==
    /\ watchPc = "handle"
    /\ SignalAfterUnlock
    /\ LET p == cur.pod
       IN  IF cur.type = "upsert" /\ p \notin inflight
           THEN /\ inflight' = inflight \cup {p}
                /\ task' = [task EXCEPT ![p] = "start"]
                /\ snapshot' = [snapshot EXCEPT ![p] = cur.phase]
                /\ UNCHANGED <<attached, veth>>
           ELSE UNCHANGED tasks
    /\ cur' = NoEvent
    /\ watchPc' = IF pending = {} THEN "watch" ELSE "dispatch"
    /\ UNCHANGED <<cluster, pending, events, restarted>>

\* The channel closes or carries an error; the supervisor backs off and calls again.
Disconnect ==
    /\ Disconnects /\ watchPc = "watch"
    /\ watchPc' = "list" /\ events' = <<>>
    /\ UNCHANGED <<cluster, pending, cur, discovery, tasks, restarted>>

-----------------------------------------------------------------------------
GoTo(p, l) == task' = [task EXCEPT ![p] = l]
TaskFrame == UNCHANGED <<phase, sandbox, flaps, watch, discovery, snapshot, restarted>>

\* handlePodUpsert: a snapshot that is not ready ends it.  resolveVethWithRetry
\* executes in the pod as it is now, and gives up when it keeps failing.
ResolveVeth(p) ==
    /\ task[p] = "start"
    /\ ContainersReady(snapshot[p]) /\ Exists(p)
    /\ veth' = [veth EXCEPT ![p] = VethOf(p)]
    /\ GoTo(p, "attach")
    /\ TaskFrame /\ UNCHANGED <<htb, attached, inflight>>

GiveUp(p) ==
    /\ task[p] = "start"
    /\ ContainersReady(snapshot[p]) => Faults \/ ~ContainersReady(phase[p])
    /\ GoTo(p, "finish")
    /\ TaskFrame /\ UNCHANGED <<htb, attached, inflight, veth>>

\* The dedupe, then tc-attach, which fails when the veth is gone.
AlreadyAttached(p) ==
    /\ task[p] = "attach" /\ attached[p] = veth[p]
    /\ GoTo(p, "finish")
    /\ TaskFrame /\ UNCHANGED <<htb, attached, inflight, veth>>

TCAttach(p) ==
    /\ task[p] = "attach" /\ attached[p] # veth[p]
    /\ Exists(p) /\ veth[p] = VethOf(p)
    /\ htb' = htb \cup {veth[p]}
    /\ GoTo(p, "record")
    /\ TaskFrame /\ UNCHANGED <<attached, inflight, veth>>

\* Variant: the error of tc-attach is only logged.
TCAttachFails_Logs(p) ==
    /\ task[p] = "attach" /\ attached[p] # veth[p]
    /\ Faults \/ ~Exists(p) \/ veth[p] # VethOf(p)
    /\ GoTo(p, "record")
    /\ TaskFrame /\ UNCHANGED <<htb, attached, inflight, veth>>

TCAttachFails(p) ==
    /\ task[p] = "attach" /\ attached[p] # veth[p]
    /\ Faults \/ ~Exists(p) \/ veth[p] # VethOf(p)
    /\ GoTo(p, "finish")
    /\ TaskFrame /\ UNCHANGED <<htb, attached, inflight, veth>>

RecordAttached(p) ==
    /\ task[p] = "record"
    /\ attached' = [attached EXCEPT ![p] = veth[p]]
    /\ GoTo(p, "finish")
    /\ TaskFrame /\ UNCHANGED <<htb, inflight, veth>>

\* The deferred delete(m.inflight, uid).
FinishTask(p) ==
    /\ task[p] = "finish"
    /\ inflight' = inflight \ {p}
    /\ task' = [task EXCEPT ![p] = "none"]
    /\ veth' = [veth EXCEPT ![p] = NoVeth]
    /\ snapshot' = [snapshot EXCEPT ![p] = "none"]
    /\ UNCHANGED <<cluster, watch, discovery, attached, restarted>>

\* The daemon stops and starts; what it knows is lost and the hierarchies stay.
WatcherRestart ==
    /\ restarted < MaxRestarts /\ restarted' = restarted + 1
    /\ watchPc' = "list" /\ pending' = {} /\ events' = <<>> /\ cur' = NoEvent
    /\ attached' = [p \in Pods |-> NoVeth] /\ inflight' = {}
    /\ discoveredStatuszURL' = NoURL /\ discoveredStatuszPod' = NoPod
    /\ toSignal' = FALSE /\ urlChanged' = FALSE
    /\ task' = [p \in Pods |-> "none"] /\ snapshot' = [p \in Pods |-> "none"]
    /\ veth' = [p \in Pods |-> NoVeth]
    /\ UNCHANGED cluster

\* The poll loop takes the signal.
TakeSignal ==
    /\ urlChanged /\ urlChanged' = FALSE
    /\ UNCHANGED <<cluster, watch, discoveredStatuszURL, discoveredStatuszPod, toSignal, tasks, restarted>>

PodStep(p) == PodCreated(p) \/ PodReady(p) \/ PodFalls(p) \/ PodDeleted(p)
WatchStep == List \/ DispatchItem \/ HandleUpsert \/ HandlePodDelete \/ FinishEvent
TaskStep(p) ==
    \/ ResolveVeth(p) \/ GiveUp(p) \/ AlreadyAttached(p)
    \/ TCAttach(p) \/ TCAttachFails(p) \/ RecordAttached(p) \/ FinishTask(p)

WatcherSteps ==
    \/ \E p \in Pods : PodStep(p) \/ TaskStep(p)
    \/ WatchStep \/ Disconnect

WatcherNext == WatcherSteps \/ WatcherRestart \/ TakeSignal

WatcherSpec == WatcherInit /\ [][WatcherNext]_watcherVars

\* Go runs the goroutines; the privileged helper does not fail for ever.
Fairness ==
    /\ WF_watcherVars(WatchStep)
    /\ \A p \in Pods : /\ WF_watcherVars(TaskStep(p))
                       /\ SF_watcherVars(ResolveVeth(p)) /\ SF_watcherVars(TCAttach(p))

FairWatcherSpec == WatcherSpec /\ Fairness

\* The API server closes every watch in the end.
ReconnectSpec == FairWatcherSpec /\ SF_watcherVars(Disconnect)
-----------------------------------------------------------------------------

\* attached in handlePodUpsert and handlePodDelete: a veth that is recorded as
\* attached and still there carries the hierarchy, so the dedupe never
\* suppresses an attach that is needed.
DedupeIsSound ==
    \A p \in Pods : Exists(p) /\ attached[p] = VethOf(p) => VethOf(p) \in htb

\* The watcher ends up shaping every pod that stays ready, across reconnects,
\* failures of the helper and restarts.
ReadyIsShaped ==
    \A p \in Pods : <>[](phase[p] = "ready") => <>[](VethOf(p) \in htb)
==============================================================================
