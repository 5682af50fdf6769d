---------------------------- MODULE TrafficShaper ----------------------------
(***************************************************************************)
(* The block node traffic-shaper monitor: the pod watcher and the statusz  *)
(* poll loop that Run starts side by side                                  *)
(* (internal/daemon/blocknode/traffic_shaper_monitor.go).  They share the  *)
(* discovered endpoint and the urlChanged channel; a restart of the daemon *)
(* takes both.                                                             *)
(***************************************************************************)
EXTENDS PodWatcher, StatuszPoll

\* The endpoints are those of the pods, and that of a configured base URL.
ASSUME ShaperAssumption == {PodURL[p] : p \in Pods} \subseteq URLs

watcherOnly == <<phase, sandbox, htb, flaps, watchPc, pending, events, cur,
                 attached, inflight, discoveredStatuszPod, task, snapshot, veth>>
pollOnly == <<pollPc, statuszURL, digest, lastURL, lastDigest, applied, aged,
              desired, listed, want, live, lockHeld, changes, operator, written>>
vars == <<watcherOnly, pollOnly, discoveredStatuszURL, toSignal, urlChanged, restarted>>

Init == WatcherInit /\ LoopInit

\* Run starts runPodWatcher and runStatuszPoll, each under superviseResponsibility.
PodWatcherStep == WatcherSteps /\ UNCHANGED pollOnly
StatuszPollStep ==
    /\ LoopSteps \/ WorkerFails \/ Tick \/ Age \/ World
    /\ UNCHANGED watcherOnly
Restart == WatcherRestart /\ PollRestart

Next == PodWatcherStep \/ StatuszPollStep \/ Restart

Spec == Init /\ [][Next]_vars

FairSpec ==
    /\ Spec
    /\ WF_vars(WatchStep /\ UNCHANGED pollOnly)
    /\ WF_vars((ReadURL \/ Reenter \/ Wake) /\ UNCHANGED watcherOnly)
    /\ WF_vars(OperatorUnlocks /\ UNCHANGED watcherOnly)
    /\ SF_vars(Check /\ UNCHANGED watcherOnly)
    /\ SF_vars(Fetch /\ UNCHANGED watcherOnly)
    /\ SF_vars(ApplySets /\ UNCHANGED watcherOnly)
    /\ SF_vars(Age /\ UNCHANGED watcherOnly)
    /\ SF_vars(Tick /\ UNCHANGED watcherOnly)
-----------------------------------------------------------------------------
\* recordDiscoveredStatusz, handlePodDelete: towards the poll loop the watcher is
\* the environment that StatuszPoll assumes, one change of the endpoint at a
\* time, each followed by its signal; what holds there holds here.
ImplementsPoll == PollSpec

\* The two responsibilities together: the sets end up with what the block node
\* pod that stays ready reports.
ReadyIsReconciled ==
    \A p \in Pods : <>[](phase[p] = "ready") => <>[](live = want[PodURL[p]])
==============================================================================
