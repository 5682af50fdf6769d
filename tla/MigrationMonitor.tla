-------------------------- MODULE MigrationMonitor --------------------------
(***************************************************************************)
(* The soak lifecycle of the consensus-node migration monitor              *)
(* (internal/daemon/consensus/migration_monitor.go, handler.go).           *)
(*                                                                         *)
(* Four kinds of goroutines share the monitor: HTTP handlers that start a  *)
(* soak (TryEnqueue), HTTP handlers that stop it (TryStop), the dispatch   *)
(* loop (Run, which first resumes a persisted soak), and one watcher       *)
(* goroutine per activation (run).  The HTTP server and Run start at the   *)
(* same time (daemon.go, Run), so handlers are served from the moment the  *)
(* process is up.  Every atomic load, store or swap, channel operation,    *)
(* mutex section and file operation is one step.  The process may be       *)
(* killed between any two of them; the state file survives.                *)
(*                                                                         *)
(* Left out: the event log except SoakStarted (whose count external        *)
(* tooling relies on), the text of the status, and the individual          *)
(* criteria, of which only the conjunction allGreenThisTick drives a step. *)
(* A monitor without a state file path behaves as one whose every write    *)
(* fails (FaultyDisk).                                                     *)
(***************************************************************************)
EXTENDS Integers, FiniteSets

CONSTANTS
    Reqs,        \* start requests; each is one POST .../soak/start call
    Stops,       \* stop calls; each is one POST .../soak/stop call
    Watchers,    \* identities of watcher goroutines, never reused
    NoReq, NoWatcher, Nobody,
    Corrupt,     \* a state file that does not parse or does not validate
    FaultyDisk,  \* whether reads, writes and removals may fail
    MaxRestarts  \* bound: how often the process is restarted

ASSUME ConstantsAssumption ==
    /\ NoReq \notin Reqs
    /\ Corrupt \notin Reqs \cup {NoReq}
    /\ NoWatcher \notin Watchers
    /\ Nobody \notin Stops
    /\ IsFiniteSet(Watchers)
    /\ FaultyDisk \in BOOLEAN
    /\ MaxRestarts \in Nat

VARIABLES
    \* shared fields of the MigrationMonitor
    soakStartCh,     \* channel of capacity 1: the request in it, or NoReq
    soakStatus,      \* the request shown by GET status, NoReq when idle
    soakActive,
    soakWg,
    soakLifecycleMu, \* the stop call holding the mutex across Wait, or Nobody
    soakCancel,      \* the watcher whose CancelFunc is stored, or NoWatcher
    \* goroutines
    post,            \* post[r]: where the handler of request r is
    stopPc, stopTarget, stopDelete,
    runPc, runReq, runResumed,
    wpc, wreq, wresumed, wcancelled, wfleet,
    \* process and host
    up, ctxDone, restarts,
    stateFile,       \* cutover-state.jsonl: NoReq when absent
    \* history
    wsaved,          \* wsaved[w]: w's writeSoakState succeeded
    started,         \* started[r]: SoakStarted events logged for r
    decommissions,   \* decommissions[r]: successful Decommission calls for r
    overlap          \* resume took soakActive although a POST already held it

monitorVars == <<soakStartCh, soakStatus, soakActive, soakWg,
                 soakLifecycleMu, soakCancel>>
stopVars    == <<stopPc, stopTarget, stopDelete>>
clientVars  == <<post, stopVars>>
runVars     == <<runPc, runReq, runResumed>>
wlocals     == <<wreq, wresumed, wcancelled, wfleet, wsaved>>
processVars == <<up, ctxDone, restarts>>
historyVars == <<started, decommissions, overlap>>
vars == <<monitorVars, clientVars, runVars, wpc, wlocals, processVars,
          stateFile, historyVars>>

\* A watcher's next step: it is Working until it has cleared soakActive, and
\* Counted by soakWg until its Done.
CleanupPcs == {"clearCancel", "clearStatus", "clearActive"}
WorkingPcs == {"start", "announce", "persist", "loop", "decommission",
               "completed"} \cup CleanupPcs
WatcherPcs == {"unborn", "dead", "done"} \cup WorkingPcs
Working(w) == wpc[w] \in WorkingPcs
Counted(w) == wpc[w] \notin {"unborn", "dead"}

PostPcs == {"new", "swapped", "sent", "accepted", "rejected", "lost"}
StopPcs == {"new", "loaded", "lock", "waiting", "remove", "true", "false",
            "lost"}
RunPcs  == {"down", "boot", "resumeStatus", "resumeActive", "dispatch",
            "loop", "drain", "stopped"}

----------------------------------------------------------------------------
\* TryEnqueue, called by handleConsensusSoakStart with a request that
\* validates (any other gets a 400 before it reaches the monitor).

\* Variant: the previous value of the flag is ignored.
EnqueueSwap_Unguarded(r) ==
    /\ up
    /\ post[r] = "new"
    /\ post' = [post EXCEPT ![r] = "swapped"]
    /\ soakActive' = TRUE
    /\ UNCHANGED <<soakStartCh, soakStatus, soakWg, soakLifecycleMu,
                   soakCancel, stopVars, runVars, wpc, wlocals, processVars,
                   stateFile, historyVars>>

\* soakActive.Swap(true)
EnqueueSwap(r) ==
    /\ up
    /\ post[r] = "new"
    /\ post' = [post EXCEPT ![r] = IF soakActive THEN "rejected" ELSE "swapped"]
    /\ soakActive' = TRUE
    /\ UNCHANGED <<soakStartCh, soakStatus, soakWg, soakLifecycleMu,
                   soakCancel, stopVars, runVars, wpc, wlocals, processVars,
                   stateFile, historyVars>>

\* the select: send without blocking, or give soakActive back
EnqueueSend(r) ==
    /\ post[r] = "swapped"
    /\ \/ /\ soakStartCh = NoReq
          /\ soakStartCh' = r
          /\ post' = [post EXCEPT ![r] = "sent"]
          /\ UNCHANGED soakActive
       \/ /\ soakStartCh # NoReq
          /\ soakActive' = FALSE
          /\ post' = [post EXCEPT ![r] = "rejected"]
          /\ UNCHANGED soakStartCh
    /\ UNCHANGED <<soakStatus, soakWg, soakLifecycleMu, soakCancel, stopVars,
                   runVars, wpc, wlocals, processVars, stateFile, historyVars>>

\* soakStatus.Store, after the send; the handler answers 202
EnqueueStatus(r) ==
    /\ post[r] = "sent"
    /\ post' = [post EXCEPT ![r] = "accepted"]
    /\ soakStatus' = r
    /\ UNCHANGED <<soakStartCh, soakActive, soakWg, soakLifecycleMu,
                   soakCancel, stopVars, runVars, wpc, wlocals, processVars,
                   stateFile, historyVars>>

----------------------------------------------------------------------------
\* TryStop, called by handleConsensusSoakStop.

\* soakCancel.Load; a nil pointer is answered with 409
StopLoad(s, del) ==
    /\ up
    /\ stopPc[s] = "new"
    /\ stopPc' = [stopPc EXCEPT ![s] =
                    IF soakCancel = NoWatcher THEN "false" ELSE "loaded"]
    /\ stopTarget' = [stopTarget EXCEPT ![s] = soakCancel]
    /\ stopDelete' = [stopDelete EXCEPT ![s] = del]
    /\ UNCHANGED <<monitorVars, post, runVars, wpc, wlocals, processVars,
                   stateFile, historyVars>>

\* (*cancelPtr)()
StopCancel(s) ==
    /\ stopPc[s] = "loaded"
    /\ stopPc' = [stopPc EXCEPT ![s] = "lock"]
    /\ wcancelled' = [wcancelled EXCEPT ![stopTarget[s]] = TRUE]
    /\ UNCHANGED <<monitorVars, post, stopTarget, stopDelete, runVars, wpc,
                   wreq, wresumed, wfleet, wsaved, processVars, stateFile,
                   historyVars>>

StopLock(s) ==
    /\ stopPc[s] = "lock"
    /\ soakLifecycleMu = Nobody
    /\ soakLifecycleMu' = s
    /\ stopPc' = [stopPc EXCEPT ![s] = "waiting"]
    /\ UNCHANGED <<soakStartCh, soakStatus, soakActive, soakWg, soakCancel,
                   post, stopTarget, stopDelete, runVars, wpc, wlocals,
                   processVars, stateFile, historyVars>>

\* Variant: TryStop does not wait for the watcher.
StopWait_NoWait(s) ==
    /\ stopPc[s] = "waiting"
    /\ soakLifecycleMu' = Nobody
    /\ stopPc' = [stopPc EXCEPT ![s] = IF stopDelete[s] THEN "remove" ELSE "true"]
    /\ UNCHANGED <<soakStartCh, soakStatus, soakActive, soakWg, soakCancel,
                   post, stopTarget, stopDelete, runVars, wpc, wlocals,
                   processVars, stateFile, historyVars>>

\* soakWg.Wait returns, then Unlock: nobody can Add in between
StopWait(s) ==
    /\ stopPc[s] = "waiting"
    /\ soakWg = 0
    /\ soakLifecycleMu' = Nobody
    /\ stopPc' = [stopPc EXCEPT ![s] = IF stopDelete[s] THEN "remove" ELSE "true"]
    /\ UNCHANGED <<soakStartCh, soakStatus, soakActive, soakWg, soakCancel,
                   post, stopTarget, stopDelete, runVars, wpc, wlocals,
                   processVars, stateFile, historyVars>>

\* os.Remove of the state file; a failure is only logged
RemoveStateFile ==
    \/ stateFile' = NoReq
    \/ FaultyDisk /\ UNCHANGED stateFile

StopRemove(s) ==
    /\ stopPc[s] = "remove"
    /\ RemoveStateFile
    /\ stopPc' = [stopPc EXCEPT ![s] = "true"]
    /\ UNCHANGED <<monitorVars, post, stopTarget, stopDelete, runVars, wpc,
                   wlocals, processVars, historyVars>>

----------------------------------------------------------------------------
\* Run: resumeIfNeeded, then the dispatch loop.

\* Read the state file.  A corrupt one is removed and an absent or unreadable
\* one skipped; otherwise the request it holds is to be resumed.
ResumeRead ==
    /\ runPc = "boot"
    /\ \/ /\ stateFile \in Reqs
          /\ runPc' = "resumeStatus"
          /\ runReq' = stateFile
          /\ runResumed' = TRUE
          /\ UNCHANGED stateFile
       \/ /\ stateFile = Corrupt
          /\ RemoveStateFile
          /\ runPc' = "loop"
          /\ UNCHANGED <<runReq, runResumed>>
       \/ /\ stateFile = NoReq \/ FaultyDisk
          /\ runPc' = "loop"
          /\ UNCHANGED <<runReq, runResumed, stateFile>>
    /\ UNCHANGED <<monitorVars, clientVars, wpc, wlocals, processVars,
                   historyVars>>

\* Variant: resume stores the status but spawns no watcher.
ResumeStatus_NoSpawn ==
    /\ runPc = "resumeStatus"
    /\ runPc' = "loop"
    /\ soakStatus' = runReq
    /\ UNCHANGED <<soakStartCh, soakActive, soakWg, soakLifecycleMu,
                   soakCancel, clientVars, runReq, runResumed, wpc, wlocals,
                   processVars, stateFile, historyVars>>

ResumeStatus ==
    /\ runPc = "resumeStatus"
    /\ runPc' = "resumeActive"
    /\ soakStatus' = runReq
    /\ UNCHANGED <<soakStartCh, soakActive, soakWg, soakLifecycleMu,
                   soakCancel, clientVars, runReq, runResumed, wpc, wlocals,
                   processVars, stateFile, historyVars>>

\* soakActive.Store(true), whatever it was
ResumeActive ==
    /\ runPc = "resumeActive"
    /\ runPc' = "dispatch"
    /\ soakActive' = TRUE
    /\ overlap' = soakActive
    /\ UNCHANGED <<soakStartCh, soakStatus, soakWg, soakLifecycleMu,
                   soakCancel, clientVars, runReq, runResumed, wpc, wlocals,
                   processVars, stateFile, started, decommissions>>

\* Variant: the dispatcher re-checks the flag the handler has just set.
RunReceive_Rechecks ==
    /\ runPc = "loop"
    /\ soakStartCh # NoReq
    /\ soakStartCh' = NoReq
    /\ \/ /\ ~soakActive
          /\ runPc' = "dispatch"
          /\ runReq' = soakStartCh
          /\ runResumed' = FALSE
       \/ /\ soakActive
          /\ UNCHANGED runVars
    /\ UNCHANGED <<soakStatus, soakActive, soakWg, soakLifecycleMu, soakCancel,
                   clientVars, wpc, wlocals, processVars, stateFile,
                   historyVars>>

\* case req := <-soakStartCh
RunReceive ==
    /\ runPc = "loop"
    /\ soakStartCh # NoReq
    /\ runPc' = "dispatch"
    /\ runReq' = soakStartCh
    /\ runResumed' = FALSE
    /\ soakStartCh' = NoReq
    /\ UNCHANGED <<soakStatus, soakActive, soakWg, soakLifecycleMu, soakCancel,
                   clientVars, wpc, wlocals, processVars, stateFile,
                   historyVars>>

\* Lock; soakWg.Add(1); Unlock; go mm.run(ctx, req, resumed)
RunDispatch ==
    /\ runPc = "dispatch"
    /\ soakLifecycleMu = Nobody
    /\ \E w \in Watchers :
        /\ wpc[w] = "unborn"
        /\ w = CHOOSE v \in Watchers : wpc[v] = "unborn"
        /\ wpc' = [wpc EXCEPT ![w] = "start"]
        /\ wreq' = [wreq EXCEPT ![w] = runReq]
        /\ wresumed' = [wresumed EXCEPT ![w] = runResumed]
    /\ soakWg' = soakWg + 1
    /\ runPc' = "loop"
    /\ runReq' = NoReq
    /\ UNCHANGED <<soakStartCh, soakStatus, soakActive, soakLifecycleMu,
                   soakCancel, clientVars, runResumed, wcancelled, wfleet,
                   wsaved, processVars, stateFile, historyVars>>

\* case <-ctx.Done(), then the deferred soakWg.Wait
RunStop ==
    /\ \/ runPc = "loop" /\ ctxDone /\ runPc' = "drain"
       \/ runPc = "drain" /\ soakWg = 0 /\ runPc' = "stopped"
    /\ UNCHANGED <<monitorVars, clientVars, runReq, runResumed, wpc, wlocals,
                   processVars, stateFile, historyVars>>

----------------------------------------------------------------------------
\* run: the watcher goroutine.

\* soakCancel.Store(&cancel)
WatchStart(w) ==
    /\ wpc[w] = "start"
    /\ wpc' = [wpc EXCEPT ![w] = "announce"]
    /\ soakCancel' = w
    /\ UNCHANGED <<soakStartCh, soakStatus, soakActive, soakWg,
                   soakLifecycleMu, clientVars, runVars, wlocals, processVars,
                   stateFile, historyVars>>

\* SoakStarted, for a fresh activation only; then soakStatus.Store
WatchAnnounce(w) ==
    /\ wpc[w] = "announce"
    /\ wpc' = [wpc EXCEPT ![w] = "persist"]
    /\ started' = [started EXCEPT ![wreq[w]] = IF wresumed[w] THEN @ ELSE @ + 1]
    /\ soakStatus' = wreq[w]
    /\ UNCHANGED <<soakStartCh, soakActive, soakWg, soakLifecycleMu,
                   soakCancel, clientVars, runVars, wlocals, processVars,
                   stateFile, decommissions, overlap>>

\* writeSoakState: atomic by rename; a failure is only logged
WatchPersist(w) ==
    /\ wpc[w] = "persist"
    /\ wpc' = [wpc EXCEPT ![w] = "loop"]
    /\ \/ /\ stateFile' = wreq[w]
          /\ wsaved' = [wsaved EXCEPT ![w] = TRUE]
       \/ /\ FaultyDisk
          /\ UNCHANGED <<stateFile, wsaved>>
    /\ UNCHANGED <<monitorVars, clientVars, runVars, wreq, wresumed,
                   wcancelled, wfleet, processVars, historyVars>>

\* Variants: a clean exit removes the state file; the watcher listens to the
\* daemon context instead of its own.
WatchCancelled_Removes(w) ==
    /\ wpc[w] = "loop"
    /\ wcancelled[w] \/ ctxDone
    /\ wpc' = [wpc EXCEPT ![w] = "clearCancel"]
    /\ RemoveStateFile
    /\ UNCHANGED <<monitorVars, clientVars, runVars, wlocals, processVars,
                   historyVars>>
WatchCancelled_OuterCtx(w) ==
    /\ wpc[w] = "loop"
    /\ ctxDone
    /\ wpc' = [wpc EXCEPT ![w] = "clearCancel"]
    /\ UNCHANGED <<monitorVars, clientVars, runVars, wlocals, processVars,
                   stateFile, historyVars>>

\* case <-ctx.Done(): the state file stays
WatchCancelled(w) ==
    /\ wpc[w] = "loop"
    /\ wcancelled[w] \/ ctxDone
    /\ wpc' = [wpc EXCEPT ![w] = "clearCancel"]
    /\ UNCHANGED <<monitorVars, clientVars, runVars, wlocals, processVars,
                   stateFile, historyVars>>

\* case <-ticker.C: the criteria are all green in this tick or they are not,
\* and the fleet-threshold flag file, which others create and remove, exists
\* or not; it is remembered once seen
WatchTick(w, allGreenThisTick, flag) ==
    /\ wpc[w] = "loop"
    /\ wfleet' = [wfleet EXCEPT ![w] = @ \/ flag]
    /\ wpc' = [wpc EXCEPT ![w] = IF wfleet'[w] /\ allGreenThisTick
                                 THEN "decommission" ELSE "loop"]
    /\ UNCHANGED <<monitorVars, clientVars, runVars, wreq, wresumed,
                   wcancelled, wsaved, processVars, stateFile, historyVars>>

\* Decommission succeeds, or fails and ends the watcher with the file kept
WatchDecommission(w, ok) ==
    /\ wpc[w] = "decommission"
    /\ wpc' = [wpc EXCEPT ![w] = IF ok THEN "completed" ELSE "clearCancel"]
    /\ decommissions' = [decommissions EXCEPT ![wreq[w]] = IF ok THEN @ + 1 ELSE @]
    /\ UNCHANGED <<monitorVars, clientVars, runVars, wlocals, processVars,
                   stateFile, started, overlap>>

\* a panic in a criterion or in the decommissioner reaches the deferred cleanup
WatchPanic(w) ==
    /\ wpc[w] \in {"loop", "decommission"}
    /\ wpc' = [wpc EXCEPT ![w] = "clearCancel"]
    /\ UNCHANGED <<monitorVars, clientVars, runVars, wlocals, processVars,
                   stateFile, historyVars>>

\* Variant: the return after a completed decommission is missing.
WatchRemoveState_NoReturn(w) ==
    /\ wpc[w] = "completed"
    /\ wpc' = [wpc EXCEPT ![w] = "loop"]
    /\ RemoveStateFile
    /\ UNCHANGED <<monitorVars, clientVars, runVars, wlocals, processVars,
                   historyVars>>

WatchRemoveState(w) ==
    /\ wpc[w] = "completed"
    /\ wpc' = [wpc EXCEPT ![w] = "clearCancel"]
    /\ RemoveStateFile
    /\ UNCHANGED <<monitorVars, clientVars, runVars, wlocals, processVars,
                   historyVars>>

\* the deferred function: cancel and soakCancel, soakStatus, soakActive, Done
WatchCleanup(w) ==
    /\ \/ /\ wpc[w] = "clearCancel"
          /\ wpc' = [wpc EXCEPT ![w] = "clearStatus"]
          /\ soakCancel' = NoWatcher
          /\ UNCHANGED <<soakStatus, soakActive, soakWg>>
       \/ /\ wpc[w] = "clearStatus"
          /\ wpc' = [wpc EXCEPT ![w] = "clearActive"]
          /\ soakStatus' = NoReq
          /\ UNCHANGED <<soakCancel, soakActive, soakWg>>
       \/ /\ wpc[w] = "clearActive"
          /\ wpc' = [wpc EXCEPT ![w] = "done"]
          /\ soakActive' = FALSE
          /\ UNCHANGED <<soakCancel, soakStatus, soakWg>>
       \/ /\ wpc[w] = "done"
          /\ wpc' = [wpc EXCEPT ![w] = "dead"]
          /\ soakWg' = soakWg - 1
          /\ UNCHANGED <<soakCancel, soakStatus, soakActive>>
    /\ wfleet' = [wfleet EXCEPT ![w] = FALSE]
    /\ UNCHANGED <<soakStartCh, soakLifecycleMu, clientVars, runVars, wreq,
                   wresumed, wcancelled, wsaved, processVars, stateFile,
                   historyVars>>

----------------------------------------------------------------------------
\* The process and the host.

\* SIGTERM: the daemon context is cancelled
Shutdown ==
    /\ up /\ ~ctxDone
    /\ ctxDone' = TRUE
    /\ UNCHANGED <<monitorVars, clientVars, runVars, wpc, wlocals, up,
                   restarts, stateFile, historyVars>>

\* The process ends, killed or by itself; calls in flight get no answer.
ProcessEnd ==
    /\ up
    /\ up' = FALSE
    /\ ctxDone' = FALSE
    /\ soakStartCh' = NoReq
    /\ soakStatus' = NoReq
    /\ soakActive' = FALSE
    /\ soakWg' = 0
    /\ soakLifecycleMu' = Nobody
    /\ soakCancel' = NoWatcher
    /\ runPc' = "down"
    /\ runReq' = NoReq
    /\ runResumed' = FALSE
    /\ post' = [r \in Reqs |-> IF post[r] \in {"swapped", "sent"} THEN "lost"
                               ELSE post[r]]
    /\ stopPc' = [s \in Stops |-> IF stopPc[s] \in {"new", "true", "false"}
                                  THEN stopPc[s] ELSE "lost"]
    /\ wpc' = [w \in Watchers |-> IF Counted(w) THEN "dead" ELSE wpc[w]]
    /\ wfleet' = [w \in Watchers |-> FALSE]
    /\ overlap' = FALSE
    /\ UNCHANGED <<stopTarget, stopDelete, wreq, wresumed, wcancelled, wsaved,
                   restarts, stateFile, started, decommissions>>

ProcessStart ==
    /\ ~up
    /\ restarts < MaxRestarts
    /\ restarts' = restarts + 1
    /\ up' = TRUE
    /\ runPc' = "boot"
    /\ UNCHANGED <<monitorVars, clientVars, runReq, runResumed, wpc, wlocals,
                   ctxDone, stateFile, historyVars>>

----------------------------------------------------------------------------
\* newMigrationMonitor: the fields of a monitor nobody uses yet
FreshMonitor ==
    /\ soakStartCh = NoReq
    /\ soakStatus = NoReq
    /\ soakActive = FALSE
    /\ soakWg = 0
    /\ soakLifecycleMu = Nobody
    /\ soakCancel = NoWatcher

Init ==
    /\ FreshMonitor
    /\ post = [r \in Reqs |-> "new"]
    /\ stopPc = [s \in Stops |-> "new"]
    /\ stopTarget = [s \in Stops |-> NoWatcher]
    /\ stopDelete = [s \in Stops |-> FALSE]
    /\ runPc = "boot" /\ runReq = NoReq /\ runResumed = FALSE
    /\ wpc = [w \in Watchers |-> "unborn"]
    /\ wreq = [w \in Watchers |-> NoReq]
    /\ wresumed = [w \in Watchers |-> FALSE]
    /\ wcancelled = [w \in Watchers |-> FALSE]
    /\ wfleet = [w \in Watchers |-> FALSE]
    /\ wsaved = [w \in Watchers |-> FALSE]
    /\ up = TRUE /\ ctxDone = FALSE /\ restarts = 0
    /\ stateFile \in {NoReq, Corrupt}
    /\ started = [r \in Reqs |-> 0]
    /\ decommissions = [r \in Reqs |-> 0]
    /\ overlap = FALSE

PostStep(r) == EnqueueSend(r) \/ EnqueueStatus(r)
StopStep(s) == StopCancel(s) \/ StopLock(s) \/ StopWait(s) \/ StopRemove(s)
RunStep == \/ ResumeRead \/ ResumeStatus \/ ResumeActive
           \/ RunReceive \/ RunDispatch \/ RunStop
WatchStep(w) ==
    \/ WatchStart(w) \/ WatchAnnounce(w) \/ WatchPersist(w)
    \/ \E ok \in BOOLEAN : WatchDecommission(w, ok)
    \/ WatchRemoveState(w) \/ WatchCleanup(w)
WatchLoop(w) ==
    \/ WatchCancelled(w)
    \/ \E green, flag \in BOOLEAN : WatchTick(w, green, flag)
    \/ WatchPanic(w)

Next ==
    \/ \E r \in Reqs : EnqueueSwap(r) \/ PostStep(r)
    \/ \E s \in Stops : (\E del \in BOOLEAN : StopLoad(s, del)) \/ StopStep(s)
    \/ RunStep
    \/ \E w \in Watchers : WatchStep(w) \/ WatchLoop(w)
    \/ Shutdown \/ ProcessEnd \/ ProcessStart

\* The Go scheduler runs every goroutine that can run.  Nobody has to send a
\* request, stop the process, and ticks and their
\* outcomes are up to the cluster.
Fairness ==
    /\ \A r \in Reqs : WF_vars(PostStep(r))
    /\ \A s \in Stops : WF_vars(StopStep(s))
    /\ WF_vars(RunStep)
    /\ \A w \in Watchers : WF_vars(WatchStep(w)) /\ WF_vars(WatchCancelled(w))

Spec == Init /\ [][Next]_vars
FairSpec == Spec /\ Fairness

----------------------------------------------------------------------------
\* Properties.

\* Types of all variables; soakWg counts the goroutines between Add and Done.
TypeOK ==
    /\ soakStartCh \in Reqs \cup {NoReq}
    /\ soakStatus \in Reqs \cup {NoReq}
    /\ soakActive \in BOOLEAN
    /\ soakWg \in Nat
    /\ soakLifecycleMu \in Stops \cup {Nobody}
    /\ soakCancel \in Watchers \cup {NoWatcher}
    /\ post \in [Reqs -> PostPcs]
    /\ stopPc \in [Stops -> StopPcs]
    /\ stopTarget \in [Stops -> Watchers \cup {NoWatcher}]
    /\ stopDelete \in [Stops -> BOOLEAN]
    /\ runPc \in RunPcs
    /\ runReq \in Reqs \cup {NoReq}
    /\ runResumed \in BOOLEAN
    /\ wpc \in [Watchers -> WatcherPcs]
    /\ wreq \in [Watchers -> Reqs \cup {NoReq}]
    /\ wresumed \in [Watchers -> BOOLEAN]
    /\ wcancelled \in [Watchers -> BOOLEAN]
    /\ wfleet \in [Watchers -> BOOLEAN]
    /\ wsaved \in [Watchers -> BOOLEAN]
    /\ up \in BOOLEAN /\ ctxDone \in BOOLEAN /\ restarts \in Nat
    /\ stateFile \in Reqs \cup {NoReq, Corrupt}
    /\ started \in [Reqs -> Nat]
    /\ decommissions \in [Reqs -> Nat]
    /\ overlap \in BOOLEAN

\* At most one soak activation is in flight (TryEnqueue's guard on
\* soakActive), except in a process whose resume took the flag from a POST
\* accepted before resumeIfNeeded ran.
SingleFlight ==
    ~overlap => \A v, w \in Watchers : Working(v) /\ Working(w) => v = w

\* When TryStop returns true the watcher it cancelled has ended: it neither
\* writes the state file nor decommissions afterwards.
StopDrained ==
    \A s \in Stops : stopPc[s] \in {"remove", "true"} =>
        stopTarget[s] \in Watchers /\ wpc[stopTarget[s]] = "dead"

\* No stop call has reached the removal of the state file.
NoDeletingStop ==
    \A s \in Stops : stopDelete[s] => stopPc[s] \notin {"true", "lost"}

\* A persisted soak that was neither decommissioned, nor stopped with
\* delete_state, nor followed by another activation is on disk in every later
\* state, across shutdowns, crashes and resumes (run keeps the file on
\* cancellation, failure and panic; resumeIfNeeded only reads it).
SoakSurvives ==
    NoDeletingStop =>
        \A w \in Watchers :
            /\ wsaved[w]
            /\ decommissions[wreq[w]] = 0
            /\ \A v \in Watchers : wpc[v] = "unborn" \/ wreq[v] = wreq[w]
            => stateFile = wreq[w]

\* The effects of a soak are not repeated: SoakStarted is logged at most once
\* per activation however often the daemon restarts, since resumed watchers do
\* not announce themselves again; and a soak is decommissioned at most once in
\* the lifetime of a process, so only a restart that finds the state file again
\* can repeat it.
EffectsNotRepeated == \A r \in Reqs : started[r] <= 1 /\ decommissions[r] <= 1 + restarts

\* r got a watcher that has registered its CancelFunc
Served(r) == \E w \in Watchers : wreq[w] = r /\ wpc[w] \notin {"unborn", "start"}

\* A request TryEnqueue accepts gets its watcher unless the process stops first
\* or resume took the flag from it.
AcceptedIsServed ==
    \A r \in Reqs : post[r] = "sent" ~> Served(r) \/ ctxDone \/ ~up \/ overlap

\* A daemon that starts and reads a soak from disk gets a watcher for it into
\* the poll loop, unless it is stopped first.
PersistedIsResumed ==
    \A r \in Reqs : runPc = "resumeStatus" /\ runReq = r ~>
        \/ ctxDone \/ ~up
        \/ \E w \in Watchers : wresumed[w] /\ wreq[w] = r /\ wpc[w] = "loop"

\* A cancelled watcher ends, so that soakActive and soakWg are released.
CancelledWatcherEnds ==
    \A w \in Watchers : wcancelled[w] ~> wpc[w] = "dead"

----------------------------------------------------------------------------
\* Refuted.  The comment of TryEnqueue: "only one soak activation may be
\* in-flight at any time".
OneSoakInFlight ==
    \A v, w \in Watchers : Working(v) /\ Working(w) => v = w
=============================================================================
