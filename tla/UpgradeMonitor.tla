--------------------------- MODULE UpgradeMonitor ---------------------------
(***************************************************************************)
(* The consensus node upgrade monitor of the daemon                        *)
(* (internal/daemon/consensus/upgrade_monitor.go).                         *)
(*                                                                         *)
(* Run lists the NetworkUpgradeExecute resources, remembers the operations *)
(* that are over, hands every resource at ReadyForProvisionerDaemon to     *)
(* handleEvent, oldest first, and then watches from the list's resource    *)
(* version until the stream ends.  handleEvent starts one goroutine per    *)
(* accepted operation.  The goroutine, the loop, the cluster and the end   *)
(* of the process interleave freely.  Back-off delays are not measured:    *)
(* a retry is a later step.                                                *)
(*                                                                         *)
(* The reconciler and the operators, who write phases, and the API server, *)
(* which accepts one generation of credentials, are external.              *)
(***************************************************************************)
EXTENDS Integers, Sequences, FiniteSets

CONSTANTS
    Crs,           \* NetworkUpgradeExecute resources
    Ops,           \* operation identifiers
    NoOp,          \* the empty operationId
    OpOf,          \* spec.operationId of a resource
    Age,           \* rank of a resource by creationTimestamp, oldest first
    Outcomes,      \* how handleExecute may end: "nil", "error", "panic"
    MaxWrites,     \* bound on phase writes
    MaxRotations,  \* bound on credential rotations
    MaxRestarts    \* bound on process restarts

ASSUME ConstantsAssumption ==
    /\ IsFiniteSet(Crs)
    /\ NoOp \notin Ops
    /\ OpOf \in [Crs -> Ops \cup {NoOp}]
    /\ Age \in [Crs -> Nat]
    /\ Outcomes \subseteq {"nil", "error", "panic"}
    /\ MaxWrites \in Nat /\ MaxRotations \in Nat /\ MaxRestarts \in Nat

VARIABLES
    phase,           \* status.phase of every resource, in the cluster
    writes,          \* number of phase writes so far
    stream,          \* events after the list's resource version, undelivered
    serverCred, diskCred, clientCred,  \* generations: accepted, on disk, in um.client
    runPc,           \* where Run is
    pending,         \* resources listAndSeed still has to hand to handleEvent
    connectivityErr, \* reason of um.connectivityErr
    activeOpID, completedOpIDs,
    running,         \* execute goroutines per resource
    restarts,
    \* history of this process
    successes,       \* executions per operation that returned nil
    terminalSeen,    \* operations some list showed in a terminal phase
    leftOver         \* resources this cycle leaves to the next list

clusterVars == <<phase, writes, serverCred, diskCred>>
slotVars == <<activeOpID, completedOpIDs, running, successes>>
loopVars == <<runPc, pending, connectivityErr, stream, clientCred, terminalSeen, leftOver>>
vars == <<clusterVars, slotVars, loopVars, restarts>>

\* "Pending" stands for every phase that is neither ready nor terminal, and for
\* a resource that does not exist: handleEvent and listAndSeed ignore them all.
Terminal == {"Succeeded", "Failed"}
Phases == {"Pending", "Ready"} \cup Terminal
Reasons == {"none", "ListError", "AuthError", "WatchError"}
RunPcs == {"down", "list", "dispatch", "watchStart", "watch"}

TypeOK ==
    /\ phase \in [Crs -> Phases] /\ writes \in Nat
    /\ stream \in Seq(Crs \X Phases)
    /\ serverCred \in Nat /\ diskCred \in Nat /\ clientCred \in Nat
    /\ runPc \in RunPcs
    /\ pending \subseteq Crs
    /\ connectivityErr \in Reasons
    /\ activeOpID \in Ops \cup {NoOp}
    /\ completedOpIDs \subseteq Ops
    /\ running \in [Crs -> Nat]
    /\ restarts \in Nat
    /\ successes \in [Ops -> Nat]
    /\ terminalSeen \subseteq Ops
    /\ leftOver \subseteq Crs

Init ==
    /\ phase \in [Crs -> {"Pending", "Ready"}]
    /\ writes = 0
    /\ stream = <<>> /\ pending = {}
    /\ serverCred = 0 /\ diskCred = 0 /\ clientCred = 0
    /\ runPc = "list"
    /\ connectivityErr = "none"
    /\ activeOpID = NoOp /\ completedOpIDs = {}
    /\ running = [c \in Crs |-> 0]
    /\ restarts = 0
    /\ successes = [o \in Ops |-> 0]
    /\ terminalSeen = {} /\ leftOver = {}

----------------------------------------------------------------------------
(* The cluster *)

\* Someone writes a phase; the event reaches a watch that starts at the list.
WritePhase(c, p) ==
    /\ writes < MaxWrites
    /\ phase[c] # p
    /\ phase' = [phase EXCEPT ![c] = p]
    /\ writes' = writes + 1
    /\ stream' = IF runPc \in {"dispatch", "watchStart", "watch"}
                   THEN Append(stream, <<c, p>>) ELSE stream
    /\ UNCHANGED <<serverCred, diskCred, slotVars, runPc, pending,
                   connectivityErr, clientCred, terminalSeen, leftOver, restarts>>

\* The server stops accepting the current credential; daemon service install
\* writes the accepted one to the kubeconfig.
Rotate ==
    /\ \/ /\ serverCred < MaxRotations
          /\ serverCred' = serverCred + 1
          /\ UNCHANGED diskCred
       \/ /\ diskCred # serverCred
          /\ diskCred' = serverCred
          /\ UNCHANGED serverCred
    /\ UNCHANGED <<phase, writes, slotVars, loopVars, restarts>>

----------------------------------------------------------------------------
(* handleEvent and the execute goroutine *)

\* Variant: the busy slot is not consulted.
HandleEvent_NoSlot(c, p) ==
    IF p = "Ready" /\ OpOf[c] # NoOp /\ OpOf[c] \notin completedOpIDs
      THEN /\ activeOpID' = OpOf[c]
           /\ running' = [running EXCEPT ![c] = @ + 1]
           /\ UNCHANGED <<completedOpIDs, successes, leftOver>>
      ELSE UNCHANGED <<slotVars, leftOver>>

\* handleEvent on a resource seen at phase p.
HandleEvent(c, p) ==
    IF p # "Ready" \/ OpOf[c] = NoOp \/ OpOf[c] \in completedOpIDs
      THEN UNCHANGED <<slotVars, leftOver>>
    ELSE IF activeOpID # NoOp
      THEN /\ leftOver' = leftOver \cup {c}
           /\ UNCHANGED slotVars
      ELSE /\ activeOpID' = OpOf[c]
           /\ running' = [running EXCEPT ![c] = @ + 1]
           /\ UNCHANGED <<completedOpIDs, successes, leftOver>>

\* Variant: the finished operation is not remembered.
ExecuteEnds_Forgets(c, outcome) ==
    /\ running[c] > 0
    /\ running' = [running EXCEPT ![c] = @ - 1]
    /\ activeOpID' = IF activeOpID = OpOf[c] THEN NoOp ELSE activeOpID
    /\ successes' = IF outcome = "nil" THEN [successes EXCEPT ![OpOf[c]] = @ + 1] ELSE successes
    /\ leftOver' = IF outcome = "error" THEN leftOver \cup {c} ELSE leftOver
    /\ UNCHANGED <<completedOpIDs, clusterVars, runPc, pending, connectivityErr,
                   stream, clientCred, terminalSeen, restarts>>

\* The goroutine ends: its deferred function frees the slot and, when execErr is
\* nil, remembers the operation.  A recovered panic leaves execErr nil.
ExecuteEnds(c, outcome) ==
    /\ running[c] > 0
    /\ running' = [running EXCEPT ![c] = @ - 1]
    /\ activeOpID' = IF activeOpID = OpOf[c] THEN NoOp ELSE activeOpID
    /\ completedOpIDs' = IF outcome \in {"nil", "panic"}
                           THEN completedOpIDs \cup {OpOf[c]} ELSE completedOpIDs
    /\ successes' = IF outcome = "nil" THEN [successes EXCEPT ![OpOf[c]] = @ + 1]
                                       ELSE successes
    /\ leftOver' = IF outcome = "error" THEN leftOver \cup {c} ELSE leftOver
    /\ UNCHANGED <<clusterVars, runPc, pending, connectivityErr, stream,
                   clientCred, terminalSeen, restarts>>

----------------------------------------------------------------------------
(* Run *)

OpsOf(S) == {OpOf[c] : c \in S} \ {NoOp}

\* Variant: only Succeeded counts as over.
ListAndSeed_SucceededOnly ==
    /\ runPc = "list"
    /\ clientCred = serverCred
    /\ completedOpIDs' = completedOpIDs \cup OpsOf({c \in Crs : phase[c] = "Succeeded"})
    /\ terminalSeen' = terminalSeen \cup OpsOf({c \in Crs : phase[c] \in Terminal})
    /\ pending' = {c \in Crs : phase[c] = "Ready"}
    /\ stream' = <<>>
    /\ leftOver' = {}
    /\ runPc' = "dispatch"
    /\ UNCHANGED <<clusterVars, activeOpID, running, successes,
                   connectivityErr, clientCred, restarts>>

\* listAndSeed: List succeeds, the operations of terminal resources are
\* remembered, the ready ones are collected.  Later writes are the watch's.
ListAndSeed ==
    /\ runPc = "list"
    /\ clientCred = serverCred
    /\ LET over == OpsOf({c \in Crs : phase[c] \in Terminal})
       IN  /\ completedOpIDs' = completedOpIDs \cup over
           /\ terminalSeen' = terminalSeen \cup over
    /\ pending' = {c \in Crs : phase[c] = "Ready"}
    /\ stream' = <<>>
    /\ leftOver' = {}
    /\ runPc' = "dispatch"
    /\ UNCHANGED <<clusterVars, activeOpID, running, successes,
                   connectivityErr, clientCred, restarts>>

\* Variant: a failed list is retried without a word.
ListFails_Silent ==
    /\ runPc = "list"
    /\ UNCHANGED vars

\* List fails: the error is published and the list retried with the same client.
ListFails ==
    /\ runPc = "list"
    /\ connectivityErr' = "ListError"
    /\ UNCHANGED <<clusterVars, slotVars, runPc, pending, stream, clientCred,
                   terminalSeen, leftOver, restarts>>

\* The loop over the sorted pending resources; equal timestamps in any order.
Dispatch ==
    /\ runPc = "dispatch"
    /\ \E c \in pending :
        /\ \A d \in pending : Age[c] <= Age[d]
        /\ pending' = pending \ {c}
        /\ HandleEvent(c, "Ready")
    /\ UNCHANGED <<clusterVars, runPc, connectivityErr, stream, clientCred,
                   terminalSeen, restarts>>

\* listAndSeed returns; the connectivity error is cleared.
ListDone ==
    /\ runPc = "dispatch"
    /\ pending = {}
    /\ runPc' = "watchStart"
    /\ connectivityErr' = "none"
    /\ UNCHANGED <<clusterVars, slotVars, pending, stream, clientCred,
                   terminalSeen, leftOver, restarts>>

\* Variant: the watch starts at the current resource version.
WatchStarts_AtHead ==
    /\ runPc = "watchStart"
    /\ clientCred = serverCred
    /\ runPc' = "watch"
    /\ stream' = <<>>
    /\ UNCHANGED <<clusterVars, slotVars, pending, connectivityErr, clientCred,
                   terminalSeen, leftOver, restarts>>

\* Watch is established from the list's resource version.
WatchStarts ==
    /\ runPc = "watchStart"
    /\ clientCred = serverCred
    /\ runPc' = "watch"
    /\ UNCHANGED <<clusterVars, slotVars, pending, connectivityErr, stream,
                   clientCred, terminalSeen, leftOver, restarts>>

\* An Added or Modified event is received.
WatchEvent ==
    /\ runPc = "watch"
    /\ stream # <<>>
    /\ HandleEvent(Head(stream)[1], Head(stream)[2])
    /\ stream' = Tail(stream)
    /\ UNCHANGED <<clusterVars, runPc, pending, connectivityErr, clientCred,
                   terminalSeen, restarts>>

\* Variant: the server never ends a watch.
WatchCloses_Never == FALSE

\* The result channel closes at watchTimeoutSeconds or earlier.
WatchCloses ==
    /\ runPc = "watch"
    /\ runPc' = "list"
    /\ stream' = <<>>
    /\ UNCHANGED <<clusterVars, slotVars, pending, connectivityErr, clientCred,
                   terminalSeen, leftOver, restarts>>

\* Watch fails, delivers an error event, or panics.  After an authentication
\* error the client is rebuilt from the kubeconfig, if that can be read.
WatchFails ==
    /\ runPc \in {"watchStart", "watch"}
    /\ runPc' = "list"
    /\ stream' = <<>>
    /\ \/ /\ clientCred # serverCred
          /\ connectivityErr' = "AuthError"
          /\ clientCred' \in {clientCred, diskCred}
       \/ /\ connectivityErr' = "WatchError"
          /\ UNCHANGED clientCred
    /\ UNCHANGED <<clusterVars, slotVars, pending, terminalSeen, leftOver, restarts>>

\* The process ends, by shutdown or crash; nobody waits for the goroutines.
ProcessEnds ==
    /\ runPc # "down"
    /\ restarts < MaxRestarts
    /\ runPc' = "down"
    /\ activeOpID' = NoOp /\ completedOpIDs' = {}
    /\ running' = [c \in Crs |-> 0]
    /\ successes' = [o \in Ops |-> 0]
    /\ pending' = {} /\ stream' = <<>> /\ leftOver' = {} /\ terminalSeen' = {}
    /\ connectivityErr' = "none"
    /\ UNCHANGED <<clusterVars, clientCred, restarts>>

\* NewUpgradeMonitor builds the client from the kubeconfig; Run is entered.
ProcessStarts ==
    /\ runPc = "down"
    /\ runPc' = "list"
    /\ clientCred' = diskCred
    /\ restarts' = restarts + 1
    /\ UNCHANGED <<clusterVars, slotVars, pending, connectivityErr, stream,
                   terminalSeen, leftOver>>

----------------------------------------------------------------------------
LoopStep ==
    \/ ListAndSeed \/ Dispatch \/ ListDone
    \/ WatchStarts \/ WatchEvent \/ WatchCloses

ExecuteStep(c) == \E outcome \in Outcomes : ExecuteEnds(c, outcome)

Next ==
    \/ LoopStep \/ ListFails \/ WatchFails
    \/ \E c \in Crs : ExecuteStep(c)
    \/ \E c \in Crs, p \in Phases : WritePhase(c, p)
    \/ Rotate \/ ProcessEnds \/ ProcessStarts

Spec == Init /\ [][Next]_vars

(***************************************************************************)
(* The loop runs, handleExecute returns (its steps carry time-outs), the   *)
(* server ends every watch after watchTimeoutSeconds, and systemd restarts *)
(* the process.  A call with a rejected credential fails; other errors,    *)
(* writes and rotations may stay away.                                     *)
(***************************************************************************)
FairSpec ==
    /\ Spec
    /\ WF_vars(ListAndSeed) /\ WF_vars(Dispatch) /\ WF_vars(ListDone)
    /\ WF_vars(WatchStarts) /\ WF_vars(WatchCloses) /\ WF_vars(ProcessStarts)
    /\ WF_vars(clientCred # serverCred /\ ListFails)
    /\ WF_vars(clientCred # serverCred /\ WatchFails)
    /\ \A c \in Crs : WF_vars(ExecuteStep(c))

----------------------------------------------------------------------------
(* Properties *)

\* The execution slot of handleEvent: at most one execute goroutine runs, and
\* activeOpID names its operation exactly while it runs.
OneExecution ==
    /\ \A c, d \in Crs : running[c] > 0 /\ running[d] > 0 => c = d
    /\ \A c \in Crs : running[c] > 0 => running[c] = 1 /\ activeOpID = OpOf[c]
    /\ activeOpID # NoOp => \E c \in Crs : running[c] > 0

\* completedOpIDs: whatever is listed, replayed or delivered late, an operation
\* whose execution returned nil is not executed again by the same process.
ExecutedOnce == \A o \in Ops : successes[o] <= 1

\* listAndSeed's seeding: an operation that a list of this process has shown in
\* a terminal phase is not started, be it by a late event or another resource.
TerminalStaysOver ==
    [][\A c \in Crs : running'[c] > running[c] => OpOf[c] \notin terminalSeen]_vars

\* The gapless watch from the list's resource version: a resource that is ready
\* is waiting in the list or in the stream, or has been dealt with, or was seen
\* and left to the next list.
NothingMissed ==
    runPc \in {"dispatch", "watchStart", "watch"} =>
      \A c \in Crs : phase[c] = "Ready" /\ OpOf[c] # NoOp =>
        \/ c \in pending \cup leftOver
        \/ \E i \in 1..Len(stream) : stream[i] = <<c, "Ready">>
        \/ running[c] > 0
        \/ OpOf[c] \in completedOpIDs

\* A ready resource is executed, by this process or a later one, unless it
\* stops being ready or the credential stops being accepted: a busy rejection
\* is retried by the next list.  An operation that fails again and again may
\* keep the slot from younger ones, so failures have to end.
ReadyIsExecuted ==
    <>[][\A c \in Crs : ~ExecuteEnds(c, "error")]_vars =>
    \A c \in Crs : phase[c] = "Ready" /\ OpOf[c] # NoOp ~>
        \/ phase[c] # "Ready" \/ activeOpID = OpOf[c] \/ OpOf[c] \in completedOpIDs
        \/ clientCred # serverCred

\* A daemon whose credential is no longer accepted says so: the failed list or
\* watch is published as the connectivity error.
OutageIsVisible ==
    clientCred # serverCred ~> clientCred = serverCred \/ connectivityErr # "none"

\* Refuted.  The comment in the execute goroutine: an operation is marked completed only
\* on success, so that a failed one can be retried.
CompletedOnlyOnSuccess ==
    \A o \in completedOpIDs : o \in terminalSeen \/ successes[o] > 0
=============================================================================
