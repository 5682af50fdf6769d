----------------------------- MODULE StatuszPoll -----------------------------
(***************************************************************************)
(* The statusz poll loop of the block node traffic shaper                  *)
(* (internal/daemon/blocknode/traffic_shaper_monitor.go) and the worker it *)
(* executes (internal/blocknode/shaper/reconciler.go, privexec).           *)
(*                                                                         *)
(* The loop takes the endpoint that the pod watcher discovered, asks an    *)
(* unprivileged worker for the digest of the membership that statusz wants *)
(* and, unless the digest is that of its last apply, has a privileged      *)
(* worker fetch statusz again and write the nft sets.  The pod watcher is  *)
(* the environment here; TrafficShaper puts the real one in its place.     *)
(***************************************************************************)
EXTENDS DiscoveredEndpoint, Naturals

CONSTANTS
    URLs,          \* endpoints, one per block node pod or configured
    BaseURL,       \* components.block_node.statusz.base_url, or NoURL
    Memberships,   \* what statusz may report and the nft sets may hold
    NoDigest,      \* the zero value of lastDigest
    MaxChanges,    \* bound on changes of what statusz reports
    MaxOperator    \* bound on operator commands that hold the policy lock

ASSUME PollAssumption ==
    /\ NoURL \notin URLs /\ BaseURL \in URLs \cup {NoURL}
    /\ NoDigest \notin Memberships /\ Memberships # {}
    /\ MaxChanges \in Nat /\ MaxOperator \in Nat /\ MaxRestarts \in Nat

VARIABLES
    \* the loop
    pollPc,        \* "read", "check", "fetch", "set", "select", "backoff"
    statuszURL, digest,             \* of the reconcile that runs
    lastURL, lastDigest, applied,   \* applied: lastApply is not zero
    aged,          \* statuszForceResyncInterval has passed since lastApply
    \* the privileged worker
    desired,
    listed,        \* the live sets that it compared with what it wants
    \* the world
    want,          \* what statusz reports at each endpoint
    live,          \* the membership in the nft sets
    lockHeld,      \* an operator command holds the policy lock
    changes, operator,
    \* history of the model
    written        \* endpoint of the last worker that succeeded in this run of the loop,
                   \* and the membership it wrote

shared == <<discoveredStatuszURL, toSignal, urlChanged>>
gate == <<lastURL, lastDigest, applied, aged>>
worker == <<desired, listed>>
world == <<want, live, lockHeld, changes, operator, restarted>>
loopVars == <<pollPc, statuszURL, digest, gate, worker, written>>
pollVars == <<shared, loopVars, world>>

NothingWritten == [url |-> NoURL, set |-> NoDigest]

PollReset ==
    /\ pollPc' = "read" /\ statuszURL' = NoURL /\ digest' = NoDigest
    /\ lastURL' = NoURL /\ lastDigest' = NoDigest /\ applied' = FALSE /\ aged' = FALSE
    /\ desired' = NoDigest /\ listed' = NoDigest
    /\ written' = NothingWritten

LoopInit ==
    /\ pollPc = "read" /\ statuszURL = NoURL /\ digest = NoDigest
    /\ lastURL = NoURL /\ lastDigest = NoDigest /\ applied = FALSE /\ aged = FALSE
    /\ desired = NoDigest /\ listed = NoDigest /\ written = NothingWritten
    /\ want \in [URLs -> Memberships] /\ live \in Memberships /\ lockHeld = FALSE
    /\ changes = 0 /\ operator = 0 /\ restarted = 0

PollInit ==
    /\ LoopInit
    /\ discoveredStatuszURL = NoURL /\ toSignal = FALSE /\ urlChanged = FALSE

-----------------------------------------------------------------------------
\* The pod watcher, as the loop sees it: the URL changes, then it signals.
Discover(u) ==
    /\ ~toSignal /\ u # discoveredStatuszURL
    /\ discoveredStatuszURL' = u /\ toSignal' = TRUE
    /\ UNCHANGED <<urlChanged, loopVars, world>>

\* Variant: an unbuffered channel, whose send finds a receiver at the select only.
SignalURLChanged_Unbuffered ==
    /\ toSignal /\ toSignal' = FALSE
    /\ pollPc' = IF pollPc = "select" THEN "read" ELSE pollPc
    /\ UNCHANGED <<discoveredStatuszURL, urlChanged, statuszURL, digest, gate, worker, written, world>>

\* signalURLChanged: a send that finds the channel full changes nothing.
SignalURLChanged ==
    /\ toSignal /\ toSignal' = FALSE
    /\ urlChanged' = TRUE
    /\ UNCHANGED <<discoveredStatuszURL, loopVars, world>>

EffectiveStatuszURL == IF BaseURL # NoURL THEN BaseURL ELSE discoveredStatuszURL

-----------------------------------------------------------------------------
\* Variant: another endpoint is only remembered.
ReadURL_KeepsGate ==
    /\ pollPc = "read"
    /\ statuszURL' = EffectiveStatuszURL /\ lastURL' = EffectiveStatuszURL
    /\ pollPc' = IF EffectiveStatuszURL = NoURL THEN "select" ELSE "check"
    /\ UNCHANGED <<shared, digest, lastDigest, applied, aged, worker, written, world>>

\* The first part of reconcile: the endpoint, and the reset of the gate when it
\* is another one.
ReadURL ==
    /\ pollPc = "read"
    /\ statuszURL' = EffectiveStatuszURL
    /\ IF EffectiveStatuszURL # lastURL
       THEN /\ lastURL' = EffectiveStatuszURL /\ lastDigest' = NoDigest
            /\ applied' = FALSE /\ aged' = FALSE
       ELSE UNCHANGED gate
    /\ pollPc' = IF EffectiveStatuszURL = NoURL THEN "select" ELSE "check"
    /\ UNCHANGED <<shared, digest, worker, written, world>>

\* Variant: no forced resync.
Check_NoResync ==
    /\ pollPc = "check"
    /\ digest' = want[statuszURL]
    /\ pollPc' = IF digest' = lastDigest /\ applied THEN "select" ELSE "fetch"
    /\ UNCHANGED <<shared, statuszURL, gate, worker, written, world>>

\* ReconcileShaperCheck and the digest gate.
Check ==
    /\ pollPc = "check"
    /\ digest' = want[statuszURL]
    /\ pollPc' = IF digest' = lastDigest /\ applied /\ ~aged THEN "select" ELSE "fetch"
    /\ UNCHANGED <<shared, statuszURL, gate, worker, written, world>>

\* ReconcileShaper, in the worker: statusz again, and the live sets, of which only
\* those that differ will be written.
Fetch ==
    /\ pollPc = "fetch"
    /\ desired' = want[statuszURL]
    /\ listed' = live
    /\ pollPc' = "set"
    /\ UNCHANGED <<shared, statuszURL, digest, gate, written, world>>

Writes == ~lockHeld /\ listed # desired

\* Any mix: the sets are written one by one.
Interrupted == live' \in IF pollPc = "set" /\ Writes THEN Memberships ELSE {live}

\* ApplySets under the non-blocking lock: a held lock is reported as skipped and
\* the worker succeeds.  A set that an operator changed since the listing stays
\* as it is if it did not differ then.
ApplySets ==
    /\ pollPc = "set"
    /\ live' \in IF ~Writes THEN {live} ELSE IF live = listed THEN {desired} ELSE Memberships
    /\ written' = [url |-> statuszURL, set |-> IF lockHeld THEN NoDigest ELSE desired]
    /\ lastDigest' = digest /\ applied' = TRUE /\ aged' = FALSE
    /\ pollPc' = "select"
    /\ UNCHANGED <<shared, statuszURL, digest, lastURL, worker, want, lockHeld, changes, operator, restarted>>

\* A worker fails, before or after it has written; the loop is supervised.
WorkerFails ==
    /\ pollPc \in {"check", "fetch", "set"}
    /\ Interrupted
    /\ pollPc' = "backoff"
    /\ UNCHANGED <<shared, statuszURL, digest, gate, worker, written, want, lockHeld, changes, operator, restarted>>

Reenter == pollPc = "backoff" /\ PollReset /\ UNCHANGED <<shared, world>>

\* The select of the loop.
Tick ==
    /\ pollPc = "select" /\ pollPc' = "read"
    /\ UNCHANGED <<shared, statuszURL, digest, gate, worker, written, world>>

Wake ==
    /\ pollPc = "select" /\ urlChanged
    /\ urlChanged' = FALSE /\ pollPc' = "read"
    /\ UNCHANGED <<discoveredStatuszURL, toSignal, statuszURL, digest, gate, worker, written, world>>

Age ==
    /\ applied /\ ~aged /\ aged' = TRUE
    /\ UNCHANGED <<shared, pollPc, statuszURL, digest, lastURL, lastDigest, applied, worker, written, world>>

-----------------------------------------------------------------------------
\* The block node reports something else.
StatuszChanges ==
    /\ changes < MaxChanges /\ changes' = changes + 1
    /\ \E u \in URLs : \E w \in Memberships \ {want[u]} : want' = [want EXCEPT ![u] = w]
    /\ UNCHANGED <<shared, loopVars, live, lockHeld, operator, restarted>>

\* An operator command takes the policy lock, changes the sets and releases it.
OperatorLocks ==
    /\ ~lockHeld /\ operator < MaxOperator
    /\ lockHeld' = TRUE /\ operator' = operator + 1
    /\ UNCHANGED <<shared, loopVars, want, live, changes, restarted>>

OperatorUnlocks ==
    /\ lockHeld /\ lockHeld' = FALSE
    /\ live' \in Memberships
    /\ UNCHANGED <<shared, loopVars, want, changes, operator, restarted>>

\* The daemon stops and starts; a worker that is writing is killed.
PollRestart ==
    /\ restarted < MaxRestarts /\ restarted' = restarted + 1
    /\ Interrupted
    /\ discoveredStatuszURL' = NoURL /\ toSignal' = FALSE /\ urlChanged' = FALSE
    /\ PollReset
    /\ UNCHANGED <<want, lockHeld, changes, operator>>

LoopSteps == ReadURL \/ Check \/ Fetch \/ ApplySets \/ Reenter \/ Wake
World == StatuszChanges \/ OperatorLocks \/ OperatorUnlocks

PollNext ==
    \/ \E u \in URLs \cup {NoURL} : Discover(u)
    \/ SignalURLChanged
    \/ LoopSteps \/ WorkerFails \/ Tick \/ Age \/ World \/ PollRestart

PollSpec == PollInit /\ [][PollNext]_pollVars

\* Go runs the goroutines; workers do not fail for ever; an operator command
\* ends; the ticker ticks and an hour passes.
FairPollSpec ==
    /\ PollSpec
    /\ WF_pollVars(ReadURL) /\ WF_pollVars(Reenter) /\ WF_pollVars(Wake)
    /\ SF_pollVars(Check) /\ SF_pollVars(Fetch) /\ SF_pollVars(ApplySets)
    /\ WF_pollVars(SignalURLChanged) /\ WF_pollVars(OperatorUnlocks)
    /\ SF_pollVars(Tick) /\ SF_pollVars(Age)
-----------------------------------------------------------------------------
\* The types; runReconcile executes a worker only for an endpoint, and the worker
\* that writes the nft sets has a membership to write.
TypeOK ==
    /\ discoveredStatuszURL \in URLs \cup {NoURL}
    /\ statuszURL \in URLs \cup {NoURL} /\ lastURL \in URLs \cup {NoURL}
    /\ toSignal \in BOOLEAN /\ urlChanged \in BOOLEAN /\ applied \in BOOLEAN
    /\ aged \in BOOLEAN /\ lockHeld \in BOOLEAN
    /\ pollPc \in {"read", "check", "fetch", "set", "select", "backoff"}
    /\ digest \in Memberships \cup {NoDigest} /\ lastDigest \in Memberships \cup {NoDigest}
    /\ desired \in Memberships \cup {NoDigest} /\ listed \in Memberships \cup {NoDigest}
    /\ want \in [URLs -> Memberships] /\ live \in Memberships
    /\ changes \in 0..MaxChanges /\ operator \in 0..MaxOperator /\ restarted \in 0..MaxRestarts
    /\ pollPc \in {"check", "fetch", "set"} => statuszURL \in URLs
    /\ pollPc = "set" => desired \in Memberships

\* signalURLChanged, the select of runStatuszPoll: a loop that has read the
\* endpoint and finds it changed later has a signal waiting, whatever happened
\* in between; no wake-up is lost.
WakeupPending ==
    pollPc \in {"check", "fetch", "set", "select"} /\ EffectiveStatuszURL # lastURL
      => toSignal \/ urlChanged

\* The reset of the gate in reconcile: an apply is skipped only when the last one
\* was for the endpoint in use, not on a digest that another endpoint gave.
SkipIsForEndpoint ==
    [][pollPc = "check" /\ pollPc' = "select" => written.url = statuszURL]_pollVars

\* The loop converges: when the endpoint stays, the sets end up with what it
\* reports, whatever operators, failures and restarts did before.
Converges ==
    <>[][EffectiveStatuszURL' = EffectiveStatuszURL]_pollVars =>
        <>[](EffectiveStatuszURL \in URLs => live = want[EffectiveStatuszURL])
==============================================================================
