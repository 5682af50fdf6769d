------------------------- MODULE TrafficShaperProofs -------------------------
(***************************************************************************)
(* Proofs about the traffic-shaper monitor, for any pods, addresses,       *)
(* memberships, configured base URL and bounds: about each of its two      *)
(* responsibilities by itself, and about the two side by side.             *)
(*                                                                         *)
(* The watcher.  DedupeIsSound is not inductive: recording a veth needs    *)
(* that the veth in the goroutine's hands carries the hierarchy (Handed),  *)
(* and a new sandbox needs that no veth of a later one is known (Known).   *)
(*                                                                         *)
(* The loop.  WakeupPending is inductive beside the types: the only step   *)
(* that takes the token, Wake, sends the loop back to reading the          *)
(* endpoint, and the only step that brings the endpoint and lastURL apart, *)
(* Discover, leaves the obligation to signal.                              *)
(*                                                                         *)
(* Together.  The loop is an environment that PodWatcher allows: it only   *)
(* takes the token.  Towards the loop the watcher is the environment that  *)
(* StatuszPoll assumes.  Quiet: between two events it owes no signal.      *)
(* Owner: the endpoint of a recorded pod is not empty, so clearing it is a *)
(* change.  Typed says which pods events are about.                        *)
(***************************************************************************)
EXTENDS TrafficShaper, TLAPS

Phases == {"none", "starting", "noip", "ready", "deleted"}

-----------------------------------------------------------------------------
\* The pod watcher.
WatcherTyped ==
    /\ phase \in [Pods -> Phases] /\ sandbox \in [Pods -> Nat]
    /\ DOMAIN attached = Pods /\ DOMAIN veth = Pods /\ DOMAIN task = Pods
    /\ DOMAIN snapshot = Pods

IsVeth(p, v) == v = NoVeth \/ \E n \in Nat : v = <<p, n>> /\ n <= sandbox[p] /\ phase[p] # "none"
Known == \A p \in Pods : IsVeth(p, attached[p]) /\ IsVeth(p, veth[p])
Handed == \A p \in Pods : task[p] = "record" /\ Exists(p) /\ veth[p] = VethOf(p) => VethOf(p) \in htb

WatcherInv == WatcherTyped /\ Known /\ Handed /\ DedupeIsSound

\* A fresh watcher satisfies the invariant.
LEMMA InitWatcherInv == WatcherInit => WatcherInv
<1> SUFFICES ASSUME WatcherInit PROVE WatcherInv
  OBVIOUS
<1>1. WatcherTyped /\ Known
  BY DEF WatcherInit, WatcherTyped, Phases, Known, IsVeth
<1>2. Handed /\ DedupeIsSound
  BY DEF WatcherInit, Handed, DedupeIsSound, Exists
<1> QED BY <1>1, <1>2 DEF WatcherInv

\* No veth of a pod is the zero value of the map, and no two pods share one.
LEMMA VethsDiffer ==
    ASSUME NEW p \in Pods, NEW q \in Pods, NEW m, NEW n
    PROVE  /\ <<p, m>> # NoVeth
           /\ p # q => <<p, m>> # <<q, n>>
           /\ m # n => <<p, m>> # <<q, n>>
  BY WatcherAssumption DEF NoVeth

\* The pods of the cluster come, fall, get sandboxes and go: the invariant stays.
LEMMA PodStepKeeps ==
    ASSUME WatcherInv, NEW q \in Pods, PodStep(q)
    PROVE  WatcherInv'
<1>0. WatcherTyped /\ Known /\ Handed /\ DedupeIsSound
  BY DEF WatcherInv
<1>1. UNCHANGED <<attached, veth, task, snapshot>>
  BY DEF PodStep, PodCreated, PodReady, PodFalls, PodDeleted, SetPhase, tasks
<1>2. \E ph \in Phases : phase' = [phase EXCEPT ![q] = ph] /\ ph # "none"
  BY DEF PodStep, PodCreated, PodReady, PodFalls, PodDeleted, SetPhase, Phases
<1>3. \/ UNCHANGED <<sandbox, htb>>
      \/ sandbox' = [sandbox EXCEPT ![q] = @ + 1] /\ htb' = htb \ {VethOf(q)}
      \/ UNCHANGED sandbox /\ htb' = htb \ {VethOf(q)} /\ phase'[q] = "deleted"
  BY <1>0 DEF PodStep, PodCreated, PodReady, PodFalls, PodDeleted, SetPhase, WatcherTyped
<1>4. \A p \in Pods : sandbox'[p] \in Nat /\ sandbox[p] <= sandbox'[p] /\ (p # q => sandbox'[p] = sandbox[p] /\ phase'[p] = phase[p])
  BY <1>0, <1>2, <1>3 DEF WatcherTyped
<1>5. WatcherTyped'
  BY <1>0, <1>1, <1>2, <1>3 DEF WatcherTyped
<1>6. \A p \in Pods : phase'[p] = "none" => phase[p] = "none"
  BY <1>0, <1>2, <1>4 DEF WatcherTyped
<1>7. ASSUME NEW p \in Pods, NEW v, IsVeth(p, v) PROVE IsVeth(p, v)'
  <2>1. CASE v = NoVeth
    BY <2>1 DEF IsVeth
  <2>2. ASSUME NEW n \in Nat, v = <<p, n>>, n <= sandbox[p], phase[p] # "none" PROVE IsVeth(p, v)'
    <3>1. n <= sandbox'[p] /\ phase'[p] # "none"
      BY <1>0, <1>4, <1>6, <2>2 DEF WatcherTyped
    <3> QED BY <2>2, <3>1 DEF IsVeth
  <2> QED BY <1>7, <2>1, <2>2 DEF IsVeth
<1>8. Known'
  BY <1>0, <1>1, <1>7 DEF Known
<1>9. ASSUME NEW p \in Pods, NEW v, IsVeth(p, v), Exists(p)', v = VethOf(p)',
             Exists(p) /\ v = VethOf(p) => v \in htb
      PROVE  v \in htb'
  <2>1. v # NoVeth
    BY <1>9, VethsDiffer DEF VethOf
  <2>2. PICK n \in Nat : v = <<p, n>> /\ n <= sandbox[p] /\ phase[p] # "none"
    BY <1>9, <2>1 DEF IsVeth
  <2>3. n = sandbox'[p] /\ sandbox'[p] = sandbox[p]
    BY <1>0, <1>4, <1>9, <2>2, VethsDiffer DEF VethOf, WatcherTyped
  <2>4. v = VethOf(p)
    BY <2>2, <2>3 DEF VethOf
  <2>5. phase[p] # "deleted"
    <3>1. CASE p = q
      BY <3>1, Zenon DEF PodStep, PodCreated, PodReady, PodFalls, PodDeleted, Exists, ContainersReady
    <3>2. CASE p # q
      BY <1>4, <1>9, <3>2 DEF Exists
    <3> QED BY <3>1, <3>2
  <2>6. v \in htb
    BY <1>0, <1>9, <2>2, <2>4, <2>5, Zenon DEF Exists, WatcherTyped, Phases
  <2> QED
    BY <1>0, <1>3, <1>9, <2>3, <2>4, <2>6, VethsDiffer DEF VethOf, Exists, WatcherTyped
<1>10. Handed'
  BY <1>0, <1>1, <1>9, Zenon DEF Handed, Known
<1>11. DedupeIsSound'
  BY <1>0, <1>1, <1>9 DEF DedupeIsSound, Known
<1> QED BY <1>5, <1>8, <1>10, <1>11 DEF WatcherInv

\* The watch loop and a restart of the daemon touch no veth and no hierarchy; they
\* forget attachments and start goroutines.
LEMMA WatchStepKeeps ==
    ASSUME WatcherInv, WatchStep \/ Disconnect \/ TakeSignal \/ WatcherRestart
    PROVE  WatcherInv'
<1>0. WatcherTyped /\ Known /\ Handed /\ DedupeIsSound
  BY Zenon DEF WatcherInv
<1>1. UNCHANGED <<phase, sandbox, htb>>
  BY DEF WatchStep, List, DispatchItem, HandleUpsert, HandlePodDelete, TakeEvent, FinishEvent,
         Disconnect, TakeSignal, WatcherRestart, cluster
<1>2. CASE WatcherRestart
  <2>1. \A p \in Pods : attached'[p] = NoVeth /\ veth'[p] = NoVeth /\ task'[p] = "none"
    BY <1>2, Zenon DEF WatcherRestart
  <2>2. WatcherTyped'
    BY <1>0, <1>1, <1>2 DEF WatcherRestart, WatcherTyped
  <2>3. Known'
    BY <2>1 DEF Known, IsVeth
  <2>4. Handed' /\ DedupeIsSound'
    BY <2>1, VethsDiffer DEF Handed, DedupeIsSound, VethOf
  <2> QED BY <2>2, <2>3, <2>4 DEF WatcherInv
<1>3. CASE HandlePodDelete
  <2>1. UNCHANGED <<veth, task, snapshot>> /\ DOMAIN attached' = Pods
    BY <1>0, <1>3 DEF HandlePodDelete, WatcherTyped
  <2>2. \A p \in Pods : attached'[p] \in {attached[p], NoVeth}
    BY <1>0, <1>3 DEF HandlePodDelete, WatcherTyped
  <2>3. WatcherTyped'
    BY <1>0, <1>1, <2>1, Zenon DEF WatcherTyped
  <2>4. Known'
    BY <1>0, <1>1, <2>1, <2>2, Zenon DEF Known, IsVeth
  <2>5. Handed'
    BY <1>0, <1>1, <2>1 DEF Handed, VethOf, Exists
  <2>6. DedupeIsSound'
    BY <1>0, <1>1, <2>2, VethsDiffer DEF DedupeIsSound, VethOf, Exists
  <2> QED BY <2>3, <2>4, <2>5, <2>6 DEF WatcherInv
<1>4. CASE FinishEvent
  <2>1. UNCHANGED <<attached, veth>> /\ DOMAIN task' = Pods /\ DOMAIN snapshot' = Pods
    BY <1>0, <1>4, Zenon DEF FinishEvent, WatcherTyped, tasks
  <2>2. \A p \in Pods : task'[p] \in {task[p], "start"}
    BY <1>0, <1>4, Zenon DEF FinishEvent, WatcherTyped, tasks
  <2>3. WatcherTyped' /\ Known' /\ DedupeIsSound'
    BY <1>0, <1>1, <2>1, Zenon DEF WatcherTyped, Known, IsVeth, DedupeIsSound, VethOf, Exists
  <2>4. Handed'
    BY <1>0, <1>1, <2>1, <2>2 DEF Handed, VethOf, Exists
  <2> QED BY <2>3, <2>4 DEF WatcherInv
<1>5. CASE List \/ DispatchItem \/ HandleUpsert \/ Disconnect \/ TakeSignal
  <2>1. UNCHANGED <<attached, veth, task, snapshot>>
    BY <1>5, Zenon DEF List, DispatchItem, HandleUpsert, Disconnect, TakeSignal, tasks
  <2> QED
    BY <1>0, <1>1, <2>1, Zenon DEF WatcherInv, WatcherTyped, Known, IsVeth, Handed, DedupeIsSound, VethOf, Exists
<1> QED BY <1>2, <1>3, <1>4, <1>5 DEF WatchStep

\* handlePodUpsert, step by step.
LEMMA TaskStepKeeps ==
    ASSUME WatcherInv, NEW q \in Pods, TaskStep(q)
    PROVE  WatcherInv'
<1>0. WatcherTyped /\ Known /\ Handed /\ DedupeIsSound
  BY DEF WatcherInv
<1>1. UNCHANGED <<phase, sandbox>>
  BY Zenon DEF TaskStep, ResolveVeth, GiveUp, AlreadyAttached, TCAttach, TCAttachFails, RecordAttached,
         FinishTask, TaskFrame, cluster
<1>2. htb \subseteq htb'
  BY Zenon DEF TaskStep, ResolveVeth, GiveUp, AlreadyAttached, TCAttach, TCAttachFails, RecordAttached,
         FinishTask, TaskFrame, cluster
<1>3. \A p \in Pods : p # q => attached'[p] = attached[p] /\ veth'[p] = veth[p] /\ task'[p] = task[p]
  BY <1>0 DEF TaskStep, ResolveVeth, GiveUp, AlreadyAttached, TCAttach, TCAttachFails,
              RecordAttached, FinishTask, TaskFrame, GoTo, WatcherTyped
<1>4. WatcherTyped'
  BY <1>0, <1>1, Zenon DEF TaskStep, ResolveVeth, GiveUp, AlreadyAttached, TCAttach, TCAttachFails,
              RecordAttached, FinishTask, TaskFrame, GoTo, WatcherTyped
<1>5. SUFFICES /\ IsVeth(q, attached[q])' /\ IsVeth(q, veth[q])'
               /\ task'[q] = "record" /\ Exists(q) /\ veth'[q] = VethOf(q) => VethOf(q) \in htb'
               /\ Exists(q) /\ attached'[q] = VethOf(q) => VethOf(q) \in htb'
  <2>1. Known'
    BY <1>0, <1>1, <1>3, <1>5, Zenon DEF Known, IsVeth
  <2>2. Handed' /\ DedupeIsSound'
    BY <1>0, <1>1, <1>2, <1>3, <1>5, Zenon DEF Handed, DedupeIsSound, VethOf, Exists
  <2> QED BY <1>4, <2>1, <2>2 DEF WatcherInv
<1>6. CASE ResolveVeth(q)
  <2>1. veth'[q] = VethOf(q) /\ task'[q] = "attach" /\ UNCHANGED <<htb, attached>>
    BY <1>0, <1>6, Zenon DEF ResolveVeth, GoTo, WatcherTyped
  <2>2. IsVeth(q, veth[q])'
    BY <1>0, <1>1, <1>6, <2>1 DEF ResolveVeth, IsVeth, VethOf, Exists, WatcherTyped
  <2>3. IsVeth(q, attached[q])'
    BY <1>0, <1>1, <2>1, Zenon DEF Known, IsVeth
  <2> QED BY <1>0, <2>1, <2>2, <2>3 DEF DedupeIsSound
<1>7. CASE GiveUp(q) \/ AlreadyAttached(q) \/ TCAttachFails(q)
  <2>1. task'[q] = "finish" /\ UNCHANGED <<htb, attached, veth>>
    BY <1>0, <1>7, Zenon DEF GiveUp, AlreadyAttached, TCAttachFails, GoTo, WatcherTyped
  <2>2. IsVeth(q, attached[q])' /\ IsVeth(q, veth[q])'
    BY <1>0, <1>1, <2>1, Zenon DEF Known, IsVeth
  <2> QED BY <1>0, <2>1, <2>2 DEF DedupeIsSound
<1>8. CASE TCAttach(q)
  <2>1. htb' = htb \cup {VethOf(q)} /\ UNCHANGED <<attached, veth>>
    BY <1>8 DEF TCAttach
  <2>2. IsVeth(q, attached[q])' /\ IsVeth(q, veth[q])'
    BY <1>0, <1>1, <2>1, Zenon DEF Known, IsVeth
  <2> QED BY <2>1, <2>2
<1>9. CASE RecordAttached(q)
  <2>1. /\ task[q] = "record" /\ task'[q] = "finish"
        /\ attached'[q] = veth[q] /\ UNCHANGED <<htb, veth>>
    BY <1>0, <1>9, Zenon DEF RecordAttached, GoTo, WatcherTyped
  <2>2. IsVeth(q, attached[q])' /\ IsVeth(q, veth[q])'
    BY <1>0, <1>1, <2>1, Zenon DEF Known, IsVeth
  <2> QED BY <1>0, <2>1, <2>2 DEF Handed
<1>10. CASE FinishTask(q)
  <2>1. veth'[q] = NoVeth /\ task'[q] = "none" /\ UNCHANGED <<htb, attached>>
    BY <1>0, <1>10, Zenon DEF FinishTask, WatcherTyped, cluster
  <2>2. IsVeth(q, attached[q])' /\ IsVeth(q, veth[q])'
    BY <1>0, <1>1, <2>1 DEF Known, IsVeth
  <2> QED BY <1>0, <2>1, <2>2 DEF DedupeIsSound
<1> QED BY <1>6, <1>7, <1>8, <1>9, <1>10 DEF TaskStep

\* A veth that handlePodUpsert has recorded as attached, and that is still there,
\* carries the hierarchy: skipping its attach is right, whatever goroutines,
\* deletions, new sandboxes, lost watches and restarts came in between.
THEOREM DedupeIsSoundHolds == WatcherSpec => []DedupeIsSound
<1>1. WatcherInv /\ [WatcherNext]_watcherVars => WatcherInv'
  <2> SUFFICES ASSUME WatcherInv, [WatcherNext]_watcherVars PROVE WatcherInv'
    BY Zenon
  <2>1. CASE UNCHANGED watcherVars
    BY <2>1 DEF WatcherInv, WatcherTyped, Known, IsVeth, Handed, DedupeIsSound, VethOf, Exists,
                watcherVars, cluster, tasks
  <2>2. CASE WatcherNext
    BY <2>2, PodStepKeeps, WatchStepKeeps, TaskStepKeeps DEF WatcherNext, WatcherSteps
  <2> QED BY <2>1, <2>2
<1>2. WatcherInv => DedupeIsSound
  BY DEF WatcherInv
<1> QED BY InitWatcherInv, <1>1, <1>2, PTL DEF WatcherSpec

-----------------------------------------------------------------------------
\* The poll loop.
PollInv == TypeOK /\ WakeupPending

\* TypeOK in three parts, for the provers.
Flags ==
    /\ toSignal \in BOOLEAN /\ urlChanged \in BOOLEAN /\ applied \in BOOLEAN
    /\ aged \in BOOLEAN /\ lockHeld \in BOOLEAN

Bounds ==
    changes \in 0..MaxChanges /\ operator \in 0..MaxOperator /\ restarted \in 0..MaxRestarts

Values ==
    /\ discoveredStatuszURL \in URLs \cup {NoURL}
    /\ statuszURL \in URLs \cup {NoURL} /\ lastURL \in URLs \cup {NoURL}
    /\ pollPc \in {"read", "check", "fetch", "set", "select", "backoff"}
    /\ digest \in Memberships \cup {NoDigest} /\ lastDigest \in Memberships \cup {NoDigest}
    /\ desired \in Memberships \cup {NoDigest} /\ listed \in Memberships \cup {NoDigest}
    /\ want \in [URLs -> Memberships] /\ live \in Memberships
    /\ pollPc \in {"check", "fetch", "set"} => statuszURL \in URLs
    /\ pollPc = "set" => desired \in Memberships

\* The parts are the type invariant of runStatuszPoll.
LEMMA TypeParts == TypeOK <=> Flags /\ Bounds /\ Values
  BY Zenon DEF TypeOK, Flags, Bounds, Values

\* A fresh loop satisfies the invariant.
LEMMA InitPollInv == PollInit => PollInv
<1> SUFFICES ASSUME PollInit PROVE PollInv
  OBVIOUS
<1>1. TypeOK
  <2>1. Flags
    BY Zenon DEF PollInit, LoopInit, Flags
  <2>2. Bounds
    BY PollAssumption DEF PollInit, LoopInit, Bounds
  <2>3. Values
    BY DEF PollInit, LoopInit, Values
  <2> QED BY <2>1, <2>2, <2>3, TypeParts
<1>2. WakeupPending
  BY DEF PollInit, LoopInit, WakeupPending
<1> QED BY <1>1, <1>2 DEF PollInv

\* Every step of the loop, the watcher, the block node and the operator keeps
\* the types.
LEMMA PollTypes == TypeOK /\ [PollNext]_pollVars => TypeOK'
<1> SUFFICES ASSUME TypeOK, [PollNext]_pollVars PROVE TypeOK'
  OBVIOUS
<1>0. Flags /\ Bounds /\ Values
  BY TypeParts
<1>p. Flags' /\ Bounds' /\ Values' => TypeOK'
  BY Zenon DEF TypeOK, Flags, Bounds, Values
<1> USE DEF shared, gate, worker, world, loopVars, Writes, Interrupted
<1>1. ASSUME NEW u \in URLs \cup {NoURL}, Discover(u) PROVE TypeOK'
  <2>1. Flags'
    BY <1>0, <1>1, Zenon DEF Discover, Flags
  <2>2. Bounds'
    BY <1>0, <1>1, Zenon DEF Discover, Bounds
  <2>3. Values'
    BY <1>0, <1>1 DEF Discover, Values
  <2> QED BY <2>1, <2>2, <2>3, <1>p
<1>2. CASE SignalURLChanged
  <2>1. Flags'
    BY <1>0, <1>2, Zenon DEF SignalURLChanged, Flags
  <2>2. Bounds'
    BY <1>0, <1>2, Zenon DEF SignalURLChanged, Bounds
  <2>3. Values'
    BY <1>0, <1>2 DEF SignalURLChanged, Values
  <2> QED BY <2>1, <2>2, <2>3, <1>p
<1>3. CASE ReadURL
  <2>1. Flags'
    BY <1>0, <1>3, Zenon DEF ReadURL, EffectiveStatuszURL, Flags
  <2>2. Bounds'
    BY <1>0, PollAssumption, <1>3, Zenon DEF ReadURL, EffectiveStatuszURL, Bounds
  <2>3. Values'
    BY <1>0, PollAssumption, <1>3, Zenon DEF ReadURL, EffectiveStatuszURL, Values
  <2> QED BY <2>1, <2>2, <2>3, <1>p
<1>4. CASE Check
  <2>1. Flags'
    BY <1>0, <1>4, Zenon DEF Check, Flags
  <2>2. Bounds'
    BY <1>0, <1>4, Zenon DEF Check, Bounds
  <2>3. Values'
    BY <1>0, <1>4, Zenon DEF Check, Values
  <2> QED BY <2>1, <2>2, <2>3, <1>p
<1>5. CASE Fetch
  <2>1. Flags'
    BY <1>0, <1>5 DEF Fetch, Flags
  <2>2. Bounds'
    BY <1>0, <1>5, Zenon DEF Fetch, Bounds
  <2>3. Values'
    BY <1>0, <1>5 DEF Fetch, Values
  <2> QED BY <2>1, <2>2, <2>3, <1>p
<1>6. CASE ApplySets
  <2>1. Flags'
    BY <1>0, <1>6, Zenon DEF ApplySets, Flags
  <2>2. Bounds'
    BY <1>0, <1>6, Zenon DEF ApplySets, Bounds
  <2>3. Values'
    BY <1>0, <1>6, Zenon DEF ApplySets, Values
  <2> QED BY <2>1, <2>2, <2>3, <1>p
<1>7. CASE WorkerFails
  <2>1. Flags'
    BY <1>0, <1>7, Zenon DEF WorkerFails, Flags
  <2>2. Bounds'
    BY <1>0, <1>7, Zenon DEF WorkerFails, Bounds
  <2>3. Values'
    BY <1>0, <1>7 DEF WorkerFails, Values
  <2> QED BY <2>1, <2>2, <2>3, <1>p
<1>8. CASE Reenter
  <2>1. Flags'
    BY <1>0, <1>8, Zenon DEF Reenter, PollReset, Flags
  <2>2. Bounds'
    BY <1>0, <1>8, Zenon DEF Reenter, PollReset, Bounds
  <2>3. Values'
    BY <1>0, <1>8, Zenon DEF Reenter, PollReset, Values
  <2> QED BY <2>1, <2>2, <2>3, <1>p
<1>9. CASE Tick
  <2>1. Flags'
    BY <1>0, <1>9, Zenon DEF Tick, Flags
  <2>2. Bounds'
    BY <1>0, <1>9, Zenon DEF Tick, Bounds
  <2>3. Values'
    BY <1>0, <1>9, Zenon DEF Tick, Values
  <2> QED BY <2>1, <2>2, <2>3, <1>p
<1>10. CASE Wake
  <2>1. Flags'
    BY <1>0, <1>10, Zenon DEF Wake, Flags
  <2>2. Bounds'
    BY <1>0, <1>10, Zenon DEF Wake, Bounds
  <2>3. Values'
    BY <1>0, <1>10, Zenon DEF Wake, Values
  <2> QED BY <2>1, <2>2, <2>3, <1>p
<1>11. CASE Age
  <2>1. Flags'
    BY <1>0, <1>11, Zenon DEF Age, Flags
  <2>2. Bounds'
    BY <1>0, <1>11, Zenon DEF Age, Bounds
  <2>3. Values'
    BY <1>0, <1>11 DEF Age, Values
  <2> QED BY <2>1, <2>2, <2>3, <1>p
<1>12. CASE StatuszChanges
  <2>1. Flags'
    BY <1>0, <1>12, Zenon DEF StatuszChanges, Flags
  <2>2. Bounds'
    BY <1>0, PollAssumption, <1>12 DEF StatuszChanges, Bounds
  <2>3. Values'
    BY <1>0, PollAssumption, <1>12 DEF StatuszChanges, Values
  <2> QED BY <2>1, <2>2, <2>3, <1>p
<1>13. CASE OperatorLocks
  <2>1. Flags'
    BY <1>0, <1>13, Zenon DEF OperatorLocks, Flags
  <2>2. Bounds'
    BY <1>0, PollAssumption, <1>13 DEF OperatorLocks, Bounds
  <2>3. Values'
    BY <1>0, PollAssumption, <1>13 DEF OperatorLocks, Values
  <2> QED BY <2>1, <2>2, <2>3, <1>p
<1>14. CASE OperatorUnlocks
  <2>1. Flags'
    BY <1>0, <1>14, Zenon DEF OperatorUnlocks, Flags
  <2>2. Bounds'
    BY <1>0, <1>14, Zenon DEF OperatorUnlocks, Bounds
  <2>3. Values'
    BY <1>0, <1>14, Zenon DEF OperatorUnlocks, Values
  <2> QED BY <2>1, <2>2, <2>3, <1>p
<1>15. CASE PollRestart
  <2>1. Flags'
    BY <1>0, <1>15, Zenon DEF PollRestart, PollReset, Flags
  <2>2. Bounds'
    BY <1>0, PollAssumption, <1>15 DEF PollRestart, PollReset, Bounds
  <2>3. Values'
    BY <1>0, PollAssumption, <1>15, Zenon DEF PollRestart, PollReset, Values
  <2> QED BY <2>1, <2>2, <2>3, <1>p
<1>16. CASE UNCHANGED pollVars
  BY <1>16 DEF pollVars, TypeOK
<1> QED
  BY <1>1, <1>2, <1>3, <1>4, <1>5, <1>6, <1>7, <1>8, <1>9, <1>10, <1>11, <1>12,
     <1>13, <1>14, <1>15, <1>16 DEF PollNext, LoopSteps, World

\* ... and loses no wake-up.
LEMMA PollWakeup == PollInv /\ [PollNext]_pollVars => WakeupPending'
<1> SUFFICES ASSUME PollInv, [PollNext]_pollVars PROVE WakeupPending'
  OBVIOUS
<1>0. TypeOK /\ WakeupPending
  BY Zenon DEF PollInv
<1> USE DEF WakeupPending, EffectiveStatuszURL, shared, gate, worker, world, loopVars
<1>1. ASSUME NEW u \in URLs \cup {NoURL}, Discover(u) PROVE WakeupPending'
  BY <1>1 DEF Discover
<1>2. CASE SignalURLChanged
  BY <1>2, Zenon DEF SignalURLChanged
<1>3. CASE ReadURL
  BY <1>3, Zenon DEF ReadURL
<1>4. CASE Check
  BY <1>0, <1>4, Zenon DEF Check
<1>5. CASE Fetch
  BY <1>0, <1>5, Zenon DEF Fetch
<1>6. CASE ApplySets
  BY <1>0, <1>6, Zenon DEF ApplySets
<1>7. CASE WorkerFails \/ Tick \/ Wake
  BY <1>7, Zenon DEF WorkerFails, Tick, Wake
<1>8. CASE Reenter \/ PollRestart
  BY <1>8, Zenon DEF Reenter, PollRestart, PollReset
<1>9. CASE Age
  BY <1>0, <1>9, Zenon DEF Age
<1>10. CASE World
  BY <1>0, <1>10, Zenon DEF World, StatuszChanges, OperatorLocks, OperatorUnlocks
<1>11. CASE UNCHANGED pollVars
  BY <1>0, <1>11 DEF pollVars
<1> QED
  BY <1>1, <1>2, <1>3, <1>4, <1>5, <1>6, <1>7, <1>8, <1>9, <1>10, <1>11, Zenon DEF PollNext, LoopSteps

\* runStatuszPoll keeps the invariant from its first step on.
LEMMA PollInductive == PollSpec => []PollInv
<1>1. PollInv /\ [PollNext]_pollVars => PollInv'
  BY PollTypes, PollWakeup DEF PollInv
<1> QED BY InitPollInv, <1>1, PTL DEF PollSpec

\* runStatuszPoll keeps the shape of its state.
THEOREM PollTypeCorrect == PollSpec => []TypeOK
  BY PollInductive, PTL DEF PollInv

\* The channel of capacity one with a non-blocking send loses no wake-up: a loop
\* that has read the endpoint has a signal waiting when it changes later.
THEOREM WakeupPendingHolds == PollSpec => []WakeupPending
  BY PollInductive, PTL DEF PollInv

\* The gate belongs to the endpoint in use: a reconcile that runs is for the
\* endpoint the gate was kept or reset for, and an apply the gate remembers was
\* for that endpoint.
GateInv ==
    /\ pollPc \in {"check", "fetch", "set"} => statuszURL = lastURL
    /\ applied => written.url = lastURL

\* Every step of the loop and its world keeps the gate with its endpoint.
LEMMA GateKept == GateInv /\ [PollNext]_pollVars => GateInv'
<1> SUFFICES ASSUME GateInv, [PollNext]_pollVars PROVE GateInv'
  OBVIOUS
<1>1. CASE ReadURL
  BY <1>1, Zenon DEF GateInv, ReadURL, gate
<1>2. CASE Check \/ Fetch
  BY <1>2 DEF GateInv, Check, Fetch, gate
<1>3. CASE ApplySets
  BY <1>3, Zenon DEF GateInv, ApplySets
<1>4. CASE WorkerFails \/ Tick \/ Wake
  BY <1>4 DEF GateInv, WorkerFails, Tick, Wake, gate
<1>5. CASE Reenter \/ PollRestart
  BY <1>5, Zenon DEF GateInv, Reenter, PollRestart, PollReset
<1>6. CASE Age
  BY <1>6 DEF GateInv, Age
<1>7. ASSUME UNCHANGED loopVars PROVE GateInv'
  BY <1>7 DEF GateInv, loopVars, gate
<1>8. CASE World \/ SignalURLChanged \/ (\E u \in URLs \cup {NoURL} : Discover(u)) \/ UNCHANGED pollVars
  <2>1. UNCHANGED loopVars
    BY <1>8, Zenon DEF World, StatuszChanges, OperatorLocks, OperatorUnlocks, SignalURLChanged,
                       Discover, pollVars
  <2> QED BY <1>7, <2>1
<1> QED BY <1>1, <1>2, <1>3, <1>4, <1>5, <1>6, <1>8, Zenon DEF PollNext, LoopSteps

\* Only the digest gate of Check leaves a check for the select.
LEMMA SkipIsCheck ==
    ASSUME [PollNext]_pollVars, pollPc = "check", pollPc' = "select"
    PROVE  Check
<1>1. \/ ReadURL \/ Check \/ Fetch \/ ApplySets \/ Reenter \/ Wake
      \/ WorkerFails \/ Tick \/ Age \/ PollRestart
      \/ World \/ SignalURLChanged \/ (\E u \in URLs \cup {NoURL} : Discover(u)) \/ UNCHANGED pollVars
  BY Zenon DEF PollNext, LoopSteps
<1>2. ~(ReadURL \/ Fetch \/ ApplySets \/ Reenter \/ Wake \/ WorkerFails \/ Tick)
  BY Zenon DEF ReadURL, Fetch, ApplySets, Reenter, Wake, WorkerFails, Tick
<1>3. ~(Age \/ PollRestart)
  BY Zenon DEF Age, PollRestart, PollReset
<1>4. ~(World \/ SignalURLChanged \/ (\E u \in URLs \cup {NoURL} : Discover(u)) \/ UNCHANGED pollVars)
  BY DEF World, StatuszChanges, OperatorLocks, OperatorUnlocks, SignalURLChanged, Discover,
         pollVars, loopVars
<1> QED BY <1>1, <1>2, <1>3, <1>4, Zenon

\* The reset of the gate in reconcile: an apply is skipped only when the last one
\* was for the endpoint in use, however the watcher changes it and whatever
\* fails, restarts or holds the lock in between.
THEOREM SkipIsForEndpointHolds == PollSpec => SkipIsForEndpoint
<1>1. PollInit => GateInv
  BY Zenon DEF PollInit, LoopInit, GateInv
<1>2. GateInv /\ [PollNext]_pollVars
        => [pollPc = "check" /\ pollPc' = "select" => written.url = statuszURL]_pollVars
  <2> SUFFICES ASSUME GateInv, [PollNext]_pollVars, pollPc = "check", pollPc' = "select"
               PROVE  written.url = statuszURL
    OBVIOUS
  <2>1. Check
    BY SkipIsCheck
  <2> QED BY <2>1 DEF GateInv, Check
<1> QED BY <1>1, <1>2, GateKept, PTL DEF PollSpec, SkipIsForEndpoint

-----------------------------------------------------------------------------
\* The two side by side.
Event == [type : {"upsert", "deleted"}, pod : Pods, phase : Phases]

Typed ==
    /\ phase \in [Pods -> Phases] /\ events \in Seq(Event) /\ pending \subseteq Event
    /\ toSignal \in BOOLEAN /\ urlChanged \in BOOLEAN
Quiet == watchPc # "handle" => toSignal = FALSE
Owner == discoveredStatuszPod \in Pods => discoveredStatuszURL # NoURL
Inv == Typed /\ Quiet /\ Owner

\* A fresh monitor satisfies the invariant and is a fresh loop.
LEMMA InitInv == Init => Inv /\ PollInit
<1> SUFFICES ASSUME Init PROVE Inv /\ PollInit
  OBVIOUS
<1>1. Typed
  <2>1. <<>> \in Seq(Event)
    OBVIOUS
  <2>2. toSignal = FALSE /\ urlChanged = FALSE
    BY Zenon DEF Init, WatcherInit
  <2>3. phase \in [Pods -> Phases] /\ events = <<>> /\ pending = {}
    BY Zenon DEF Init, WatcherInit, Phases
  <2> QED BY <2>1, <2>2, <2>3, Zenon DEF Typed
<1>2. Quiet /\ Owner
  BY WatcherAssumption DEF Init, WatcherInit, Quiet, Owner
<1>3. PollInit
  BY DEF Init, WatcherInit, PollInit
<1> QED BY <1>1, <1>2, <1>3 DEF Inv

\* The cluster: only phase and events change, and the loop sees nothing.
LEMMA PodStepMaps ==
    ASSUME Inv, NEW p \in Pods, PodStep(p), UNCHANGED pollOnly
    PROVE  Inv' /\ UNCHANGED pollVars
<1>0. Typed /\ Quiet /\ Owner
  BY Zenon DEF Inv
<1>1. UNCHANGED <<watchPc, pending, discoveredStatuszURL, discoveredStatuszPod, toSignal, urlChanged, restarted>>
  BY Zenon DEF PodStep, PodCreated, PodReady, PodFalls, PodDeleted, SetPhase, discovery
<1>2. PICK ph \in Phases, ty \in {"upsert", "deleted"} :
         phase' = [phase EXCEPT ![p] = ph] /\ Emit(ty, p, ph)
  BY Zenon DEF PodStep, PodCreated, PodReady, PodFalls, PodDeleted, SetPhase, Phases
<1>3. events' \in Seq(Event)
  <2>1. [type |-> ty, pod |-> p, phase |-> ph] \in Event
    BY <1>2, Zenon DEF Event
  <2> QED BY <1>0, <1>2, <2>1 DEF Emit, Typed
<1>4. Typed'
  BY <1>0, <1>1, <1>2, <1>3, Zenon DEF Typed
<1>5. Quiet' /\ Owner'
  BY <1>0, <1>1 DEF Quiet, Owner
<1>6. UNCHANGED pollVars
  BY <1>1, Zenon DEF pollOnly, pollVars, shared, loopVars, gate, worker, world
<1> QED BY <1>4, <1>5, <1>6 DEF Inv

\* The rest of the discovery is as recordDiscoveredStatusz leaves it.
LEMMA RecordMaps ==
    ASSUME Inv, watchPc # "handle", NEW e \in Event, RecordDiscoveredStatusz(e), UNCHANGED <<pollOnly, restarted>>
    PROVE  /\ toSignal' \in BOOLEAN /\ urlChanged' = urlChanged /\ Owner'
           /\ UNCHANGED pollVars \/ \E u \in URLs : Discover(u)
<1>0. Typed /\ Quiet /\ Owner /\ toSignal = FALSE
  BY DEF Inv, Quiet
<1>e. e.pod \in Pods /\ PodURL[e.pod] \in URLs
  BY ShaperAssumption, Zenon DEF Event
<1> USE DEF pollOnly, pollVars, shared, loopVars, gate, worker, world
<1>1. CASE e.phase # "ready"
  BY <1>0, <1>1, Zenon DEF RecordDiscoveredStatusz, discovery, Owner, Typed
<1>2. CASE e.phase = "ready" /\ discoveredStatuszURL = PodURL[e.pod]
  <2>1. toSignal' = FALSE /\ UNCHANGED <<urlChanged, discoveredStatuszURL>>
    BY <1>2, Zenon DEF RecordDiscoveredStatusz
  <2> QED BY <1>0, <1>2, <1>e, <2>1, ShaperAssumption, PollAssumption, Zenon DEF Owner
<1>3. CASE e.phase = "ready" /\ discoveredStatuszURL # PodURL[e.pod]
  <2>1. toSignal' = TRUE /\ UNCHANGED urlChanged /\ discoveredStatuszURL' = PodURL[e.pod]
    BY <1>3, Zenon DEF RecordDiscoveredStatusz
  <2>2. Discover(PodURL[e.pod])
    BY <1>0, <1>3, <2>1, Zenon DEF Discover
  <2> QED BY <1>e, <2>1, <2>2, ShaperAssumption, PollAssumption, Zenon DEF Owner
<1> QED BY <1>1, <1>2, <1>3

\* The watch loop: discovery and loss are changes of the endpoint, the end of an
\* event is the signal that is owed or nothing.
LEMMA WatchStepMaps ==
    ASSUME Inv, WatchStep \/ Disconnect, UNCHANGED pollOnly
    PROVE  /\ Inv'
           /\ UNCHANGED pollVars \/ SignalURLChanged \/ \E u \in URLs \cup {NoURL} : Discover(u)
<1>0. Typed /\ Quiet /\ Owner
  BY Zenon DEF Inv
<1>r. UNCHANGED <<phase, restarted>>
  BY Zenon DEF WatchStep, List, DispatchItem, HandleUpsert, HandlePodDelete, TakeEvent,
         FinishEvent, Disconnect, cluster
<1>s. <<>> \in Seq(Event)
  OBVIOUS
<1>1. CASE List \/ Disconnect
  <2>1. UNCHANGED <<discoveredStatuszURL, discoveredStatuszPod, toSignal, urlChanged>>
    BY <1>1, Zenon DEF List, Disconnect, discovery
  <2>2. events' = <<>> /\ watchPc # "handle"
    BY <1>1, Zenon DEF List, Disconnect
  <2>3. pending' \subseteq Event
    <3>1. CASE Disconnect
      BY <1>0, <3>1, Zenon DEF Disconnect, Typed
    <3>2. CASE List
      <4>1. pending' = {[type |-> "upsert", pod |-> p, phase |-> phase[p]] : p \in {q \in Pods : Exists(q)}}
        BY <3>2, Zenon DEF List
      <4>2. \A p \in Pods : [type |-> "upsert", pod |-> p, phase |-> phase[p]] \in Event
        BY <1>0, Zenon DEF Typed, Event
      <4> QED BY <4>1, <4>2, Zenon
    <3> QED BY <1>1, <3>1, <3>2, Zenon
  <2>4. Inv'
    BY <1>0, <1>r, <1>s, <2>1, <2>2, <2>3, Zenon DEF Inv, Typed, Quiet, Owner
  <2> QED
    BY <1>r, <2>1, <2>4, Zenon DEF pollOnly, pollVars, shared, loopVars, gate, worker, world
<1>2. CASE DispatchItem
  <2>1. PICK e \in pending : pending' = pending \ {e} /\ RecordDiscoveredStatusz(e)
    BY <1>2, Zenon DEF DispatchItem
  <2>2. e \in Event /\ watchPc # "handle" /\ watchPc' = "handle" /\ events' = events
    BY <1>0, <1>2, <2>1, Zenon DEF DispatchItem, Typed
  <2>3. /\ toSignal' \in BOOLEAN /\ urlChanged' = urlChanged /\ Owner'
        /\ UNCHANGED pollVars \/ \E u \in URLs : Discover(u)
    BY <1>r, <2>1, <2>2, RecordMaps, Zenon
  <2>4. Inv'
    BY <1>0, <1>r, <2>1, <2>2, <2>3, Zenon DEF Inv, Typed, Quiet
  <2> QED BY <2>3, <2>4
<1>3. CASE HandleUpsert
  <2>1. /\ events # <<>> /\ events' = Tail(events) /\ pending' = pending
        /\ watchPc # "handle" /\ watchPc' = "handle" /\ RecordDiscoveredStatusz(Head(events))
    BY <1>3 DEF HandleUpsert, TakeEvent
  <2>2. Head(events) \in Event /\ Tail(events) \in Seq(Event)
    BY <1>0, <2>1 DEF Typed
  <2>3. /\ toSignal' \in BOOLEAN /\ urlChanged' = urlChanged /\ Owner'
        /\ UNCHANGED pollVars \/ \E u \in URLs : Discover(u)
    BY <1>r, <2>1, <2>2, RecordMaps
  <2>4. Inv'
    BY <1>0, <1>r, <2>1, <2>2, <2>3, Zenon DEF Inv, Typed, Quiet
  <2> QED BY <2>3, <2>4
<1>4. CASE HandlePodDelete
  <2>1. /\ events # <<>> /\ events' = Tail(events) /\ pending' = pending
        /\ watchPc # "handle" /\ watchPc' = "handle"
    BY <1>4 DEF HandlePodDelete, TakeEvent
  <2>h. Head(events) \in Event /\ Tail(events) \in Seq(Event)
    BY <1>0, <2>1 DEF Typed
  <2>2. Head(events).pod \in Pods /\ Tail(events) \in Seq(Event)
    BY <2>h DEF Event
  <2>3. toSignal = FALSE
    BY <1>0, <2>1, Zenon DEF Quiet
  <2>4. CASE discoveredStatuszPod = Head(events).pod
    <3>1. /\ discoveredStatuszURL' = NoURL /\ discoveredStatuszPod' = NoPod
          /\ toSignal' = TRUE /\ urlChanged' = urlChanged
      BY <1>4, <2>4, Zenon DEF HandlePodDelete
    <3>2. Discover(NoURL)
      BY <1>0, <1>r, <2>2, <2>3, <2>4, <3>1, Zenon
         DEF Discover, Owner, pollOnly, loopVars, gate, worker, world
    <3>3. Inv'
      BY <1>0, <1>r, <2>1, <2>2, <3>1, WatcherAssumption, PollAssumption, Zenon DEF Inv, Typed, Quiet, Owner
    <3> QED BY <3>2, <3>3
  <2>5. CASE discoveredStatuszPod # Head(events).pod
    <3>1. UNCHANGED <<discoveredStatuszURL, discoveredStatuszPod, toSignal, urlChanged>>
      BY <1>4, <2>5, Zenon DEF HandlePodDelete, discovery
    <3>2. Inv'
      BY <1>0, <1>r, <2>1, <2>2, <3>1, Zenon DEF Inv, Typed, Quiet, Owner
    <3> QED
      BY <1>r, <3>1, <3>2, Zenon DEF pollOnly, pollVars, shared, loopVars, gate, worker, world
  <2> QED BY <2>4, <2>5
<1>5. CASE FinishEvent
  <2>1. /\ toSignal' = FALSE /\ urlChanged' = (urlChanged \/ toSignal)
        /\ UNCHANGED <<discoveredStatuszURL, discoveredStatuszPod, pending, events>>
    BY <1>5 DEF FinishEvent, SignalAfterUnlock
  <2>2. Inv'
    BY <1>0, <1>r, <2>1, Zenon DEF Inv, Typed, Quiet, Owner
  <2>3. CASE toSignal
    BY <1>r, <2>1, <2>2, <2>3, Zenon DEF SignalURLChanged, pollOnly, loopVars, gate, worker, world
  <2>4. CASE ~toSignal
    <3>1. toSignal' = toSignal /\ urlChanged' = urlChanged
      BY <1>0, <2>1, <2>4, Zenon DEF Typed
    <3> QED
      BY <1>r, <2>1, <2>2, <3>1 DEF pollOnly, pollVars, shared, loopVars, gate, worker, world
  <2> QED BY <2>3, <2>4
<1> QED BY <1>1, <1>2, <1>3, <1>4, <1>5 DEF WatchStep

\* The goroutines of dispatchUpsert: the loop sees nothing of them.
LEMMA TaskStepMaps ==
    ASSUME Inv, NEW p \in Pods, TaskStep(p), UNCHANGED pollOnly
    PROVE  Inv' /\ UNCHANGED pollVars
<1>1. UNCHANGED <<phase, watchPc, pending, events, discoveredStatuszURL, discoveredStatuszPod,
                  toSignal, urlChanged, restarted>>
  BY Zenon DEF TaskStep, ResolveVeth, GiveUp, AlreadyAttached, TCAttach, TCAttachFails,
         RecordAttached, FinishTask, TaskFrame, cluster, discovery, watch
<1>2. Inv'
  BY <1>1, Zenon DEF Inv, Typed, Quiet, Owner
<1>3. UNCHANGED pollVars
  BY <1>1 DEF pollOnly, pollVars, shared, loopVars, gate, worker, world
<1> QED BY <1>2, <1>3

\* The loop's own steps are its steps; of the shared state they take the token
\* from the channel and nothing else.
LEMMA PollStepMaps ==
    ASSUME Inv, StatuszPollStep
    PROVE  Inv' /\ PollNext
<1>1. UNCHANGED watcherOnly /\ UNCHANGED <<discoveredStatuszURL, toSignal>>
  BY Zenon DEF StatuszPollStep, LoopSteps, World, ReadURL, Check, Fetch, ApplySets, Reenter, Wake,
         WorkerFails, Tick, Age, StatuszChanges, OperatorLocks, OperatorUnlocks, shared
<1>2. urlChanged' = urlChanged \/ urlChanged' = FALSE
  BY Zenon DEF StatuszPollStep, LoopSteps, World, ReadURL, Check, Fetch, ApplySets, Reenter, Wake,
         WorkerFails, Tick, Age, StatuszChanges, OperatorLocks, OperatorUnlocks, shared
<1>3. urlChanged' \in BOOLEAN
  BY <1>2, Zenon DEF Inv, Typed
<1>4. Inv'
  BY <1>1, <1>3 DEF Inv, Typed, Quiet, Owner, watcherOnly
<1>5. PollNext
  BY Zenon DEF StatuszPollStep, PollNext
<1> QED BY <1>4, <1>5

\* A restart takes both responsibilities.
LEMMA RestartMaps ==
    ASSUME Inv, Restart
    PROVE  Inv' /\ PollNext
<1>1. /\ events' = <<>> /\ pending' = {} /\ discoveredStatuszPod' = NoPod /\ phase' = phase
      /\ toSignal' = FALSE /\ urlChanged' = FALSE
  BY DEF Restart, WatcherRestart, cluster
<1>2. <<>> \in Seq(Event)
  OBVIOUS
<1>3. Inv'
  BY <1>1, <1>2, WatcherAssumption, PollAssumption, Zenon DEF Inv, Typed, Quiet, Owner
<1>4. PollNext
  BY Zenon DEF Restart, PollNext
<1> QED BY <1>3, <1>4

\* Every step of the monitor is a step of the poll loop's specification, or one
\* it does not see.
LEMMA StepMaps == Inv /\ [Next]_vars => Inv' /\ [PollNext]_pollVars
<1> SUFFICES ASSUME Inv, [Next]_vars PROVE Inv' /\ [PollNext]_pollVars
  OBVIOUS
<1>1. CASE PodWatcherStep
  <2>1. CASE \E p \in Pods : PodStep(p)
    BY <1>1, <2>1, PodStepMaps, Zenon DEF PodWatcherStep
  <2>2. CASE \E p \in Pods : TaskStep(p)
    BY <1>1, <2>2, TaskStepMaps DEF PodWatcherStep
  <2>3. CASE WatchStep \/ Disconnect
    <3>1. /\ Inv'
          /\ UNCHANGED pollVars \/ SignalURLChanged \/ \E u \in URLs \cup {NoURL} : Discover(u)
      BY <1>1, <2>3, WatchStepMaps, Zenon DEF PodWatcherStep
    <3> QED BY Zenon, <3>1 DEF PollNext
  <2> QED BY <1>1, <2>1, <2>2, <2>3, Zenon DEF PodWatcherStep, WatcherSteps
<1>2. CASE StatuszPollStep
  BY <1>2, PollStepMaps
<1>3. CASE Restart
  BY <1>3, RestartMaps
<1>4. CASE UNCHANGED vars
  <2>1. Inv'
    BY <1>4, Zenon DEF vars, watcherOnly, Inv, Typed, Quiet, Owner
  <2>2. UNCHANGED pollVars
    BY <1>4 DEF vars, pollOnly, pollVars, shared, loopVars, gate, worker, world
  <2> QED BY <2>1, <2>2
<1> QED BY <1>1, <1>2, <1>3, <1>4 DEF Next

\* recordDiscoveredStatusz, handlePodDelete, signalURLChanged: what StatuszPoll
\* promises under any discovery of endpoints, the real pod watcher gets.
THEOREM ImplementsPollHolds == Spec => ImplementsPoll
<1> QED BY InitInv, StepMaps, PTL DEF Spec, ImplementsPoll, PollSpec

\* runStatuszPoll towards the watcher: of its steps only the select that takes the
\* token from the channel touches what the watcher has.
LEMMA LoopMaps ==
    ASSUME StatuszPollStep
    PROVE  TakeSignal \/ UNCHANGED watcherVars
<1>0. UNCHANGED watcherOnly /\ (LoopSteps \/ WorkerFails \/ Tick \/ Age \/ World)
  BY Zenon DEF StatuszPollStep
<1>1. UNCHANGED <<phase, sandbox, htb, flaps, watchPc, pending, events, cur, attached,
                  inflight, discoveredStatuszPod, task, snapshot, veth>>
  BY <1>0, Zenon DEF watcherOnly
<1>2. CASE Wake
  BY <1>1, <1>2, Zenon DEF Wake, world, TakeSignal, cluster, watch, tasks
<1>3. CASE ~Wake
  <2>1. UNCHANGED shared /\ restarted' = restarted
    BY <1>0, <1>3, Zenon DEF LoopSteps, World, ReadURL, Check, Fetch, ApplySets, Reenter, WorkerFails,
                      Tick, Age, StatuszChanges, OperatorLocks, OperatorUnlocks, world
  <2> QED BY <1>1, <2>1 DEF shared, watcherVars, cluster, watch, discovery, tasks
<1> QED BY <1>2, <1>3

\* Run: the loop is an environment that the watcher's specification allows, so what
\* PodWatcher promises of the veths holds beside the loop.
THEOREM ImplementsWatcherHolds == Spec => WatcherSpec
<1>1. Init => WatcherInit
  BY DEF Init
<1>2. [Next]_vars => [WatcherNext]_watcherVars
  <2> SUFFICES ASSUME [Next]_vars PROVE [WatcherNext]_watcherVars
    OBVIOUS
  <2>1. CASE PodWatcherStep \/ Restart
    BY <2>1, Zenon DEF PodWatcherStep, Restart, WatcherNext
  <2>2. CASE StatuszPollStep
    BY <2>2, LoopMaps, Zenon DEF WatcherNext
  <2>3. CASE UNCHANGED vars
    BY <2>3 DEF vars, watcherOnly, watcherVars, cluster, watch, discovery, tasks
  <2> QED BY <2>1, <2>2, <2>3 DEF Next
<1> QED BY <1>1, <1>2, PTL DEF Spec, WatcherSpec

\* What was proved of each responsibility by itself holds where Run starts both: a
\* recorded veth that is still there carries the hierarchy, a loop that has read the
\* endpoint the watcher discovered has a signal waiting when it changes, and a
\* reconcile is skipped only for the endpoint its membership was applied for.
THEOREM BothHold == Spec => [](DedupeIsSound /\ WakeupPending) /\ SkipIsForEndpoint
<1>1. Spec => PollSpec
  BY ImplementsPollHolds DEF ImplementsPoll
<1> QED BY <1>1, ImplementsWatcherHolds, DedupeIsSoundHolds, WakeupPendingHolds, SkipIsForEndpointHolds, PTL
==============================================================================
