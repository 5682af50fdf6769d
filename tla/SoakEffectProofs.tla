-------------------------- MODULE SoakEffectProofs --------------------------
(***************************************************************************)
(* Proofs about what a soak leaves behind in MigrationMonitor: the state   *)
(* file, the SoakStarted events and the decommissions, for any sets of     *)
(* requests, stop calls and watchers and any number of restarts.           *)
(*                                                                         *)
(* PlaceInv follows a request.  It goes once from its handler through the  *)
(* channel and the dispatcher to a fresh watcher; after that only the      *)
(* state file brings it back, and only to the first watcher of a process.  *)
(* So a request has one fresh watcher ever, and one watcher per process.   *)
(* StartedInv and DecommissionInv draw the consequences, SurvivalInv says  *)
(* who removes the file.  They are inductive relative to the invariant of  *)
(* MigrationMonitorProofs.                                                 *)
(***************************************************************************)
EXTENDS MigrationMonitorProofs

\* Where a request has been: sent once its handler has left the select, seen once
\* a watcher was spawned for it.
Sent(r) == post[r] \notin {"new", "swapped"}
Seen(r) == \E w \in Watchers : wpc[w] # "unborn" /\ wreq[w] = r

ArmedPcs  == {"start", "announce", "persist", "loop", "decommission"}
ResumePcs == {"resumeStatus", "resumeActive"}

\* What the dispatcher carries is a request that nobody was spawned for, from the
\* channel, or one that the state file brought back before anybody is counted.
CarriedInv ==
    /\ runPc \in ResumePcs => runResumed
    /\ runPc \in ResumePcs \cup {"dispatch"} /\ runResumed => Seen(runReq)
    /\ runPc = "dispatch" /\ runResumed => \A w \in Watchers : ~Counted(w)
    /\ runPc = "dispatch" /\ ~runResumed =>
         Sent(runReq) /\ soakStartCh # runReq /\ ~Seen(runReq)

\* A request is in one place: with its handler, in the channel, or with watchers of
\* which one is fresh at most and one is alive at most.
PlaceInv ==
    /\ \A r \in Reqs : soakStartCh = r => Sent(r)
    /\ \A r \in Reqs : Seen(r) => Sent(r) /\ soakStartCh # r
    /\ stateFile \in Reqs => Seen(stateFile)
    /\ \A v, w \in Watchers :
         /\ wpc[v] # "unborn" /\ wpc[w] # "unborn"
         /\ ~wresumed[v] /\ ~wresumed[w] /\ wreq[v] = wreq[w]
         => v = w
    /\ \A v, w \in Watchers : Counted(v) /\ Counted(w) /\ wreq[v] = wreq[w] => v = w

\* SoakStarted was logged by a fresh watcher that is past it.
StartedInv ==
    \A r \in Reqs :
        /\ started[r] <= 1
        /\ started[r] # 0 =>
             \E w \in Watchers : /\ wpc[w] \notin {"unborn", "start", "announce"}
                                 /\ ~wresumed[w] /\ wreq[w] = r

\* A request that can still be decommissioned in this process was not yet
\* decommissioned in it.
DecommissionInv ==
    /\ \A r \in Reqs : decommissions[r] <= 1 + restarts
    /\ \A r \in Reqs : decommissions[r] # 0 => Seen(r)
    /\ runPc \in ResumePcs \cup {"boot"} => \A r \in Reqs : decommissions[r] <= restarts
    /\ runPc = "dispatch" => decommissions[runReq] <= restarts
    /\ \A w \in Watchers : wpc[w] \in ArmedPcs => decommissions[wreq[w]] <= restarts

\* The state file is removed by a stop call that asked for it or by a watcher that
\* decommissioned its request.
SurvivalInv ==
    /\ SoakSurvives
    /\ \A w \in Watchers : wsaved[w] => wpc[w] # "unborn"
    /\ \A w \in Watchers : wpc[w] = "completed" => decommissions[wreq[w]] # 0
    /\ \A s \in Stops : stopPc[s] = "remove" => stopDelete[s]

EffectInv == CarriedInv /\ PlaceInv /\ StartedInv /\ DecommissionInv /\ SurvivalInv

\* The empty monitor satisfies them.
LEMMA InitEffect == Init => EffectInv
<1> SUFFICES ASSUME Init PROVE EffectInv
  OBVIOUS
<1> USE ConstantsAssumption DEF Init, FreshMonitor
<1>1. \A w \in Watchers : wpc[w] = "unborn" /\ ~wsaved[w]
  OBVIOUS
<1>2. \A r \in Reqs : started[r] = 0 /\ decommissions[r] = 0
  OBVIOUS
<1>3. CarriedInv /\ PlaceInv
  BY <1>1 DEF CarriedInv, PlaceInv, Seen, Counted, ResumePcs
<1>4. StartedInv /\ DecommissionInv
  BY <1>1, <1>2 DEF StartedInv, DecommissionInv, ArmedPcs
<1>5. SurvivalInv
  BY <1>1 DEF SurvivalInv, SoakSurvives
<1> QED BY <1>3, <1>4, <1>5 DEF EffectInv

----------------------------------------------------------------------------
\* Watchers only move forward: nobody is spawned or rearmed.
Forward ==
    /\ UNCHANGED <<wreq, wresumed>>
    /\ \A w \in Watchers :
        /\ wpc'[w] = "unborn" <=> wpc[w] = "unborn"
        /\ wpc'[w] \in {"start", "announce"} => wpc[w] \in {"start", "announce"}
        /\ wpc'[w] \in ArmedPcs => wpc[w] \in ArmedPcs
        /\ Counted(w)' => Counted(w)

\* Handlers only move forward.
SentStays == \A r \in Reqs : Sent(r) => Sent(r)'

\* A step of one watcher from one of its program counters to a later one is such a
\* step.
LEMMA OneForward ==
    ASSUME UNCHANGED <<wreq, wresumed>>, NEW w \in Watchers,
           \A v \in Watchers : v # w => wpc'[v] = wpc[v],
           wpc[w] \notin {"unborn", "dead"}, wpc'[w] \notin {"unborn", "start"},
           wpc'[w] = "announce" => wpc[w] = "start",
           wpc'[w] \in ArmedPcs => wpc[w] \in ArmedPcs
    PROVE  Forward
BY Zenon DEF Forward, Counted

\* Nobody is seen anew.
LEMMA SeenStays == Forward => \A r : Seen(r)' <=> Seen(r)
BY Zenon DEF Forward, Seen

\* A step that dispatches nothing keeps what the dispatcher carries.
LEMMA CarriedFrame ==
    ASSUME ReqInv, CarriedInv, Forward, SentStays, NoReq \notin Reqs,
           soakStartCh' \in {soakStartCh, NoReq},
           \/ UNCHANGED <<runPc, runReq, runResumed>>
           \/ runPc' \notin ResumePcs \cup {"dispatch"}
    PROVE  CarriedInv'
<1> SUFFICES ASSUME UNCHANGED <<runPc, runReq, runResumed>> PROVE CarriedInv'
  BY Zenon DEF CarriedInv
<1>1. \A r : Seen(r)' <=> Seen(r)
  BY SeenStays
<1>2. runPc = "dispatch" => runReq \in Reqs
  BY DEF ReqInv
<1>3. runPc = "dispatch" /\ ~runResumed =>
        Sent(runReq)' /\ soakStartCh' # runReq /\ ~Seen(runReq)
  BY <1>2 DEF CarriedInv, SentStays, Sent
<1>4. runPc = "dispatch" /\ runResumed => \A w \in Watchers : ~Counted(w)'
  BY DEF CarriedInv, Forward
<1> QED BY <1>1, <1>3, <1>4 DEF CarriedInv, Sent

\* A step that sends and spawns nothing, and leaves on disk what was seen, keeps
\* every request in its place.
LEMMA PlaceFrame ==
    ASSUME PlaceInv, Forward, SentStays, NoReq \notin Reqs,
           soakStartCh' \in {soakStartCh, NoReq},
           stateFile' \in {stateFile, NoReq} \/ Seen(stateFile')
    PROVE  PlaceInv'
<1>1. \A r : Seen(r)' <=> Seen(r)
  BY SeenStays
<1>2. \A r \in Reqs : soakStartCh' = r => soakStartCh = r
  OBVIOUS
<1>3. \A r \in Reqs : (soakStartCh' = r => Sent(r)') /\ (Seen(r)' => Sent(r)' /\ soakStartCh' # r)
  BY <1>1, <1>2 DEF PlaceInv, SentStays
<1>4. stateFile' \in Reqs => Seen(stateFile')
  BY DEF PlaceInv
<1>5. \A v, w \in Watchers :
        /\ wpc'[v] # "unborn" /\ wpc'[w] # "unborn"
        /\ ~wresumed'[v] /\ ~wresumed'[w] /\ wreq'[v] = wreq'[w]
        => v = w
  BY DEF PlaceInv, Forward
<1>6. \A v, w \in Watchers : Counted(v)' /\ Counted(w)' /\ wreq'[v] = wreq'[w] => v = w
  BY DEF PlaceInv, Forward
<1> QED BY <1>1, <1>3, <1>4, <1>5, <1>6 DEF PlaceInv

\* A step that logs no SoakStarted keeps the count.
LEMMA StartedFrame == StartedInv /\ Forward /\ UNCHANGED started => StartedInv'
BY DEF StartedInv, Forward

\* A step that decommissions nothing keeps the balance, if the dispatcher takes up
\* only what was not decommissioned in this process.
LEMMA DecommissionFrame ==
    ASSUME DecommissionInv, Forward, UNCHANGED <<decommissions, restarts>>,
           runPc' \in ResumePcs \cup {"boot"} => runPc \in ResumePcs \cup {"boot"},
           runPc' = "dispatch" => decommissions[runReq'] <= restarts
    PROVE  DecommissionInv'
<1>1. \A r : Seen(r)' <=> Seen(r)
  BY SeenStays
<1>2. \A w \in Watchers : wpc'[w] \in ArmedPcs => decommissions'[wreq'[w]] <= restarts'
  BY DEF DecommissionInv, Forward
<1> QED BY <1>1, <1>2 DEF DecommissionInv

\* A step that writes and removes no state file, completes nobody and brings no stop
\* call to the removal keeps the invariant about the file.
LEMMA SurvivalFrame ==
    ASSUME SurvivalInv, Forward, UNCHANGED <<wsaved, decommissions, stateFile>>,
           \A w \in Watchers : wpc'[w] = "completed" => wpc[w] = "completed",
           NoDeletingStop' => NoDeletingStop,
           \A s \in Stops : stopPc'[s] = "remove" => stopDelete'[s]
    PROVE  SurvivalInv'
<1>1. SoakSurvives'
  BY DEF SoakSurvives, SurvivalInv, Forward
<1> QED BY <1>1 DEF SurvivalInv, Forward

\* A step of others leaves the invariant about the file as it is.
LEMMA SurvivalStays ==
    ASSUME SurvivalInv, Forward,
           UNCHANGED <<wsaved, decommissions, stateFile, stopPc, stopDelete>>,
           \A w \in Watchers : wpc'[w] = "completed" => wpc[w] = "completed"
    PROVE  SurvivalInv'
BY SurvivalFrame DEF SurvivalInv, NoDeletingStop

----------------------------------------------------------------------------
\* The steps of the handlers.
LEMMA PostEffect ==
    ASSUME IndInv, EffectInv, NEW r \in Reqs, EnqueueSwap(r) \/ PostStep(r)
    PROVE  EffectInv'
<1>0. /\ TypeOK /\ ReqInv /\ CarriedInv /\ PlaceInv /\ StartedInv /\ DecommissionInv
      /\ SurvivalInv /\ NoReq \notin Reqs
  BY ConstantsAssumption, Zenon DEF IndInv, EffectInv
<1>1. /\ UNCHANGED <<wpc, wreq, wresumed, wsaved, started, decommissions, restarts,
                     stateFile, runPc, runReq, runResumed, stopPc, stopDelete>>
      /\ \A q \in Reqs : Sent(q) => Sent(q)'
      /\ soakStartCh' = soakStartCh \/ (~Sent(r) /\ Sent(r)' /\ soakStartCh' = r)
  BY <1>0 DEF EnqueueSwap, EnqueueSend, EnqueueStatus, PostStep, Sent, TypeOK,
              stopVars, runVars, wlocals, processVars, historyVars
<1>2. Forward /\ SentStays
  BY <1>1, Zenon DEF Forward, Counted, SentStays
<1>3. StartedInv' /\ DecommissionInv'
  BY <1>0, <1>1, <1>2, StartedFrame, DecommissionFrame, Zenon DEF DecommissionInv
<1>4. SurvivalInv'
  BY <1>0, <1>1, <1>2, SurvivalStays, Zenon
<1>5. CASE soakStartCh' = soakStartCh
  BY <1>0, <1>1, <1>2, <1>3, <1>4, <1>5, CarriedFrame, PlaceFrame, Zenon DEF EffectInv
<1>6. CASE ~Sent(r) /\ Sent(r)' /\ soakStartCh' = r
  <2>1. \A q : Seen(q)' <=> Seen(q)
    BY <1>2, SeenStays, Zenon
  <2>2. PlaceInv'
    BY <1>0, <1>1, <1>6, <2>1, Zenon DEF PlaceInv, Counted
  <2>3. CarriedInv'
    BY <1>0, <1>1, <1>6, <2>1 DEF CarriedInv, Counted, Sent, ReqInv
  <2> QED BY <1>3, <1>4, <2>2, <2>3 DEF EffectInv
<1> QED BY <1>1, <1>5, <1>6

\* The steps of the stop calls; the one that removes the file ends the claim that
\* no stop call has asked for that.
LEMMA StopEffect ==
    ASSUME IndInv, EffectInv, NEW s \in Stops,
           (\E del \in BOOLEAN : StopLoad(s, del)) \/ StopStep(s)
    PROVE  EffectInv'
<1>0. /\ TypeOK /\ ReqInv /\ CarriedInv /\ PlaceInv /\ StartedInv /\ DecommissionInv
      /\ SurvivalInv /\ NoReq \notin Reqs
  BY ConstantsAssumption DEF IndInv, EffectInv
<1>1. /\ UNCHANGED <<wpc, wreq, wresumed, wsaved, started, decommissions, restarts,
                     soakStartCh, runPc, runReq, runResumed, post>>
      /\ UNCHANGED stateFile \/ (StopRemove(s) /\ stateFile' = NoReq)
  BY Zenon DEF StopLoad, StopStep, StopCancel, StopLock, StopWait, StopRemove,
         RemoveStateFile, monitorVars, runVars, wlocals, processVars, historyVars
<1>2. Forward /\ SentStays
  BY <1>1, Zenon DEF Forward, Counted, SentStays, Sent
<1>3. StartedInv' /\ DecommissionInv'
  BY <1>0, <1>1, <1>2, StartedFrame, DecommissionFrame, Zenon DEF DecommissionInv
<1>4. CarriedInv' /\ PlaceInv'
  BY <1>0, <1>1, <1>2, CarriedFrame, PlaceFrame, Zenon
<1>5. NoDeletingStop' => NoDeletingStop
  BY <1>0 DEF StopLoad, StopStep, StopCancel, StopLock, StopWait, StopRemove, NoDeletingStop,
              TypeOK
<1>6. \A t \in Stops : stopPc'[t] = "remove" => stopDelete'[t]
  BY <1>0 DEF StopLoad, StopStep, StopCancel, StopLock, StopWait, StopRemove, SurvivalInv,
              TypeOK
<1>7. CASE UNCHANGED stateFile
  BY <1>0, <1>1, <1>2, <1>3, <1>4, <1>5, <1>6, <1>7, SurvivalFrame, Zenon DEF EffectInv
<1>8. CASE StopRemove(s)
  <2>1. ~NoDeletingStop'
    BY <1>0, <1>8, Zenon DEF StopRemove, NoDeletingStop, SurvivalInv, TypeOK
  <2>2. SurvivalInv'
    BY <1>0, <1>1, <1>6, <2>1, Zenon DEF SurvivalInv, SoakSurvives
  <2> QED BY <1>3, <1>4, <2>2 DEF EffectInv
<1> QED BY <1>1, <1>7, <1>8

\* The steps of Run before a spawn: the state file names a request that some
\* watcher was spawned for, the channel one that nobody was spawned for.
LEMMA RunEffect ==
    ASSUME IndInv, EffectInv,
           ResumeRead \/ ResumeStatus \/ ResumeActive \/ RunReceive \/ RunStop
    PROVE  EffectInv'
<1>0. /\ TypeOK /\ ReqInv /\ EarlyInv /\ CarriedInv /\ PlaceInv /\ StartedInv
      /\ DecommissionInv /\ SurvivalInv /\ NoReq \notin Reqs /\ Corrupt \notin Reqs
  BY ConstantsAssumption, Zenon DEF IndInv, EffectInv
<1>1. /\ UNCHANGED <<wpc, wreq, wresumed, wsaved, started, decommissions, restarts,
                     post, stopPc, stopDelete>>
      /\ stateFile' \in {stateFile, NoReq}
      /\ soakStartCh' \in {soakStartCh, NoReq}
      /\ stateFile' # stateFile => stateFile = Corrupt
  BY DEF ResumeRead, ResumeStatus, ResumeActive, RunReceive, RunStop, RemoveStateFile,
         monitorVars, clientVars, stopVars, wlocals, processVars, historyVars
<1>2. Forward /\ SentStays
  BY <1>1 DEF Forward, Counted, SentStays, Sent
<1>3. StartedInv' /\ PlaceInv'
  BY <1>0, <1>1, <1>2, StartedFrame, PlaceFrame, Zenon
<1>4. SurvivalInv'
  <2>1. CASE UNCHANGED stateFile
    BY <1>0, <1>1, <1>2, <2>1, SurvivalStays, Zenon
  <2>2. CASE stateFile = Corrupt
    <3>1. \A w \in Watchers : wsaved[w] => wreq[w] # stateFile
      BY <1>0, <2>2, Zenon DEF SurvivalInv, ReqInv
    <3>2. SoakSurvives'
      BY <1>0, <1>1, <3>1, Zenon DEF SurvivalInv, SoakSurvives, NoDeletingStop
    <3> QED BY <1>0, <1>1, <3>2 DEF SurvivalInv
  <2> QED BY <1>1, <2>1, <2>2
<1>5. \/ runPc' \in {"loop", "drain", "stopped"}
      \/ /\ runPc' \in ResumePcs /\ runPc \in ResumePcs \cup {"boot"}
         /\ runReq' \in Reqs /\ runResumed' /\ Seen(runReq')
      \/ /\ runPc' = "dispatch" /\ runPc \in ResumePcs /\ runReq' = runReq /\ runReq \in Reqs
         /\ runResumed' /\ Seen(runReq)
      \/ /\ runPc' = "dispatch" /\ soakStartCh \in Reqs /\ runReq' = soakStartCh
         /\ ~runResumed' /\ soakStartCh' = NoReq
  BY <1>0 DEF ResumeRead, ResumeStatus, ResumeActive, RunReceive, RunStop, CarriedInv,
              PlaceInv, ReqInv, TypeOK, ResumePcs
<1>6. \A q : Seen(q)' <=> Seen(q)
  BY <1>2, SeenStays, Zenon
<1>7. CASE runPc' \in {"loop", "drain", "stopped"}
  BY <1>0, <1>1, <1>2, <1>3, <1>4, <1>7, CarriedFrame, DecommissionFrame, Zenon
     DEF EffectInv, ResumePcs
<1>8. CASE /\ runPc' \in ResumePcs /\ runPc \in ResumePcs \cup {"boot"}
           /\ runReq' \in Reqs /\ runResumed' /\ Seen(runReq')
  <2>1. CarriedInv'
    BY <1>6, <1>8, Zenon DEF CarriedInv, ResumePcs
  <2>2. DecommissionInv'
    BY <1>0, <1>1, <1>2, <1>8, DecommissionFrame, Zenon DEF ResumePcs
  <2> QED BY <1>3, <1>4, <2>1, <2>2 DEF EffectInv
<1>9. CASE /\ runPc' = "dispatch" /\ runPc \in ResumePcs /\ runReq' = runReq /\ runReq \in Reqs
           /\ runResumed' /\ Seen(runReq)
  <2>1. \A w \in Watchers : ~Counted(w)'
    BY <1>0, <1>1, <1>9, Zenon DEF EarlyInv, ResumePcs, Counted
  <2>2. CarriedInv'
    BY <1>6, <1>9, <2>1, Zenon DEF CarriedInv, ResumePcs
  <2>3. DecommissionInv'
    BY <1>0, <1>1, <1>2, <1>9, DecommissionFrame, Zenon DEF DecommissionInv, ResumePcs
  <2> QED BY <1>3, <1>4, <2>2, <2>3 DEF EffectInv
<1>10. CASE /\ runPc' = "dispatch" /\ soakStartCh \in Reqs /\ runReq' = soakStartCh
            /\ ~runResumed' /\ soakStartCh' = NoReq
  <2>1. Sent(soakStartCh) /\ ~Seen(soakStartCh)
    BY <1>0, <1>10, Zenon DEF PlaceInv
  <2>2. decommissions[soakStartCh] <= restarts
    BY <1>0, <1>10, <2>1 DEF DecommissionInv, TypeOK
  <2>3. CarriedInv'
    BY <1>0, <1>1, <1>6, <1>10, <2>1, Zenon DEF CarriedInv, ResumePcs, Sent
  <2>4. DecommissionInv'
    BY <1>0, <1>1, <1>2, <1>10, <2>2, DecommissionFrame, Zenon DEF ResumePcs
  <2> QED BY <1>3, <1>4, <2>3, <2>4 DEF EffectInv
<1> QED BY <1>5, <1>7, <1>8, <1>9, <1>10

\* The spawn.  A fresh request has no other watcher; a resumed one has none that is
\* counted, since its process has spawned nobody before.
LEMMA DispatchEffect ==
    ASSUME IndInv, EffectInv, RunDispatch
    PROVE  EffectInv'
<1>0. /\ TypeOK /\ ReqInv /\ CarriedInv /\ PlaceInv /\ StartedInv /\ DecommissionInv
      /\ SurvivalInv /\ NoReq \notin Reqs
  BY ConstantsAssumption, Zenon DEF IndInv, EffectInv
<1>1. PICK w \in Watchers :
        /\ wpc[w] = "unborn"
        /\ wpc' = [wpc EXCEPT ![w] = "start"]
        /\ wreq' = [wreq EXCEPT ![w] = runReq]
        /\ wresumed' = [wresumed EXCEPT ![w] = runResumed]
  BY Zenon DEF RunDispatch
<1>2. /\ runPc = "dispatch" /\ runPc' = "loop" /\ runReq \in Reqs /\ runResumed \in BOOLEAN
      /\ UNCHANGED <<wsaved, started, decommissions, restarts, stateFile, soakStartCh,
                     post, stopPc, stopDelete>>
  BY <1>0 DEF RunDispatch, ReqInv, TypeOK, clientVars, stopVars, processVars, historyVars
<1>3. /\ wpc'[w] = "start" /\ wreq'[w] = runReq /\ wresumed'[w] = runResumed
      /\ \A v \in Watchers : v # w =>
           wpc'[v] = wpc[v] /\ wreq'[v] = wreq[v] /\ wresumed'[v] = wresumed[v]
  BY <1>0, <1>1 DEF TypeOK
<1>4. \A q : Seen(q)' <=> Seen(q) \/ q = runReq
  BY <1>1, <1>3, Zenon DEF Seen
<1>5. /\ Sent(runReq) /\ soakStartCh # runReq
      /\ \A v \in Watchers : Counted(v) => wreq[v] # runReq
      /\ ~runResumed => \A v \in Watchers : wpc[v] # "unborn" => wreq[v] # runReq
  <2>1. CASE runResumed
    BY <1>0, <1>2, <2>1, Zenon DEF CarriedInv, PlaceInv
  <2>2. CASE ~runResumed
    BY <1>0, <1>2, <2>2, Zenon DEF CarriedInv, Counted, Seen
  <2> QED BY <2>1, <2>2
<1>6. PlaceInv'
  <2>1. /\ \A q \in Reqs : soakStartCh' = q => Sent(q)'
        /\ \A q \in Reqs : Seen(q)' => Sent(q)' /\ soakStartCh' # q
        /\ stateFile' \in Reqs => Seen(stateFile)'
    BY <1>0, <1>2, <1>4, <1>5, Zenon DEF PlaceInv, Sent
  <2>2. \A u, v \in Watchers :
          /\ wpc'[u] # "unborn" /\ wpc'[v] # "unborn"
          /\ ~wresumed'[u] /\ ~wresumed'[v] /\ wreq'[u] = wreq'[v]
          => u = v
    BY <1>0, <1>3, <1>5 DEF PlaceInv
  <2>3. \A u, v \in Watchers : Counted(u)' /\ Counted(v)' /\ wreq'[u] = wreq'[v] => u = v
    BY <1>0, <1>3, <1>5 DEF PlaceInv, Counted
  <2> QED BY <2>1, <2>2, <2>3 DEF PlaceInv
<1>7. CarriedInv'
  BY <1>2, Zenon DEF CarriedInv, ResumePcs
<1>8. StartedInv'
  <2> SUFFICES ASSUME NEW q \in Reqs, started[q] # 0
               PROVE  \E v \in Watchers : /\ wpc'[v] \notin {"unborn", "start", "announce"}
                                          /\ ~wresumed'[v] /\ wreq'[v] = q
    BY <1>0, <1>2, Zenon DEF StartedInv
  <2>1. PICK v \in Watchers : /\ wpc[v] \notin {"unborn", "start", "announce"}
                              /\ ~wresumed[v] /\ wreq[v] = q
    BY <1>0 DEF StartedInv
  <2>2. v # w
    BY <1>1, <2>1, Zenon
  <2> QED BY <1>3, <2>1, <2>2
<1>9. DecommissionInv'
  <2>1. \A v \in Watchers : wpc'[v] \in ArmedPcs => decommissions'[wreq'[v]] <= restarts'
    BY <1>0, <1>2, <1>3, Zenon DEF DecommissionInv
  <2> QED BY <1>0, <1>2, <1>4, <2>1 DEF DecommissionInv, ResumePcs
<1>10. SurvivalInv'
  <2>1. ~wsaved[w]
    BY <1>0, <1>1, Zenon DEF SurvivalInv
  <2>2. SoakSurvives'
    <3> SUFFICES ASSUME NoDeletingStop', NEW v \in Watchers, wsaved[v],
                        decommissions[wreq'[v]] = 0,
                        \A u \in Watchers : wpc'[u] = "unborn" \/ wreq'[u] = wreq'[v]
                 PROVE  stateFile = wreq'[v]
      BY <1>2, Zenon DEF SoakSurvives
    <3>1. v # w /\ wreq'[v] = wreq[v]
      BY <1>3, <2>1, Zenon
    <3>2. \A u \in Watchers : wpc[u] = "unborn" \/ wreq[u] = wreq[v]
      BY <1>1, <1>3, <3>1
    <3>3. NoDeletingStop
      BY <1>2, Zenon DEF NoDeletingStop
    <3> QED BY <1>0, <3>1, <3>2, <3>3 DEF SurvivalInv, SoakSurvives
  <2>3. \A v \in Watchers : /\ wpc'[v] = "completed" => decommissions'[wreq'[v]] # 0
                            /\ wsaved'[v] => wpc'[v] # "unborn"
    BY <1>0, <1>2, <1>3, Zenon DEF SurvivalInv
  <2> QED BY <1>0, <1>2, <2>2, <2>3 DEF SurvivalInv
<1> QED BY <1>6, <1>7, <1>8, <1>9, <1>10 DEF EffectInv

\* The steps of a watcher that leave no trace outside the monitor but the removal
\* of the state file after a completed decommission.
LEMMA WatchEffect ==
    ASSUME IndInv, EffectInv, NEW w \in Watchers,
           WatchStart(w) \/ WatchRemoveState(w) \/ WatchCleanup(w) \/ WatchLoop(w)
    PROVE  EffectInv'
<1>0. /\ TypeOK /\ ReqInv /\ CarriedInv /\ PlaceInv /\ StartedInv /\ DecommissionInv
      /\ SurvivalInv /\ NoReq \notin Reqs
  BY ConstantsAssumption DEF IndInv, EffectInv
<1>1. /\ UNCHANGED <<wreq, wresumed, wsaved, started, decommissions, restarts, post,
                     soakStartCh, runPc, runReq, runResumed, stopPc, stopDelete>>
      /\ UNCHANGED stateFile \/ (wpc[w] = "completed" /\ stateFile' = NoReq)
  BY Zenon DEF WatchStart, WatchRemoveState, WatchCleanup, WatchLoop, WatchCancelled, WatchTick,
         WatchPanic, RemoveStateFile, monitorVars, clientVars, stopVars, runVars, wlocals,
         processVars, historyVars
<1>2. PICK pc : wpc' = [wpc EXCEPT ![w] = pc]
  BY Zenon DEF WatchStart, WatchRemoveState, WatchCleanup, WatchLoop, WatchCancelled, WatchTick,
         WatchPanic
<1>3. wpc'[w] = pc /\ \A v \in Watchers : v # w => wpc'[v] = wpc[v]
  BY <1>0, <1>2, Zenon DEF TypeOK
<1>4. /\ wpc[w] \notin {"unborn", "dead"} /\ wpc'[w] \notin {"unborn", "start", "completed"}
      /\ wpc'[w] = "announce" => wpc[w] = "start"
      /\ wpc'[w] \in ArmedPcs => wpc[w] \in ArmedPcs
  BY <1>0 DEF WatchStart, WatchRemoveState, WatchCleanup, WatchLoop, WatchCancelled,
              WatchTick, WatchPanic, ArmedPcs, TypeOK
<1>5. Forward /\ SentStays
  BY <1>1, <1>3, <1>4, OneForward, Zenon DEF SentStays, Sent
<1>6. StartedInv' /\ DecommissionInv'
  BY <1>0, <1>1, <1>5, StartedFrame, DecommissionFrame, Zenon DEF DecommissionInv
<1>7. CarriedInv' /\ PlaceInv'
  BY <1>0, <1>1, <1>5, CarriedFrame, PlaceFrame, Zenon
<1>8. \A v \in Watchers : wpc'[v] = "completed" => wpc[v] = "completed"
  BY <1>3, <1>4, Zenon
<1>9. CASE UNCHANGED stateFile
  BY <1>0, <1>1, <1>5, <1>6, <1>7, <1>8, <1>9, SurvivalStays, Zenon DEF EffectInv
<1>10. CASE wpc[w] = "completed"
  <2>1. decommissions[wreq[w]] # 0 /\ wpc'[w] # "unborn"
    BY <1>0, <1>4, <1>10, Zenon DEF SurvivalInv
  <2>2. SoakSurvives'
    BY <1>1, <2>1, Zenon DEF SoakSurvives
  <2>3. SurvivalInv'
    BY <1>0, <1>1, <1>5, <1>8, <2>2, Zenon DEF SurvivalInv, Forward
  <2> QED BY <1>6, <1>7, <2>3 DEF EffectInv
<1> QED BY <1>1, <1>9, <1>10

\* SoakStarted: a fresh watcher that has not announced its request is the only
\* fresh watcher of it, so nobody has.
LEMMA AnnounceEffect ==
    ASSUME IndInv, EffectInv, NEW w \in Watchers, WatchAnnounce(w)
    PROVE  EffectInv'
<1>0. /\ TypeOK /\ ReqInv /\ CarriedInv /\ PlaceInv /\ StartedInv /\ DecommissionInv
      /\ SurvivalInv /\ NoReq \notin Reqs
  BY ConstantsAssumption, Zenon DEF IndInv, EffectInv
<1>1. /\ UNCHANGED <<wreq, wresumed, wsaved, decommissions, restarts, post, stateFile,
                     soakStartCh, runPc, runReq, runResumed, stopPc, stopDelete>>
      /\ wpc[w] = "announce" /\ wpc'[w] = "persist" /\ wreq[w] \in Reqs
      /\ \A v \in Watchers : v # w => wpc'[v] = wpc[v]
      /\ started' = [started EXCEPT ![wreq[w]] = IF wresumed[w] THEN @ ELSE @ + 1]
  BY <1>0, Zenon DEF WatchAnnounce, TypeOK, ReqInv, clientVars, stopVars, runVars, wlocals, processVars
<1>2. Forward /\ SentStays
  BY <1>1, OneForward, Zenon DEF SentStays, Sent, ArmedPcs
<1>3. CarriedInv' /\ PlaceInv'
  BY <1>0, <1>1, <1>2, CarriedFrame, PlaceFrame, Zenon
<1>4. DecommissionInv' /\ SurvivalInv'
  BY <1>0, <1>1, <1>2, DecommissionFrame, SurvivalStays, Zenon DEF DecommissionInv
<1>5. ~wresumed[w] => started[wreq[w]] = 0
  <2> SUFFICES ASSUME ~wresumed[w], started[wreq[w]] # 0 PROVE FALSE
    BY Zenon
  <2>1. PICK v \in Watchers : /\ wpc[v] \notin {"unborn", "start", "announce"}
                              /\ ~wresumed[v] /\ wreq[v] = wreq[w]
    BY <1>0, <1>1, Zenon DEF StartedInv
  <2>2. v = w
    BY <1>0, <1>1, <2>1 DEF PlaceInv
  <2> QED BY <1>1, <2>1, <2>2
<1>6. StartedInv'
  <2>1. CASE wresumed[w]
    <3>1. started' = started
      BY <1>0, <1>1, <2>1, Zenon DEF TypeOK
    <3> QED BY <1>0, <1>2, <3>1, StartedFrame
  <2>2. CASE ~wresumed[w]
    <3>1. started'[wreq[w]] = 1 /\ \A q \in Reqs : q # wreq[w] => started'[q] = started[q]
      BY <1>0, <1>1, <1>5, <2>2 DEF TypeOK
    <3> SUFFICES ASSUME NEW q \in Reqs, q # wreq[w], started[q] # 0
                 PROVE  \E v \in Watchers : /\ wpc'[v] \notin {"unborn", "start", "announce"}
                                            /\ ~wresumed'[v] /\ wreq'[v] = q
      BY <1>0, <1>1, <2>2, <3>1 DEF StartedInv
    <3> QED BY <1>0, <1>2 DEF StartedInv, Forward
  <2> QED BY <2>1, <2>2
<1> QED BY <1>3, <1>4, <1>6 DEF EffectInv

\* The write of the state file: it then holds the watcher's request, as it should
\* for every persisted watcher while no other request was activated.
LEMMA PersistEffect ==
    ASSUME IndInv, EffectInv, NEW w \in Watchers, WatchPersist(w)
    PROVE  EffectInv'
<1>0. /\ TypeOK /\ ReqInv /\ CarriedInv /\ PlaceInv /\ StartedInv /\ DecommissionInv
      /\ SurvivalInv /\ NoReq \notin Reqs
  BY ConstantsAssumption DEF IndInv, EffectInv
<1>1. /\ UNCHANGED <<wreq, wresumed, started, decommissions, restarts, post, soakStartCh,
                     runPc, runReq, runResumed, stopPc, stopDelete>>
      /\ wpc[w] = "persist" /\ wpc'[w] = "loop"
      /\ \A v \in Watchers : v # w => wpc'[v] = wpc[v] /\ wsaved'[v] = wsaved[v]
      /\ stateFile' = wreq[w] \/ UNCHANGED <<stateFile, wsaved>>
  BY <1>0, Zenon DEF WatchPersist, TypeOK, monitorVars, clientVars, stopVars, runVars, processVars,
              historyVars
<1>2. Forward /\ SentStays
  BY <1>1, OneForward, Zenon DEF SentStays, Sent, ArmedPcs
<1>3. Seen(wreq[w])
  BY <1>1, Zenon DEF Seen
<1>4. CarriedInv' /\ PlaceInv'
  BY <1>0, <1>1, <1>2, <1>3, CarriedFrame, PlaceFrame, Zenon
<1>5. StartedInv' /\ DecommissionInv'
  BY <1>0, <1>1, <1>2, StartedFrame, DecommissionFrame, Zenon DEF DecommissionInv
<1>6. SurvivalInv'
  <2>1. CASE UNCHANGED <<stateFile, wsaved>>
    BY <1>0, <1>1, <1>2, <2>1, SurvivalStays, Zenon
  <2>2. CASE stateFile' = wreq[w]
    <3>1. SoakSurvives'
      BY <1>1, <2>2, Zenon DEF SoakSurvives
    <3>2. \A v \in Watchers : /\ wsaved'[v] => wpc'[v] # "unborn"
                              /\ wpc'[v] = "completed" => decommissions'[wreq'[v]] # 0
      BY <1>0, <1>1, Zenon DEF SurvivalInv
    <3> QED BY <1>0, <1>1, <3>1, <3>2 DEF SurvivalInv
  <2> QED BY <1>1, <2>1, <2>2
<1> QED BY <1>4, <1>5, <1>6 DEF EffectInv

\* Decommission: the watcher is the only one of its process that carries the
\* request, so nothing left in the process can decommission it again.
LEMMA DecommissionEffect ==
    ASSUME IndInv, EffectInv, NEW w \in Watchers, NEW ok \in BOOLEAN, WatchDecommission(w, ok)
    PROVE  EffectInv'
<1>0. /\ TypeOK /\ ReqInv /\ EarlyInv /\ CarriedInv /\ PlaceInv /\ StartedInv
      /\ DecommissionInv /\ SurvivalInv /\ NoReq \notin Reqs
  BY ConstantsAssumption, Zenon DEF IndInv, EffectInv
<1>1. /\ UNCHANGED <<wreq, wresumed, wsaved, started, restarts, post, soakStartCh, stateFile,
                     runPc, runReq, runResumed, stopPc, stopDelete>>
      /\ wpc[w] = "decommission" /\ wreq[w] \in Reqs
      /\ wpc'[w] \in {"completed", "clearCancel"} /\ (wpc'[w] = "completed" <=> ok)
      /\ \A v \in Watchers : v # w => wpc'[v] = wpc[v]
      /\ decommissions' = [decommissions EXCEPT ![wreq[w]] = IF ok THEN @ + 1 ELSE @]
  BY <1>0, Zenon DEF WatchDecommission, TypeOK, ReqInv, monitorVars, clientVars, stopVars, runVars,
              wlocals, processVars
<1>2. Forward /\ SentStays
  BY <1>1, OneForward, Zenon DEF SentStays, Sent, ArmedPcs
<1>3. CarriedInv' /\ PlaceInv' /\ StartedInv'
  BY <1>0, <1>1, <1>2, CarriedFrame, PlaceFrame, StartedFrame, Zenon
<1>4. Seen(wreq[w]) /\ Counted(w)
  BY <1>1, Zenon DEF Seen, Counted
<1>5. /\ decommissions'[wreq[w]] <= 1 + restarts
      /\ ok => decommissions'[wreq[w]] # 0
      /\ decommissions'[wreq[w]] = 0 => decommissions[wreq[w]] = 0
      /\ \A q \in Reqs : q # wreq[w] => decommissions'[q] = decommissions[q]
  <2>1. decommissions[wreq[w]] \in Nat /\ restarts \in Nat /\ decommissions[wreq[w]] <= restarts
    BY <1>0, <1>1, Zenon DEF DecommissionInv, ArmedPcs, TypeOK
  <2>2. decommissions'[wreq[w]] = IF ok THEN decommissions[wreq[w]] + 1 ELSE decommissions[wreq[w]]
    BY <1>0, <1>1, Zenon DEF TypeOK
  <2>3. \A q \in Reqs : q # wreq[w] => decommissions'[q] = decommissions[q]
    BY <1>0, <1>1, Zenon DEF TypeOK
  <2> QED BY <2>1, <2>2, <2>3
<1>6. DecommissionInv'
  <2>1. runPc \notin ResumePcs \cup {"boot"}
    BY <1>0, <1>4, Zenon DEF EarlyInv, ResumePcs
  <2>2. runPc = "dispatch" => runReq # wreq[w]
    BY <1>0, <1>4, Zenon DEF CarriedInv, TypeOK
  <2>3. \A v \in Watchers : wpc'[v] \in ArmedPcs =>
          wreq[v] \in Reqs /\ wreq[v] # wreq[w] /\ wpc[v] \in ArmedPcs
    BY <1>0, <1>1, <1>4, Zenon DEF PlaceInv, ArmedPcs, Counted, ReqInv
  <2>4. \A v \in Watchers : wpc'[v] \in ArmedPcs => decommissions'[wreq[v]] <= restarts
    BY <1>0, <1>5, <2>3, Zenon DEF DecommissionInv
  <2>5. runPc = "dispatch" => decommissions'[runReq] <= restarts
    BY <1>0, <1>5, <2>2, Zenon DEF DecommissionInv, ReqInv
  <2>6. \A q \in Reqs : decommissions'[q] <= 1 + restarts
    BY <1>0, <1>5, Zenon DEF DecommissionInv
  <2>7. \A q \in Reqs : decommissions'[q] # 0 => Seen(q)'
    BY <1>0, <1>2, <1>4, <1>5, SeenStays, Zenon DEF DecommissionInv
  <2> QED BY <1>1, <2>1, <2>4, <2>5, <2>6, <2>7 DEF DecommissionInv
<1>7. SurvivalInv'
  <2>1. \A q \in Reqs : decommissions'[q] = 0 => decommissions[q] = 0
    BY <1>5, Zenon
  <2>2. \A v \in Watchers : wpc[v] # "unborn" => wreq[v] \in Reqs
    BY <1>0, Zenon DEF ReqInv
  <2>3. SoakSurvives'
    BY <1>0, <1>1, <1>2, <2>1, <2>2 DEF SurvivalInv, SoakSurvives, NoDeletingStop, Forward
  <2>4. \A v \in Watchers : wpc'[v] = "completed" => decommissions'[wreq[v]] # 0
    BY <1>0, <1>1, <1>5, <2>1, <2>2, Zenon DEF SurvivalInv
  <2> QED BY <1>0, <1>1, <1>2, <2>3, <2>4 DEF SurvivalInv, Forward
<1> QED BY <1>3, <1>6, <1>7 DEF EffectInv

\* The steps of the process.  A new process may decommission each request once more.
LEMMA ProcessEffect ==
    ASSUME IndInv, EffectInv, Shutdown \/ ProcessEnd \/ ProcessStart
    PROVE  EffectInv'
<1>0. /\ TypeOK /\ ReqInv /\ EarlyInv /\ CarriedInv /\ PlaceInv /\ StartedInv
      /\ DecommissionInv /\ SurvivalInv /\ NoReq \notin Reqs
  BY ConstantsAssumption DEF IndInv, EffectInv
<1>1. /\ UNCHANGED <<wreq, wresumed, wsaved, started, decommissions, stateFile, stopDelete>>
      /\ soakStartCh' \in {soakStartCh, NoReq}
      /\ \/ UNCHANGED <<runPc, runReq, runResumed>>
         \/ runPc' \notin ResumePcs \cup {"dispatch"}
  BY Zenon DEF Shutdown, ProcessEnd, ProcessStart, ResumePcs, monitorVars, clientVars, stopVars,
     runVars, wlocals, historyVars
<1>2. /\ \A w \in Watchers : wpc'[w] = wpc[w] \/ (wpc[w] # "unborn" /\ wpc'[w] = "dead")
      /\ \A q \in Reqs : post'[q] = post[q] \/ post'[q] = "lost"
      /\ \A s \in Stops : stopPc'[s] = stopPc[s]
                          \/ (stopPc[s] \notin {"new", "true", "false"} /\ stopPc'[s] = "lost")
  BY Zenon DEF Shutdown, ProcessEnd, ProcessStart, Counted, monitorVars, clientVars, stopVars
<1>3. Forward /\ SentStays /\ \A w \in Watchers : wpc'[w] = "completed" => wpc[w] = "completed"
  BY <1>1, <1>2, Zenon DEF Forward, Counted, ArmedPcs, SentStays, Sent
<1>4. CarriedInv' /\ PlaceInv' /\ StartedInv'
  BY <1>0, <1>1, <1>3, CarriedFrame, PlaceFrame, StartedFrame, Zenon
<1>5. SurvivalInv'
  <2>1. NoDeletingStop' => NoDeletingStop
    BY <1>1, <1>2, Zenon DEF NoDeletingStop
  <2>2. \A s \in Stops : stopPc'[s] = "remove" => stopDelete'[s]
    BY <1>0, <1>1, <1>2 DEF SurvivalInv
  <2> QED BY <1>0, <1>1, <1>3, <2>1, <2>2, SurvivalFrame
<1>6. DecommissionInv'
  <2>1. CASE Shutdown \/ ProcessEnd
    <3>1. UNCHANGED restarts /\ (UNCHANGED <<runPc, runReq>> \/ runPc' = "down")
      BY <2>1, Zenon DEF Shutdown, ProcessEnd, runVars
    <3> QED BY <1>0, <1>1, <1>3, <3>1, DecommissionFrame DEF DecommissionInv, ResumePcs
  <2>2. CASE ProcessStart
    <3>1. /\ runPc' = "boot" /\ restarts' = restarts + 1 /\ restarts \in Nat /\ wpc' = wpc
          /\ \A w \in Watchers : ~Counted(w)
      BY <1>0, <2>2, Zenon DEF ProcessStart, EarlyInv, TypeOK
    <3>2. \A q \in Reqs : decommissions[q] <= restarts' /\ decommissions[q] <= 1 + restarts'
      BY <1>0, <3>1 DEF DecommissionInv, TypeOK
    <3>3. \A w \in Watchers : wpc'[w] \notin ArmedPcs
      BY <3>1, Zenon DEF Counted, ArmedPcs
    <3>4. \A q \in Reqs : decommissions[q] # 0 => Seen(q)'
      BY <1>0, <1>3, SeenStays, Zenon DEF DecommissionInv
    <3> QED BY <1>1, <3>1, <3>2, <3>3, <3>4 DEF DecommissionInv
  <2> QED BY <2>1, <2>2
<1> QED BY <1>4, <1>5, <1>6 DEF EffectInv

\* Stuttering keeps them.
LEMMA StutterEffect ==
    ASSUME IndInv, EffectInv, UNCHANGED vars
    PROVE  EffectInv'
<1>0. /\ ReqInv /\ CarriedInv /\ PlaceInv /\ StartedInv /\ DecommissionInv
      /\ SurvivalInv /\ NoReq \notin Reqs
  BY ConstantsAssumption DEF IndInv, EffectInv
<1>1. UNCHANGED <<wpc, wreq, wresumed, wsaved, started, decommissions, restarts, post, stateFile,
                  soakStartCh, runPc, runReq, runResumed, stopPc, stopDelete>>
  BY Zenon DEF vars, monitorVars, clientVars, stopVars, runVars, wlocals, processVars, historyVars
<1>2. Forward /\ SentStays
  BY <1>1 DEF Forward, Counted, SentStays, Sent
<1> QED
  BY <1>0, <1>1, <1>2, CarriedFrame, PlaceFrame, StartedFrame, DecommissionFrame, SurvivalStays, Zenon
     DEF EffectInv, DecommissionInv

----------------------------------------------------------------------------
\* The invariants about effects are inductive relative to the first.
LEMMA NextEffect == IndInv /\ EffectInv /\ [Next]_vars => EffectInv'
<1> SUFFICES ASSUME IndInv, EffectInv, [Next]_vars PROVE EffectInv'
  OBVIOUS
<1>1. ASSUME NEW w \in Watchers, WatchStep(w) \/ WatchLoop(w) PROVE EffectInv'
  BY <1>1, WatchEffect, AnnounceEffect, PersistEffect, DecommissionEffect, Zenon DEF WatchStep
<1>2. CASE RunStep
  BY <1>2, RunEffect, DispatchEffect, Zenon DEF RunStep
<1> QED BY <1>1, <1>2, PostEffect, StopEffect, ProcessEffect, StutterEffect, Zenon DEF Next

\* They hold in every reachable state.
LEMMA EffectInvariance == Spec => []EffectInv
BY InitEffect, NextEffect, Invariance, PTL DEF Spec

\* A persisted soak that was neither decommissioned, nor stopped with delete_state,
\* nor followed by another activation stays on disk, whatever the shutdowns, crashes
\* and resumes: run and resumeIfNeeded remove the file in no other case.
THEOREM SoakSurvivesHolds == Spec => []SoakSurvives
<1>1. EffectInv => SoakSurvives
  BY Zenon DEF EffectInv, SurvivalInv
<1> QED BY <1>1, EffectInvariance, PTL

\* SoakStarted is logged at most once per activation, and a soak is decommissioned at
\* most once in the lifetime of a process, for any number of requests and restarts.
THEOREM EffectsNotRepeatedHolds == Spec => []EffectsNotRepeated
<1>1. EffectInv => EffectsNotRepeated
  BY DEF EffectInv, StartedInv, DecommissionInv, EffectsNotRepeated
<1> QED BY <1>1, EffectInvariance, PTL
=============================================================================
