----------------------- MODULE MigrationMonitorProofs -----------------------
(***************************************************************************)
(* Proofs about MigrationMonitor, for any sets of requests, stop calls and *)
(* watchers and any number of restarts.                                    *)
(*                                                                         *)
(* The flag soakActive is a token.  It is held by the handler that won the *)
(* swap, then by the request in the channel, then by the dispatcher, then  *)
(* by the watcher until it clears the flag.  TokenInv says that the token  *)
(* has at most one holder and that the flag is set exactly while it has    *)
(* one; SingleFlight is the part of it about watchers.  WgInv makes        *)
(* soakWg.Wait mean that no watcher is left, which is what StopDrained     *)
(* needs, and makes soakWg.Done never go below zero.                       *)
(***************************************************************************)
EXTENDS MigrationMonitor, FiniteSetTheorems, TLAPS

CountedSet == {w \in Watchers : Counted(w)}

\* soakWg is the number of watchers between Add and Done.
WgInv == soakWg = Cardinality(CountedSet)

\* Before the dispatch loop runs nothing counts, and overlap is still open.
EarlyInv ==
    /\ ~up => runPc = "down"
    /\ runPc \in {"down", "boot", "resumeStatus", "resumeActive"} =>
         ~overlap /\ \A w \in Watchers : ~Counted(w)

\* The flag has at most one holder and is set exactly while it has one.
TokenInv ==
    ~overlap =>
      /\ \A q, r \in Reqs : post[q] = "swapped" /\ post[r] = "swapped" => q = r
      /\ \A v, w \in Watchers : Working(v) /\ Working(w) => v = w
      /\ \A r \in Reqs : post[r] = "swapped" =>
           soakStartCh = NoReq /\ runPc # "dispatch" /\ \A w \in Watchers : ~Working(w)
      /\ soakStartCh # NoReq =>
           runPc # "dispatch" /\ \A w \in Watchers : ~Working(w)
      /\ runPc = "dispatch" => \A w \in Watchers : ~Working(w)
      /\ soakActive <=> \/ \E r \in Reqs : post[r] = "swapped"
                        \/ soakStartCh # NoReq
                        \/ runPc = "dispatch"
                        \/ \E w \in Watchers : Working(w)

\* A stored CancelFunc, and one that TryStop has loaded, is a spawned watcher's.
CancelInv ==
    /\ soakCancel \in Watchers => wpc[soakCancel] # "unborn"
    /\ \A s \in Stops : stopPc[s] \in {"loaded", "lock", "waiting", "remove", "true"}
         => stopTarget[s] \in Watchers /\ wpc[stopTarget[s]] # "unborn"

\* A spawned watcher, and the dispatcher about to spawn one, has a request.
ReqInv ==
    /\ \A w \in Watchers : wpc[w] # "unborn" => wreq[w] \in Reqs
    /\ runPc \in {"resumeStatus", "resumeActive", "dispatch"} => runReq \in Reqs

IndInv == TypeOK /\ WgInv /\ ReqInv /\ EarlyInv /\ TokenInv /\ CancelInv /\ StopDrained

----------------------------------------------------------------------------
\* The set of counted watchers is finite, so its cardinality is a number that
\* is zero only when the set is empty.
LEMMA CountedFinite ==
    /\ IsFiniteSet(CountedSet)
    /\ Cardinality(CountedSet) \in Nat
    /\ Cardinality(CountedSet) = 0 <=> CountedSet = {}
<1>1. IsFiniteSet(CountedSet)
  BY ConstantsAssumption, FS_Subset DEF CountedSet
<1> QED BY <1>1, FS_CardinalityType, FS_EmptySet

\* The monitor that newMigrationMonitor returns satisfies the invariant.
LEMMA InitIndInv == Init => IndInv
<1> SUFFICES ASSUME Init PROVE IndInv
  OBVIOUS
<1> USE ConstantsAssumption
<1>1. TypeOK
  BY Zenon DEF Init, FreshMonitor, TypeOK, PostPcs, StopPcs, RunPcs, WatcherPcs
<1>2. CountedSet = {}
  BY DEF Init, CountedSet, Counted
<1>3. WgInv
  BY <1>2, FS_EmptySet DEF WgInv, Init, FreshMonitor
<1>4. EarlyInv
  BY DEF EarlyInv, Init, Counted
<1>5. TokenInv
  BY DEF TokenInv, Init, FreshMonitor, Working, WorkingPcs, CleanupPcs
<1>6. CancelInv /\ StopDrained /\ ReqInv
  BY DEF CancelInv, StopDrained, ReqInv, Init, FreshMonitor
<1> QED BY <1>1, <1>3, <1>4, <1>5, <1>6 DEF IndInv

\* A step that spawns and ends nobody keeps the count.
LEMMA WgFrame ==
    ASSUME WgInv, soakWg' = soakWg,
           \A w \in Watchers : Counted(w)' <=> Counted(w)
    PROVE  WgInv'
<1>1. CountedSet' = CountedSet
  BY DEF CountedSet
<1> QED BY <1>1 DEF WgInv

\* A step that moves nobody into or out of the token's holders keeps TokenInv.
LEMMA TokenFrame ==
    ASSUME TokenInv, UNCHANGED <<overlap, soakStartCh, soakActive>>,
           \A r \in Reqs : post'[r] = "swapped" <=> post[r] = "swapped",
           runPc' = "dispatch" <=> runPc = "dispatch",
           \A w \in Watchers : Working(w)' <=> Working(w)
    PROVE  TokenInv'
BY DEF TokenInv

\* Spawning a watcher adds it, and nobody else, to the counted and to the working.
LEMMA Spawned ==
    ASSUME wpc \in [Watchers -> WatcherPcs], NEW w \in Watchers, wpc[w] = "unborn",
           wpc' = [wpc EXCEPT ![w] = "start"]
    PROVE  /\ \A v \in Watchers : Counted(v)' <=> Counted(v) \/ v = w
           /\ \A v \in Watchers : Working(v)' <=> Working(v) \/ v = w
           /\ CountedSet' = CountedSet \cup {w}
           /\ w \notin CountedSet
           /\ Cardinality(CountedSet') = Cardinality(CountedSet) + 1
<1>1. \A v \in Watchers : Counted(v)' <=> Counted(v) \/ v = w
  BY DEF Counted
<1>2. \A v \in Watchers : Working(v)' <=> Working(v) \/ v = w
  BY DEF Working, WorkingPcs, CleanupPcs
<1>3. CountedSet' = CountedSet \cup {w} /\ w \notin CountedSet
  BY <1>1 DEF CountedSet, Counted
<1>4. Cardinality(CountedSet') = Cardinality(CountedSet) + 1
  BY <1>3, CountedFinite, FS_AddElement, Zenon
<1> QED BY <1>1, <1>2, <1>3, <1>4

\* EnqueueSwap preserves the invariant.
LEMMA EnqueueSwapStep ==
    ASSUME IndInv, NEW r \in Reqs, EnqueueSwap(r)
    PROVE  IndInv'
<1> USE ConstantsAssumption DEF monitorVars, clientVars, stopVars, runVars, wlocals,
                               processVars, historyVars
<1>0. TypeOK /\ WgInv /\ ReqInv /\ EarlyInv /\ TokenInv /\ CancelInv /\ StopDrained
  BY DEF IndInv
<1>1. TypeOK'
  BY <1>0 DEF EnqueueSwap, TypeOK, PostPcs, StopPcs, RunPcs, WatcherPcs, WorkingPcs, CleanupPcs
<1>2. WgInv'
  BY <1>0, WgFrame, Zenon DEF EnqueueSwap, Counted, TypeOK
<1>3. EarlyInv'
  BY <1>0, Zenon DEF EnqueueSwap, EarlyInv, TypeOK, Counted
<1>4. TokenInv'
  BY <1>0 DEF EnqueueSwap, TokenInv, EarlyInv, TypeOK, Working, WorkingPcs, CleanupPcs
<1>5. CancelInv' /\ StopDrained'
  BY <1>0 DEF EnqueueSwap, CancelInv, StopDrained, TypeOK
<1>6. ReqInv'
  BY <1>0, Zenon DEF EnqueueSwap, ReqInv, TypeOK
<1> QED BY <1>1, <1>2, <1>3, <1>4, <1>5, <1>6 DEF IndInv

\* EnqueueSend preserves the invariant.
LEMMA EnqueueSendStep ==
    ASSUME IndInv, NEW r \in Reqs, EnqueueSend(r)
    PROVE  IndInv'
<1> USE ConstantsAssumption DEF monitorVars, clientVars, stopVars, runVars, wlocals,
                               processVars, historyVars
<1>0. TypeOK /\ WgInv /\ ReqInv /\ EarlyInv /\ TokenInv /\ CancelInv /\ StopDrained
  BY DEF IndInv
<1>1. TypeOK'
  <2>1. soakStartCh' \in Reqs \cup {NoReq} /\ soakActive' \in BOOLEAN
    BY <1>0, Zenon DEF EnqueueSend, TypeOK
  <2>2. post' \in [Reqs -> PostPcs]
    BY <1>0 DEF EnqueueSend, TypeOK, PostPcs
  <2> QED BY <1>0, <2>1, <2>2 DEF EnqueueSend, TypeOK
<1>2. WgInv'
  BY <1>0, WgFrame, Zenon DEF EnqueueSend, Counted, TypeOK
<1>3. EarlyInv'
  BY <1>0, Zenon DEF EnqueueSend, EarlyInv, TypeOK, Counted
<1>4. TokenInv'
  BY <1>0 DEF EnqueueSend, TokenInv, EarlyInv, TypeOK, Working, WorkingPcs, CleanupPcs
<1>5. CancelInv' /\ StopDrained'
  BY <1>0, Zenon DEF EnqueueSend, CancelInv, StopDrained, TypeOK
<1>6. ReqInv'
  BY <1>0, Zenon DEF EnqueueSend, ReqInv, TypeOK
<1> QED BY <1>1, <1>2, <1>3, <1>4, <1>5, <1>6 DEF IndInv

\* EnqueueStatus preserves the invariant.
LEMMA EnqueueStatusStep ==
    ASSUME IndInv, NEW r \in Reqs, EnqueueStatus(r)
    PROVE  IndInv'
<1> USE ConstantsAssumption DEF monitorVars, clientVars, stopVars, runVars, wlocals,
                               processVars, historyVars
<1>0. TypeOK /\ WgInv /\ ReqInv /\ EarlyInv /\ TokenInv /\ CancelInv /\ StopDrained
  BY DEF IndInv
<1>1. TypeOK'
  BY <1>0 DEF EnqueueStatus, TypeOK, PostPcs, StopPcs, RunPcs, WatcherPcs, WorkingPcs, CleanupPcs
<1>2. WgInv'
  BY <1>0, WgFrame, Zenon DEF EnqueueStatus, Counted, TypeOK
<1>3. EarlyInv'
  BY <1>0, Zenon DEF EnqueueStatus, EarlyInv, TypeOK, Counted
<1>4. TokenInv'
  BY <1>0, TokenFrame, Zenon DEF EnqueueStatus, TypeOK, Working, WorkingPcs, CleanupPcs
<1>5. CancelInv' /\ StopDrained'
  BY <1>0, Zenon DEF EnqueueStatus, CancelInv, StopDrained, TypeOK
<1>6. ReqInv'
  BY <1>0 DEF EnqueueStatus, ReqInv, TypeOK
<1> QED BY <1>1, <1>2, <1>3, <1>4, <1>5, <1>6 DEF IndInv

\* StopLoad preserves the invariant.
LEMMA StopLoadStep ==
    ASSUME IndInv, NEW s \in Stops, NEW del \in BOOLEAN, StopLoad(s, del)
    PROVE  IndInv'
<1> USE ConstantsAssumption DEF monitorVars, clientVars, stopVars, runVars, wlocals,
                               processVars, historyVars
<1>0. TypeOK /\ WgInv /\ ReqInv /\ EarlyInv /\ TokenInv /\ CancelInv /\ StopDrained
  BY Zenon DEF IndInv
<1>1. TypeOK'
  BY <1>0 DEF StopLoad, TypeOK, PostPcs, StopPcs, RunPcs, WatcherPcs, WorkingPcs, CleanupPcs
<1>2. WgInv'
  BY <1>0, WgFrame, Zenon DEF StopLoad, Counted, TypeOK
<1>3. EarlyInv'
  BY <1>0, Zenon DEF StopLoad, EarlyInv, TypeOK, Counted
<1>4. TokenInv'
  BY <1>0, TokenFrame, Zenon DEF StopLoad, TypeOK, Working, WorkingPcs, CleanupPcs
<1>5. CancelInv' /\ StopDrained'
  BY <1>0, Zenon DEF StopLoad, CancelInv, StopDrained, TypeOK
<1>6. ReqInv'
  BY <1>0 DEF StopLoad, ReqInv, TypeOK
<1> QED BY <1>1, <1>2, <1>3, <1>4, <1>5, <1>6 DEF IndInv

\* StopCancel preserves the invariant.
LEMMA StopCancelStep ==
    ASSUME IndInv, NEW s \in Stops, StopCancel(s)
    PROVE  IndInv'
<1> USE ConstantsAssumption DEF monitorVars, clientVars, stopVars, runVars, wlocals,
                               processVars, historyVars
<1>0. TypeOK /\ WgInv /\ ReqInv /\ EarlyInv /\ TokenInv /\ CancelInv /\ StopDrained
  BY Zenon DEF IndInv
<1>1. TypeOK'
  BY <1>0 DEF StopCancel, TypeOK, PostPcs, StopPcs, RunPcs, WatcherPcs, WorkingPcs, CleanupPcs, CancelInv
<1>2. WgInv'
  BY <1>0, WgFrame, Zenon DEF StopCancel, Counted, TypeOK
<1>3. EarlyInv'
  BY <1>0, Zenon DEF StopCancel, EarlyInv, TypeOK, Counted
<1>4. TokenInv'
  BY <1>0, TokenFrame, Zenon DEF StopCancel, TypeOK, Working, WorkingPcs, CleanupPcs
<1>5. CancelInv' /\ StopDrained'
  BY <1>0, Zenon DEF StopCancel, CancelInv, StopDrained, TypeOK
<1>6. ReqInv'
  BY <1>0, Zenon DEF StopCancel, ReqInv, TypeOK
<1> QED BY <1>1, <1>2, <1>3, <1>4, <1>5, <1>6 DEF IndInv

\* StopLock preserves the invariant.
LEMMA StopLockStep ==
    ASSUME IndInv, NEW s \in Stops, StopLock(s)
    PROVE  IndInv'
<1> USE ConstantsAssumption DEF monitorVars, clientVars, stopVars, runVars, wlocals,
                               processVars, historyVars
<1>0. TypeOK /\ WgInv /\ ReqInv /\ EarlyInv /\ TokenInv /\ CancelInv /\ StopDrained
  BY DEF IndInv
<1>1. TypeOK'
  BY <1>0 DEF StopLock, TypeOK, PostPcs, StopPcs, RunPcs, WatcherPcs, WorkingPcs, CleanupPcs
<1>2. WgInv'
  BY <1>0, WgFrame, Zenon DEF StopLock, Counted, TypeOK
<1>3. EarlyInv'
  BY <1>0, Zenon DEF StopLock, EarlyInv, TypeOK, Counted
<1>4. TokenInv'
  BY <1>0, TokenFrame, Zenon DEF StopLock, TypeOK, Working, WorkingPcs, CleanupPcs
<1>5. CancelInv' /\ StopDrained'
  BY <1>0, Zenon DEF StopLock, CancelInv, StopDrained, TypeOK
<1>6. ReqInv'
  BY <1>0, Zenon DEF StopLock, ReqInv, TypeOK
<1> QED BY <1>1, <1>2, <1>3, <1>4, <1>5, <1>6 DEF IndInv

\* StopWait preserves the invariant.
LEMMA StopWaitStep ==
    ASSUME IndInv, NEW s \in Stops, StopWait(s)
    PROVE  IndInv'
<1> USE ConstantsAssumption DEF monitorVars, clientVars, stopVars, runVars, wlocals,
                               processVars, historyVars
<1>0. TypeOK /\ WgInv /\ ReqInv /\ EarlyInv /\ TokenInv /\ CancelInv /\ StopDrained
  BY DEF IndInv
<1>1. TypeOK'
  BY <1>0 DEF StopWait, TypeOK, PostPcs, StopPcs, RunPcs, WatcherPcs, WorkingPcs, CleanupPcs
<1>2. WgInv'
  BY <1>0, WgFrame, Zenon DEF StopWait, Counted, TypeOK
<1>3. EarlyInv'
  BY <1>0, Zenon DEF StopWait, EarlyInv, TypeOK, Counted
<1>4. TokenInv'
  BY <1>0, TokenFrame, Zenon DEF StopWait, TypeOK, Working, WorkingPcs, CleanupPcs
<1>5. CancelInv' /\ StopDrained'
  <2>1. \A w \in Watchers : ~Counted(w)
    BY <1>0, CountedFinite, Zenon DEF StopWait, WgInv, CountedSet
  <2> QED BY <1>0, <2>1 DEF StopWait, CancelInv, StopDrained, TypeOK, Counted
<1>6. ReqInv'
  BY <1>0, Zenon DEF StopWait, ReqInv, TypeOK
<1> QED BY <1>1, <1>2, <1>3, <1>4, <1>5, <1>6 DEF IndInv

\* StopRemove preserves the invariant.
LEMMA StopRemoveStep ==
    ASSUME IndInv, NEW s \in Stops, StopRemove(s)
    PROVE  IndInv'
<1> USE ConstantsAssumption DEF monitorVars, clientVars, stopVars, runVars, wlocals,
                               processVars, historyVars
<1>0. TypeOK /\ WgInv /\ ReqInv /\ EarlyInv /\ TokenInv /\ CancelInv /\ StopDrained
  BY DEF IndInv
<1>1. TypeOK'
  BY <1>0 DEF StopRemove, RemoveStateFile, TypeOK, PostPcs, StopPcs, RunPcs, WatcherPcs, WorkingPcs, CleanupPcs
<1>2. WgInv'
  BY <1>0, WgFrame, Zenon DEF StopRemove, RemoveStateFile, Counted, TypeOK
<1>3. EarlyInv'
  BY <1>0, Zenon DEF StopRemove, RemoveStateFile, EarlyInv, TypeOK, Counted
<1>4. TokenInv'
  BY <1>0, TokenFrame, Zenon DEF StopRemove, RemoveStateFile, TypeOK, Working, WorkingPcs, CleanupPcs
<1>5. CancelInv' /\ StopDrained'
  BY <1>0, Zenon DEF StopRemove, RemoveStateFile, CancelInv, StopDrained, TypeOK
<1>6. ReqInv'
  BY <1>0 DEF StopRemove, RemoveStateFile, ReqInv, TypeOK
<1> QED BY <1>1, <1>2, <1>3, <1>4, <1>5, <1>6 DEF IndInv

\* ResumeRead preserves the invariant.
LEMMA ResumeReadStep ==
    ASSUME IndInv, ResumeRead
    PROVE  IndInv'
<1> USE ConstantsAssumption DEF monitorVars, clientVars, stopVars, runVars, wlocals,
                               processVars, historyVars
<1>0. TypeOK /\ WgInv /\ ReqInv /\ EarlyInv /\ TokenInv /\ CancelInv /\ StopDrained
  BY Zenon DEF IndInv
<1>1. TypeOK'
  <2>1. runPc' \in RunPcs /\ runReq' \in Reqs \cup {NoReq} /\ runResumed' \in BOOLEAN
    BY <1>0, Zenon DEF ResumeRead, RemoveStateFile, TypeOK, RunPcs
  <2>2. stateFile' \in Reqs \cup {NoReq, Corrupt}
    BY <1>0, Zenon DEF ResumeRead, RemoveStateFile, TypeOK
  <2> QED BY <1>0, <2>1, <2>2 DEF ResumeRead, RemoveStateFile, TypeOK
<1>2. WgInv'
  BY <1>0, WgFrame, Zenon DEF ResumeRead, RemoveStateFile, Counted, TypeOK
<1>3. EarlyInv'
  BY <1>0, Zenon DEF ResumeRead, RemoveStateFile, EarlyInv, TypeOK, Counted
<1>4. TokenInv'
  BY <1>0, TokenFrame, Zenon DEF ResumeRead, RemoveStateFile, TypeOK, Working, WorkingPcs, CleanupPcs
<1>5. CancelInv' /\ StopDrained'
  BY <1>0, Zenon DEF ResumeRead, RemoveStateFile, CancelInv, StopDrained, TypeOK
<1>6. ReqInv'
  BY <1>0, Zenon DEF ResumeRead, RemoveStateFile, ReqInv, TypeOK
<1> QED BY <1>1, <1>2, <1>3, <1>4, <1>5, <1>6 DEF IndInv

\* ResumeStatus preserves the invariant.
LEMMA ResumeStatusStep ==
    ASSUME IndInv, ResumeStatus
    PROVE  IndInv'
<1> USE ConstantsAssumption DEF monitorVars, clientVars, stopVars, runVars, wlocals,
                               processVars, historyVars
<1>0. TypeOK /\ WgInv /\ ReqInv /\ EarlyInv /\ TokenInv /\ CancelInv /\ StopDrained
  BY DEF IndInv
<1>1. TypeOK'
  BY <1>0 DEF ResumeStatus, TypeOK, PostPcs, StopPcs, RunPcs, WatcherPcs, WorkingPcs, CleanupPcs
<1>2. WgInv'
  BY <1>0, WgFrame, Zenon DEF ResumeStatus, Counted, TypeOK
<1>3. EarlyInv'
  BY <1>0, Zenon DEF ResumeStatus, EarlyInv, TypeOK, Counted
<1>4. TokenInv'
  BY <1>0, TokenFrame, Zenon DEF ResumeStatus, TypeOK, Working, WorkingPcs, CleanupPcs
<1>5. CancelInv' /\ StopDrained'
  BY <1>0, Zenon DEF ResumeStatus, CancelInv, StopDrained, TypeOK
<1>6. ReqInv'
  BY <1>0, Zenon DEF ResumeStatus, ReqInv, TypeOK
<1> QED BY <1>1, <1>2, <1>3, <1>4, <1>5, <1>6 DEF IndInv

\* ResumeActive preserves the invariant.
LEMMA ResumeActiveStep ==
    ASSUME IndInv, ResumeActive
    PROVE  IndInv'
<1> USE ConstantsAssumption DEF monitorVars, clientVars, stopVars, runVars, wlocals,
                               processVars, historyVars
<1>0. TypeOK /\ WgInv /\ ReqInv /\ EarlyInv /\ TokenInv /\ CancelInv /\ StopDrained
  BY DEF IndInv
<1>1. TypeOK'
  BY <1>0 DEF ResumeActive, TypeOK, PostPcs, StopPcs, RunPcs, WatcherPcs, WorkingPcs, CleanupPcs
<1>2. WgInv'
  BY <1>0, WgFrame, Zenon DEF ResumeActive, Counted, TypeOK
<1>3. EarlyInv'
  BY <1>0, Zenon DEF ResumeActive, EarlyInv, TypeOK, Counted
<1>4. TokenInv'
  BY <1>0, Zenon DEF ResumeActive, TokenInv, EarlyInv, TypeOK, Working, WorkingPcs, CleanupPcs
<1>5. CancelInv' /\ StopDrained'
  BY <1>0, Zenon DEF ResumeActive, CancelInv, StopDrained, TypeOK
<1>6. ReqInv'
  BY <1>0, Zenon DEF ResumeActive, ReqInv, TypeOK
<1> QED BY <1>1, <1>2, <1>3, <1>4, <1>5, <1>6 DEF IndInv

\* RunReceive preserves the invariant.
LEMMA RunReceiveStep ==
    ASSUME IndInv, RunReceive
    PROVE  IndInv'
<1> USE ConstantsAssumption DEF monitorVars, clientVars, stopVars, runVars, wlocals,
                               processVars, historyVars
<1>0. TypeOK /\ WgInv /\ ReqInv /\ EarlyInv /\ TokenInv /\ CancelInv /\ StopDrained
  BY DEF IndInv
<1>1. TypeOK'
  <2>1. runPc' \in RunPcs /\ soakStartCh' \in Reqs \cup {NoReq}
    BY <1>0 DEF RunReceive, TypeOK, RunPcs
  <2>2. runReq' \in Reqs \cup {NoReq} /\ runResumed' \in BOOLEAN
    BY <1>0, Zenon DEF RunReceive, TypeOK
  <2> QED BY <1>0, <2>1, <2>2 DEF RunReceive, TypeOK
<1>2. WgInv'
  BY <1>0, WgFrame, Zenon DEF RunReceive, Counted, TypeOK
<1>3. EarlyInv'
  BY <1>0, Zenon DEF RunReceive, EarlyInv, TypeOK, Counted
<1>4. TokenInv'
  BY <1>0, Zenon DEF RunReceive, TokenInv, EarlyInv, TypeOK, Working, WorkingPcs, CleanupPcs
<1>5. CancelInv' /\ StopDrained'
  BY <1>0, Zenon DEF RunReceive, CancelInv, StopDrained, TypeOK
<1>6. ReqInv'
  BY <1>0, Zenon DEF RunReceive, ReqInv, TypeOK
<1> QED BY <1>1, <1>2, <1>3, <1>4, <1>5, <1>6 DEF IndInv

\* RunDispatch preserves the invariant.
LEMMA RunDispatchStep ==
    ASSUME IndInv, RunDispatch
    PROVE  IndInv'
<1> USE ConstantsAssumption DEF monitorVars, clientVars, stopVars, runVars, wlocals,
                               processVars, historyVars
<1>0. TypeOK /\ WgInv /\ ReqInv /\ EarlyInv /\ TokenInv /\ CancelInv /\ StopDrained
  BY DEF IndInv
<1>1. TypeOK'
  BY <1>0 DEF RunDispatch, TypeOK, PostPcs, StopPcs, RunPcs, WatcherPcs, WorkingPcs, CleanupPcs
<1>2. WgInv'
  <2>1. PICK w \in Watchers : wpc[w] = "unborn" /\ wpc' = [wpc EXCEPT ![w] = "start"]
    BY Zenon DEF RunDispatch
  <2>2. Cardinality(CountedSet') = Cardinality(CountedSet) + 1
    BY <1>0, <2>1, Spawned, Zenon DEF TypeOK
  <2>3. soakWg' = soakWg + 1
    BY Zenon DEF RunDispatch
  <2> QED BY <1>0, <2>2, <2>3 DEF WgInv
<1>3. EarlyInv'
  BY <1>0, Zenon DEF RunDispatch, EarlyInv, TypeOK, Counted
<1>4. TokenInv'
  <2>1. PICK w \in Watchers : wpc[w] = "unborn" /\ wpc' = [wpc EXCEPT ![w] = "start"]
    BY Zenon DEF RunDispatch
  <2>2. \A v \in Watchers : Working(v)' <=> Working(v) \/ v = w
    BY <1>0, <2>1, Spawned, Zenon DEF TypeOK
  <2> QED BY <1>0, <2>2 DEF RunDispatch, TokenInv
<1>5. CancelInv' /\ StopDrained'
  BY <1>0 DEF RunDispatch, CancelInv, StopDrained, TypeOK
<1>6. ReqInv'
  BY <1>0 DEF RunDispatch, ReqInv, TypeOK
<1> QED BY <1>1, <1>2, <1>3, <1>4, <1>5, <1>6 DEF IndInv

\* RunStop preserves the invariant.
LEMMA RunStopStep ==
    ASSUME IndInv, RunStop
    PROVE  IndInv'
<1> USE ConstantsAssumption DEF monitorVars, clientVars, stopVars, runVars, wlocals,
                               processVars, historyVars
<1>0. TypeOK /\ WgInv /\ ReqInv /\ EarlyInv /\ TokenInv /\ CancelInv /\ StopDrained
  BY DEF IndInv
<1>1. TypeOK'
  BY <1>0 DEF RunStop, TypeOK, PostPcs, StopPcs, RunPcs, WatcherPcs, WorkingPcs, CleanupPcs
<1>2. WgInv'
  BY <1>0, WgFrame, Zenon DEF RunStop, Counted, TypeOK
<1>3. EarlyInv'
  BY <1>0, Zenon DEF RunStop, EarlyInv, TypeOK, Counted
<1>4. TokenInv'
  BY <1>0, TokenFrame, Zenon DEF RunStop, TypeOK, Working, WorkingPcs, CleanupPcs
<1>5. CancelInv' /\ StopDrained'
  BY <1>0, Zenon DEF RunStop, CancelInv, StopDrained, TypeOK
<1>6. ReqInv'
  BY <1>0 DEF RunStop, ReqInv, TypeOK
<1> QED BY <1>1, <1>2, <1>3, <1>4, <1>5, <1>6 DEF IndInv

\* WatchStart preserves the invariant.
LEMMA WatchStartStep ==
    ASSUME IndInv, NEW w \in Watchers, WatchStart(w)
    PROVE  IndInv'
<1> USE ConstantsAssumption DEF monitorVars, clientVars, stopVars, runVars, wlocals,
                               processVars, historyVars
<1>0. TypeOK /\ WgInv /\ ReqInv /\ EarlyInv /\ TokenInv /\ CancelInv /\ StopDrained
  BY Zenon DEF IndInv
<1>1. TypeOK'
  BY <1>0, SMTT(60) DEF WatchStart, TypeOK, PostPcs, StopPcs, RunPcs, WatcherPcs, WorkingPcs, CleanupPcs
<1>2. WgInv'
  BY <1>0, WgFrame, Zenon DEF WatchStart, Counted, TypeOK
<1>3. EarlyInv'
  BY <1>0, Zenon DEF WatchStart, EarlyInv, TypeOK, Counted
<1>4. TokenInv'
  BY <1>0, TokenFrame, Zenon DEF WatchStart, TypeOK, Working, WorkingPcs, CleanupPcs
<1>5. CancelInv' /\ StopDrained'
  BY <1>0, Zenon DEF WatchStart, CancelInv, StopDrained, TypeOK
<1>6. ReqInv'
  BY <1>0, Zenon DEF WatchStart, ReqInv, TypeOK
<1> QED BY <1>1, <1>2, <1>3, <1>4, <1>5, <1>6 DEF IndInv

\* WatchAnnounce preserves the invariant.
LEMMA WatchAnnounceStep ==
    ASSUME IndInv, NEW w \in Watchers, WatchAnnounce(w)
    PROVE  IndInv'
<1> USE ConstantsAssumption DEF monitorVars, clientVars, stopVars, runVars, wlocals,
                               processVars, historyVars
<1>0. TypeOK /\ WgInv /\ ReqInv /\ EarlyInv /\ TokenInv /\ CancelInv /\ StopDrained
  BY DEF IndInv
<1>1. TypeOK'
  BY <1>0, SMTT(60) DEF WatchAnnounce, TypeOK, PostPcs, StopPcs, RunPcs, WatcherPcs, WorkingPcs, CleanupPcs, ReqInv
<1>2. WgInv'
  BY <1>0, WgFrame, Zenon DEF WatchAnnounce, Counted, TypeOK
<1>3. EarlyInv'
  BY <1>0, Zenon DEF WatchAnnounce, EarlyInv, TypeOK, Counted
<1>4. TokenInv'
  BY <1>0, TokenFrame, Zenon DEF WatchAnnounce, TypeOK, Working, WorkingPcs, CleanupPcs
<1>5. CancelInv' /\ StopDrained'
  BY <1>0, Zenon DEF WatchAnnounce, CancelInv, StopDrained, TypeOK
<1>6. ReqInv'
  BY <1>0, Zenon DEF WatchAnnounce, ReqInv, TypeOK
<1> QED BY <1>1, <1>2, <1>3, <1>4, <1>5, <1>6 DEF IndInv

\* WatchPersist preserves the invariant.
LEMMA WatchPersistStep ==
    ASSUME IndInv, NEW w \in Watchers, WatchPersist(w)
    PROVE  IndInv'
<1> USE ConstantsAssumption DEF monitorVars, clientVars, stopVars, runVars, wlocals,
                               processVars, historyVars
<1>0. TypeOK /\ WgInv /\ ReqInv /\ EarlyInv /\ TokenInv /\ CancelInv /\ StopDrained
  BY DEF IndInv
<1>1. TypeOK'
  <2>1. stateFile' \in Reqs \cup {NoReq, Corrupt}
    BY <1>0 DEF WatchPersist, TypeOK
  <2>2. wsaved' \in [Watchers -> BOOLEAN]
    BY <1>0, Zenon DEF WatchPersist, TypeOK
  <2>3. wpc' \in [Watchers -> WatcherPcs]
    BY <1>0, Zenon DEF WatchPersist, TypeOK, WatcherPcs, WorkingPcs
  <2> QED BY <1>0, <2>1, <2>2, <2>3, SMTT(60) DEF WatchPersist, TypeOK
<1>2. WgInv'
  BY <1>0, WgFrame, Zenon DEF WatchPersist, Counted, TypeOK
<1>3. EarlyInv'
  BY <1>0, Zenon DEF WatchPersist, EarlyInv, TypeOK, Counted
<1>4. TokenInv'
  BY <1>0, TokenFrame, Zenon DEF WatchPersist, TypeOK, Working, WorkingPcs, CleanupPcs
<1>5. CancelInv' /\ StopDrained'
  BY <1>0, Zenon DEF WatchPersist, CancelInv, StopDrained, TypeOK
<1>6. ReqInv'
  BY <1>0 DEF WatchPersist, ReqInv, TypeOK
<1> QED BY <1>1, <1>2, <1>3, <1>4, <1>5, <1>6 DEF IndInv

\* WatchDecommission preserves the invariant.
LEMMA WatchDecommissionStep ==
    ASSUME IndInv, NEW w \in Watchers, NEW ok \in BOOLEAN, WatchDecommission(w, ok)
    PROVE  IndInv'
<1> USE ConstantsAssumption DEF monitorVars, clientVars, stopVars, runVars, wlocals,
                               processVars, historyVars
<1>0. TypeOK /\ WgInv /\ ReqInv /\ EarlyInv /\ TokenInv /\ CancelInv /\ StopDrained
  BY Zenon DEF IndInv
<1>1. TypeOK'
  BY <1>0, SMTT(60) DEF WatchDecommission, TypeOK, PostPcs, StopPcs, RunPcs, WatcherPcs, WorkingPcs, CleanupPcs, ReqInv
<1>2. WgInv'
  BY <1>0, WgFrame, Zenon DEF WatchDecommission, Counted, TypeOK
<1>3. EarlyInv'
  BY <1>0, Zenon DEF WatchDecommission, EarlyInv, TypeOK, Counted
<1>4. TokenInv'
  BY <1>0, TokenFrame, Zenon DEF WatchDecommission, TypeOK, Working, WorkingPcs, CleanupPcs
<1>5. CancelInv' /\ StopDrained'
  BY <1>0, Zenon DEF WatchDecommission, CancelInv, StopDrained, TypeOK
<1>6. ReqInv'
  BY <1>0, Zenon DEF WatchDecommission, ReqInv, TypeOK
<1> QED BY <1>1, <1>2, <1>3, <1>4, <1>5, <1>6 DEF IndInv

\* WatchRemoveState preserves the invariant.
LEMMA WatchRemoveStateStep ==
    ASSUME IndInv, NEW w \in Watchers, WatchRemoveState(w)
    PROVE  IndInv'
<1> USE ConstantsAssumption DEF monitorVars, clientVars, stopVars, runVars, wlocals,
                               processVars, historyVars
<1>0. TypeOK /\ WgInv /\ ReqInv /\ EarlyInv /\ TokenInv /\ CancelInv /\ StopDrained
  BY DEF IndInv
<1>1. TypeOK'
  BY <1>0, SMTT(60) DEF WatchRemoveState, RemoveStateFile, TypeOK, PostPcs, StopPcs, RunPcs, WatcherPcs, WorkingPcs, CleanupPcs
<1>2. WgInv'
  BY <1>0, WgFrame, Zenon DEF WatchRemoveState, RemoveStateFile, Counted, TypeOK
<1>3. EarlyInv'
  BY <1>0, Zenon DEF WatchRemoveState, RemoveStateFile, EarlyInv, TypeOK, Counted
<1>4. TokenInv'
  BY <1>0, TokenFrame, Zenon DEF WatchRemoveState, RemoveStateFile, TypeOK, Working, WorkingPcs, CleanupPcs
<1>5. CancelInv' /\ StopDrained'
  BY <1>0, Zenon DEF WatchRemoveState, RemoveStateFile, CancelInv, StopDrained, TypeOK
<1>6. ReqInv'
  BY <1>0 DEF WatchRemoveState, RemoveStateFile, ReqInv, TypeOK
<1> QED BY <1>1, <1>2, <1>3, <1>4, <1>5, <1>6 DEF IndInv

\* WatchCleanup preserves the invariant.
LEMMA WatchCleanupStep ==
    ASSUME IndInv, NEW w \in Watchers, WatchCleanup(w)
    PROVE  IndInv'
<1> USE ConstantsAssumption DEF monitorVars, clientVars, stopVars, runVars, wlocals,
                               processVars, historyVars
<1>0. TypeOK /\ WgInv /\ ReqInv /\ EarlyInv /\ TokenInv /\ CancelInv /\ StopDrained
  BY DEF IndInv
<1>2. soakWg' \in Nat /\ WgInv'
  <2>1. CASE wpc[w] # "done"
    BY <1>0, <2>1, WgFrame, Zenon DEF WatchCleanup, Counted, TypeOK
  <2>2. CASE wpc[w] = "done"
    <3>1. CountedSet' = CountedSet \ {w} /\ w \in CountedSet
      BY <1>0, <2>2 DEF WatchCleanup, CountedSet, Counted, TypeOK
    <3>2. Cardinality(CountedSet') = Cardinality(CountedSet) - 1
      BY <3>1, CountedFinite, FS_RemoveElement, Zenon
    <3>3. IsFiniteSet(CountedSet')
      BY <3>1, CountedFinite, FS_RemoveElement, Zenon
    <3> QED BY <1>0, <2>2, <3>2, <3>3, FS_CardinalityType DEF WatchCleanup, WgInv
  <2> QED BY <2>1, <2>2
<1>1. TypeOK'
  <2>1. /\ soakCancel' \in Watchers \cup {NoWatcher}
        /\ soakStatus' \in Reqs \cup {NoReq}
    BY <1>0, Zenon DEF WatchCleanup, TypeOK
  <2>4. soakActive' \in BOOLEAN
    BY <1>0, Zenon DEF WatchCleanup, TypeOK
  <2>2. wpc' \in [Watchers -> WatcherPcs]
    BY <1>0 DEF WatchCleanup, TypeOK, WatcherPcs, WorkingPcs, CleanupPcs
  <2>3. wfleet' \in [Watchers -> BOOLEAN]
    BY <1>0, Zenon DEF WatchCleanup, TypeOK
  <2> QED BY <1>0, <1>2, <2>1, <2>2, <2>3, <2>4 DEF WatchCleanup, TypeOK
<1>3. EarlyInv'
  BY <1>0 DEF WatchCleanup, EarlyInv, TypeOK, Counted
<1>4. TokenInv'
  <2>1. CASE wpc[w] # "clearActive"
    BY <1>0, <2>1, TokenFrame, Zenon DEF WatchCleanup, TypeOK, Working, WorkingPcs, CleanupPcs
  <2>2. CASE wpc[w] = "clearActive"
    <3>1. Working(w) /\ ~Working(w)'
      BY <1>0, <2>2, Zenon DEF WatchCleanup, TypeOK, Working, WorkingPcs, CleanupPcs
    <3>2. \A v \in Watchers : v # w => (Working(v)' <=> Working(v))
      BY <1>0, <2>2, Zenon DEF WatchCleanup, TypeOK, Working
    <3> QED BY <1>0, <2>2, <3>1, <3>2 DEF WatchCleanup, TokenInv
  <2> QED BY <2>1, <2>2
<1>5. CancelInv' /\ StopDrained'
  BY <1>0, SMTT(60) DEF WatchCleanup, CancelInv, StopDrained, TypeOK
<1>6. ReqInv'
  BY <1>0, Zenon DEF WatchCleanup, ReqInv, TypeOK
<1> QED BY <1>1, <1>2, <1>3, <1>4, <1>5, <1>6 DEF IndInv

\* WatchCancelled preserves the invariant.
LEMMA WatchCancelledStep ==
    ASSUME IndInv, NEW w \in Watchers, WatchCancelled(w)
    PROVE  IndInv'
<1> USE ConstantsAssumption DEF monitorVars, clientVars, stopVars, runVars, wlocals,
                               processVars, historyVars
<1>0. TypeOK /\ WgInv /\ ReqInv /\ EarlyInv /\ TokenInv /\ CancelInv /\ StopDrained
  BY DEF IndInv
<1>1. TypeOK'
  BY <1>0 DEF WatchCancelled, TypeOK, PostPcs, StopPcs, RunPcs, WatcherPcs, WorkingPcs, CleanupPcs
<1>2. WgInv'
  BY <1>0, WgFrame, Zenon DEF WatchCancelled, Counted, TypeOK
<1>3. EarlyInv'
  BY <1>0, Zenon DEF WatchCancelled, EarlyInv, TypeOK, Counted
<1>4. TokenInv'
  BY <1>0, TokenFrame, Zenon DEF WatchCancelled, TypeOK, Working, WorkingPcs, CleanupPcs
<1>5. CancelInv' /\ StopDrained'
  BY <1>0, Zenon DEF WatchCancelled, CancelInv, StopDrained, TypeOK
<1>6. ReqInv'
  BY <1>0 DEF WatchCancelled, ReqInv, TypeOK
<1> QED BY <1>1, <1>2, <1>3, <1>4, <1>5, <1>6 DEF IndInv

\* WatchTick preserves the invariant.
LEMMA WatchTickStep ==
    ASSUME IndInv, NEW w \in Watchers, NEW green \in BOOLEAN, NEW flag \in BOOLEAN, WatchTick(w, green, flag)
    PROVE  IndInv'
<1> USE ConstantsAssumption DEF monitorVars, clientVars, stopVars, runVars, wlocals,
                               processVars, historyVars
<1>0. TypeOK /\ WgInv /\ ReqInv /\ EarlyInv /\ TokenInv /\ CancelInv /\ StopDrained
  BY Zenon DEF IndInv
<1>1. TypeOK'
  BY <1>0 DEF WatchTick, TypeOK, PostPcs, StopPcs, RunPcs, WatcherPcs, WorkingPcs, CleanupPcs
<1>2. WgInv'
  BY <1>0, WgFrame, Zenon DEF WatchTick, Counted, TypeOK
<1>3. EarlyInv'
  BY <1>0, Zenon DEF WatchTick, EarlyInv, TypeOK, Counted
<1>4. TokenInv'
  BY <1>0, TokenFrame, Zenon DEF WatchTick, TypeOK, Working, WorkingPcs, CleanupPcs
<1>5. CancelInv' /\ StopDrained'
  BY <1>0, Zenon DEF WatchTick, CancelInv, StopDrained, TypeOK
<1>6. ReqInv'
  BY <1>0, Zenon DEF WatchTick, ReqInv, TypeOK
<1> QED BY <1>1, <1>2, <1>3, <1>4, <1>5, <1>6 DEF IndInv

\* WatchPanic preserves the invariant.
LEMMA WatchPanicStep ==
    ASSUME IndInv, NEW w \in Watchers, WatchPanic(w)
    PROVE  IndInv'
<1> USE ConstantsAssumption DEF monitorVars, clientVars, stopVars, runVars, wlocals,
                               processVars, historyVars
<1>0. TypeOK /\ WgInv /\ ReqInv /\ EarlyInv /\ TokenInv /\ CancelInv /\ StopDrained
  BY DEF IndInv
<1>1. TypeOK'
  BY <1>0 DEF WatchPanic, TypeOK, PostPcs, StopPcs, RunPcs, WatcherPcs, WorkingPcs, CleanupPcs
<1>2. WgInv'
  BY <1>0, WgFrame, Zenon DEF WatchPanic, Counted, TypeOK
<1>3. EarlyInv'
  BY <1>0, Zenon DEF WatchPanic, EarlyInv, TypeOK, Counted
<1>4. TokenInv'
  BY <1>0, TokenFrame, Zenon DEF WatchPanic, TypeOK, Working, WorkingPcs, CleanupPcs
<1>5. CancelInv' /\ StopDrained'
  BY <1>0, Zenon DEF WatchPanic, CancelInv, StopDrained, TypeOK
<1>6. ReqInv'
  BY <1>0, Zenon DEF WatchPanic, ReqInv, TypeOK
<1> QED BY <1>1, <1>2, <1>3, <1>4, <1>5, <1>6 DEF IndInv

\* Shutdown preserves the invariant.
LEMMA ShutdownStep ==
    ASSUME IndInv, Shutdown
    PROVE  IndInv'
<1> USE ConstantsAssumption DEF monitorVars, clientVars, stopVars, runVars, wlocals,
                               processVars, historyVars
<1>0. TypeOK /\ WgInv /\ ReqInv /\ EarlyInv /\ TokenInv /\ CancelInv /\ StopDrained
  BY DEF IndInv
<1>1. TypeOK'
  BY <1>0 DEF Shutdown, TypeOK, PostPcs, StopPcs, RunPcs, WatcherPcs, WorkingPcs, CleanupPcs
<1>2. WgInv'
  BY <1>0, WgFrame, Zenon DEF Shutdown, Counted, TypeOK
<1>3. EarlyInv'
  BY <1>0, Zenon DEF Shutdown, EarlyInv, TypeOK, Counted
<1>4. TokenInv'
  BY <1>0, TokenFrame, Zenon DEF Shutdown, TypeOK, Working, WorkingPcs, CleanupPcs
<1>5. CancelInv' /\ StopDrained'
  BY <1>0, Zenon DEF Shutdown, CancelInv, StopDrained, TypeOK
<1>6. ReqInv'
  BY <1>0, Zenon DEF Shutdown, ReqInv, TypeOK
<1> QED BY <1>1, <1>2, <1>3, <1>4, <1>5, <1>6 DEF IndInv

\* ProcessEnd preserves the invariant.
LEMMA ProcessEndStep ==
    ASSUME IndInv, ProcessEnd
    PROVE  IndInv'
<1> USE ConstantsAssumption DEF monitorVars, clientVars, stopVars, runVars, wlocals,
                               processVars, historyVars
<1>0. TypeOK /\ WgInv /\ ReqInv /\ EarlyInv /\ TokenInv /\ CancelInv /\ StopDrained
  BY DEF IndInv
<1>1. TypeOK'
  BY <1>0, Zenon DEF ProcessEnd, TypeOK, PostPcs, StopPcs, RunPcs, WatcherPcs, WorkingPcs, CleanupPcs
<1>2. WgInv'
  <2>1. CountedSet' = {}
    BY <1>0, Zenon DEF ProcessEnd, CountedSet, Counted, TypeOK
  <2> QED BY <1>0, <2>1, FS_EmptySet DEF ProcessEnd, WgInv
<1>3. EarlyInv'
  BY <1>0, Zenon DEF ProcessEnd, EarlyInv, TypeOK, Counted
<1>4. TokenInv'
  <2>1. \A r \in Reqs : post'[r] # "swapped"
    BY <1>0, Zenon DEF ProcessEnd
  <2>2. \A w \in Watchers : wpc'[w] \in {"unborn", "dead"}
    BY <1>0, Zenon DEF ProcessEnd, Counted
  <2> QED BY <1>0, <2>1, <2>2 DEF ProcessEnd, TokenInv, Working, WorkingPcs, CleanupPcs
<1>5. CancelInv' /\ StopDrained'
  BY <1>0, Zenon DEF ProcessEnd, CancelInv, StopDrained, TypeOK, Counted
<1>6. ReqInv'
  BY <1>0, Zenon DEF ProcessEnd, ReqInv, TypeOK, Counted
<1> QED BY <1>1, <1>2, <1>3, <1>4, <1>5, <1>6 DEF IndInv

\* ProcessStart preserves the invariant.
LEMMA ProcessStartStep ==
    ASSUME IndInv, ProcessStart
    PROVE  IndInv'
<1> USE ConstantsAssumption DEF monitorVars, clientVars, stopVars, runVars, wlocals,
                               processVars, historyVars
<1>0. TypeOK /\ WgInv /\ ReqInv /\ EarlyInv /\ TokenInv /\ CancelInv /\ StopDrained
  BY DEF IndInv
<1>1. TypeOK'
  BY <1>0, SMTT(60) DEF ProcessStart, TypeOK, PostPcs, StopPcs, RunPcs, WatcherPcs, WorkingPcs, CleanupPcs
<1>2. WgInv'
  BY <1>0, WgFrame, Zenon DEF ProcessStart, Counted, TypeOK
<1>3. EarlyInv'
  BY <1>0 DEF ProcessStart, EarlyInv, TypeOK, Counted
<1>4. TokenInv'
  BY <1>0, TokenFrame, Zenon DEF ProcessStart, EarlyInv, Working
<1>5. CancelInv' /\ StopDrained'
  BY <1>0, Zenon DEF ProcessStart, CancelInv, StopDrained, TypeOK
<1>6. ReqInv'
  BY <1>0, Zenon DEF ProcessStart, ReqInv, TypeOK
<1> QED BY <1>1, <1>2, <1>3, <1>4, <1>5, <1>6 DEF IndInv

\* Stuttering preserves the invariant.
LEMMA StutterStep ==
    ASSUME IndInv, UNCHANGED vars
    PROVE  IndInv'
<1> USE DEF IndInv, vars, monitorVars, clientVars, stopVars, runVars, wlocals,
            processVars, historyVars
<1>1. TypeOK' /\ EarlyInv' /\ CancelInv' /\ StopDrained' /\ ReqInv'
  BY SMTT(60) DEF TypeOK, EarlyInv, CancelInv, StopDrained, ReqInv, Counted
<1>2. WgInv'
  BY WgFrame, Zenon DEF Counted
<1>3. TokenInv'
  BY TokenFrame, Zenon DEF Working
<1> QED BY <1>1, <1>2, <1>3

\* The invariant is inductive.
LEMMA NextIndInv == IndInv /\ [Next]_vars => IndInv'
<1> SUFFICES ASSUME IndInv, [Next]_vars PROVE IndInv'
  OBVIOUS
<1>1. ASSUME NEW r \in Reqs, EnqueueSwap(r) \/ PostStep(r) PROVE IndInv'
  BY <1>1, EnqueueSwapStep, EnqueueSendStep, EnqueueStatusStep, Zenon DEF PostStep
<1>2. ASSUME NEW s \in Stops, (\E del \in BOOLEAN : StopLoad(s, del)) \/ StopStep(s)
      PROVE  IndInv'
  BY <1>2, StopLoadStep, StopCancelStep, StopLockStep, StopWaitStep,
     StopRemoveStep DEF StopStep
<1>3. CASE RunStep
  BY <1>3, ResumeReadStep, ResumeStatusStep, ResumeActiveStep, RunReceiveStep,
     RunDispatchStep, RunStopStep DEF RunStep
<1>4. ASSUME NEW w \in Watchers, WatchStep(w) PROVE IndInv'
  BY <1>4, WatchStartStep, WatchAnnounceStep, WatchPersistStep,
     WatchDecommissionStep, WatchRemoveStateStep, WatchCleanupStep DEF WatchStep
<1>5. ASSUME NEW w \in Watchers, WatchLoop(w) PROVE IndInv'
  BY <1>5, WatchCancelledStep, WatchTickStep, WatchPanicStep, Zenon DEF WatchLoop
<1>6. CASE Shutdown \/ ProcessEnd \/ ProcessStart
  BY <1>6, ShutdownStep, ProcessEndStep, ProcessStartStep, Zenon
<1>7. CASE UNCHANGED vars
  BY <1>7, StutterStep
<1> QED BY <1>1, <1>2, <1>3, <1>4, <1>5, <1>6, <1>7 DEF Next

\* The inductive invariant holds in every reachable state of the monitor.
LEMMA Invariance == Spec => []IndInv
BY InitIndInv, NextIndInv, PTL DEF Spec

\* Every variable of the monitor keeps its type; in particular soakWg.Done never
\* takes the WaitGroup below zero, at which Go panics.
THEOREM TypeCorrect == Spec => []TypeOK
<1>1. IndInv => TypeOK
  BY Zenon DEF IndInv
<1> QED BY <1>1, Invariance, PTL

\* At most one soak is in flight, in every process whose resume did not take
\* soakActive from a POST accepted before it.
THEOREM SingleFlightHolds == Spec => []SingleFlight
<1>1. IndInv => SingleFlight
  BY DEF IndInv, TokenInv, SingleFlight
<1> QED BY <1>1, Invariance, PTL

\* When TryStop returns true the watcher it cancelled has ended.
THEOREM StopDrainedHolds == Spec => []StopDrained
<1>1. IndInv => StopDrained
  BY DEF IndInv
<1> QED BY <1>1, Invariance, PTL
=============================================================================
