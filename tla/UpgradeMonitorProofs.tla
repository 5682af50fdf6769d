------------------------ MODULE UpgradeMonitorProofs ------------------------
(***************************************************************************)
(* Proofs about UpgradeMonitor, for any set of resources and operations,   *)
(* any assignment of operations to resources and any outcome of an         *)
(* execution.                                                              *)
(*                                                                         *)
(* Slot says that activeOpID mirrors the one goroutine there may be.  Done *)
(* ties what has happened to completedOpIDs: it holds every operation that *)
(* returned nil or was seen over, and the active operation is not one of   *)
(* the former.  NothingMissed is inductive beside them, because a resource *)
(* whose goroutine ends is completed or left to the next list.             *)
(***************************************************************************)
EXTENDS UpgradeMonitor, TLAPS

Slot ==
    /\ OneExecution
    /\ \A c \in Crs : running[c] > 0 => OpOf[c] # NoOp

Done ==
    /\ \A o \in Ops : successes[o] <= 1
    /\ \A o \in Ops : successes[o] > 0 => o \in completedOpIDs
    /\ \A o \in Ops : activeOpID = o => successes[o] = 0
    /\ terminalSeen \subseteq completedOpIDs

IndInv == TypeOK /\ Slot /\ Done /\ NothingMissed

SlotType ==
    /\ activeOpID \in Ops \cup {NoOp}
    /\ completedOpIDs \subseteq Ops
    /\ running \in [Crs -> Nat]
    /\ successes \in [Ops -> Nat]

----------------------------------------------------------------------------
\* A fresh monitor satisfies the invariant.
LEMMA InitIndInv == Init => IndInv
<1> SUFFICES ASSUME Init PROVE IndInv
  OBVIOUS
<1> USE ConstantsAssumption DEF Init
<1>1. TypeOK
  BY DEF TypeOK, Phases, Terminal, RunPcs, Reasons
<1>2. Slot /\ Done
  BY DEF Slot, Done, OneExecution
<1>3. NothingMissed
  BY DEF NothingMissed
<1> QED BY <1>1, <1>2, <1>3 DEF IndInv

\* handleEvent keeps the slot, whatever resource and phase it is given.
LEMMA HandleEventSlot ==
    ASSUME SlotType, Slot, Done, leftOver \subseteq Crs, NEW c \in Crs, NEW p,
           HandleEvent(c, p), terminalSeen' = terminalSeen
    PROVE  /\ SlotType' /\ Slot' /\ Done'
           /\ leftOver' \subseteq Crs /\ leftOver \subseteq leftOver'
           /\ completedOpIDs' = completedOpIDs
           /\ \A d \in Crs : running[d] > 0 => running'[d] > 0
           /\ \/ p # "Ready" \/ OpOf[c] = NoOp \/ OpOf[c] \in completedOpIDs
              \/ c \in leftOver' \/ running'[c] > 0
           /\ \A d \in Crs : running'[d] > running[d] => OpOf[d] \notin completedOpIDs
<1> USE ConstantsAssumption DEF slotVars
<1>1. CASE p # "Ready" \/ OpOf[c] = NoOp \/ OpOf[c] \in completedOpIDs
  <2>1. UNCHANGED <<activeOpID, completedOpIDs, running, successes, leftOver>>
    BY <1>1 DEF HandleEvent
  <2> QED BY <1>1, <2>1 DEF SlotType, Slot, OneExecution, Done
<1>2. CASE ~(p # "Ready" \/ OpOf[c] = NoOp \/ OpOf[c] \in completedOpIDs) /\ activeOpID # NoOp
  <2>1. UNCHANGED <<activeOpID, completedOpIDs, running, successes>> /\ leftOver' = leftOver \cup {c}
    BY <1>2 DEF HandleEvent
  <2> QED BY <1>2, <2>1 DEF SlotType, Slot, OneExecution, Done
<1>3. CASE ~(p # "Ready" \/ OpOf[c] = NoOp \/ OpOf[c] \in completedOpIDs) /\ activeOpID = NoOp
  <2>1. /\ activeOpID' = OpOf[c] /\ running' = [running EXCEPT ![c] = @ + 1]
        /\ UNCHANGED <<completedOpIDs, successes, leftOver>>
    BY <1>3 DEF HandleEvent
  <2>2. \A d \in Crs : running[d] = 0
    BY <1>3 DEF Slot, OneExecution, SlotType
  <2>3. \A d \in Crs : running'[d] = IF d = c THEN 1 ELSE 0
    BY <2>1, <2>2 DEF SlotType
  <2>4. SlotType'
    BY <1>3, <2>1 DEF SlotType
  <2>5. Slot'
    BY <1>3, <2>1, <2>3 DEF Slot, OneExecution
  <2>6. Done'
    BY <1>3, <2>1 DEF Done, SlotType
  <2> QED BY <1>3, <2>1, <2>2, <2>3, <2>4, <2>5, <2>6
<1> QED BY <1>1, <1>2, <1>3

\* A step that leaves the slot alone keeps Slot and Done.
LEMMA SlotFrame ==
    ASSUME Slot, Done, UNCHANGED slotVars, terminalSeen' = terminalSeen
    PROVE  Slot' /\ Done'
BY DEF Slot, OneExecution, Done, slotVars

\* A phase write keeps the invariant: its event is in the stream.
LEMMA WritePhaseStep ==
    ASSUME IndInv, NEW c \in Crs, NEW p \in Phases, WritePhase(c, p)
    PROVE  IndInv'
<1> USE DEF WritePhase
<1>0. TypeOK /\ Slot /\ Done /\ NothingMissed
  BY DEF IndInv
<1>1. Slot' /\ Done'
  BY <1>0, SlotFrame
<1>2. stream' \in Seq(Crs \X Phases)
  BY <1>0 DEF TypeOK
<1>3. TypeOK'
  BY <1>0, <1>2 DEF TypeOK, slotVars
<1>4. NothingMissed'
  <2> SUFFICES ASSUME runPc \in {"dispatch", "watchStart", "watch"},
                      NEW d \in Crs, phase'[d] = "Ready", OpOf[d] # NoOp
               PROVE  \/ d \in pending \cup leftOver
                      \/ \E i \in 1..Len(stream') : stream'[i] = <<d, "Ready">>
                      \/ running[d] > 0
                      \/ OpOf[d] \in completedOpIDs
    BY Zenon DEF NothingMissed, slotVars
  <2>1. stream' = Append(stream, <<c, p>>) /\ stream \in Seq(Crs \X Phases)
    BY <1>0, Zenon DEF TypeOK
  <2>2. /\ Len(stream') = Len(stream) + 1 /\ Len(stream) \in Nat
        /\ stream'[Len(stream) + 1] = <<c, p>>
        /\ \A i \in 1..Len(stream) : stream'[i] = stream[i]
    BY <2>1
  <2>3. phase' = [phase EXCEPT ![c] = p] /\ phase \in [Crs -> Phases]
    BY <1>0 DEF TypeOK
  <2> HIDE DEF WritePhase
  <2>4. CASE d = c
    <3>1. p = "Ready"
      BY <2>3, <2>4
    <3>2. Len(stream) + 1 \in 1..Len(stream')
      BY <2>2
    <3> QED BY <2>2, <2>4, <3>1, <3>2
  <2>5. CASE d # c
    <3>1. phase[d] = "Ready"
      BY <2>3, <2>5
    <3>2. \A i \in 1..Len(stream) : i \in 1..Len(stream')
      BY <2>2
    <3> QED BY <1>0, <2>2, <3>1, <3>2, Zenon DEF NothingMissed
  <2> QED BY <2>4, <2>5, Zenon
<1> QED BY <1>1, <1>3, <1>4 DEF IndInv

\* The end of an execution frees the slot and accounts for the operation.
LEMMA ExecuteEndsStep ==
    ASSUME IndInv, NEW c \in Crs, NEW outcome \in Outcomes, ExecuteEnds(c, outcome)
    PROVE  IndInv'
<1> USE ConstantsAssumption
<1>0. TypeOK /\ Slot /\ Done /\ NothingMissed
  BY DEF IndInv
<1>1. /\ running[c] = 1 /\ activeOpID = OpOf[c] /\ OpOf[c] \in Ops
      /\ \A d \in Crs : d # c => running[d] = 0
  BY <1>0 DEF ExecuteEnds, Slot, OneExecution, TypeOK
<1>2. /\ activeOpID' = NoOp
      /\ \A d \in Crs : running'[d] = 0
  BY <1>0, <1>1 DEF ExecuteEnds, TypeOK
<1>3. /\ running' \in [Crs -> Nat] /\ successes' \in [Ops -> Nat]
      /\ completedOpIDs' \subseteq Ops /\ leftOver' \subseteq Crs
  BY <1>0, <1>1, SMTT(60) DEF ExecuteEnds, TypeOK
<1>4. TypeOK'
  BY <1>0, <1>2, <1>3 DEF ExecuteEnds, TypeOK, clusterVars
<1>5. Slot'
  BY <1>2 DEF Slot, OneExecution
<1>6. Done'
  <2>1. CASE outcome = "nil"
    <3>1. successes' = [successes EXCEPT ![OpOf[c]] = @ + 1] /\ completedOpIDs' = completedOpIDs \cup {OpOf[c]}
      BY <2>1 DEF ExecuteEnds
    <3>2. successes[OpOf[c]] = 0 /\ successes \in [Ops -> Nat]
      BY <1>0, <1>1 DEF Done, TypeOK
    <3>3. terminalSeen' = terminalSeen
      BY DEF ExecuteEnds
    <3> QED BY <1>0, <1>1, <1>2, <3>1, <3>2, <3>3 DEF Done
  <2>2. CASE outcome # "nil"
    <3>1. successes' = successes /\ completedOpIDs \subseteq completedOpIDs' /\ terminalSeen' = terminalSeen
      BY <2>2, Zenon DEF ExecuteEnds
    <3> QED BY <1>0, <1>2, <3>1 DEF Done
  <2> QED BY <2>1, <2>2
<1>7. NothingMissed'
  <2>1. OpOf[c] \in completedOpIDs' \/ c \in leftOver'
    BY DEF ExecuteEnds
  <2>2. /\ completedOpIDs \subseteq completedOpIDs' /\ leftOver \subseteq leftOver'
        /\ UNCHANGED <<phase, runPc, pending, stream>>
    BY DEF ExecuteEnds, clusterVars
  <2>3. \A d \in Crs : running[d] > 0 => d = c
    BY <1>1
  <2> QED BY <1>0, <2>1, <2>2, <2>3, Zenon DEF NothingMissed
<1> QED BY <1>4, <1>5, <1>6, <1>7 DEF IndInv

\* A list seeds only operations, and every ready resource becomes pending.
LEMMA ListAndSeedStep ==
    ASSUME IndInv, ListAndSeed
    PROVE  IndInv'
<1> USE ConstantsAssumption
<1>0. TypeOK /\ Slot /\ Done
  BY DEF IndInv
<1>1. PICK over \in SUBSET Ops :
        completedOpIDs' = completedOpIDs \cup over /\ terminalSeen' = terminalSeen \cup over
  <2> DEFINE over == OpsOf({c \in Crs : phase[c] \in Terminal})
  <2>1. over \subseteq Ops
    BY DEF OpsOf
  <2> QED BY <2>1, Zenon DEF ListAndSeed
<1>2. TypeOK'
  BY <1>0, <1>1 DEF ListAndSeed, TypeOK, RunPcs, clusterVars
<1>3. Slot'
  BY <1>0 DEF ListAndSeed, Slot, OneExecution
<1>4. Done'
  BY <1>0, <1>1, Zenon DEF ListAndSeed, Done
<1>5. NothingMissed'
  BY DEF ListAndSeed, NothingMissed, clusterVars
<1> QED BY <1>2, <1>3, <1>4, <1>5 DEF IndInv

\* Handing a pending resource to handleEvent keeps the invariant.
LEMMA DispatchStep ==
    ASSUME IndInv, Dispatch
    PROVE  IndInv'
<1> USE ConstantsAssumption
<1>0. TypeOK /\ Slot /\ Done /\ NothingMissed /\ SlotType /\ leftOver \subseteq Crs
  BY DEF IndInv, TypeOK, SlotType
<1>1. PICK c \in pending : pending' = pending \ {c} /\ HandleEvent(c, "Ready")
  BY DEF Dispatch
<1>2. UNCHANGED <<phase, writes, serverCred, diskCred, runPc, connectivityErr, stream, clientCred, terminalSeen, restarts>>
  BY DEF Dispatch, clusterVars
<1>3. c \in Crs
  BY <1>0, <1>1, Zenon DEF TypeOK
<1>4. /\ SlotType' /\ Slot' /\ Done' /\ leftOver' \subseteq Crs /\ leftOver \subseteq leftOver'
      /\ completedOpIDs' = completedOpIDs
      /\ \A d \in Crs : running[d] > 0 => running'[d] > 0
      /\ \/ OpOf[c] = NoOp \/ OpOf[c] \in completedOpIDs
         \/ c \in leftOver' \/ running'[c] > 0
  BY <1>0, <1>1, <1>2, <1>3, HandleEventSlot, Zenon
<1>5. TypeOK'
  BY <1>0, <1>1, <1>2, <1>4, Zenon DEF TypeOK, SlotType
<1>6. NothingMissed'
  BY <1>0, <1>1, <1>2, <1>3, <1>4, Zenon DEF NothingMissed
<1> QED BY <1>4, <1>5, <1>6 DEF IndInv

\* Handing the head of the stream to handleEvent keeps the invariant.
LEMMA WatchEventStep ==
    ASSUME IndInv, WatchEvent
    PROVE  IndInv'
<1> USE ConstantsAssumption
<1>0. TypeOK /\ Slot /\ Done /\ NothingMissed /\ SlotType /\ leftOver \subseteq Crs
  BY DEF IndInv, TypeOK, SlotType
<1> DEFINE c == Head(stream)[1]
           p == Head(stream)[2]
<1>1. /\ stream # <<>> /\ HandleEvent(c, p) /\ stream' = Tail(stream)
      /\ UNCHANGED <<phase, writes, serverCred, diskCred, runPc, pending, connectivityErr,
                     clientCred, terminalSeen, restarts>>
  BY DEF WatchEvent, clusterVars
<1>2. /\ stream \in Seq(Crs \X Phases) /\ Len(stream) \in Nat /\ Len(stream) # 0
      /\ Head(stream) \in Crs \X Phases /\ Head(stream) = stream[1]
      /\ Tail(stream) \in Seq(Crs \X Phases) /\ Len(Tail(stream)) = Len(stream) - 1
      /\ \A i \in 1..(Len(stream) - 1) : Tail(stream)[i] = stream[i + 1]
  BY <1>0, <1>1 DEF TypeOK
<1>3. c \in Crs /\ stream[1] = <<c, p>>
  BY <1>2
<1> HIDE DEF c, p
<1>4. /\ SlotType' /\ Slot' /\ Done' /\ leftOver' \subseteq Crs /\ leftOver \subseteq leftOver'
      /\ completedOpIDs' = completedOpIDs
      /\ \A d \in Crs : running[d] > 0 => running'[d] > 0
      /\ \/ p # "Ready" \/ OpOf[c] = NoOp \/ OpOf[c] \in completedOpIDs
         \/ c \in leftOver' \/ running'[c] > 0
  BY <1>0, <1>1, <1>3, HandleEventSlot, Zenon
<1>5. TypeOK'
  BY <1>0, <1>1, <1>2, <1>4, Zenon DEF TypeOK, SlotType
<1>6. NothingMissed'
  <2> SUFFICES ASSUME runPc \in {"dispatch", "watchStart", "watch"},
                      NEW d \in Crs, phase[d] = "Ready", OpOf[d] # NoOp
               PROVE  \/ d \in pending \cup leftOver'
                      \/ \E i \in 1..Len(stream') : stream'[i] = <<d, "Ready">>
                      \/ running'[d] > 0
                      \/ OpOf[d] \in completedOpIDs'
    BY <1>1, Zenon DEF NothingMissed
  <2>1. CASE \E i \in 1..Len(stream) : stream[i] = <<d, "Ready">>
    <3>1. PICK i \in 1..Len(stream) : stream[i] = <<d, "Ready">>
      BY <2>1
    <3>2. CASE i = 1
      <4>1. d = c /\ p = "Ready"
        BY <1>3, <3>1, <3>2
      <4> QED BY <1>4, <4>1
    <3>3. CASE i # 1
      <4>1. i - 1 \in 1..Len(stream') /\ stream'[i - 1] = <<d, "Ready">>
        BY <1>1, <1>2, <3>1, <3>3
      <4> QED BY <4>1
    <3> QED BY <3>2, <3>3
  <2>2. CASE ~ \E i \in 1..Len(stream) : stream[i] = <<d, "Ready">>
    BY <1>0, <1>4, <2>2, Zenon DEF NothingMissed
  <2> QED BY <2>1, <2>2
<1> QED BY <1>4, <1>5, <1>6 DEF IndInv

\* The steps of the loop that hand nothing over, and the rotations.
LEMMA QuietStep ==
    ASSUME IndInv,
           ListFails \/ ListDone \/ WatchStarts \/ WatchCloses \/ WatchFails \/ Rotate
             \/ ProcessStarts \/ UNCHANGED vars
    PROVE  IndInv'
<1> USE DEF clusterVars, loopVars
<1>0. TypeOK /\ Slot /\ Done /\ NothingMissed
  BY DEF IndInv
<1>1. CASE ListFails
  BY <1>0, <1>1, SlotFrame DEF ListFails, TypeOK, NothingMissed, Reasons, slotVars, IndInv
<1>2. CASE ListDone
  BY <1>0, <1>2, SlotFrame, Zenon DEF ListDone, TypeOK, NothingMissed, Reasons, RunPcs, slotVars, IndInv
<1>3. CASE WatchStarts
  BY <1>0, <1>3, SlotFrame, Zenon DEF WatchStarts, TypeOK, NothingMissed, RunPcs, slotVars, IndInv
<1>4. CASE WatchCloses
  BY <1>0, <1>4, SlotFrame DEF WatchCloses, TypeOK, NothingMissed, RunPcs, slotVars, IndInv
<1>5. CASE WatchFails
  <2>1. clientCred' \in Nat /\ connectivityErr' \in Reasons
    BY <1>0, <1>5, Zenon DEF WatchFails, TypeOK, Reasons
  <2> QED BY <1>0, <1>5, <2>1, SlotFrame, SMTT(60) DEF WatchFails, TypeOK, NothingMissed, RunPcs, slotVars, IndInv
<1>6. CASE Rotate
  <2>1. serverCred' \in Nat /\ diskCred' \in Nat
    BY <1>0, <1>6 DEF Rotate, TypeOK
  <2> QED BY <1>0, <1>6, <2>1, SlotFrame, Zenon DEF Rotate, TypeOK, NothingMissed, slotVars, IndInv
<1>7. CASE ProcessStarts
  BY <1>0, <1>7, SlotFrame, SMTT(60) DEF ProcessStarts, TypeOK, NothingMissed, RunPcs, slotVars, IndInv
<1>8. CASE UNCHANGED vars
  BY <1>0, <1>8, SlotFrame, Zenon DEF vars, TypeOK, NothingMissed, slotVars, IndInv
<1> QED BY <1>1, <1>2, <1>3, <1>4, <1>5, <1>6, <1>7, <1>8

\* The end of the process empties the slot.
LEMMA ProcessEndsStep ==
    ASSUME IndInv, ProcessEnds
    PROVE  IndInv'
<1> USE ConstantsAssumption DEF ProcessEnds
<1>1. TypeOK'
  BY DEF IndInv, TypeOK, RunPcs, Reasons, clusterVars
<1>2. Slot' /\ Done'
  BY DEF Slot, Done, OneExecution
<1>3. NothingMissed'
  BY DEF NothingMissed
<1> QED BY <1>1, <1>2, <1>3 DEF IndInv

\* The invariant is inductive.
LEMMA NextIndInv == IndInv /\ [Next]_vars => IndInv'
<1> SUFFICES ASSUME IndInv, [Next]_vars PROVE IndInv'
  OBVIOUS
<1>1. CASE LoopStep
  BY <1>1, ListAndSeedStep, DispatchStep, WatchEventStep, QuietStep DEF LoopStep
<1>2. CASE \E c \in Crs : ExecuteStep(c)
  BY <1>2, ExecuteEndsStep DEF ExecuteStep
<1>3. CASE \E c \in Crs, p \in Phases : WritePhase(c, p)
  BY <1>3, WritePhaseStep
<1>4. CASE ListFails \/ WatchFails \/ Rotate \/ ProcessStarts \/ UNCHANGED vars
  BY <1>4, QuietStep
<1>5. CASE ProcessEnds
  BY <1>5, ProcessEndsStep
<1> QED BY <1>1, <1>2, <1>3, <1>4, <1>5 DEF Next

\* The inductive invariant holds in every reachable state of the monitor.
LEMMA Invariance == Spec => []IndInv
BY InitIndInv, NextIndInv, PTL DEF Spec

\* Every variable of the upgrade monitor keeps its type.
THEOREM TypeCorrect == Spec => []TypeOK
<1>1. IndInv => TypeOK
  BY Zenon DEF IndInv
<1> QED BY <1>1, Invariance, PTL

\* handleEvent's slot admits one execute goroutine, and activeOpID names its
\* operation exactly while it runs.
THEOREM OneExecutionHolds == Spec => []OneExecution
<1>1. IndInv => OneExecution
  BY DEF IndInv, Slot
<1> QED BY <1>1, Invariance, PTL

\* A process executes no operation again that returned nil.
THEOREM ExecutedOnceHolds == Spec => []ExecutedOnce
<1>1. IndInv => ExecutedOnce
  BY DEF IndInv, Done, ExecutedOnce
<1> QED BY <1>1, Invariance, PTL

\* No ready resource falls between the list and the watch.
THEOREM NothingMissedHolds == Spec => []NothingMissed
<1>1. IndInv => NothingMissed
  BY Zenon DEF IndInv
<1> QED BY <1>1, Invariance, PTL

\* No step of the loop starts an operation that a list of this process has shown
\* in a terminal phase.
THEOREM TerminalStaysOverHolds == Spec => TerminalStaysOver
<1> DEFINE A == \A c \in Crs : running'[c] > running[c] => OpOf[c] \notin terminalSeen
<1>1. IndInv /\ [Next]_vars => [A]_vars
  <2> SUFFICES ASSUME IndInv, Next PROVE A
    BY Zenon
  <2>0. /\ TypeOK /\ Slot /\ Done /\ SlotType /\ leftOver \subseteq Crs
        /\ running \in [Crs -> Nat] /\ terminalSeen \subseteq completedOpIDs
    BY Zenon DEF IndInv, TypeOK, SlotType, Done
  <2>1. CASE Dispatch
    <3>1. PICK c \in pending : HandleEvent(c, "Ready") /\ terminalSeen' = terminalSeen
      BY <2>1, Zenon DEF Dispatch
    <3>2. c \in Crs
      BY <2>0, Zenon DEF TypeOK
    <3> QED BY <2>0, <3>1, <3>2, HandleEventSlot
  <2>2. CASE WatchEvent
    <3>1. Head(stream) \in Crs \X Phases
      BY <2>0, <2>2 DEF WatchEvent, TypeOK
    <3>2. Head(stream)[1] \in Crs
      BY <3>1, Zenon
    <3>3. HandleEvent(Head(stream)[1], Head(stream)[2]) /\ terminalSeen' = terminalSeen
      BY <2>2, Zenon DEF WatchEvent
    <3> QED BY <2>0, <3>2, <3>3, HandleEventSlot
  <2>3. ASSUME NEW c \in Crs, ExecuteStep(c) PROVE A
    BY <2>0, <2>3 DEF ExecuteStep, ExecuteEnds
  <2>4. CASE ProcessEnds
    BY <2>0, <2>4 DEF ProcessEnds
  <2>5. ASSUME running' = running PROVE A
    BY <2>0, <2>5
  <2>6. ASSUME NEW c \in Crs, NEW p \in Phases, WritePhase(c, p) PROVE A
    BY <2>5, <2>6, Zenon DEF WritePhase, slotVars
  <2>7. CASE ListAndSeed \/ ListDone \/ WatchStarts \/ WatchCloses \/ ListFails \/ WatchFails \/ Rotate \/ ProcessStarts
    BY <2>5, <2>7 DEF ListAndSeed, ListDone, WatchStarts, WatchCloses, ListFails, WatchFails,
                      Rotate, ProcessStarts, slotVars
  <2> QED BY <2>1, <2>2, <2>3, <2>4, <2>6, <2>7 DEF Next, LoopStep
<1> QED BY <1>1, Invariance, PTL DEF Spec, TerminalStaysOver
=============================================================================
