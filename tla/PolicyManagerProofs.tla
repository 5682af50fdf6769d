------------------------ MODULE PolicyManagerProofs ------------------------
(***************************************************************************)
(* Create, Delete and the install step keep the invariant of               *)
(* PolicyInvariant; from it follow the four safety properties of           *)
(* PolicyManager.                                                          *)
(***************************************************************************)
EXTENDS PolicyInvariant

\* The install step acts without the lock: inside another command's critical
\* section it leaves undercut and torn behind, so that the holder's document no
\* longer counts; outside any, it has to keep the stores in line itself.
LEMMA IntrusionKeeps ==
    ASSUME IInv, NEW p \in Ops, pc[p] \in {"render", "restart"},
           NEW l \in {"idle", "restart"}, pc' = [pc EXCEPT ![p] = l],
           UNCHANGED <<registry, lock, req, pod, doc, script>>,
           torn' = (torn \/ lock # Free), Intrude,
           IsTable(kernel)', IsTable(artifact)', lag' \in BOOLEAN,
           lock = Free => StoresInv'
    PROVE  IInv'
<1> USE DEF IInv
<1>1. TypeOK'
  BY DEF TypeOK, PCs, Procs, Intrude, IsTable
<1>2. LockInv'
  BY PolicyAssumption DEF TypeOK, LockInv, Locked, Procs, Intrude
<1>3. StoresInv'
  BY Zenon DEF StoresInv
<1>4. OpsInv'
  <2>1. CASE lock = Free
    <3>1. pc'[p] = l /\ \A q \in Ops : q # p => pc'[q] = pc[q]
      BY DEF TypeOK, Procs
    <3>2. CreateInv(p)' /\ DeleteInv(p)' /\ SiblingsInv(p)'
      BY <3>1, Outside
    <3> QED
      BY <2>1, <3>1, <3>2, OthersKept
  <2>2. CASE lock # Free
    <3> SUFFICES ASSUME NEW q \in Ops
                 PROVE  CreateInv(q)' /\ DeleteInv(q)' /\ SiblingsInv(q)'
      BY DEF OpsInv
    <3>1. undercut' /\ torn'
      BY <2>2, Zenon DEF Intrude
    <3>2. CASE q = p
      <4>1. pc'[q] = l
        BY <3>2 DEF TypeOK, Procs
      <4> QED
        BY <4>1, Outside
    <3>3. CASE q # p
      <4>1. pc'[q] = pc[q]
        BY <3>3 DEF TypeOK, Procs
      <4>2. CreateInv(q) /\ DeleteInv(q)
        BY DEF OpsInv
      <4> QED
        BY <3>1, <4>1, <4>2, Zenon DEF CreateInv, DeleteInv, SiblingsInv
    <3> QED
      BY <3>2, <3>3
  <2> QED
    BY <2>1, <2>2
<1> QED
  BY <1>1, <1>2, <1>3, <1>4

\* The install step re-renders the artifact from the registry.
LEMMA InstallRenderKeeps ==
    ASSUME IInv, NEW p \in Ops, InstallRender(p)
    PROVE  IInv'
<1> DEFINE c == ExtractPodCIDRs(artifact)
           R == Render(registry, NoMembership(registry), c)
           empty == DOMAIN registry = {}
<1>1. CASE Quit(p)
  BY <1>1, QuitKeeps DEF InstallRender
<1>2. CASE ~Quit(p)
  <2>1. /\ pc[p] = "render" /\ Renders(registry, c)
        /\ artifact' = IF empty THEN NoDoc ELSE R
        /\ lag' = (lag \/ ~empty)
        /\ torn' = (torn \/ lock # Free) /\ Intrude
        /\ pc' = [pc EXCEPT ![p] = IF empty THEN "idle" ELSE "restart"]
        /\ UNCHANGED <<kernel, registry, lock, req, pod, doc, script>>
    BY <1>2 DEF InstallRender, Goto
  <2>2. /\ registry \in Registries /\ IsTable(kernel) /\ c \in Pods \cup {NoPod}
        /\ lag \in BOOLEAN
    BY RecoveredTyped DEF IInv, TypeOK
  <2>3. ~empty => /\ WellFormed(R) /\ R # NoDoc /\ ConfOf(R) = registry
                  /\ R.pod = IF NeedsPod(registry) THEN c ELSE NoPod
    BY <2>1, <2>2, EmptyRenders, Zenon
  <2> HIDE DEF R
  <2>4. IsTable(kernel)' /\ IsTable(artifact)' /\ lag' \in BOOLEAN
    BY <2>1, <2>2, <2>3 DEF IsTable
  <2>5. StoresInv'
    <3> SUFFICES ASSUME ~torn
                 PROVE  StoresInv'
      <4>1. torn => torn'
        BY <2>1, Zenon
      <4> QED
        BY <4>1 DEF StoresInv
    <3>1. StoresInv /\ IsTable(artifact)
      BY DEF IInv, TypeOK
    <3>2. kernel # NoDoc => /\ WellFormed(kernel) /\ ConfOf(kernel) = registry
                            /\ DOMAIN registry # {}
                            /\ kernel.pod # NoPod <=> NeedsPod(registry)
      <4> SUFFICES ASSUME kernel # NoDoc
                   PROVE  /\ WellFormed(kernel) /\ ConfOf(kernel) = registry
                          /\ DOMAIN registry # {}
                          /\ kernel.pod # NoPod <=> NeedsPod(registry)
        OBVIOUS
      <4>1. WellFormed(kernel) /\ ConfOf(kernel) = registry
        BY <2>2, <3>1 DEF StoresInv, IsTable
      <4> QED
        BY <4>1, WellFormedShape, Zenon
    <3>3. kernel # NoDoc /\ ~empty => R.pod = kernel.pod
      BY <2>1, <2>3, <3>1, <3>2 DEF StoresInv, Renders, ExtractPodCIDRs
    <3>4. ConfOf(artifact)' = ConfOf(artifact') /\ ConfOf(kernel)' = ConfOf(kernel)
      BY <2>1 DEF ConfOf
    <3> QED
      BY <2>1, <2>3, <3>1, <3>2, <3>3, <3>4, Zenon DEF StoresInv
  <2>6. (IF empty THEN "idle" ELSE "restart") \in {"idle", "restart"}
    OBVIOUS
  <2> QED
    BY <2>1, <2>4, <2>5, <2>6, IntrusionKeeps, Zenon
<1> QED
  BY <1>1, <1>2

\* The restarted oneshot replays the artifact.
LEMMA InstallRestartKeeps ==
    ASSUME IInv, NEW p \in Ops, InstallRestart(p)
    PROVE  IInv'
<1>1. /\ pc[p] = "restart"
      /\ kernel' = IF artifact = NoDoc THEN kernel ELSE artifact
      /\ lag' = (lag /\ artifact = NoDoc)
      /\ torn' = (torn \/ lock # Free) /\ Intrude
      /\ pc' = [pc EXCEPT ![p] = "idle"]
      /\ UNCHANGED <<artifact, registry, lock, req, pod, doc, script>>
  BY DEF InstallRestart, Goto
<1>2. IsTable(kernel)' /\ IsTable(artifact)' /\ lag' \in BOOLEAN
  BY <1>1 DEF IInv, TypeOK, IsTable
<1>3. StoresInv'
  <2>1. ConfOf(artifact)' = ConfOf(artifact)
        /\ ConfOf(kernel)' = IF artifact = NoDoc THEN ConfOf(kernel) ELSE ConfOf(artifact)
    BY <1>1 DEF ConfOf
  <2> QED
    BY <1>1, <2>1 DEF IInv, TypeOK, StoresInv
<1> QED
  BY <1>1, <1>2, <1>3, IntrusionKeeps, Zenon

\* Create or Delete takes the lock with a document to apply.
LEMMA LoadKeeps ==
    ASSUME IInv, NEW p \in Ops, lock = Free, Proceed(p, "apply"),
           NEW D, IsTable(D), doc' = [doc EXCEPT ![p] = D], UNCHANGED <<pod, script>>,
           CreateInv(p)' /\ DeleteInv(p)' /\ SiblingsInv(p)'
    PROVE  IInv'
<1> USE DEF IInv
<1>1. p \in Procs
  BY DEF Procs
<1>2. TypeOK'
  <2>1. D \in {NoDoc} \cup Documents
    BY DEF IsTable, WellFormed
  <2>2. doc' \in [Procs -> {NoDoc} \cup Documents] /\ \A q \in Procs : IsTable(doc'[q])
    BY <1>1, <2>1 DEF TypeOK
  <2>3. pc' \in [Procs -> PCs] /\ lock' \in Procs \cup {Free} /\ undercut' \in BOOLEAN
    BY <1>1, Zenon DEF TypeOK, Proceed, Acquire, Goto, PCs
  <2>4. UNCHANGED <<kernel, artifact, registry, req, pod, script, torn, lag>>
    BY DEF Proceed, stores
  <2> QED
    BY <2>2, <2>3, <2>4 DEF TypeOK, IsTable
<1>3. LockInv'
  <2>1. \A q \in Procs : pc[q] \notin Locked
    BY PolicyAssumption DEF LockInv, TypeOK
  <2> QED
    BY <1>1, <2>1 DEF TypeOK, LockInv, Proceed, Acquire, Goto, Locked, Procs
<1>4. StoresInv'
  BY DEF StoresInv, Proceed, stores
<1>5. OpsInv'
  <2>1. \A q \in Ops : q # p => pc'[q] = pc[q]
    BY DEF TypeOK, Proceed, Goto, Procs
  <2> QED
    BY <2>1, OthersKept
<1> QED
  BY <1>2, <1>3, <1>4, <1>5

\* The holder writes one store and goes on to the next.
LEMMA StoreWriteKeeps ==
    ASSUME IInv, NEW p \in Ops, pc[p] \in Locked,
           NEW l \in {"entry", "file", "service"}, Goto(p, l),
           UNCHANGED <<lock, req, pod, doc, script>>,
           IsTable(kernel)', IsTable(artifact)', registry' \in Registries,
           torn' \in BOOLEAN, lag' \in BOOLEAN, undercut' \in BOOLEAN,
           l # "service" => torn', undercut' => torn',
           StoresInv', CreateInv(p)' /\ DeleteInv(p)'
    PROVE  IInv'
<1> USE DEF IInv
<1>1. p \in Procs
  BY DEF Procs
<1>2. lock = p
  BY <1>1 DEF LockInv
<1>3. TypeOK'
  <2>1. \A q \in Procs : IsTable(doc[q])'
    BY DEF TypeOK, IsTable
  <2> QED
    BY <1>1, <2>1 DEF TypeOK, Goto, PCs
<1>4. pc'[p] = l /\ \A q \in Procs : q # p => pc'[q] = pc[q] /\ pc[q] \notin Locked
  <2>1. pc'[p] = l /\ \A q \in Procs : q # p => pc'[q] = pc[q]
    BY <1>1 DEF TypeOK, Goto
  <2>2. \A q \in Procs : q # p => pc[q] \notin Locked
    BY <1>2, Excluded
  <2> QED
    BY <2>1, <2>2
<1>5. LockInv'
  BY <1>1, <1>2, <1>4, Zenon DEF LockInv, Locked, Procs
<1>6. OpsInv'
  <2>1. SiblingsInv(p)'
    BY <1>4 DEF SiblingsInv
  <2>2. \A q \in Ops : q # p => pc'[q] = pc[q]
    BY <1>4 DEF Procs
  <2> QED
    BY <1>2, <2>1, <2>2, OthersKept
<1> QED
  BY <1>3, <1>5, <1>6

\* Create renders its document under the lock.
LEMMA CreateLoadKeeps ==
    ASSUME IInv, NEW p \in Ops, CreateLoad(p)
    PROVE  IInv'
<1> DEFINE r     == req[p]
           n     == r.name
           heal  == n \in DOMAIN registry /\ ~r.force
           conf  == IF heal THEN registry[n] ELSE r.conf
           cidrs == IF heal THEN [f \in CidrFams |-> {}] ELSE r.cidrs
           reg   == Upsert(registry, n, conf)
           D     == Render(reg, DesiredMembership(n, conf, cidrs), pod[p])
<1>1. CASE Quit(p)
  BY <1>1, QuitKeeps, Zenon DEF CreateLoad
<1>2. CASE ~Quit(p)
  <2>1. /\ pc[p] = "load" /\ r.verb = "create" /\ lock = Free
        /\ Renders(reg, pod[p])
        /\ doc' = [doc EXCEPT ![p] = D]
        /\ Proceed(p, "apply") /\ UNCHANGED <<pod, script>>
    BY <1>2, Zenon DEF CreateLoad
  <2>2. /\ n \in Names /\ r.conf \in Confs /\ r.cidrs \in [CidrFams -> SUBSET Elems]
        /\ registry \in Registries /\ IsTable(kernel)
        /\ pod[p] \in Pods \cup {NoPod} /\ p \in Procs
    BY DEF IInv, TypeOK, Commands, Procs
  <2>3. conf \in Confs /\ cidrs \in [CidrFams -> SUBSET Elems]
    BY <2>2, RegistryEdits, Zenon
  <2>4. /\ Renders(Upsert(registry, n, conf), pod[p])
        /\ D = Render(Upsert(registry, n, conf), DesiredMembership(n, conf, cidrs), pod[p])
    BY <2>1, Zenon
  <2> HIDE DEF conf, cidrs, n, r, D
  <2>5. /\ WellFormed(D) /\ D # NoDoc
        /\ n \in DOMAIN D.pol /\ D.pol[n].conf = conf
        /\ ConfOf(D) = reg
        /\ D.pod \in {NoPod, pod[p]}
        /\ \A m \in DOMAIN registry \ {n} : \A f \in SetsOf[registry[m]] :
              ElementsIn(D, m, f) = ElementsIn(kernel, m, f)
    BY <2>2, <2>3, <2>4, DesiredRenders
  <2>6. /\ pc'[p] = "apply" /\ doc'[p] = D /\ req' = req /\ pod' = pod
        /\ UNCHANGED <<kernel, artifact, registry>>
    BY <2>1, <2>2, Zenon DEF Proceed, Goto, stores, IInv, TypeOK
  <2>7. CreateInv(p)'
    <3>1. ConfOf(D) = Upsert(registry, n, D.pol[n].conf)
      BY <2>5, Zenon
    <3> QED
      BY <2>5, <2>6, <3>1, Zenon DEF CreateInv, n, r
  <2>8. DeleteInv(p)'
    BY <2>1, <2>6, Zenon DEF DeleteInv, r
  <2>9. SiblingsInv(p)'
    BY <2>5, <2>6, Zenon DEF SiblingsInv, n, r
  <2>10. IsTable(D)
    BY <2>5, Zenon DEF IsTable
  <2> QED
    BY <2>1, <2>7, <2>8, <2>9, <2>10, LoadKeeps, Zenon
<1> QED
  BY <1>1, <1>2

\* What Create and Delete have in hand while they hold the lock.
LEMMA InHand ==
    ASSUME IInv, NEW p \in Ops
    PROVE  /\ IsTable(kernel) /\ IsTable(artifact) /\ IsTable(doc[p])
           /\ registry \in Registries
           /\ torn \in BOOLEAN /\ lag \in BOOLEAN /\ undercut \in BOOLEAN
           /\ undercut => torn
           /\ pc[p] \in {"entry", "file"} => torn
           /\ CreateInv(p) /\ DeleteInv(p) /\ SiblingsInv(p)
           /\ p \in Procs /\ pc \in [Procs -> PCs]
           /\ req[p].name \in Names
BY DEF IInv, TypeOK, LockInv, OpsInv, Procs, Commands

\* Create replaces the table.
LEMMA CreateApplyKeeps ==
    ASSUME IInv, NEW p \in Ops, CreateApply(p)
    PROVE  IInv'
<1>1. /\ pc[p] = "apply" /\ req[p].verb = "create" /\ kernel' = doc[p] /\ torn' = TRUE
      /\ Goto(p, "entry")
      /\ UNCHANGED <<artifact, registry, lock, req, pod, doc, script, lag, undercut>>
  BY Zenon DEF CreateApply
<1>2. pc'[p] = "entry" /\ pc[p] \in Locked
  BY <1>1, InHand, Zenon DEF Goto, Locked
<1>3. StoresInv'
  BY <1>1 DEF StoresInv
<1>4. CreateInv(p)' /\ DeleteInv(p)'
  <2>1. CreateInv(p)
    BY InHand, Zenon
  <2> QED
    BY <1>1, <1>2, <2>1, Zenon DEF CreateInv, DeleteInv
<1>5. /\ IsTable(kernel)' /\ IsTable(artifact)' /\ registry' \in Registries
      /\ torn' \in BOOLEAN /\ lag' \in BOOLEAN /\ undercut' \in BOOLEAN
  BY <1>1, InHand, Zenon DEF IsTable
<1> QED
  BY <1>1, <1>2, <1>3, <1>4, <1>5, StoreWriteKeeps, Zenon

\* Create registers the configuration that it has applied.
LEMMA CreateEntryKeeps ==
    ASSUME IInv, NEW p \in Ops, CreateEntry(p)
    PROVE  IInv'
<1>1. /\ pc[p] = "entry" /\ req[p].verb = "create"
      /\ registry' = Upsert(registry, req[p].name, doc[p].pol[req[p].name].conf)
      /\ Goto(p, "file")
      /\ UNCHANGED <<kernel, artifact, lock, req, pod, doc, script, torn, lag, undercut>>
  BY Zenon DEF CreateEntry, history
<1>2. pc'[p] = "file" /\ pc[p] \in Locked /\ torn
  BY <1>1, InHand, Zenon DEF Goto, Locked
<1>3. CreateInv(p)
  BY InHand, Zenon
<1>4. doc[p] # NoDoc /\ ConfOf(doc[p]) = registry' /\ registry' \in Registries
  <2>1. doc[p] # NoDoc /\ ConfOf(doc[p]) = registry'
    BY <1>1, <1>3, Zenon DEF CreateInv
  <2>2. WellFormed(doc[p])
    BY <2>1, InHand, Zenon DEF IsTable
  <2>3. ConfOf(doc[p]) \in Registries
    BY <2>2, WellFormedShape, Zenon
  <2> QED
    BY <2>1, <2>3
<1>5. StoresInv'
  BY <1>1, <1>2, Zenon DEF StoresInv
<1>6. CreateInv(p)' /\ DeleteInv(p)'
  BY <1>1, <1>2, <1>3, <1>4, Zenon DEF CreateInv, DeleteInv
<1>7. /\ IsTable(kernel)' /\ IsTable(artifact)'
      /\ torn' \in BOOLEAN /\ lag' \in BOOLEAN /\ undercut' \in BOOLEAN
  BY <1>1, InHand, Zenon DEF IsTable
<1> QED
  BY <1>1, <1>2, <1>4, <1>5, <1>6, <1>7, StoreWriteKeeps, Zenon

\* Create writes the artifact: with this write the three stores agree.
LEMMA CreateFileKeeps ==
    ASSUME IInv, NEW p \in Ops, CreateFile(p)
    PROVE  IInv'
<1>1. /\ pc[p] = "file" /\ req[p].verb = "create"
      /\ artifact' = doc[p] /\ torn' = undercut /\ lag' = undercut
      /\ Goto(p, "service")
      /\ UNCHANGED <<kernel, registry, lock, req, pod, doc, script, undercut>>
  BY Zenon DEF CreateFile
<1>2. pc'[p] = "service" /\ pc[p] \in Locked
  BY <1>1, InHand, Zenon DEF Goto, Locked
<1>3. /\ doc[p] # NoDoc /\ ConfOf(doc[p]) = registry
      /\ ~undercut => kernel \in {doc[p], NoDoc}
  <2>1. CreateInv(p)
    BY InHand, Zenon
  <2> QED
    BY <1>1, <2>1, Zenon DEF CreateInv
<1>4. StoresInv'
  BY <1>1, <1>3, Zenon DEF StoresInv
<1>5. CreateInv(p)' /\ DeleteInv(p)'
  BY <1>2, Outside
<1>6. /\ IsTable(kernel)' /\ IsTable(artifact)' /\ registry' \in Registries
      /\ torn' \in BOOLEAN /\ lag' \in BOOLEAN /\ undercut' \in BOOLEAN
  BY <1>1, InHand, Zenon DEF IsTable
<1> QED
  BY <1>1, <1>2, <1>4, <1>5, <1>6, StoreWriteKeeps, Zenon

\* Create installs the oneshot unit and returns.
LEMMA CreateServiceKeeps ==
    ASSUME IInv, NEW p \in Ops, CreateService(p)
    PROVE  IInv'
<1>1. /\ pc[p] = "service" /\ Release(p)
      /\ UNCHANGED <<kernel, artifact, registry, req, torn, lag, undercut>>
  BY DEF CreateService, history
<1>2. /\ IsTable(artifact)' /\ registry' \in Registries /\ p \in Procs
      /\ torn' \in BOOLEAN /\ lag' \in BOOLEAN /\ (undercut => torn') /\ pc[p] \in Locked
  BY <1>1, InHand, Zenon DEF IsTable, Locked
<1>3. StoresInv'
  BY <1>1, Zenon DEF IInv, StoresInv
<1> QED
  BY <1>1, <1>2, <1>3, HolderReturns

\* Delete writes the artifact.
LEMMA DeleteFileKeeps ==
    ASSUME IInv, NEW p \in Ops, DeleteFile(p)
    PROVE  IInv'
<1>1. /\ pc[p] = "file" /\ req[p].verb = "delete"
      /\ artifact' = doc[p] /\ lag' = undercut
      /\ Goto(p, "entry")
      /\ UNCHANGED <<kernel, registry, lock, req, pod, doc, script, torn, undercut>>
  BY Zenon DEF DeleteFile
<1>2. pc'[p] = "entry" /\ pc[p] \in Locked /\ torn
  BY <1>1, InHand, Zenon DEF Goto, Locked
<1>3. StoresInv'
  BY <1>1, <1>2 DEF StoresInv
<1>4. CreateInv(p)' /\ DeleteInv(p)'
  <2>1. DeleteInv(p)
    BY InHand, Zenon
  <2> QED
    BY <1>1, <1>2, <2>1, Zenon DEF CreateInv, DeleteInv
<1>5. /\ IsTable(kernel)' /\ IsTable(artifact)' /\ registry' \in Registries
      /\ torn' \in BOOLEAN /\ lag' \in BOOLEAN /\ undercut' \in BOOLEAN
  BY <1>1, InHand, Zenon DEF IsTable
<1> QED
  BY <1>1, <1>2, <1>3, <1>4, <1>5, StoreWriteKeeps, Zenon

\* Delete removes the registry entry, its last write, and returns.
LEMMA DeleteEntryKeeps ==
    ASSUME IInv, NEW p \in Ops, DeleteEntry(p)
    PROVE  IInv'
<1>1. /\ pc[p] = "entry" /\ req[p].verb = "delete"
      /\ registry' = Without(registry, req[p].name) /\ torn' = undercut
      /\ Release(p)
      /\ UNCHANGED <<kernel, artifact, req, lag, undercut>>
  BY Zenon DEF DeleteEntry
<1>2. /\ doc[p] # NoDoc => ConfOf(doc[p]) = registry'
      /\ doc[p] = NoDoc => DOMAIN registry \subseteq {req[p].name}
      /\ ~undercut => /\ kernel \in {doc[p], NoDoc} /\ artifact \in {doc[p], NoDoc}
                      /\ ~lag => artifact = doc[p]
  <2>1. DeleteInv(p)
    BY InHand
  <2> QED
    BY <1>1, <2>1, Zenon DEF DeleteInv
<1>3. registry' \in Registries /\ DOMAIN registry' = DOMAIN registry \ {req[p].name}
  BY <1>1, InHand, RegistryEdits, Zenon
<1>4. StoresInv'
  BY <1>1, <1>2, <1>3, Zenon DEF StoresInv
<1>5. /\ IsTable(artifact)' /\ p \in Procs
      /\ torn' \in BOOLEAN /\ lag' \in BOOLEAN /\ (undercut => torn') /\ pc[p] \in Locked
  BY <1>1, InHand, Zenon DEF IsTable, Locked
<1> QED
  BY <1>1, <1>3, <1>4, <1>5, HolderReturns, Zenon

\* Delete renders the remaining policies under the lock.
LEMMA DeleteLoadKeeps ==
    ASSUME IInv, NEW p \in Ops, DeleteLoad(p)
    PROVE  IInv'
<1> DEFINE n    == req[p].name
           rest == Without(registry, n)
           c    == ExtractPodCIDRs(artifact)
           R    == Render(rest, SnapshotMembership(rest), c)
           D    == IF DOMAIN rest = {} THEN NoDoc ELSE R
<1>1. CASE Quit(p)
  BY <1>1, QuitKeeps, Zenon DEF DeleteLoad
<1>2. CASE ~Quit(p)
  <2>1. /\ pc[p] = "load" /\ req[p].verb = "delete" /\ lock = Free
        /\ Renders(rest, c)
        /\ doc' = [doc EXCEPT ![p] = D]
        /\ Proceed(p, "apply") /\ UNCHANGED <<pod, script>>
    BY <1>2, Zenon DEF DeleteLoad
  <2>2. IsTable(kernel) /\ registry \in Registries /\ c \in Pods \cup {NoPod}
    BY InHand, RecoveredTyped, Zenon
  <2>3. /\ rest \in Registries /\ DOMAIN rest = DOMAIN registry \ {n}
        /\ \A m \in DOMAIN registry \ {n} : rest[m] = registry[m]
    BY <2>2, RegistryEdits, Zenon
  <2>4. Renders(rest, c) /\ R = Render(rest, SnapshotMembership(rest), c)
    BY <2>1, Zenon
  <2> HIDE DEF n, rest, c, R
  <2>5. DOMAIN rest # {} =>
          /\ WellFormed(R) /\ R # NoDoc /\ ConfOf(R) = rest
          /\ R.pod = IF NeedsPod(rest) THEN c ELSE NoPod
          /\ \A m \in DOMAIN rest : \A f \in SetsOf[rest[m]] :
                ElementsIn(R, m, f) = ElementsIn(kernel, m, f)
    BY <2>2, <2>3, <2>4, SnapshotRenders
  <2>6. /\ pc'[p] = "apply" /\ doc'[p] = D /\ req' = req
        /\ UNCHANGED <<kernel, artifact, registry, torn>>
    BY <2>1, Zenon DEF Proceed, Goto, stores, IInv, TypeOK, Procs
  <2>7. DeleteInv(p)'
    <3>1. D # NoDoc => ConfOf(D) = rest
      BY <2>5, Zenon
    <3>2. D = NoDoc => DOMAIN registry \subseteq {n}
      BY <2>3, <2>5
    <3>3. ~torn /\ kernel # NoDoc /\ D # NoDoc => D.pod \in {NoPod, kernel.pod}
      <4>1. ~torn /\ kernel # NoDoc => c \in {NoPod, kernel.pod}
        BY Zenon DEF c, ExtractPodCIDRs, IInv, StoresInv
      <4> QED
        BY <2>5, <4>1
    <3> HIDE DEF D
    <3> QED
      BY <2>6, <3>1, <3>2, <3>3 DEF DeleteInv, n, rest
  <2>8. CreateInv(p)'
    BY <2>1, <2>6, Zenon DEF CreateInv
  <2>9. SiblingsInv(p)'
    <3>1. ASSUME NEW m \in DOMAIN registry \ {n}, NEW f \in SetsOf[registry[m]]
          PROVE  ElementsIn(D, m, f) = ElementsIn(kernel, m, f)
      <4>1. m \in DOMAIN rest /\ rest[m] = registry[m] /\ D = R
        BY <2>3
      <4> QED
        BY <2>5, <4>1
    <3> HIDE DEF D
    <3> QED
      BY <2>6, <3>1, Zenon DEF SiblingsInv, n
  <2>10. IsTable(D)
    BY <2>5, Zenon DEF IsTable
  <2> HIDE DEF D
  <2> QED
    BY <2>1, <2>7, <2>8, <2>9, <2>10, LoadKeeps, Zenon
<1> QED
  BY <1>1, <1>2

\* Delete replaces or removes the table.
LEMMA DeleteApplyKeeps ==
    ASSUME IInv, NEW p \in Ops, DeleteApply(p)
    PROVE  IInv'
<1>1. /\ pc[p] = "apply" /\ req[p].verb = "delete" /\ torn' = TRUE
      /\ Goto(p, "file")
      /\ UNCHANGED <<artifact, registry, lock, req, pod, doc, script, lag>>
  BY Zenon DEF DeleteApply
<1>2. /\ IsTable(kernel)' /\ undercut' \in BOOLEAN
      /\ ~undercut' => kernel' \in {doc[p], NoDoc}
  <2>1. CASE doc[p] # NoDoc
    BY <2>1, InHand, Zenon DEF DeleteApply, IsTable
  <2>2. CASE doc[p] = NoDoc
    <3>1. /\ kernel' \in {NoDoc, kernel}
          /\ undercut' = (undercut \/ kernel' # NoDoc)
      BY <2>2, Zenon DEF DeleteApply
    <3> QED
      BY <3>1, InHand, Zenon DEF IsTable
  <2> QED
    BY <2>1, <2>2
<1>3. pc'[p] = "file" /\ pc[p] \in Locked
  BY <1>1, InHand, Zenon DEF Goto, Locked
<1>4. StoresInv'
  BY <1>1 DEF StoresInv
<1>5. CreateInv(p)' /\ DeleteInv(p)'
  <2>1. DeleteInv(p)
    BY InHand
  <2> QED
    BY <1>1, <1>2, <1>3, <2>1, Zenon DEF CreateInv, DeleteInv
<1>6. IsTable(artifact)' /\ registry' \in Registries /\ torn' \in BOOLEAN /\ lag' \in BOOLEAN
  BY <1>1, InHand, Zenon DEF IsTable
<1> QED
  BY <1>1, <1>2, <1>3, <1>4, <1>5, <1>6, StoreWriteKeeps

-----------------------------------------------------------------------------
\* A host without policies, or one that is already provisioned.
LEMMA InitHolds == Init => IInv
<1> SUFFICES ASSUME Init PROVE IInv
  OBVIOUS
<1>1. IsTable(kernel) /\ artifact = kernel /\ registry = ConfOf(kernel)
  BY PolicyAssumption DEF Init, IsTable
<1>2. registry \in Registries
  <2>1. CASE kernel = NoDoc
    <3>1. registry = <<>>
      BY <1>1, <2>1 DEF ConfOf
    <3>2. <<>> \in [{} -> Confs]
      OBVIOUS
    <3> QED
      BY <3>1, <3>2 DEF Registries
  <2>2. CASE kernel # NoDoc
    BY <1>1, <2>2, WellFormedShape, Zenon DEF IsTable
  <2> QED
    BY <2>1, <2>2
<1>3. TypeOK
  <2>1. (CHOOSE r \in Requests : TRUE) \in Commands
    BY PolicyAssumption
  <2>2. req \in [Ops -> Commands]
    BY <2>1, Zenon DEF Init
  <2>3. doc \in [Procs -> {NoDoc} \cup Documents] /\ \A p \in Procs : IsTable(doc[p])
    BY DEF Init, IsTable
  <2>4. script \in [Procs -> Seq(Writes)]
    BY DEF Init
  <2> QED
    BY <1>1, <1>2, <2>2, <2>3, <2>4, Zenon DEF Init, TypeOK, PCs
<1>4. LockInv /\ OpsInv
  BY Zenon DEF Init, LockInv, Locked, OpsInv, CreateInv, DeleteInv, SiblingsInv, Procs
<1>5. StoresInv
  <2>1. kernel = NoDoc => DOMAIN registry = {}
    BY <1>1 DEF ConfOf
  <2> QED
    BY <1>1, <2>1 DEF StoresInv
<1> QED
  BY <1>3, <1>4, <1>5 DEF IInv

\* Every step of PolicyManager keeps the invariant.
LEMMA NextKeeps == IInv /\ [Next]_vars => IInv'
<1> SUFFICES ASSUME IInv, [Next]_vars PROVE IInv'
  OBVIOUS
<1>1. ASSUME NEW p \in Ops, OpStep(p) PROVE IInv'
  BY <1>1, CreateLoadKeeps, CreateApplyKeeps, CreateEntryKeeps, CreateFileKeeps,
     CreateServiceKeeps, DeleteLoadKeeps, DeleteApplyKeeps, DeleteFileKeeps,
     DeleteEntryKeeps, ElementLoadKeeps, InstallRenderKeeps, InstallRestartKeeps
     DEF OpStep
<1>2. ASSUME NEW p \in Ops, NEW r \in Requests, Start(p, r) PROVE IInv'
  BY <1>2, StartKeeps
<1>3. ASSUME NEW p \in Procs, SetStep(p) PROVE IInv'
  BY <1>3, WriteSetKeeps, WriteRefusedKeeps, PersistKeeps DEF SetStep
<1>4. ASSUME NEW p \in Procs, Fail(p) PROVE IInv'
  BY <1>4, FailKeeps
<1>5. ASSUME NEW s \in Ticks, Tick(s) PROVE IInv'
  BY <1>5, TickKeeps
<1>6. CASE DropTable \/ DropArtifact \/ Reboot
  BY <1>6, DropKeeps, RebootKeeps
<1>7. CASE UNCHANGED vars
  <2> USE <1>7 DEF vars, stores, history, IInv
  <2>1. TypeOK'
    BY DEF TypeOK, IsTable
  <2>2. LockInv' /\ StoresInv'
    BY DEF LockInv, StoresInv
  <2>3. OpsInv'
    BY Bystander, Zenon DEF OpsInv
  <2> QED
    BY <2>1, <2>2, <2>3, Zenon
<1> QED
  BY <1>1, <1>2, <1>3, <1>4, <1>5, <1>6, <1>7 DEF Next

\* The steps that write the live table.
LEMMA TableWriters ==
    ASSUME [Next]_vars
    PROVE  \/ kernel' = kernel \/ Replay
           \/ \E p \in Ops : CreateApply(p) \/ DeleteApply(p)
           \/ \E p \in Procs : WriteSet(p)
<1>1. ASSUME NEW p \in Ops, OpStep(p)
      PROVE  kernel' = kernel \/ Replay \/ CreateApply(p) \/ DeleteApply(p)
  BY <1>1, Zenon DEF OpStep, Replay, CreateLoad, CreateEntry, CreateFile, CreateService, DeleteLoad,
     DeleteFile, DeleteEntry, ElementLoad, InstallRender, Quit, Proceed, stores
<1>2. ASSUME NEW p \in Procs, SetStep(p)
      PROVE  kernel' = kernel \/ WriteSet(p)
  BY <1>2, Zenon DEF SetStep, WriteRefused, PersistMembership, stores
<1>3. ASSUME NEW p \in Ops, NEW r \in Requests, Start(p, r)
      PROVE  kernel' = kernel
  BY <1>3 DEF Start, stores
<1>4. ASSUME NEW p \in Procs, Fail(p)
      PROVE  kernel' = kernel
  BY <1>4 DEF Fail, stores
<1>5. ASSUME NEW s \in Ticks, Tick(s)
      PROVE  kernel' = kernel
  BY <1>5 DEF Tick, Proceed, stores
<1>6. CASE DropTable \/ DropArtifact \/ Reboot
  BY <1>6 DEF DropArtifact, Replay
<1>7. CASE UNCHANGED vars
  BY <1>7 DEF vars, stores
<1> QED
  BY <1>1, <1>2, <1>3, <1>4, <1>5, <1>6, <1>7 DEF Next

\* A step that changes a policy's members is a step of that policy's command.
LEMMA SiblingStepHolds == IInv /\ [Next]_vars => [SiblingStep]_vars
<1> SUFFICES ASSUME IInv, [Next]_vars, NEW n \in DOMAIN registry,
                    kernel # NoDoc, ~undercut, Membership(kernel', n) # Membership(kernel, n),
                    ~Replay
             PROVE  lock # Free /\ Target(lock) = n
  BY DEF SiblingStep
<1>1. kernel' # kernel
  BY Zenon
<1>2. ASSUME NEW d, \A f \in SetsOf[registry[n]] : ElementsIn(d, n, f) = ElementsIn(kernel, n, f)
      PROVE  Membership(d, n) = Membership(kernel, n)
  BY <1>2 DEF Membership
<1>3. ASSUME NEW p \in Ops, CreateApply(p) \/ DeleteApply(p)
      PROVE  lock # Free /\ Target(lock) = n
  <2>1. /\ lock = p /\ p # Free /\ pc[p] = "apply" /\ Target(lock) = req[p].name
    <3>1. pc[p] = "apply"
      BY <1>3 DEF CreateApply, DeleteApply
    <3>2. lock = p /\ p # Free
      BY <3>1, PolicyAssumption, Zenon DEF IInv, LockInv, Locked, Procs
    <3> QED
      BY <3>1, <3>2, Zenon DEF Target
  <2>2. CASE kernel' = doc[p]
    <3>1. SiblingsInv(p)
      BY InHand, Zenon
    <3> QED
      BY <1>2, <2>1, <2>2, <3>1, Zenon DEF SiblingsInv
  <2>3. CASE kernel' # doc[p]
    <3>1. DeleteApply(p) /\ doc[p] = NoDoc
      BY <1>3, <2>3, Zenon DEF CreateApply, DeleteApply
    <3>2. DeleteInv(p) /\ req[p].verb = "delete"
      BY <3>1, InHand, Zenon DEF DeleteApply
    <3>3. DOMAIN registry \subseteq {req[p].name}
      BY <2>1, <3>1, <3>2, Zenon DEF DeleteInv
    <3> QED
      BY <2>1, <3>3
  <2> QED
    BY <2>2, <2>3
<1>4. ASSUME NEW p \in Procs, WriteSet(p)
      PROVE  lock # Free /\ Target(lock) = n
  <2> DEFINE w == Head(script[p])
  <2>1. /\ pc[p] = "write" /\ script[p] # <<>> /\ HasSet(kernel, w.name, w.fam)
        /\ kernel' = [kernel EXCEPT !.pol[w.name].mem[w.fam] = Written(w)]
    BY <1>4, Zenon DEF WriteSet, Writable
  <2>2. lock = p /\ p # Free
    BY <2>1, PolicyAssumption, Zenon DEF IInv, LockInv, Locked
  <2>3. Target(lock) = w.name
    BY <2>1, <2>2, Zenon DEF Target
  <2>4. w \in Writes /\ WellFormed(kernel)
    BY <2>1 DEF IInv, TypeOK, IsTable
  <2> HIDE DEF w
  <2>5. \A f : n # w.name => ElementsIn(kernel', n, f) = ElementsIn(kernel, n, f)
    BY <2>1, <2>4, WriteKeepsTable
  <2> QED
    BY <1>2, <2>2, <2>3, <2>5, Zenon
<1> QED
  BY <1>1, <1>3, <1>4, TableWriters

\* Only a create brings another pod CIDR into the live rules.
LEMMA PodStepHolds == IInv /\ [Next]_vars => [PodStep]_vars
<1> SUFFICES ASSUME IInv, [Next]_vars, kernel # NoDoc, kernel' # NoDoc, kernel.pod # NoPod,
                    kernel'.pod \notin {NoPod, kernel.pod}, ~Replay, ~torn, ~undercut
             PROVE  /\ lock \in Ops /\ req[lock].verb = "create"
                    /\ req[lock].pod # NoPod \/ pod[lock] # ExtractPodCIDRs(artifact)
  BY DEF PodStep
<1>1. kernel' # kernel
  OBVIOUS
<1>2. ASSUME NEW p \in Ops, CreateApply(p)
      PROVE  /\ lock \in Ops /\ req[lock].verb = "create"
             /\ req[lock].pod # NoPod \/ pod[lock] # ExtractPodCIDRs(artifact)
  <2>1. pc[p] = "apply" /\ req[p].verb = "create" /\ kernel' = doc[p]
    BY <1>2 DEF CreateApply
  <2>2. lock = p
    BY <2>1, Zenon DEF IInv, LockInv, Locked, Procs
  <2>3. kernel'.pod = pod[p] /\ pod[p] # NoPod
    <3>1. CreateInv(p)
      BY InHand, Zenon
    <3> QED
      BY <2>1, <3>1 DEF CreateInv
  <2>4. artifact # NoDoc => artifact.pod = kernel.pod
    BY Zenon DEF IInv, StoresInv
  <2> QED
    BY <2>1, <2>2, <2>3, <2>4, Zenon DEF ExtractPodCIDRs
<1>3. ASSUME NEW p \in Ops, DeleteApply(p)
      PROVE  FALSE
  <2>1. /\ pc[p] = "apply" /\ req[p].verb = "delete"
        /\ kernel' = doc[p] \/ kernel' \in {NoDoc, kernel}
    BY <1>3, Zenon DEF DeleteApply
  <2>2. DeleteInv(p)
    BY InHand
  <2> QED
    BY <1>1, <2>1, <2>2 DEF DeleteInv
<1>4. ASSUME NEW p \in Procs, WriteSet(p)
      PROVE  FALSE
  <2> DEFINE w == Head(script[p])
  <2>1. /\ script[p] # <<>> /\ HasSet(kernel, w.name, w.fam)
        /\ kernel' = [kernel EXCEPT !.pol[w.name].mem[w.fam] = Written(w)]
    BY <1>4, Zenon DEF WriteSet, Writable
  <2>2. w \in Writes /\ WellFormed(kernel)
    BY <2>1 DEF IInv, TypeOK, IsTable
  <2> HIDE DEF w
  <2>3. kernel'.pod = kernel.pod
    BY <2>1, <2>2, WriteKeepsTable
  <2> QED
    BY <2>3
<1> QED
  BY <1>1, <1>2, <1>3, <1>4, TableWriters

-----------------------------------------------------------------------------
\* The invariant holds in every reachable state.
THEOREM InvariantHolds == Spec => []IInv
BY InitHolds, NextKeeps, PTL DEF Spec

\* For every host: whenever no create or delete is left half-written and every
\* set write is persisted, the artifact replayed at boot is the live table.
THEOREM BootRestoresLiveHolds == Spec => []BootRestoresLive
<1>1. IInv => BootRestoresLive
  <2>1. IInv /\ DOMAIN registry = {} => registry = <<>>
    BY RegistryEdits DEF IInv, TypeOK
  <2> QED
    BY <2>1, Zenon DEF IInv, StoresInv, BootRestoresLive, ConfOf
<1> QED
  BY <1>1, InvariantHolds, PTL

\* For every host: the live table renders the registry.
THEOREM TableRendersRegistryHolds == Spec => []TableRendersRegistry
<1>1. IInv => TableRendersRegistry
  BY DEF IInv, StoresInv, TableRendersRegistry
<1> QED
  BY <1>1, InvariantHolds, PTL

\* For every host: Create and Delete keep the members of every sibling policy.
THEOREM SiblingsKeptHolds == Spec => SiblingsKept
BY InvariantHolds, SiblingStepHolds, PTL DEF Spec, SiblingsKept

\* For every host: the pod CIDR of the live rules changes only as a create asks.
THEOREM PodKeptHolds == Spec => PodKept
BY InvariantHolds, PodStepHolds, PTL DEF Spec, PodKept
=============================================================================
