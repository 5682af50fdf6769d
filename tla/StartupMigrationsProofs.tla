----------------------- MODULE StartupMigrationsProofs -----------------------
(***************************************************************************)
(* For any sets of releases and origins and any number of kills, failed    *)
(* steps and outages: a recorded version means that the migrations up to   *)
(* it have taken effect, and the Cilium agents are restarted at most once  *)
(* while every pass succeeds.                                              *)
(***************************************************************************)
EXTENDS StartupMigrations, TLAPS

Migrating == {"migrate", "unified-remove", "crio-reload", "crio-link"}
Gated == {"acceleration", "restart", "routing", "crio"}

TypeInv ==
    /\ ver \in -1..4 /\ onDisk \in -1..4 /\ bin \in 0..4
    /\ pc \in Migrating \cup {"idle", "rollback", "persist", "command"}
    /\ kube \in BOOLEAN /\ clean \in BOOLEAN /\ staleRecord \in BOOLEAN
    /\ restarts \in 0..RestartCap
    /\ todo \subseteq DOMAIN Registered

\* What a version-gated migration is for.
Effect(m) ==
    /\ m = "acceleration" => "acceleration-disabled" \in config
    /\ m = "restart" => "acceleration-disabled" \in agents
    /\ m = "routing" => "host-legacy-routing" \in config
    /\ m = "crio" => "dropin" \in crio

Crossed(m) == CrossesBoundary(m, ResolveInstalledCLIVersion(onDisk), bin)

\* The record can be relied on: the host is provisioned and the record did not
\* run ahead of it.
Sound == kube /\ ~staleRecord

\* Between two invocations the record means what it says.  In a pass the version
\* the pass started from does, and the file has that version or the running one;
\* what the pass has crossed and no longer has to run has taken effect; after
\* the migrations all those up to the running version have.
PassInv ==
    /\ pc = "idle" /\ Sound => MigratedTo(ver)
    /\ pc # "idle" => bin \in 1..4 /\ ver \in {onDisk, bin} /\ (Sound => MigratedTo(onDisk))
    /\ pc \in Migrating => \A m \in Gated :
         /\ m \in todo => Crossed(m)
         /\ Crossed(m) /\ m \notin todo /\ Sound => Effect(m)
    /\ pc \in {"crio-reload", "crio-link"} => "dropin" \in crio
    /\ pc \in {"persist", "command"} /\ Sound => MigratedTo(bin)

\* After a restart the restarting release or a later one is recorded, or will
\* be at the end of the pass, as long as every pass succeeds: the restart does
\* not apply again.
RestartInv ==
    clean /\ restarts > 0 =>
        /\ restarts = 1 /\ kube
        /\ pc \in {"idle", "command"} => ver >= 2
        /\ pc # "idle" => bin >= 2 /\ "restart" \notin todo

IndInv == TypeInv /\ PassInv /\ RestartInv

-----------------------------------------------------------------------------
\* A step takes nothing back that a migration is for.
Grows ==
    /\ config \subseteq config' /\ crio \subseteq crio'
    /\ "acceleration-disabled" \in agents => "acceleration-disabled" \in agents'

\* The boundaries, spelled out.
LEMMA Boundaries ==
    /\ DOMAIN MinVersion = Gated /\ Gated \subseteq DOMAIN Registered
    /\ MinVersion["acceleration"] = 1 /\ MinVersion["restart"] = 2
    /\ MinVersion["routing"] = 3 /\ MinVersion["crio"] = 4
    /\ Registered["acceleration"] = 4 /\ Registered["restart"] = 5
  BY DEF MinVersion, Gated, Registered

\* What took effect stays in effect.
LEMMA EffectStays ==
    ASSUME Grows
    PROVE  /\ \A v : MigratedTo(v) => MigratedTo(v)'
           /\ \A m : Effect(m) => Effect(m)'
  BY DEF Grows, MigratedTo, Effect

\* The effects up to the version found, and those of the boundaries crossed, are
\* the effects up to the running version.
LEMMA CrossedAll ==
    ASSUME onDisk' \in -1..4, bin' \in 1..4, MigratedTo(onDisk)',
           \A m \in Gated : Crossed(m)' => Effect(m)'
    PROVE  MigratedTo(bin)'
<1>1. \A m \in Gated : onDisk' < MinVersion[m] /\ bin' >= MinVersion[m] => Effect(m)'
  <2>1. ASSUME NEW m \in Gated, onDisk' < MinVersion[m], bin' >= MinVersion[m] PROVE Crossed(m)'
    <3>1. MinVersion[m] \in 1..4
      BY Boundaries DEF Gated
    <3> QED BY <2>1, <3>1, Boundaries DEF Crossed, CrossesBoundary, ResolveInstalledCLIVersion, NoFile
  <2> QED BY <2>1
<1>2. bin' >= 1 => "acceleration-disabled" \in config'
  BY <1>1, Boundaries DEF MigratedTo, Effect, Gated
<1>3. bin' >= 2 => "acceleration-disabled" \in agents'
  BY <1>1, Boundaries DEF MigratedTo, Effect, Gated
<1>4. bin' >= 3 => "host-legacy-routing" \in config'
  BY <1>1, Boundaries DEF MigratedTo, Effect, Gated
<1>5. bin' >= 4 => "dropin" \in crio'
  BY <1>1, Boundaries DEF MigratedTo, Effect, Gated
<1> QED BY <1>2, <1>3, <1>4, <1>5 DEF MigratedTo

\* A migration changes the host and the restarts in these ways only.
Touches(m) ==
    /\ Grows /\ kube' = kube /\ clean' = clean /\ ver' = ver
    /\ staleRecord' \in BOOLEAN /\ (staleRecord => staleRecord')
    /\ \/ restarts' = restarts
       \/ /\ m = "restart" /\ m \in todo /\ kube
          /\ restarts' = IF restarts < RestartCap THEN restarts + 1 ELSE restarts

\* The restart happens at most once while the passes succeed: it is still to
\* run only if it has not happened.
LEMMA RestartCounts ==
    ASSUME IndInv, NEW m, pc \in Migrating, Touches(m), clean, restarts' > 0
    PROVE  /\ restarts' = 1 /\ kube' /\ bin >= 2
           /\ m = "restart" \/ "restart" \notin todo
<1>1. TypeInv /\ PassInv /\ RestartInv
  BY DEF IndInv
<1>2. pc # "idle" /\ pc \notin {"idle", "command"}
  BY DEF Migrating
<1>3. CASE restarts' = restarts
  BY <1>1, <1>2, <1>3 DEF RestartInv, Touches
<1>4. CASE /\ m = "restart" /\ m \in todo /\ kube
           /\ restarts' = IF restarts < RestartCap THEN restarts + 1 ELSE restarts
  <2>1. restarts = 0
    BY <1>1, <1>2, <1>4 DEF RestartInv, TypeInv, RestartCap
  <2>2. Crossed("restart")
    BY <1>1, <1>4 DEF PassInv, Gated
  <2>3. bin >= 2
    BY <1>1, <2>2, Boundaries DEF Crossed, CrossesBoundary
  <2> QED BY <1>4, <2>1, <2>3 DEF Touches, RestartCap
<1> QED BY <1>3, <1>4 DEF Touches

\* A migration that ends leaves its effect, unless the record is not relied on.
LEMMA EndsKeep ==
    ASSUME IndInv, NEW m \in DOMAIN Registered, pc \in Migrating, StepEnds(m), Touches(m),
           m \in Gated /\ Crossed(m) /\ Sound' => Effect(m)'
    PROVE  IndInv'
<1>1. TypeInv /\ PassInv /\ RestartInv
  BY DEF IndInv
<1>2. /\ todo' = todo \ {m} /\ bin' = bin /\ onDisk' = onDisk
      /\ pc' = IF todo' = {} THEN "persist" ELSE "migrate"
  BY DEF StepEnds, AfterMigrations
<1>3. Sound' => Sound
  BY <1>1 DEF Sound, Touches, TypeInv
<1>4. pc # "idle"
  BY DEF Migrating
<1>5. TypeInv'
  BY <1>1, <1>2 DEF TypeInv, Touches, Migrating, RestartCap
<1>6. bin' \in 1..4 /\ ver' \in {onDisk', bin'} /\ (Sound' => MigratedTo(onDisk)')
  <2>1. MigratedTo(onDisk) => MigratedTo(onDisk)'
    BY <1>2, EffectStays DEF Touches, MigratedTo, Grows
  <2> QED BY <1>1, <1>2, <1>3, <1>4, <2>1 DEF PassInv, Touches
<1>7. \A n : Crossed(n)' = Crossed(n)
  BY <1>2 DEF Crossed, CrossesBoundary, ResolveInstalledCLIVersion
<1>8. ASSUME NEW n \in Gated
      PROVE  /\ n \in todo' => Crossed(n)'
             /\ Crossed(n)' /\ n \notin todo' /\ Sound' => Effect(n)'
  <2>1. Effect(n) => Effect(n)'
    BY EffectStays DEF Touches
  <2>2. /\ n \in todo => Crossed(n)
        /\ Crossed(n) /\ n \notin todo /\ Sound => Effect(n)
    BY <1>1 DEF PassInv
  <2> QED BY <1>2, <1>3, <1>7, <2>1, <2>2
<1>9. todo' = {} /\ Sound' => MigratedTo(bin)'
  BY <1>1, <1>2, <1>6, <1>8, CrossedAll DEF TypeInv
<1>10. PassInv'
  BY <1>2, <1>6, <1>8, <1>9 DEF PassInv
<1>11. RestartInv'
  BY <1>2, RestartCounts DEF RestartInv, Touches
<1> QED BY <1>5, <1>10, <1>11 DEF IndInv

\* A migration that fails ends the pass.
LEMMA ErrsKeep ==
    ASSUME IndInv, NEW m, pc \in Migrating, StepErrs, Touches(m)
    PROVE  IndInv'
<1>1. TypeInv /\ PassInv /\ RestartInv
  BY DEF IndInv
<1>2. pc' = "rollback" /\ todo' = {} /\ bin' = bin /\ onDisk' = onDisk /\ pc # "idle"
  BY DEF StepErrs, Migrating
<1>3. TypeInv'
  BY <1>1, <1>2 DEF TypeInv, Touches, RestartCap
<1>4. MigratedTo(onDisk) => MigratedTo(onDisk)'
  BY <1>2, EffectStays DEF Touches, MigratedTo, Grows
<1>5. PassInv'
  BY <1>1, <1>2, <1>4 DEF PassInv, Sound, Touches, TypeInv, Migrating
<1>6. RestartInv'
  BY <1>2, RestartCounts DEF RestartInv, Touches
<1> QED BY <1>3, <1>5, <1>6 DEF IndInv

\* A migration goes on to its next part.
LEMMA AtKeeps ==
    ASSUME IndInv, NEW l \in Migrating, pc \in Migrating, StepAt(l), Grows, ver' \in {ver, bin},
           UNCHANGED <<kube, clean, staleRecord, restarts>>,
           l \in {"crio-reload", "crio-link"} => "dropin" \in crio'
    PROVE  IndInv'
<1>1. TypeInv /\ PassInv /\ RestartInv
  BY DEF IndInv
<1>2. pc' = l /\ todo' = todo /\ bin' = bin /\ onDisk' = onDisk
      /\ pc # "idle" /\ l \notin {"idle", "persist", "command"}
  BY DEF StepAt, Migrating
<1>3. TypeInv'
  BY <1>1, <1>2 DEF TypeInv
<1>4. MigratedTo(onDisk) => MigratedTo(onDisk)'
  BY <1>2, EffectStays DEF MigratedTo, Grows
<1>5. \A n : Crossed(n)' = Crossed(n) /\ (Effect(n) => Effect(n)')
  BY <1>2, EffectStays DEF Crossed, CrossesBoundary, ResolveInstalledCLIVersion
<1>6. PassInv'
  BY <1>1, <1>2, <1>4, <1>5 DEF PassInv, Sound
<1>7. RestartInv'
  BY <1>1, <1>2 DEF RestartInv
<1> QED BY <1>3, <1>6, <1>7 DEF IndInv

-----------------------------------------------------------------------------
\* An invocation of version v: what it has not crossed it need not run, and a
\* later release than the restarting one does not restart again.
LEMMA InvokeKeeps ==
    ASSUME IndInv, NEW v \in Binaries, Invoke(v)
    PROVE  IndInv'
<1>1. TypeInv /\ PassInv /\ RestartInv
  BY DEF IndInv
<1>2. /\ pc = "idle" /\ bin' = v /\ onDisk' = ver /\ v \in 1..4
      /\ todo' = {m \in DOMAIN Registered : Applies(m, v)}
      /\ pc' = IF todo' = {} THEN "persist" ELSE "migrate"
      /\ clean' = (clean /\ v >= ver)
      /\ UNCHANGED <<ver, kube, config, agents, crio, restarts, staleRecord>>
  BY ConstantsAssumption DEF Invoke, AfterMigrations, hostVars
<1>3. TypeInv'
  BY <1>1, <1>2 DEF TypeInv, Migrating
<1>4. Sound' => MigratedTo(onDisk)'
  BY <1>1, <1>2 DEF PassInv, Sound, MigratedTo
<1>5. \A m \in Gated : Crossed(m)' <=> m \in todo'
  <2>1. ASSUME NEW m \in Gated
        PROVE  Applies(m, v) <=> CrossesBoundary(m, ResolveInstalledCLIVersion(ver), v)
    BY DEF Applies, Gated
  <2> QED BY <1>2, <2>1, Boundaries DEF Crossed, CrossesBoundary, ResolveInstalledCLIVersion
<1>6. todo' = {} /\ Sound' => MigratedTo(bin)'
  BY <1>1, <1>2, <1>4, <1>5, CrossedAll DEF TypeInv
<1>7. PassInv'
  BY <1>2, <1>4, <1>5, <1>6 DEF PassInv
<1>8. RestartInv'
  <2> SUFFICES ASSUME clean', restarts' > 0
               PROVE  restarts' = 1 /\ kube' /\ v >= 2 /\ "restart" \notin todo'
    BY <1>2 DEF RestartInv
  <2>1. restarts = 1 /\ kube /\ ver >= 2 /\ v >= ver
    BY <1>1, <1>2, Zenon DEF RestartInv, TypeInv
  <2>2. ~Crossed("restart")'
    BY <1>1, <1>2, <2>1, Boundaries DEF Crossed, CrossesBoundary, ResolveInstalledCLIVersion, NoFile, TypeInv
  <2> QED BY <1>1, <1>2, <1>5, <2>1, <2>2 DEF TypeInv, Gated
<1> QED BY <1>3, <1>7, <1>8 DEF IndInv

\* The migrations that are not gated by a version leave the record alone, but
\* for the unified-state migration, which writes the running version.
LEMMA UngatedKeep ==
    ASSUME IndInv, UnifiedFlush \/ UnifiedRemove \/ SchemaExecute \/ BinaryExecute
    PROVE  IndInv'
<1>1. "unified" \in DOMAIN Registered \ Gated /\ "schema" \in DOMAIN Registered \ Gated
      /\ "binary" \in DOMAIN Registered \ Gated
  BY DEF Registered, Gated
<1>2. CASE UnifiedFlush
  <2>1. CASE ver # NoFile
    <3>1. StepErrs /\ Touches("unified") /\ pc \in Migrating
      BY <1>2, <2>1 DEF IndInv, TypeInv, UnifiedFlush, Touches, Grows, hostVars, ghosts, At, Migrating
    <3> QED BY <3>1, ErrsKeep
  <2>2. CASE ver = NoFile
    <3>1. /\ StepAt("unified-remove") /\ Grows /\ ver' \in {ver, bin} /\ pc \in Migrating
          /\ UNCHANGED <<kube, clean, staleRecord, restarts>>
      BY <1>2, <2>2 DEF UnifiedFlush, Grows, hostVars, ghosts, At, Migrating
    <3> QED BY <3>1, AtKeeps DEF Migrating
  <2> QED BY <2>1, <2>2
<1>3. CASE UnifiedRemove
  <2>1. StepEnds("unified") /\ Touches("unified") /\ pc \in Migrating
    BY <1>3 DEF IndInv, TypeInv, UnifiedRemove, StepDone, Touches, Grows, hostVars, ghosts, Migrating
  <2> QED BY <1>1, <2>1, EndsKeep
<1>4. CASE SchemaExecute
  <2>1. StepEnds("schema") /\ Touches("schema") /\ pc \in Migrating
    BY <1>4 DEF IndInv, TypeInv, SchemaExecute, StepDone, Touches, Grows, hostVars, ghosts, At, Migrating
  <2> QED BY <1>1, <2>1, EndsKeep
<1>5. CASE BinaryExecute
  <2>1. /\ StepEnds("binary") \/ StepErrs
        /\ Touches("binary") /\ pc \in Migrating
    BY <1>5 DEF IndInv, TypeInv, BinaryExecute, StepDone, StepFails, Touches, Grows, ghosts, At, Migrating
  <2> QED BY <1>1, <2>1, EndsKeep, ErrsKeep
<1> QED BY <1>2, <1>3, <1>4, <1>5

\* At a gated migration the running version has crossed its boundary.
LEMMA AtCrossed ==
    ASSUME IndInv, NEW m \in Gated, At(m)
    PROVE  pc \in Migrating /\ m \in todo /\ m \in DOMAIN Registered /\ Crossed(m) /\ bin >= MinVersion[m]
  BY Boundaries DEF IndInv, PassInv, At, Migrating, Crossed, CrossesBoundary

\* The template of the running version has what the migration is for, and an
\* outage of the API is noted.
LEMMA AccelerationKeeps ==
    ASSUME IndInv, AccelerationExecute
    PROVE  IndInv'
<1>1. /\ pc \in Migrating /\ "acceleration" \in DOMAIN Registered /\ bin >= 1
  BY AtCrossed, Boundaries DEF AccelerationExecute, Gated
<1>2. /\ Touches("acceleration")
      /\ StepEnds("acceleration") \/ StepErrs
  BY DEF IndInv, TypeInv, AccelerationExecute, CiliumUpgrade, StepDone, StepFails, SkippedInOutage, Touches, Grows
<1>3. ~StepErrs /\ Sound' => "acceleration-disabled" \in config'
  BY <1>1, Zenon DEF AccelerationExecute, CiliumUpgrade, StepFails, SkippedInOutage, Sound, Template, IndInv, TypeInv
<1>4. ~StepErrs /\ Sound' => Effect("acceleration")'
  BY <1>3 DEF Effect
<1> QED BY <1>1, <1>2, <1>4, EndsKeep, ErrsKeep

\* By the time the restart runs the setting is in the ConfigMap, as it was
\* registered after the migration that puts it there: the agents read it.
LEMMA RestartKeeps ==
    ASSUME IndInv, RestartExecute
    PROVE  IndInv'
<1>1. /\ pc \in Migrating /\ "restart" \in DOMAIN Registered /\ "restart" \in todo /\ bin >= 2
  BY AtCrossed, Boundaries DEF RestartExecute, Gated
<1>2. TypeInv /\ PassInv
  BY DEF IndInv
<1>3. "acceleration" \notin todo
  BY <1>1, Boundaries DEF RestartExecute, At
<1>4. Sound => "acceleration-disabled" \in config
  <2>1. CASE Crossed("acceleration")
    BY <1>1, <1>2, <1>3, <2>1 DEF PassInv, Effect, Gated
  <2>2. CASE ~Crossed("acceleration")
    <3>1. onDisk >= 1
      BY <1>1, <1>2, <2>2, Boundaries DEF Crossed, CrossesBoundary, ResolveInstalledCLIVersion, NoFile, TypeInv, Gated
    <3> QED BY <1>1, <1>2, <3>1 DEF PassInv, MigratedTo, Migrating
  <2> QED BY <2>1, <2>2
<1>5. Touches("restart")
  BY <1>1, <1>2 DEF TypeInv, RestartExecute, SkippedInOutage, Touches, Grows
<1>6. StepEnds("restart") \/ StepErrs
  BY DEF RestartExecute, StepDone, StepFails
<1>7. Sound' => "acceleration-disabled" \in agents'
  BY <1>2, <1>4, Zenon DEF RestartExecute, SkippedInOutage, Sound, TypeInv
<1>8. Sound' => Effect("restart")'
  BY <1>7 DEF Effect
<1> QED BY <1>1, <1>5, <1>6, <1>8, EndsKeep, ErrsKeep

\* The routing migration, in the same way.
LEMMA RoutingKeeps ==
    ASSUME IndInv, RoutingExecute
    PROVE  IndInv'
<1>1. /\ pc \in Migrating /\ "routing" \in DOMAIN Registered /\ bin >= 3
  BY AtCrossed, Boundaries DEF RoutingExecute, Gated
<1>2. Touches("routing") /\ (StepEnds("routing") \/ StepErrs)
  BY DEF IndInv, TypeInv, RoutingExecute, CiliumUpgrade, StepDone, StepFails, SkippedInOutage, Touches, Grows
<1>3. ~StepErrs /\ Sound' => "host-legacy-routing" \in config'
  BY <1>1, Zenon DEF RoutingExecute, CiliumUpgrade, StepFails, SkippedInOutage, Sound, Template, IndInv, TypeInv
<1>4. ~StepErrs /\ Sound' => Effect("routing")'
  BY <1>3 DEF Effect
<1> QED BY <1>1, <1>2, <1>4, EndsKeep, ErrsKeep

\* The three parts of the cri-o migration, the first of which is its effect.
LEMMA CrioKeeps ==
    ASSUME IndInv, CrioDropIn \/ CrioReload \/ CrioLink
    PROVE  IndInv'
<1>1. TypeInv /\ PassInv /\ "crio" \in DOMAIN Registered
  BY Boundaries DEF IndInv, Gated
<1>2. pc \in Migrating
  BY DEF CrioDropIn, CrioReload, CrioLink, At, Migrating
<1>3. /\ Grows /\ UNCHANGED <<kube, clean, staleRecord, restarts, ver>>
  BY DEF CrioDropIn, CrioReload, CrioLink, Grows, ghosts, StepAt
<1>4. Touches("crio")
  BY <1>1, <1>3 DEF Touches, TypeInv
<1>5. \/ StepErrs
      \/ StepEnds("crio") /\ (Sound' => "dropin" \in crio')
      \/ \E l \in {"crio-reload", "crio-link"} : StepAt(l) /\ "dropin" \in crio'
  <2>1. CASE CrioDropIn
    BY <1>3, <2>1 DEF CrioDropIn, StepDone, StepFails, Sound
  <2>2. CASE CrioReload
    BY <1>1, <2>2, Zenon DEF CrioReload, StepFails, PassInv
  <2>3. CASE CrioLink
    BY <1>1, <2>3 DEF CrioLink, StepDone, StepFails, PassInv
  <2> QED BY <2>1, <2>2, <2>3
<1>6. CASE StepErrs
  BY <1>2, <1>4, <1>6, ErrsKeep
<1>7. CASE StepEnds("crio") /\ (Sound' => "dropin" \in crio')
  <2>1. Sound' => Effect("crio")'
    BY <1>7 DEF Effect
  <2> QED BY <1>1, <1>2, <1>4, <1>7, <2>1, EndsKeep
<1>8. ASSUME NEW l \in {"crio-reload", "crio-link"}, StepAt(l), "dropin" \in crio' PROVE IndInv'
  BY <1>2, <1>3, <1>8, AtKeeps DEF Migrating
<1> QED BY <1>5, <1>6, <1>7, <1>8

\* Every startup migration keeps the invariant.
LEMMA ExecuteKeeps ==
    ASSUME IndInv, Execute
    PROVE  IndInv'
  BY UngatedKeep, AccelerationKeeps, RestartKeeps, RoutingKeeps, CrioKeeps DEF Execute

\* A pass that ends without an end of its own: the file has the version it
\* started from, or the record is noted as ahead of the host.
LEMMA StoppedPass ==
    ASSUME PassInv, pc # "idle", Sound, ~Ahead
    PROVE  MigratedTo(ver)
<1>1. CASE pc \in {"persist", "command"}
  BY <1>1 DEF PassInv
<1>2. CASE pc \notin {"persist", "command"}
  <2>1. ver = onDisk
    BY <1>2 DEF PassInv, Ahead
  <2> QED BY <2>1 DEF PassInv
<1> QED BY <1>1, <1>2

\* A rollback ends the pass, and so does a kill.
LEMMA StopKeeps ==
    ASSUME IndInv, Rollback \/ Crash
    PROVE  IndInv'
<1>1. TypeInv /\ PassInv /\ RestartInv
  BY DEF IndInv
<1>2. pc # "idle" /\ bin' = bin /\ onDisk' = onDisk
      /\ UNCHANGED <<ver, kube, config, agents, crio, restarts>>
  BY DEF Rollback, Crash, hostVars
<1>3. CASE /\ pc' = "idle" /\ clean' = FALSE /\ staleRecord' = (staleRecord \/ Ahead)
           /\ todo' \in {todo, {}}
  <2>1. TypeInv'
    BY <1>1, <1>2, <1>3, Zenon DEF TypeInv, Ahead
  <2>2. Sound' => Sound /\ ~Ahead
    BY <1>2, <1>3, Zenon DEF Sound
  <2>3. Sound' => MigratedTo(ver)'
    BY <1>1, <1>2, <2>2, StoppedPass DEF MigratedTo
  <2>4. PassInv'
    BY <1>3, <2>3 DEF PassInv, Migrating
  <2> QED BY <1>3, <2>1, <2>4 DEF IndInv, RestartInv
<1>4. CASE pc = "rollback" /\ UNCHANGED <<pc, clean, staleRecord, todo>>
  <2>1. TypeInv'
    BY <1>1, <1>2, <1>4 DEF TypeInv
  <2>2. PassInv'
    BY <1>1, <1>2, <1>4 DEF PassInv, Sound, MigratedTo, Migrating
  <2>3. RestartInv'
    BY <1>1, <1>2, <1>4 DEF RestartInv
  <2> QED BY <2>1, <2>2, <2>3 DEF IndInv
<1> QED BY <1>3, <1>4, Zenon DEF Rollback, Crash

\* After the migrations the running version may be recorded.
LEMMA PersistKeeps ==
    ASSUME IndInv, PersistVersion
    PROVE  IndInv'
<1>1. TypeInv /\ PassInv /\ RestartInv
  BY Zenon DEF IndInv
<1>2. pc = "persist" /\ pc' = "command" /\ bin' = bin /\ onDisk' = onDisk /\ todo' = todo
      /\ UNCHANGED <<kube, config, agents, crio, restarts, staleRecord>>
  BY Zenon DEF PersistVersion, hostVars
<1>3. \/ ver' = bin /\ clean' = clean
      \/ clean' = FALSE /\ ver' = ver
      \/ (onDisk = bin \/ ~kube) /\ ver' = ver /\ clean' = clean
  BY Zenon DEF PersistVersion
<1>4. TypeInv'
  <2>1. ver' \in -1..4
    BY <1>1, <1>2, <1>3 DEF TypeInv, PassInv
  <2>2. clean' \in BOOLEAN
    BY <1>1, <1>3, Zenon DEF TypeInv
  <2> QED BY <1>1, <1>2, <2>1, <2>2 DEF TypeInv
<1>5. PassInv'
  BY <1>1, <1>2, <1>3 DEF PassInv, Sound, MigratedTo, Migrating
<1>6. RestartInv'
  BY <1>1, <1>2, <1>3, Zenon DEF RestartInv, PassInv, TypeInv
<1> QED BY <1>4, <1>5, <1>6 DEF IndInv

\* The command reads, or stamps the running version, or provisions the host
\* with everything the running version has.
LEMMA CommandKeeps ==
    ASSUME IndInv, Command
    PROVE  IndInv'
<1>1. TypeInv /\ PassInv /\ RestartInv
  BY DEF IndInv
<1>2. pc = "command" /\ pc' = "idle" /\ bin' = bin /\ onDisk' = onDisk /\ todo' = todo /\ restarts' = restarts
  BY DEF Command
<1>3. bin \in 1..4 /\ ver \in -1..4 /\ ver \in {onDisk, bin}
  BY <1>1, <1>2 DEF PassInv, TypeInv
<1>4. CASE ver' \in {ver, bin} /\ UNCHANGED <<kube, config, agents, crio, clean, staleRecord>>
  <2>1. TypeInv'
    BY <1>1, <1>2, <1>4 DEF TypeInv
  <2>2. PassInv'
    BY <1>1, <1>2, <1>4, Zenon DEF PassInv, Sound, MigratedTo, Migrating
  <2>3. RestartInv'
    BY <1>1, <1>2, <1>4, Zenon DEF RestartInv
  <2> QED BY <2>1, <2>2, <2>3 DEF IndInv
<1>5. CASE /\ ~kube /\ kube' = TRUE /\ config' = Template(bin) /\ agents' = Template(bin)
           /\ crio' = IF bin >= 4 THEN {"dropin", "loaded", "link"} ELSE {}
           /\ \/ ver' = bin /\ UNCHANGED <<clean, staleRecord>>
              \/ ver' = ver /\ clean' = FALSE /\ staleRecord' = (staleRecord \/ ver > bin)
  <2>1. TypeInv'
    <3>1. ver' \in -1..4
      BY <1>3, <1>5
    <3>2. clean' \in BOOLEAN /\ staleRecord' \in BOOLEAN /\ kube' \in BOOLEAN
      BY <1>1, <1>5, Zenon DEF TypeInv
    <3> QED BY <1>1, <1>2, <3>1, <3>2 DEF TypeInv
  <2>2. Sound' => ver' \in -1..4 /\ ver' <= bin
    <3>1. ver' = bin \/ (ver' = ver /\ (Sound' => ~(ver > bin)))
      BY <1>5, Zenon DEF Sound
    <3>2. ~(ver > bin) => ver <= bin
      BY <1>3
    <3> QED BY <1>3, <3>1, <3>2
  <2>3. Sound' => MigratedTo(ver)'
    BY <1>3, <1>5, <2>2 DEF MigratedTo, Template
  <2>4. PassInv'
    BY <1>2, <2>3, Zenon DEF PassInv, Migrating
  <2>5. RestartInv'
    BY <1>1, <1>2, <1>5, Zenon DEF RestartInv, TypeInv
  <2> QED BY <2>1, <2>4, <2>5 DEF IndInv
<1> QED BY <1>4, <1>5, Zenon DEF Command, Stamp

\* The invariant does not depend on the API or on the Bandwidth Manager.
LEMMA EnvironmentKeeps ==
    ASSUME IndInv, ApiChanges \/ DisableBandwidthManager \/ UNCHANGED vars
    PROVE  IndInv'
<1>1. UNCHANGED <<ver, kube, config, agents, crio, pc, bin, onDisk, todo, restarts, clean, staleRecord>>
  BY DEF ApiChanges, DisableBandwidthManager, vars, hostVars, passVars, ghosts
<1>2. \A m : Crossed(m)' = Crossed(m) /\ Effect(m)' = Effect(m)
  BY <1>1 DEF Crossed, Effect, CrossesBoundary, ResolveInstalledCLIVersion
<1>3. TypeInv' /\ RestartInv'
  BY <1>1, Zenon DEF IndInv, TypeInv, RestartInv
<1>4. PassInv'
  BY <1>1, <1>2 DEF IndInv, PassInv, Sound, MigratedTo
<1> QED BY <1>3, <1>4 DEF IndInv

-----------------------------------------------------------------------------
\* The inductive invariant holds in every reachable state.
THEOREM IndInvHolds == Spec => []IndInv
<1>1. Init => IndInv
  <2> SUFFICES ASSUME Init PROVE IndInv
    BY Zenon
  <2>1. PICK o \in Origins :
          /\ kube = (o >= 0) /\ ver = IF o >= 1 THEN o ELSE NoFile
          /\ config = Template(o)
          /\ agents \in (IF o = 1 THEN {{}, Template(o)} ELSE {Template(o)})
          /\ crio = IF o >= 4 THEN {"dropin", "loaded", "link"} ELSE {}
          /\ pc = "idle" /\ bin = 0 /\ onDisk = NoFile /\ todo = {}
          /\ restarts = 0 /\ clean = TRUE /\ staleRecord = FALSE
    BY DEF Init
  <2>2. o \in -1..4
    BY ConstantsAssumption, Zenon
  <2>3. TypeInv
    <3>1. ver \in -1..4 /\ onDisk \in -1..4 /\ bin \in 0..4 /\ restarts \in 0..RestartCap
      BY <2>1, <2>2 DEF NoFile, RestartCap
    <3>2. kube \in BOOLEAN
      <4>1. kube = (o >= 0)
        BY <2>1, Zenon
      <4> QED BY <4>1
    <3>3. clean \in BOOLEAN /\ staleRecord \in BOOLEAN
      BY <2>1, Zenon
    <3> QED BY <2>1, <3>1, <3>2, <3>3 DEF TypeInv
  <2>4. MigratedTo(ver)
    BY <2>1, <2>2 DEF MigratedTo, Template, NoFile
  <2>5. PassInv /\ RestartInv
    BY <2>1, <2>4 DEF PassInv, RestartInv, Migrating
  <2> QED BY <2>3, <2>5 DEF IndInv
<1>2. IndInv /\ [Next]_vars => IndInv'
  BY InvokeKeeps, ExecuteKeeps, StopKeeps, PersistKeeps, CommandKeeps, EnvironmentKeeps DEF Next
<1> QED BY <1>1, <1>2, PTL DEF Spec

\* RunStartupMigrations and Refresh stamp the running version: whatever releases
\* are invoked in whatever order, killed or failing, a recorded version means
\* between two invocations that the migrations up to it have taken effect,
\* except where the record ran ahead of the host.
THEOREM VersionMeansMigratedHolds == Spec => []VersionMeansMigrated
<1>1. IndInv => VersionMeansMigrated
  BY Zenon DEF IndInv, PassInv, Sound, VersionMeansMigrated
<1> QED BY <1>1, IndInvHolds, PTL

\* RunStartupMigrations: as long as every pass succeeds and is recorded and no
\* older release is invoked, the agents are restarted at most once.
THEOREM RestartedOnceHolds == Spec => []RestartedOnce
<1>1. IndInv => RestartedOnce
  BY DEF IndInv, TypeInv, RestartInv, RestartedOnce, RestartCap
<1> QED BY <1>1, IndInvHolds, PTL
==============================================================================
