--------------------------- MODULE PolicyManager ---------------------------
(***************************************************************************)
(* The workload-policy manager (internal/network/policy): operator         *)
(* commands and the daemon's reconcile ticks that edit one nft table, kept *)
(* in three stores that no transaction spans:                              *)
(*   kernel    the live table, which Apply replaces as a whole;            *)
(*   registry  one JSON file per policy: its configuration, no membership; *)
(*   artifact  the rendered .nft file, which the oneshot unit replays at   *)
(*             boot.                                                       *)
(* A document (the content of kernel and artifact) is abstracted to the    *)
(* configuration of each policy, the elements of its runtime sets (by      *)
(* family: IPv4, IPv6, listener ports) and the pod CIDR of its rules.      *)
(* Commands are serialised by a flock.  The install step that re-renders   *)
(* the artifact and restarts the oneshot takes no lock.                    *)
(***************************************************************************)
EXTENDS Naturals, Sequences, FiniteSets

CONSTANTS
    Ops,            \* slots for operator commands that run concurrently
    Daemon,         \* the traffic-shaper daemon
    Names,          \* policy names
    Confs,          \* policy configurations
    SetsOf,         \* the families of the runtime sets a configuration renders
    PodScoped,      \* the configurations that render a pod-scoped rule
    Elems,          \* set elements (of any family)
    Pods,           \* pod CIDRs
    NoPod, NoDoc, Free,
    Requests,       \* the operator commands that are tried
    Ticks,          \* the set writes a daemon tick may ask for
    Provisioned,    \* documents of a host that is already provisioned
    MaxCommands,    \* bound: operator commands started
    MaxFaults       \* bound: failed steps, kills, out-of-band deletions, reboots

CidrFams == {"v4", "v6"}
Fams == CidrFams \cup {"ports"}
Procs == Ops \cup {Daemon}

\* One write of a daemon tick or of an element verb: a set of a policy, and
\* what is added to it, deleted from it, or put in place of it.
Writes == [name: Names, fam: Fams, how: {"add", "delete", "set"}, elems: SUBSET Elems]

\* A command line.  Fields a verb does not use are ignored.
Commands ==
    [verb: {"create", "delete", "add", "remove", "set", "install"}, name: Names, conf: Confs,
     cidrs: [CidrFams -> SUBSET Elems], pod: Pods \cup {NoPod}, force: BOOLEAN]

\* The registered configurations, by name, and the content of a rendered table.
Registries == UNION {[D -> Confs] : D \in SUBSET Names}

Documents ==
    [pol: UNION {[D -> [conf: Confs, mem: UNION {[F -> SUBSET Elems] : F \in SUBSET Fams}]] :
                    D \in SUBSET Names},
     pod: Pods \cup {NoPod}]

\* A document that Render may have produced: it has a policy, each policy has
\* exactly the sets of its configuration, and there is a pod CIDR exactly when
\* some rule is scoped to it.
WellFormed(d) ==
    /\ d \in Documents
    /\ DOMAIN d.pol # {}
    /\ \A n \in DOMAIN d.pol : DOMAIN d.pol[n].mem = SetsOf[d.pol[n].conf]
    /\ d.pod # NoPod <=> \E n \in DOMAIN d.pol : d.pol[n].conf \in PodScoped

ASSUME PolicyAssumption ==
    /\ Daemon \notin Ops /\ Free \notin Procs
    /\ NoPod \notin Pods
    /\ SetsOf \in [Confs -> SUBSET Fams] /\ PodScoped \subseteq Confs
    /\ NoDoc \notin Documents
    /\ \A d \in Provisioned : WellFormed(d)
    /\ Requests \subseteq Commands /\ Requests # {}
    /\ \A s \in Ticks : s \in Seq(Writes)
    /\ MaxCommands \in Nat /\ MaxFaults \in Nat

VARIABLES
    kernel,     \* the live table, or NoDoc
    artifact,   \* the .nft file replayed at boot, or NoDoc
    registry,   \* the registered configurations, by name
    unit,       \* the oneshot unit: "absent", "installed" or "enabled"
    lock,       \* who holds the flock
    pc,         \* where each process is
    req,        \* the command an operator slot is running
    pod,        \* the pod CIDR a command renders with
    doc,        \* the document a create or delete is about to apply
    script,     \* the set writes a process has left
    commands, faults,
    torn,       \* history: a create or delete has begun to write its three
                \* stores and none has reached its last write since
    lag,        \* history: a set was written, or the artifact was removed or
                \* rendered without membership, and none was persisted since
    undercut    \* history: the install step, which takes no lock, acted while
                \* the present holder had the lock, or the holder took a
                \* failing nft for a missing table and left the table there

stores == <<kernel, artifact, registry, unit>>
history == <<torn, lag, undercut>>
bounds == <<commands, faults>>
vars == <<stores, lock, pc, req, pod, doc, script, bounds, history>>

-----------------------------------------------------------------------------
(* Documents. *)

\* The configurations a document renders.
ConfOf(d) == IF d = NoDoc THEN <<>> ELSE [n \in DOMAIN d.pol |-> d.pol[n].conf]

NeedsPod(reg) == \E n \in DOMAIN reg : reg[n] \in PodScoped

\* The pod CIDR is in a document only when some rule is scoped to it.
Render(reg, mem, c) ==
    [pol |-> [n \in DOMAIN reg |-> [conf |-> reg[n], mem |-> mem[n]]],
     pod |-> IF NeedsPod(reg) THEN c ELSE NoPod]

Renders(reg, c) == NeedsPod(reg) => c # NoPod

ExtractPodCIDRs(d) == IF d = NoDoc THEN NoPod ELSE d.pod

HasSet(d, n, f) == d # NoDoc /\ n \in DOMAIN d.pol /\ f \in DOMAIN d.pol[n].mem

\* Listing a set that is not there yields no elements.
ElementsIn(d, n, f) == IF HasSet(d, n, f) THEN d.pol[n].mem[f] ELSE {}

ListElements(n, f) == ElementsIn(kernel, n, f)

\* Mutant: the managed ports are left out of the snapshot.
SnapshotMembership_NoPorts(reg) ==
    [n \in DOMAIN reg |-> [f \in SetsOf[reg[n]] |-> IF f \in CidrFams THEN ListElements(n, f) ELSE {}]]

SnapshotMembership(reg) ==
    [n \in DOMAIN reg |-> [f \in SetsOf[reg[n]] |-> ListElements(n, f)]]

NoMembership(reg) == [n \in DOMAIN reg |-> [f \in SetsOf[reg[n]] |-> {}]]

Upsert(reg, n, c) == [m \in DOMAIN reg \cup {n} |-> IF m = n THEN c ELSE reg[m]]

Without(reg, n) == [m \in DOMAIN reg \ {n} |-> reg[m]]

\* Mutant: only the policy itself is rendered with members.
DesiredMembership_Bare(n, c, cidrs) ==
    [m \in DOMAIN registry \cup {n} |->
        IF m = n THEN [f \in SetsOf[c] |-> IF f \in CidrFams THEN cidrs[f] ELSE {}]
        ELSE NoMembership(registry)[m]]

\* What Create renders: every sibling's snapshot, and for the policy itself
\* exactly the given addresses; its managed ports keep their snapshot.
DesiredMembership(n, c, cidrs) ==
    LET snapshot == SnapshotMembership(registry)
        kept(f)  == n \in DOMAIN registry /\ f \in SetsOf[registry[n]]
        target   == [f \in SetsOf[c] |-> IF f \in CidrFams THEN cidrs[f]
                                         ELSE IF kept(f) THEN ListElements(n, f) ELSE {}]
    IN  [m \in DOMAIN registry \cup {n} |-> IF m = n THEN target ELSE snapshot[m]]

-----------------------------------------------------------------------------
Init ==
    /\ \/ kernel = NoDoc /\ unit = "absent"
       \/ kernel \in Provisioned /\ unit = "enabled"
    /\ artifact = kernel
    /\ registry = ConfOf(kernel)
    /\ lock = Free
    /\ pc = [p \in Procs |-> "idle"]
    /\ req \in [Ops -> {CHOOSE r \in Requests : TRUE}]
    /\ pod = [p \in Procs |-> NoPod]
    /\ doc = [p \in Procs |-> NoDoc]
    /\ script = [p \in Procs |-> <<>>]
    /\ commands = 0 /\ faults = 0
    /\ torn = FALSE /\ lag = FALSE /\ undercut = FALSE

\* Each fault uses up one of MaxFaults.
Fault == faults < MaxFaults /\ faults' = faults + 1

\* What Exists reports: any failure of nft is taken for a missing table.
TableExists(exists) ==
    \/ exists = (kernel # NoDoc) /\ UNCHANGED faults
    \/ kernel # NoDoc /\ ~exists /\ Fault

Goto(p, l) == pc' = [pc EXCEPT ![p] = l]

\* The command returns: its local state is gone.
Return(p) ==
    /\ Goto(p, "idle")
    /\ pod' = [pod EXCEPT ![p] = NoPod]
    /\ doc' = [doc EXCEPT ![p] = NoDoc]
    /\ script' = [script EXCEPT ![p] = <<>>]

\* The holder returns from the locked function, whatever it has left undone.
Release(p) == Return(p) /\ lock' = Free

Acquire(p) == lock = Free /\ lock' = p /\ undercut' = FALSE

-----------------------------------------------------------------------------
(* Operator commands. *)

\* A command starts.  Create recovers a pod CIDR it was not given from the
\* artifact, before it takes the lock.
Start(p, r) ==
    /\ pc[p] = "idle" /\ commands < MaxCommands
    /\ commands' = commands + 1
    /\ req' = [req EXCEPT ![p] = r]
    /\ pod' = [pod EXCEPT ![p] = IF r.verb # "create" THEN NoPod
                                 ELSE IF r.pod # NoPod THEN r.pod
                                 ELSE ExtractPodCIDRs(artifact)]
    /\ Goto(p, IF r.verb = "install" THEN "render" ELSE "load")
    /\ UNCHANGED <<stores, lock, doc, script, faults, history>>

\* The outcomes of a command that finds, under the lock, that it has nothing
\* to do or may not go on: it returns with every store as it was.
Quit(p) ==
    /\ Return(p)
    /\ UNCHANGED <<stores, lock, req, commands, history>>

Proceed(p, l) ==
    /\ Acquire(p) /\ Goto(p, l)
    /\ UNCHANGED <<stores, req, commands, torn, lag>>

\* Create under the lock up to the rendered document.  An existing policy is
\* left alone without --force, unless the table is gone: then its registered
\* configuration is restored, with no members.
CreateLoad(p) ==
    LET r     == req[p]
        heal  == r.name \in DOMAIN registry /\ ~r.force
        conf  == IF heal THEN registry[r.name] ELSE r.conf
        cidrs == IF heal THEN [f \in CidrFams |-> {}] ELSE r.cidrs
        reg   == Upsert(registry, r.name, conf)
    IN  /\ pc[p] = "load" /\ r.verb = "create" /\ lock = Free
        /\ \E exists \in BOOLEAN :
              /\ IF heal THEN TableExists(exists) ELSE ~exists /\ UNCHANGED faults
              /\ \/ (exists \/ ~Renders(reg, pod[p])) /\ Quit(p)
                 \/ /\ ~exists /\ Renders(reg, pod[p])
                    /\ doc' = [doc EXCEPT ![p] =
                                  Render(reg, DesiredMembership(r.name, conf, cidrs), pod[p])]
                    /\ Proceed(p, "apply")
                    /\ UNCHANGED <<pod, script>>

CreateApply(p) ==
    /\ pc[p] = "apply" /\ req[p].verb = "create"
    /\ kernel' = doc[p]
    /\ torn' = TRUE
    /\ Goto(p, "entry")
    /\ UNCHANGED <<artifact, registry, unit, lock, req, pod, doc, script, bounds, lag, undercut>>

\* Mutant: the caller's flags are registered when only a restore was applied.
CreateEntry_CallerFlags(p) ==
    /\ pc[p] = "entry" /\ req[p].verb = "create"
    /\ registry' = Upsert(registry, req[p].name, req[p].conf)
    /\ Goto(p, "file")
    /\ UNCHANGED <<kernel, artifact, unit, lock, req, pod, doc, script, bounds, history>>

CreateEntry(p) ==
    /\ pc[p] = "entry" /\ req[p].verb = "create"
    /\ registry' = Upsert(registry, req[p].name, doc[p].pol[req[p].name].conf)
    /\ Goto(p, "file")
    /\ UNCHANGED <<kernel, artifact, unit, lock, req, pod, doc, script, bounds, history>>

\* Mutant: the file is not rewritten when it has the same policies already.
CreateFile_SameSchema(p) ==
    /\ pc[p] = "file" /\ req[p].verb = "create"
    /\ artifact' = IF ConfOf(artifact) = ConfOf(doc[p]) THEN artifact ELSE doc[p]
    /\ torn' = undercut /\ lag' = undercut
    /\ Goto(p, "service")
    /\ UNCHANGED <<kernel, registry, unit, lock, req, pod, doc, script, bounds, undercut>>

CreateFile(p) ==
    /\ pc[p] = "file" /\ req[p].verb = "create"
    /\ artifact' = doc[p]
    /\ torn' = undercut /\ lag' = undercut
    /\ Goto(p, "service")
    /\ UNCHANGED <<kernel, registry, unit, lock, req, pod, doc, script, bounds, undercut>>

\* A unit file already in place is taken for an enabled unit, and a failure to
\* enable it is only logged.
EnsureUnit ==
    \/ unit # "absent" /\ UNCHANGED unit
    \/ unit = "absent" /\ unit' \in {"installed", "enabled"}

CreateService(p) ==
    /\ pc[p] = "service"
    /\ EnsureUnit
    /\ Release(p)
    /\ UNCHANGED <<kernel, artifact, registry, req, bounds, history>>

\* Delete under the lock up to the rendered document.  Without the last policy
\* there is no document: the table and the artifact are removed.
DeleteLoad(p) ==
    LET n    == req[p].name
        rest == Without(registry, n)
        c    == ExtractPodCIDRs(artifact)
    IN  /\ pc[p] = "load" /\ req[p].verb = "delete" /\ lock = Free /\ UNCHANGED faults
        /\ \/ (n \notin DOMAIN registry \/ ~Renders(rest, c)) /\ Quit(p)
           \/ /\ n \in DOMAIN registry /\ Renders(rest, c)
              /\ doc' = [doc EXCEPT ![p] =
                            IF DOMAIN rest = {} THEN NoDoc
                            ELSE Render(rest, SnapshotMembership(rest), c)]
              /\ Proceed(p, "apply")
              /\ UNCHANGED <<pod, script>>

DeleteApply(p) ==
    /\ pc[p] = "apply" /\ req[p].verb = "delete"
    /\ \/ doc[p] # NoDoc /\ kernel' = doc[p] /\ UNCHANGED <<faults, undercut>>
       \/ /\ doc[p] = NoDoc
          /\ \E exists \in BOOLEAN :
                /\ TableExists(exists)
                /\ kernel' = IF exists THEN NoDoc ELSE kernel
          /\ undercut' = (undercut \/ kernel' # NoDoc)
    /\ torn' = TRUE
    /\ Goto(p, "file")
    /\ UNCHANGED <<artifact, registry, unit, lock, req, pod, doc, script, commands, lag>>

DeleteFile(p) ==
    /\ pc[p] = "file" /\ req[p].verb = "delete"
    /\ artifact' = doc[p]
    /\ lag' = undercut
    /\ Goto(p, "entry")
    /\ UNCHANGED <<kernel, registry, unit, lock, req, pod, doc, script, bounds, torn, undercut>>

DeleteEntry(p) ==
    /\ pc[p] = "entry" /\ req[p].verb = "delete"
    /\ registry' = Without(registry, req[p].name)
    /\ torn' = undercut
    /\ Release(p)
    /\ UNCHANGED <<kernel, artifact, unit, req, bounds, lag, undercut>>

-----------------------------------------------------------------------------
(* Set writes: the element verbs and the daemon's ticks.  Elements stand for
   disjoint prefixes, so no write is refused for containment. *)

\* The writes of a verb: the IPv4 set, then the IPv6 set.
VerbScript(r) ==
    LET how == [add |-> "add", remove |-> "delete", set |-> "set"][r.verb]
        one(f) == [name |-> r.name, fam |-> f, how |-> how, elems |-> r.cidrs[f]]
    IN  <<one("v4"), one("v6")>>

\* Add, Remove and Set refuse an unknown policy, one without address sets and a
\* missing table; Remove also refuses what is not a member.
ElementLoad(p) ==
    LET r  == req[p]
        ok == /\ r.name \in DOMAIN registry /\ CidrFams \subseteq SetsOf[registry[r.name]]
              /\ kernel # NoDoc
              /\ r.verb = "remove" =>
                    \A f \in CidrFams : r.cidrs[f] \subseteq ListElements(r.name, f)
    IN  /\ pc[p] = "load" /\ r.verb \in {"add", "remove", "set"} /\ lock = Free /\ UNCHANGED faults
        /\ \/ ~ok /\ Quit(p)
           \/ /\ ok
              /\ script' = [script EXCEPT ![p] = VerbScript(r)]
              /\ Proceed(p, "write")
              /\ UNCHANGED <<pod, doc>>

\* Mutant: a tick with no writes returns at once.
Tick_NothingToDo(s) ==
    /\ pc[Daemon] = "idle" /\ s # <<>>
    /\ script' = [script EXCEPT ![Daemon] = s]
    /\ Proceed(Daemon, "write")
    /\ UNCHANGED <<pod, doc, faults>>

\* A tick takes the lock only if it is free: with the lock held the tick is
\* skipped, which changes nothing.  A tick with no writes still persists.
Tick(s) ==
    /\ pc[Daemon] = "idle"
    /\ script' = [script EXCEPT ![Daemon] = s]
    /\ Proceed(Daemon, "write")
    /\ UNCHANGED <<pod, doc, faults>>

Written(w) ==
    LET live == kernel.pol[w.name].mem[w.fam]
    IN  CASE w.how = "add"    -> live \cup w.elems
          [] w.how = "delete" -> live \ w.elems
          [] w.how = "set"    -> w.elems

\* A write goes to a set of a registered policy that the table really has.
Writable(w) ==
    /\ w.name \in DOMAIN registry /\ w.fam \in SetsOf[registry[w.name]]
    /\ HasSet(kernel, w.name, w.fam)

\* One nft transaction on one set.
WriteSet(p) ==
    LET w == Head(script[p])
    IN  /\ pc[p] = "write" /\ script[p] # <<>> /\ Writable(w)
        /\ kernel' = [kernel EXCEPT !.pol[w.name].mem[w.fam] = Written(w)]
        /\ script' = [script EXCEPT ![p] = Tail(@)]
        /\ lag' = TRUE
        /\ UNCHANGED <<artifact, registry, unit, lock, pc, req, pod, doc, bounds, torn, undercut>>

\* A write that is refused ends the batch before it persists anything; the
\* writes before it stay.
WriteRefused(p) ==
    /\ pc[p] = "write" /\ script[p] # <<>> /\ ~Writable(Head(script[p]))
    /\ Release(p)
    /\ UNCHANGED <<stores, req, bounds, history>>

\* The pod CIDR of the artifact or, when it yields none, of the live table.
RecoveredPod ==
    IF ExtractPodCIDRs(artifact) # NoPod THEN ExtractPodCIDRs(artifact) ELSE ExtractPodCIDRs(kernel)

\* The artifact is rendered from the registry and the live sets.  An empty
\* registry leaves it alone, and so does a document that cannot be rendered.
PersistMembership(p) ==
    /\ pc[p] = "write" /\ script[p] = <<>>
    /\ \/ /\ DOMAIN registry # {} /\ Renders(registry, RecoveredPod)
          /\ artifact' = Render(registry, SnapshotMembership(registry), RecoveredPod)
          /\ lag' = undercut
       \/ /\ DOMAIN registry = {} \/ ~Renders(registry, RecoveredPod)
          /\ UNCHANGED <<artifact, lag>>
    /\ Release(p)
    /\ UNCHANGED <<kernel, registry, unit, req, bounds, torn, undercut>>

-----------------------------------------------------------------------------
(* The install step that re-renders the artifact and restarts the oneshot. *)

\* It takes no lock, so it may act inside another command's critical section.
Intrude == undercut' = (undercut \/ lock # Free)

\* An empty registry removes the artifact and ends the step.  Otherwise the
\* artifact is rendered with empty sets, from the pod CIDR it holds.
InstallRender(p) ==
    LET c == ExtractPodCIDRs(artifact)
    IN  /\ pc[p] = "render"
        /\ \/ ~Renders(registry, c) /\ Quit(p) /\ UNCHANGED faults
           \/ /\ Renders(registry, c)
              /\ artifact' = IF DOMAIN registry = {} THEN NoDoc
                             ELSE Render(registry, NoMembership(registry), c)
              /\ lag' = (lag \/ DOMAIN registry # {})
              /\ torn' = (torn \/ lock # Free) /\ Intrude
              /\ Goto(p, IF DOMAIN registry = {} THEN "idle" ELSE "restart")
              /\ UNCHANGED <<kernel, registry, unit, lock, req, pod, doc, script, bounds>>

\* The restarted oneshot replays the artifact, if there is one.
InstallRestart(p) ==
    /\ pc[p] = "restart"
    /\ EnsureUnit
    /\ kernel' = IF artifact = NoDoc THEN kernel ELSE artifact
    /\ lag' = (lag /\ artifact = NoDoc)
    /\ torn' = (torn \/ lock # Free) /\ Intrude
    /\ Goto(p, "idle")
    /\ UNCHANGED <<artifact, registry, lock, req, pod, doc, script, bounds>>

-----------------------------------------------------------------------------
(* Faults. *)

\* A step fails, or the process is killed before it: the command ends there and
\* the flock is released.  A failed persist ends the same way, but is not
\* reported.
Fail(p) ==
    /\ pc[p] # "idle"
    /\ Fault
    /\ Return(p)
    /\ lock' = IF lock = p THEN Free ELSE lock
    /\ UNCHANGED <<stores, req, commands, history>>

\* Somebody deletes the table by hand.
DropTable ==
    /\ kernel # NoDoc
    /\ Fault
    /\ kernel' = NoDoc
    /\ UNCHANGED <<artifact, registry, unit, lock, pc, req, pod, doc, script, commands, history>>

\* Somebody deletes the artifact by hand.
DropArtifact ==
    /\ artifact # NoDoc
    /\ Fault
    /\ artifact' = NoDoc
    /\ lag' = TRUE
    /\ UNCHANGED <<kernel, registry, unit, lock, pc, req, pod, doc, script, commands, torn, undercut>>

\* The host restarts: processes and table are gone, and an enabled oneshot
\* replays the artifact before the daemon starts.
Reboot ==
    /\ Fault
    /\ kernel' = IF unit = "enabled" THEN artifact ELSE NoDoc
    /\ lag' = (lag /\ kernel' = NoDoc)
    /\ lock' = Free
    /\ pc' = [p \in Procs |-> "idle"]
    /\ pod' = [p \in Procs |-> NoPod]
    /\ doc' = [p \in Procs |-> NoDoc]
    /\ script' = [p \in Procs |-> <<>>]
    /\ UNCHANGED <<artifact, registry, unit, req, commands, torn, undercut>>

-----------------------------------------------------------------------------
OpStep(p) ==
    \/ CreateLoad(p) \/ CreateApply(p) \/ CreateEntry(p) \/ CreateFile(p) \/ CreateService(p)
    \/ DeleteLoad(p) \/ DeleteApply(p) \/ DeleteFile(p) \/ DeleteEntry(p)
    \/ ElementLoad(p) \/ InstallRender(p) \/ InstallRestart(p)

SetStep(p) == WriteSet(p) \/ WriteRefused(p) \/ PersistMembership(p)

Next ==
    \/ \E p \in Ops : OpStep(p) \/ \E r \in Requests : Start(p, r)
    \/ \E p \in Procs : SetStep(p) \/ Fail(p)
    \/ \E s \in Ticks : Tick(s)
    \/ DropTable \/ DropArtifact \/ Reboot

\* Commands run to their end.  Strong fairness of the tick without writes: the
\* daemon polls for ever, and a tick that finds the lock free with nothing to
\* change comes again and again.
Fairness ==
    /\ \A p \in Ops : WF_vars(OpStep(p))
    /\ \A p \in Procs : WF_vars(SetStep(p))
    /\ SF_vars(Tick(<<>>))

Spec == Init /\ [][Next]_vars /\ Fairness

-----------------------------------------------------------------------------
(* What the next boot replays is what is live: outside a create or delete that
   has not reached its last write, and with no set write left unpersisted, the
   artifact is the live table to the last element, and both render exactly the
   registry (Create, Delete, persistMembership and the oneshot together). *)
BootRestoresLive ==
    ~torn /\ ~lag => /\ ConfOf(artifact) = registry
                     /\ kernel # NoDoc => artifact = kernel

(* The live table renders the registry whatever becomes of the artifact: a set
   write, a failed persist, a lost artifact or a reboot never leaves a live
   table that has a policy the registry has not, or lacks one it has. *)
TableRendersRegistry ==
    ~torn /\ kernel # NoDoc => ConfOf(kernel) = registry

\* The step replaces the table by the artifact, or deletes it by hand.
Replay == Reboot \/ DropTable \/ \E p \in Ops : InstallRestart(p)

Target(p) == IF pc[p] = "write" THEN Head(script[p]).name ELSE req[p].name

\* The elements of policy n in a document, in the sets its registered
\* configuration has.
Membership(d, n) == [f \in SetsOf[registry[n]] |-> ElementsIn(d, n, f)]

SiblingStep ==
    \A n \in DOMAIN registry :
        kernel # NoDoc /\ ~undercut /\ Membership(kernel', n) # Membership(kernel, n)
        => Replay \/ (lock # Free /\ Target(lock) = n)

(* A command changes the members of its own policy only: although Create and
   Delete replace the whole table, every registered sibling keeps each element
   that was live, also one a tick or another command wrote just before.  Only
   the install step acting inside the critical section is excepted. *)
SiblingsKept == [][SiblingStep]_vars

PodStep ==
    kernel # NoDoc /\ kernel' # NoDoc /\ kernel.pod # NoPod /\ kernel'.pod \notin {NoPod, kernel.pod}
    => \/ Replay \/ torn \/ undercut
       \/ /\ lock \in Ops /\ req[lock].verb = "create"
          /\ req[lock].pod # NoPod \/ pod[lock] # ExtractPodCIDRs(artifact)

(* The pod CIDR of the live rules is a constant of the deployment: a step
   changes it only for a create that was given another one, or that recovered
   one from the artifact before the lock which the artifact no longer holds. *)
PodKept == [][PodStep]_vars

(* "Will not survive a reboot until a later apply succeeds": it does succeed.
   The daemon's ticks bring the artifact back in line with the live sets after
   a failed persist, a cut batch, a lost artifact or an install's empty render,
   unless the table is gone or a create or delete was left half-written. *)
ArtifactCatchesUp == lag ~> (~lag \/ torn \/ undercut \/ kernel = NoDoc)
=============================================================================
