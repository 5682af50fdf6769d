------------------------------ MODULE HostOps ------------------------------
(***************************************************************************)
(* What one provisioning operation does to the host.                       *)
(*                                                                         *)
(* A host is a function from the things the provisioner manages (a file,   *)
(* a symbolic link, a mount, a unit's enabled or running state, a Helm     *)
(* release, a Kubernetes object) to its content.  Each thing is a pair     *)
(* <<owner, part>>.  The contents the code can tell apart are:             *)
(*    absent   not there                                                   *)
(*    torn     there, but a copy or an install was cut short               *)
(*    ok       there, as first written                                     *)
(*    patched  rewritten once by a substitution, or in its other form      *)
(*    twice    rewritten twice by a substitution that is not idempotent    *)
(*    tuned    with a setting of the operator's own                        *)
(*                                                                         *)
(* An operation is a record:                                               *)
(*    do      the kind of change, applied to every thing in on             *)
(*    needs   what must hold for it to succeed                             *)
(*    unless  the operation is left out when this holds                    *)
(*    hard    an error fails the step (FALSE: the code only logs it)       *)
(*    mark    the flag the step sets when the operation is done            *)
(*    when    it runs only if the step has set one of these flags          *)
(*    bar     and none of these                                            *)
(***************************************************************************)
EXTENDS Integers, Sequences, FiniteSets, TLC

Content == {"absent", "torn", "ok", "patched", "twice", "tuned"}

\* A requirement: which contents each thing may have.
Exactly(F, C) == [f \in F |-> C]
Exists(F) == Exactly(F, Content \ {"absent"})
Intact(F) == Exactly(F, {"ok", "patched", "tuned"})
Gone(F) == Exactly(F, {"absent"})
Nothing == [f \in {} |-> {}]
Both(r, q) == [f \in DOMAIN r \cup DOMAIN q |->
                 IF f \notin DOMAIN q THEN r[f]
                 ELSE IF f \notin DOMAIN r THEN q[f] ELSE r[f] \cap q[f]]
Holds(r, host) == \A f \in DOMAIN r : host[f] \in r[f]

\* The ways an operation changes what it is applied to.  A copy that is cut
\* short leaves a torn file, and so does a Helm install (the release stays
\* pending).  A link is replaced by removing it and creating it again.  A
\* set is one system call or one request.  A download is verified, so a bad
\* file is fetched again.  A sed is strings.ReplaceAll with a replacement
\* that contains the pattern; an edit is one that does not.  A file with two
\* forms is rewritten in its other form, or replaced by it in one rename; so
\* is a file by one with a setting of the operator's.  A
\* wipe removes whole directories, each at once.  A check changes nothing, and
\* a forget changes the recorded machine state, not the host.
Turned(do, c) ==
    CASE do \in {"copy", "link", "set", "fetch"} -> "ok"
      [] do = "keep" -> IF c = "absent" THEN "ok" ELSE c
      [] do = "sed" -> CASE c = "ok" -> "patched" [] c = "patched" -> "twice" [] OTHER -> c
      [] do = "edit" -> IF c = "ok" THEN "patched" ELSE c
      [] do \in {"rewrite", "replace"} -> "patched"
      [] do = "tune" -> "tuned"
      [] do \in {"rm", "wipe"} -> "absent"
      [] OTHER -> c

\* What is left of the one thing an operation was working on when it was cut
\* short.  A file that is rewritten is truncated first.
Torn(do, c) ==
    CASE do \in {"copy", "sed", "edit", "rewrite"} -> "torn"
      [] do = "keep" -> IF c = "absent" THEN "torn" ELSE c
      [] do = "fetch" -> IF c = "ok" THEN c ELSE "torn"
      [] do = "link" -> "absent"
      [] OTHER -> c

Done(o, host) == [f \in o.on |-> Turned(o.do, host[f])] @@ host

\* An operation that fails or is interrupted is done for some of its things,
\* half done for one and not done for the others.
CutShort(o, host) ==
    {host} \cup
    {[f \in S \cup {t} |-> IF f \in S THEN Turned(o.do, host[f]) ELSE Torn(o.do, host[f])] @@ host :
        S \in IF o.do = "wipe" THEN {o.on} ELSE SUBSET o.on, t \in o.on}

\* Constructors.
Op(do, on) == [do |-> do, on |-> on, needs |-> Nothing, unless |-> {},
               hard |-> TRUE, mark |-> "none", when |-> {}, bar |-> {}]
Copy(F) == Op("copy", F)
Keep(F) == Op("keep", F)
Link(F) == Op("link", F)
Set(F) == Op("set", F)
Fetch(F) == Op("fetch", F)
Sed(F) == [Op("sed", F) EXCEPT !.needs = Exists(F)]
Edit(F) == [Op("edit", F) EXCEPT !.needs = Exists(F)]
Rewrite(F) == Op("rewrite", F)
Replace(F) == Op("replace", F)
Tune(F) == Op("tune", F)
Rm(F) == Op("rm", F)
Wipe(F) == Op("wipe", F)
Forget == Op("forget", {})
Check(r) == [Op("check", {}) EXCEPT !.needs = r]
Needing(o, r) == [o EXCEPT !.needs = Both(o.needs, r)]
Unless(o, r) == [o EXCEPT !.unless = {r}]
Logged(o) == [o EXCEPT !.hard = FALSE]
Mark(o, m) == [o EXCEPT !.mark = m]
When(o, M) == [o EXCEPT !.when = M]
Barring(o, M) == [o EXCEPT !.bar = M]
UnlessAny(o, R) == [o EXCEPT !.unless = R]

LeftOut(o, host) == \E r \in o.unless : Holds(r, host)

\* Constructors lifted to a sequence of operations.  (Appending nothing makes
\* TLC build the sequence once.)
AllWhen(ops, M) == [k \in 1 .. Len(ops) |-> When(ops[k], M)] \o <<>>
AllBarring(ops, M) == [k \in 1 .. Len(ops) |-> Barring(ops[k], M)] \o <<>>
AllLogged(ops) == [k \in 1 .. Len(ops) |-> Logged(ops[k])] \o <<>>
AllUnless(ops, r) == [k \in 1 .. Len(ops) |-> Unless(ops[k], r)] \o <<>>
MarkLast(ops, m) == [ops EXCEPT ![Len(ops)].mark = m]

\* A step of a workflow (see Workflow): one that is skipped when any of skip
\* holds, one that is skipped when a part of a software is done, and one that
\* cleans up after its own failure.
Step(skip, does, undo) ==
    [grp |-> 0, soft |-> "none", part |-> "installed", skip |-> skip,
     does |-> does, mend |-> <<>>, undo |-> undo]
SoftwareStep(s, part, does, undo) == [Step({}, does, undo) EXCEPT !.soft = s, !.part = part]
Mending(step, ops) == [step EXCEPT !.mend = AllLogged(ops)]
InGroup(g, steps) == [k \in 1 .. Len(steps) |-> [steps[k] EXCEPT !.grp = g]] \o <<>>
DaemonReload == Set({})
=============================================================================
