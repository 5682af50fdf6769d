------------------------------ MODULE Workflow ------------------------------
(***************************************************************************)
(* One weaver process at a time runs one command, and a command is a       *)
(* workflow of steps on the host (internal/workflows, executed by the      *)
(* automa library).  A command is a record:                                *)
(*    steps      the steps, in order                                       *)
(*    modes      the execution modes it may be given                       *)
(*    handler    it goes through a handler of internal/bll                 *)
(*    accepts    it is refused unless the host meets one of these          *)
(*               (no requirement at all: never refused)                    *)
(*    saves      what the handler changes in the state file when it        *)
(*               flushes                                                   *)
(*    then       the workflow that a success is followed by, or "none": it *)
(*               stops at an error, and is left out where it is refused    *)
(* and a step is a record:                                                 *)
(*    grp        the top-level group of the workflow it belongs to         *)
(*    soft,part  the step is skipped when the machine state this process   *)
(*               loaded says that part of this software is done; when no   *)
(*               state is recorded, or soft is "none", the host is asked   *)
(*    skip       a set of requirements, each of which skips the step       *)
(*    does       the operations, in order                                  *)
(*    mend       what the step itself does when one of them fails          *)
(*    undo       the rollback, in order                                    *)
(* Step flags (InstalledByThisStep and the like) live in the process.      *)
(* Faults are an error of an operation (which may have been done in part)  *)
(* and a kill of the process; both are bounded by MaxFaults.               *)
(***************************************************************************)
EXTENDS HostOps, FiniteSetsExt

CONSTANTS Program,        \* the commands
          Hosts,          \* the hosts a first command may find, by name
          Sessions,       \* what an operator does: on which hosts, and the
                          \* commands there is a choice of, one after the other
          Software,       \* the software the reality checker knows
          InstalledWhen,  \* what its verification asks of the host, per software
          ConfiguredWhen,
          MaxFaults

VARIABLES host,      \* the host
          recorded,  \* MachineState.Software in state.yaml
          seen,      \* the copy the running process works with
          run,       \* the running command
          flags,     \* the step flags set by this process
          faults,    \* faults so far
          trail,     \* how the last two commands ended
          begun,     \* commands begun
          before,    \* the host as the running command found it
          session    \* what the operator does

vars == <<host, recorded, seen, run, flags, faults, trail, begun, before, session>>

NoRecord == [s \in {} |-> {}]
NoRun == [cmd |-> "none", of |-> "none", mode |-> "none", dir |-> "none", step |-> 0, op |-> 0,
          failed |-> FALSE, faulty |-> FALSE]

Steps(c) == Program[c].steps

\* What the reality checker finds: a configuration is only looked at when the
\* installation verifies.
VerifyInstallation(s, h) ==
    [installed |-> Holds(InstalledWhen[s], h),
     configured |-> Holds(InstalledWhen[s], h) /\ Holds(ConfiguredWhen[s], h)]

RefreshState(h) == [s \in Software |-> VerifyInstallation(s, h)]

\* IsInstalled and IsConfigured ask the loaded machine state when it has the
\* software, and the disk otherwise.
checkInstallation(s, known, h) ==
    IF s \in DOMAIN known THEN known[s] ELSE VerifyInstallation(s, h)

Skips(st, h, known) ==
    \/ st.soft # "none" /\ checkInstallation(st.soft, known, h)[st.part]
    \/ \E r \in st.skip : Holds(r, h)

\* The operations of step i, from the j-th on, that are not left out.
Runnable(ops, i, j, h, set) ==
    {k \in j .. Len(ops) :
        /\ ops[k].when = {} \/ \E m \in ops[k].when : <<i, m>> \in set
        /\ \A m \in ops[k].bar : <<i, m>> \notin set
        /\ ~LeftOut(ops[k], h)}

\* The place where execution goes on, from operation j of step i.
GoOn(c, i, j, h, known, set) ==
    LET does(k, from) == Runnable(Steps(c)[k].does, k, from, h, set)
        here == IF i \in DOMAIN Steps(c) THEN does(i, j) ELSE {}
        end == Len(Steps(c)) + 1
        good(k) == k = end \/ (~Skips(Steps(c)[k], h, known) /\ does(k, 1) # {})
        later == CHOOSE k \in i + 1 .. end : good(k) /\ \A n \in i + 1 .. k - 1 : ~good(n)
    IN  IF here # {} THEN <<i, Min(here)>>
        ELSE <<later, IF later = end THEN 1 ELSE Min(does(later, 1))>>

\* The place where a rollback goes on: the rest of this step's rollback, then
\* the steps before it in reverse.
GoBack(c, i, j, h, set) ==
    LET undo(k, from) == Runnable(Steps(c)[k].undo, k, from, h, set)
        here == IF i \in DOMAIN Steps(c) THEN undo(i, j) ELSE {}
        earlier == {k \in 1 .. i - 1 : undo(k, 1) # {}}
    IN  IF here # {} THEN <<i, Min(here)>>
        ELSE IF earlier # {} THEN <<Max(earlier), Min(undo(Max(earlier), 1))>>
        ELSE <<0, 1>>

To(r, at) == [r EXCEPT !.step = at[1], !.op = at[2]]

\* The execution mode decides what follows a failed step: the next top-level
\* group, the rollback from the failed step on, or nothing.
AfterError(r, h, known, set) ==
    LET i == r.step
        group == {k \in i .. Len(Steps(r.cmd)) : Steps(r.cmd)[k].grp = Steps(r.cmd)[i].grp}
        past == 1 + Len(Steps(r.cmd)[Max(group)].does)
    IN  CASE r.mode = "continue" ->
               To([r EXCEPT !.dir = "do"], GoOn(r.cmd, Max(group), past, h, known, set))
          [] r.mode = "rollback" ->
               To([r EXCEPT !.dir = "undo"], GoBack(r.cmd, i, 1, h, set))
          [] r.mode = "stop" ->
               To([r EXCEPT !.dir = "undo"], <<0, 1>>)

\* A failed step cleans up first.
GoMend(r, j, h, known, set) ==
    LET mend == Runnable(Steps(r.cmd)[r.step].mend, r.step, j, h, set)
    IN  IF mend # {} THEN To([r EXCEPT !.dir = "mend"], <<r.step, Min(mend)>>)
        ELSE AfterError(r, h, known, set)

Init == /\ session \in Sessions /\ host \in {Hosts[n] : n \in session.on}
        /\ recorded = NoRecord /\ seen = NoRecord
        /\ run = NoRun /\ flags = {} /\ faults = 0
        /\ trail = <<>> /\ begun = 0 /\ before = host

Accepts(c, h) == Program[c].accepts = {} \/ \E r \in Program[c].accepts : Holds(r, h)

Report(entry) ==
    trail' = IF Len(trail) < 2 THEN Append(trail, entry) ELSE <<trail[2], entry>>

\* A command starts: the process loads state.yaml (common.Setup), and a
\* handler refreshes the machine state from the host (HandleIntent).
Begin(c, m) ==
    /\ Accepts(c, host)
    /\ begun' = begun + 1
    /\ seen' = IF Program[c].handler THEN RefreshState(host) ELSE recorded
    /\ before' = host /\ flags' = {}
    /\ run' = To([NoRun EXCEPT !.cmd = c, !.of = c, !.mode = m, !.dir = "do"],
                 GoOn(c, 0, 1, host, seen', {}))
    /\ UNCHANGED <<host, recorded, faults, trail, session>>

\* The command's checks refuse the host before anything runs: nothing is
\* changed and nothing is flushed.
Refuse(c) ==
    /\ ~Accepts(c, host)
    /\ begun' = begun + 1 /\ before' = host
    /\ Report([cmd |-> c, result |-> "refused", faulty |-> FALSE])
    /\ UNCHANGED <<host, recorded, seen, run, flags, faults, session>>

Working == run.step \in 1 .. (IF run = NoRun THEN 0 ELSE Len(Steps(run.cmd)))
OpsOf(st) == CASE run.dir = "do" -> st.does [] run.dir = "mend" -> st.mend [] OTHER -> st.undo
Now == OpsOf(Steps(run.cmd)[run.step])[run.op]

\* The place after this operation.
Onward(r, h, set) ==
    CASE r.dir = "do" -> To(r, GoOn(r.cmd, r.step, r.op + 1, h, seen, set))
      [] r.dir = "mend" -> GoMend(r, r.op + 1, h, seen, set)
      [] OTHER -> To(r, GoBack(r.cmd, r.step, r.op + 1, h, set))

\* The operation succeeds.
Do ==
    /\ Working /\ Holds(Now.needs, host)
    /\ host' = Done(Now, host)
    /\ flags' = flags \cup IF Now.mark = "none" THEN {} ELSE {<<run.step, Now.mark>>}
    /\ recorded' = IF Now.do = "forget" THEN NoRecord ELSE recorded
    /\ run' = Onward(run, host', flags')
    /\ UNCHANGED <<seen, faults, trail, begun, before, session>>

\* The operation returns an error: because what it needs is not there, or
\* because the system refuses it, perhaps after part of the work.  An error
\* that the code only logs does not stop the step; an error of a rollback ends
\* the rollback of that step.
Error ==
    /\ Working
    /\ \/ ~Holds(Now.needs, host) /\ host' = host /\ faults' = faults
       \/ /\ Holds(Now.needs, host) /\ faults < MaxFaults
          /\ host' \in CutShort(Now, host) /\ faults' = faults + 1
    /\ LET r == [run EXCEPT !.faulty = @ \/ faults' # faults] IN
       run' = CASE ~Now.hard -> Onward(r, host', flags)
                [] Now.hard /\ run.dir = "do" ->
                     GoMend([r EXCEPT !.failed = TRUE], 1, host', seen, flags)
                [] OTHER -> To(r, GoBack(run.cmd, run.step, 1 + Len(OpsOf(Steps(run.cmd)[run.step])),
                                         host', flags))
    /\ UNCHANGED <<recorded, seen, flags, trail, begun, before, session>>

\* The process dies in the middle of an operation.
Kill ==
    /\ Working
    /\ faults < MaxFaults /\ faults' = faults + 1
    /\ host' \in CutShort(Now, host)
    /\ Report([cmd |-> run.of, result |-> "killed", faulty |-> TRUE])
    /\ run' = NoRun /\ seen' = NoRecord /\ flags' = {}
    /\ UNCHANGED <<recorded, begun, before, session>>

\* FlushState: whatever the workflow's result, a handler refreshes the machine
\* state once more, patches the state and writes state.yaml, which may fail.
FlushState(saved) ==
    LET p == Program[run.cmd] IN
    \/ /\ saved /\ faults' = faults
       /\ recorded' = IF p.handler THEN RefreshState(host) ELSE recorded
       /\ host' = p.saves @@ host
    \/ /\ ~saved /\ p.handler /\ faults < MaxFaults /\ faults' = faults + 1
       /\ UNCHANGED <<recorded, host>>

\* A success may be followed by a second workflow of the same command.
FollowUp(c) ==
    /\ run' = To([run EXCEPT !.cmd = c, !.mode = "stop"], GoOn(c, 0, 1, host', seen, {}))
    /\ flags' = {} /\ UNCHANGED <<seen, trail>>

\* The command reports.
End(result) ==
    /\ Report([cmd |-> run.of, faulty |-> run.faulty \/ faults' # faults, result |-> result])
    /\ run' = NoRun /\ seen' = NoRecord /\ flags' = {}

\* The workflow ends.
Finish ==
    /\ run # NoRun /\ ~Working
    /\ \E saved \in BOOLEAN :
         /\ FlushState(saved)
         /\ LET next == Program[run.cmd].then IN
            CASE ~saved -> End("unsaved")
              [] saved /\ run.failed -> End(IF run.mode = "rollback" THEN "undone" ELSE "failed")
              [] OTHER -> IF next # "none" /\ Accepts(next, host') THEN FollowUp(next) ELSE End("ok")
    /\ UNCHANGED <<begun, before, session>>

Next ==
    \/ /\ run = NoRun /\ begun < Len(session.plan)
       /\ \E c \in session.plan[begun + 1] :
             Refuse(c) \/ \E m \in Program[c].modes : Begin(c, m)
    \/ Do \/ Error \/ Kill \/ Finish

Spec == Init /\ [][Next]_vars
=============================================================================
