---------------------------- MODULE StateManager ----------------------------
(***************************************************************************)
(* Commands of the CLI that share the state file (internal/state,          *)
(* internal/rsl, internal/bll/base_handler.go).                            *)
(*                                                                         *)
(* Every invocation is a process with a state manager of its own: it       *)
(* refreshes from state.yaml, patches what it read and flushes it back     *)
(* under optimistic concurrency (a hash baseline compared with the file    *)
(* before an atomic rename).  Nothing is locked between processes, so the  *)
(* steps below end at every read or write of a shared file.                *)
(*                                                                         *)
(* A state record is what only state.yaml knows.  Each command or hand     *)
(* edit that sets something leaves its mark in the record: in "bn" (what   *)
(* the block node checker carries over: shaping, traffic-shaping decision) *)
(* or in "mach" (what is read with the machine state: profile, firewall).  *)
(* Everything the reality checkers probe again is left out.  The hash of a *)
(* record is the record.                                                   *)
(***************************************************************************)
EXTENDS Integers, Sequences, FiniteSets

CONSTANTS
    Procs,      \* invocations of the CLI
    Intents,    \* those that run an intent; the others are `network firewall`
    Edits,      \* edits of state.yaml by hand or by another tool
    NoFile, Broken, NoHash, None

VARIABLES
    file,       \* state.yaml: NoFile, or its record and its stored hash
    history,    \* action_history.yaml
    pc,         \* where a process is
    mem,        \* m.state: a record and its Hash field
    base,       \* m.lastStateHash
    bn,         \* BlockNodeRuntime.state, captured before the machine refresh
    out,        \* what the process reported
    unedited,   \* edits that may still come
    \* history of the model
    disturbed,  \* the file changed since this process last refreshed
    lateProbe,  \* marks that reached the file while the process was probing
    lateWrite,  \* marks that reached the file between its check and its rename
    kept,       \* edits that left the stored hash as it was
    lost        \* how marks got lost: "edit" (a broken file), or overwritten unread:
                \* in a window, "probe" or "write", as the edit left the stored hash,
                \* "stale", or otherwise, "undetected"

procVars == <<mem, base, bn, history>>
vars == <<file, history, pc, mem, base, bn, out, unedited, disturbed, lateProbe, lateWrite, kept, lost>>

Marks == Procs \cup Edits
Record == [bn : SUBSET Marks, mach : SUBSET Marks, last : Procs \cup {None}]
Files == {NoFile} \cup [rec : Record \cup {Broken}, hash : Record \cup {NoHash}]

\* A file that is there is not taken for one that is not, nor a record for one
\* that does not parse.
ASSUME ConstantsAssumption ==
    /\ Intents \subseteq Procs
    /\ Procs \cap Edits = {} /\ None \notin Procs
    /\ Broken \notin Record
    /\ NoFile \notin [rec : Record \cup {Broken}, hash : Record \cup {NoHash}]

NewState == [rec |-> [bn |-> {}, mach |-> {}, last |-> None], hash |-> NoHash]

Init ==
    /\ file \in {NoFile, [rec |-> NewState.rec, hash |-> NewState.rec]}
    /\ history = <<>>
    /\ pc = [p \in Procs |-> "new"]
    /\ mem = [p \in Procs |-> NewState]
    /\ base = [p \in Procs |-> NoHash]
    /\ bn = [p \in Procs |-> {}]
    /\ out = [p \in Procs |-> "none"]
    /\ unedited = Edits
    /\ disturbed = [p \in Procs |-> FALSE]
    /\ lateProbe = [p \in Procs |-> {}]
    /\ lateWrite = [p \in Procs |-> {}]
    /\ kept = {} /\ lost = {}

Goto(p, l) == pc' = [pc EXCEPT ![p] = l]
Fail(p, why) == Goto(p, "failed") /\ out' = [out EXCEPT ![p] = why]

-----------------------------------------------------------------------------
\* Refresh reads the file over a clone of the state in memory: what the file
\* does not say keeps its value, so a file without a hash leaves the Hash of the
\* clone, and the in-memory LastAction always wins in the end.
Over(old, f) == IF f.hash = NoHash THEN old.hash ELSE f.hash

Refreshed(old) ==
    IF file = NoFile THEN old
    ELSE [rec |-> [file.rec EXCEPT !.last = old.rec.last], hash |-> Over(old, file)]

Baseline(old, b) ==
    CASE file = NoFile -> b
      [] file # NoFile /\ Over(old, file) # NoHash -> Over(old, file)
      [] OTHER -> [file.rec EXCEPT !.last = IF @ = None THEN old.rec.last ELSE @]

Readable == file # NoFile => file.rec # Broken

\* m.Refresh() of process p, after which the caller patches m.state to patched.
Refresh(p, patched) ==
    /\ Readable
    /\ mem' = [mem EXCEPT ![p] = patched]
    /\ base' = [base EXCEPT ![p] = Baseline(mem[p], @)]
    /\ disturbed' = [disturbed EXCEPT ![p] = FALSE]

\* Setup: a new manager, refreshed.
Setup(p) ==
    /\ p \in Intents /\ pc[p] = "new"
    /\ Refresh(p, Refreshed(mem[p]))
    /\ Goto(p, "setup")
    /\ UNCHANGED <<file, history, bn, out, unedited, lateProbe, lateWrite, kept, lost>>

\* HandleIntent up to FlushState: refresh, run the workflow (whose failure is
\* flushed like its success), AddActionHistory.
HandleIntent(p) ==
    /\ pc[p] = "setup"
    /\ Refresh(p, [Refreshed(mem[p]) EXCEPT !.rec.last = p])
    /\ Goto(p, "ran")
    /\ UNCHANGED <<file, history, bn, out, unedited, lateProbe, lateWrite, kept, lost>>

\* FlushState, RuntimeResolver.Refresh: the manager is refreshed and the block
\* node checker takes its part of it, then asks Helm and the cluster.
RefreshBlockNode(p) ==
    /\ pc[p] = "ran"
    /\ Refresh(p, Refreshed(mem[p]))
    /\ bn' = [bn EXCEPT ![p] = Refreshed(mem[p]).rec.bn]
    /\ Goto(p, "probing")
    /\ UNCHANGED <<file, history, out, unedited, lateProbe, lateWrite, kept, lost>>

\* The machine checker refreshes the manager once more; CurrentState composes
\* the parts; the profile and the callback patch the result; Set.
RefreshMachine(p) ==
    /\ pc[p] = "probing"
    /\ Refresh(p, [Refreshed(mem[p]) EXCEPT !.rec.bn = bn[p] \cup {p},
                                            !.rec.mach = @ \cup {p}])
    /\ Goto(p, "flush")
    /\ UNCHANGED <<file, history, bn, out, unedited, lateProbe, lateWrite, kept, lost>>

\* `network firewall create|delete`: refresh, patch the decision, Set.
WriteHostFirewallDecision(p) ==
    /\ p \in Procs \ Intents /\ pc[p] = "new"
    /\ Refresh(p, [Refreshed(mem[p]) EXCEPT !.rec.mach = @ \cup {p}])
    /\ Goto(p, "flush")
    /\ UNCHANGED <<file, history, bn, out, unedited, lateProbe, lateWrite, kept, lost>>

\* A refresh that cannot read or parse the file, or a checker that fails.
RefreshFails(p) ==
    /\ pc[p] \in {"new", "setup", "ran", "probing"}
    /\ Fail(p, "refresh")
    /\ UNCHANGED <<file, procVars, unedited, disturbed, lateProbe, lateWrite, kept, lost>>

-----------------------------------------------------------------------------
\* flushState up to the rename: the file that exists must have the hash of the
\* baseline.
DiskHash == IF file.hash = NoHash THEN file.rec ELSE file.hash

\* Variants: no comparison; a comparison with the new state.
FlushCheck_AnyHash(p) ==
    /\ pc[p] = "flush"
    /\ IF file # NoFile /\ (base[p] = NoHash \/ file.rec = Broken)
       THEN Fail(p, "no baseline")
       ELSE Goto(p, "write") /\ UNCHANGED out
    /\ UNCHANGED <<file, procVars, unedited, disturbed, lateProbe, lateWrite, kept, lost>>

FlushCheck_AgainstNew(p) ==
    /\ pc[p] = "flush"
    /\ IF file # NoFile /\ (base[p] = NoHash \/ file.rec = Broken \/ DiskHash # mem[p].rec)
       THEN Fail(p, "changed externally")
       ELSE Goto(p, "write") /\ UNCHANGED out
    /\ UNCHANGED <<file, procVars, unedited, disturbed, lateProbe, lateWrite, kept, lost>>

FlushCheck(p) ==
    /\ pc[p] = "flush"
    /\ CASE file = NoFile -> Goto(p, "write") /\ UNCHANGED out
         [] file # NoFile /\ base[p] = NoHash -> Fail(p, "no baseline")
         [] file # NoFile /\ base[p] # NoHash /\ file.rec = Broken -> Fail(p, "not parseable")
         [] OTHER -> IF DiskHash = base[p] THEN Goto(p, "write") /\ UNCHANGED out
                                           ELSE Fail(p, "changed externally")
    /\ UNCHANGED <<file, procVars, unedited, disturbed, lateProbe, lateWrite, kept, lost>>

\* Bookkeeping of a change of the file by somebody: who has not read it.
Arrives(marks, others) ==
    /\ disturbed' = [q \in Procs |-> disturbed[q] \/ q \in others]
    /\ lateProbe' = [q \in Procs |-> IF q \in others /\ pc[q] = "probing"
                                     THEN lateProbe[q] \cup marks ELSE lateProbe[q]]
    /\ lateWrite' = [q \in Procs |-> IF q \in others /\ pc[q] = "write"
                                     THEN lateWrite[q] \cup marks ELSE lateWrite[q]]

\* The marks in record r and not in record s.
Beyond(r, s) == (r.bn \ s.bn) \cup (r.mach \ s.mach)
Present == IF file = NoFile \/ file.rec = Broken THEN NewState.rec ELSE file.rec

Cause(p, m) ==
    CASE m \in lateWrite[p] -> "write"
      [] m \notin lateWrite[p] /\ m \in lateProbe[p] -> "probe"
      [] m \notin lateWrite[p] \cup lateProbe[p] /\ m \in kept -> "stale"
      [] OTHER -> "undetected"

\* The rename: temp file and rename are atomic, and the record written is the
\* new state in memory and the new baseline.  FlushState ends here, FlushAll
\* goes on to the action history.
FlushWrite(p) ==
    LET rec == mem[p].rec
    IN  /\ pc[p] = "write"
        /\ file' = [rec |-> rec, hash |-> rec]
        /\ mem' = [mem EXCEPT ![p].hash = rec]
        /\ base' = [base EXCEPT ![p] = rec]
        /\ Goto(p, IF p \in Intents THEN "append" ELSE "done")
        /\ lost' = lost \cup {Cause(p, m) : m \in Beyond(Present, rec)}
        /\ Arrives(Beyond(rec, Present), Procs \ {p})
        /\ UNCHANGED <<history, bn, out, unedited, kept>>

FlushWriteFails(p) ==
    /\ pc[p] = "write"
    /\ Fail(p, "write")
    /\ UNCHANGED <<file, procVars, unedited, disturbed, lateProbe, lateWrite, kept, lost>>

\* Variant: an error of the append is ignored.
FlushActionHistory_IgnoresError(p) ==
    /\ pc[p] = "append"
    /\ \/ history' = Append(history, p)
       \/ UNCHANGED history
    /\ Goto(p, "done")
    /\ UNCHANGED <<file, mem, base, bn, out, unedited, disturbed, lateProbe, lateWrite, kept, lost>>

\* flushActionHistory: the pending entries are appended and dropped from memory.
FlushActionHistory(p) ==
    /\ pc[p] = "append"
    /\ \/ /\ history' = Append(history, p)
          /\ Goto(p, "done")
          /\ UNCHANGED out
       \/ /\ Fail(p, "append")
          /\ UNCHANGED history
    /\ UNCHANGED <<file, mem, base, bn, unedited, disturbed, lateProbe, lateWrite, kept, lost>>

-----------------------------------------------------------------------------
\* The process is killed between two steps.
Crash(p) ==
    /\ pc[p] \notin {"new", "done", "failed", "crashed"}
    /\ Goto(p, "crashed")
    /\ UNCHANGED <<file, procVars, out, unedited, disturbed, lateProbe, lateWrite, kept, lost>>

EditKinds == {"keeps", "drops", "breaks"}

\* Somebody edits state.yaml: adds a setting to one part and keeps the stored
\* hash or drops it, or leaves a file that no longer parses.
Edit(e, kind) ==
    /\ e \in unedited
    /\ file # NoFile /\ file.rec # Broken
    /\ unedited' = unedited \ {e}
    /\ \E part \in {"bn", "mach"} :
         file' = CASE kind = "keeps" -> [file EXCEPT !.rec[part] = @ \cup {e}]
                   [] kind = "drops" -> [rec |-> [file.rec EXCEPT ![part] = @ \cup {e}], hash |-> NoHash]
                   [] kind = "breaks" -> [rec |-> Broken, hash |-> NoHash]
    /\ kept' = IF kind = "keeps" THEN kept \cup {e} ELSE kept
    /\ lost' = IF kind = "breaks" THEN lost \cup {"edit"} ELSE lost
    /\ Arrives({e}, Procs)
    /\ UNCHANGED <<procVars, pc, out>>

ProcStep(p) ==
    \/ Setup(p) \/ HandleIntent(p) \/ RefreshBlockNode(p) \/ RefreshMachine(p)
    \/ WriteHostFirewallDecision(p) \/ RefreshFails(p)
    \/ FlushCheck(p) \/ FlushWrite(p) \/ FlushWriteFails(p) \/ FlushActionHistory(p)
    \/ Crash(p)

Next ==
    \/ \E p \in Procs : ProcStep(p)
    \/ \E e \in Edits, kind \in EditKinds : Edit(e, kind)

Spec == Init /\ [][Next]_vars
-----------------------------------------------------------------------------
\* Optimistic concurrency (flushState): a flush overwrites a setting it has not
\* read only if the setting reached the file between the check and the rename,
\* or between the two refreshes that one composed state is read from, or by an
\* edit that left the stored hash as it was.
LostOnlyInWindows == "undetected" \notin lost

\* A command that reported success has left its settings in the file, and an
\* intent its action in the history, as long as nothing was lost in a window or
\* by an edit.
DoneIsDurable ==
    \A p \in Procs : pc[p] = "done" /\ lost = {} =>
        /\ file # NoFile
        /\ p \in file.rec.mach
        /\ p \in Intents => p \in file.rec.bn /\ (\E k \in DOMAIN history : history[k] = p)

\* flushState reports an external change, or a missing baseline, only when the
\* file changed after the process last refreshed from it, or has no hash: over
\* such a file Refresh keeps the older hash as the baseline.
NoFalseAlarm ==
    \A p \in Procs : out[p] \in {"changed externally", "no baseline"} =>
        disturbed[p] \/ (file # NoFile /\ file.hash = NoHash)
=============================================================================
