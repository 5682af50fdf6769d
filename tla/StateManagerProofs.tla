-------------------------- MODULE StateManagerProofs --------------------------
(***************************************************************************)
(* For any number of invocations, intents and edits: flushState raises no  *)
(* false alarm, and what a command reported as done is in the files unless *)
(* something was lost in one of the named windows.                         *)
(***************************************************************************)
EXTENDS StateManager, TLAPS

Places == {"new", "setup", "ran", "probing", "flush", "write", "append", "done", "failed", "crashed"}

TypeInv ==
    /\ file \in Files
    /\ history \in Seq(Procs)
    /\ pc \in [Procs -> Places]
    /\ mem \in [Procs -> [rec : Record, hash : Record \cup {NoHash}]]
    /\ base \in [Procs -> Record \cup {NoHash}]
    /\ bn \in [Procs -> SUBSET Marks]
    /\ out \in [Procs -> {"none", "refresh", "no baseline", "not parseable", "changed externally",
                          "write", "append"}]
    /\ disturbed \in [Procs -> BOOLEAN]

\* A process about to flush holds the hash of the file, unless the file has
\* changed since it refreshed or has no hash to hold; only a process that has
\* failed has an error to report.
AlarmInv ==
    \A p \in Procs :
        /\ out[p] # "none" => pc[p] = "failed"
        /\ pc[p] = "flush" /\ ~disturbed[p] /\ file # NoFile /\ file.hash # NoHash
             => base[p] = file.hash

\* The settings of a process are in its memory until it has written the file,
\* and in the file from then on; as long as nothing was lost, the file parses.
DurableInv ==
    /\ lost = {} /\ file # NoFile => file.rec # Broken
    /\ \A p \in Procs :
        /\ pc[p] \in {"flush", "write"} =>
             /\ p \in mem[p].rec.mach
             /\ p \in Intents => p \in mem[p].rec.bn
        /\ pc[p] \in {"append", "done"} /\ lost = {} =>
             /\ file # NoFile
             /\ p \in file.rec.mach
             /\ p \in Intents => p \in file.rec.bn
        /\ pc[p] = "done" /\ p \in Intents => \E k \in DOMAIN history : history[k] = p

IInv == TypeInv /\ AlarmInv /\ NoFalseAlarm /\ DurableInv

-----------------------------------------------------------------------------
Managed == [rec : Record, hash : Record \cup {NoHash}]

\* What Refresh leaves in memory is a state, and the baseline is a hash: that
\* of the file when it stores one.
LEMMA RefreshReads ==
    ASSUME TypeInv, Readable, NEW p \in Procs
    PROVE  /\ Refreshed(mem[p]) \in Managed
           /\ Baseline(mem[p], base[p]) \in Record \cup {NoHash}
           /\ file # NoFile /\ file.hash # NoHash => Baseline(mem[p], base[p]) = file.hash
<1>1. mem[p] \in Managed /\ base[p] \in Record \cup {NoHash}
  BY DEF TypeInv, Managed
<1>2. CASE file = NoFile
  BY <1>1, <1>2 DEF Refreshed, Baseline
<1>3. CASE file # NoFile
  <2>1. file.rec \in Record /\ file.hash \in Record \cup {NoHash}
    BY <1>3 DEF TypeInv, Files, Readable
  <2>2. mem[p].rec.last \in Procs \cup {None} /\ mem[p].hash \in Record \cup {NoHash}
    BY <1>1 DEF Managed, Record
  <2>3. \A l \in Procs \cup {None} : [file.rec EXCEPT !.last = l] \in Record
    BY <2>1 DEF Record
  <2>4. Over(mem[p], file) \in Record \cup {NoHash}
    BY <2>1, <2>2 DEF Over
  <2>5. Refreshed(mem[p]) \in Managed
    BY <1>3, <2>2, <2>3, <2>4 DEF Refreshed, Managed
  <2>6. [file.rec EXCEPT !.last = IF @ = None THEN mem[p].rec.last ELSE @] \in Record
    BY <2>1, <2>2 DEF Record
  <2>7. Baseline(mem[p], base[p]) \in Record \cup {NoHash}
    BY <1>3, <2>4, <2>6 DEF Baseline
  <2>8. file.hash # NoHash => Baseline(mem[p], base[p]) = file.hash
    BY <1>3 DEF Baseline, Over
  <2> QED BY <2>5, <2>7, <2>8
<1> QED BY <1>2, <1>3

\* Patching a state sets fields of its record.
LEMMA PatchTyped ==
    ASSUME NEW s \in Managed, NEW B \in SUBSET Marks, NEW p \in Procs
    PROVE  /\ [s EXCEPT !.rec.last = p] \in Managed
           /\ LET t == [s EXCEPT !.rec.mach = @ \cup {p}]
              IN  t \in Managed /\ p \in t.rec.mach
           /\ LET t == [s EXCEPT !.rec.bn = B \cup {p}, !.rec.mach = @ \cup {p}]
              IN  t \in Managed /\ p \in t.rec.mach /\ p \in t.rec.bn
  BY Zenon DEF Managed, Record, Marks

\* A refresh by p that lands at place l with the state s in memory: the common
\* part of the five actions that read the file.
Reads(p, s, l) ==
    /\ Readable /\ Refresh(p, s) /\ Goto(p, l)
    /\ UNCHANGED <<file, history, out, lost>>

\* Every action that reads the file keeps the invariant, if the state in memory
\* holds the settings of the process by the time it is about to flush.
LEMMA ReadsKeeps ==
    ASSUME IInv, NEW p \in Procs, NEW s \in Managed, NEW l \in {"setup", "ran", "probing", "flush"},
           pc[p] \in {"new", "setup", "ran", "probing"}, Reads(p, s, l), bn' \in [Procs -> SUBSET Marks],
           l = "flush" => p \in s.rec.mach /\ (p \in Intents => p \in s.rec.bn)
    PROVE  IInv'
<1>1. TypeInv /\ AlarmInv /\ NoFalseAlarm /\ DurableInv
  BY DEF IInv
<1>2. Baseline(mem[p], base[p]) \in Record \cup {NoHash}
      /\ (file # NoFile /\ file.hash # NoHash => Baseline(mem[p], base[p]) = file.hash)
  BY <1>1, RefreshReads DEF Reads
<1>3. /\ mem' = [mem EXCEPT ![p] = s] /\ base' = [base EXCEPT ![p] = Baseline(mem[p], base[p])]
      /\ disturbed' = [disturbed EXCEPT ![p] = FALSE] /\ pc' = [pc EXCEPT ![p] = l]
      /\ file' = file /\ history' = history /\ out' = out /\ lost' = lost
  BY DEF Reads, Refresh, Goto
<1>4. TypeInv'
  BY <1>1, <1>2, <1>3 DEF TypeInv, Managed, Places
<1>5. AlarmInv'
  BY <1>1, <1>2, <1>3 DEF AlarmInv, TypeInv
<1>6. NoFalseAlarm'
  BY <1>1, <1>3 DEF AlarmInv, NoFalseAlarm, TypeInv
<1>7. DurableInv'
  BY <1>1, <1>3 DEF DurableInv, TypeInv
<1> QED BY <1>4, <1>5, <1>6, <1>7 DEF IInv

\* A process that goes on, fails or dies without touching the file, its memory
\* or the history keeps the invariant, given that an alarm it reports is true.
LEMMA MovesKeep ==
    ASSUME IInv, NEW p \in Procs, NEW l \in Places, NEW o,
           UNCHANGED <<file, procVars, disturbed, lost>>,
           pc' = [pc EXCEPT ![p] = l], out' = [out EXCEPT ![p] = o],
           o \in {"none", "refresh", "no baseline", "not parseable", "changed externally", "write", "append"},
           l \notin {"flush", "append", "done"}, l = "write" => pc[p] = "flush",
           o # "none" => l = "failed",
           o \in {"changed externally", "no baseline"} => disturbed[p] \/ (file # NoFile /\ file.hash = NoHash)
    PROVE  IInv'
<1>1. TypeInv /\ AlarmInv /\ NoFalseAlarm /\ DurableInv
  BY DEF IInv
<1>2. file' = file /\ history' = history /\ mem' = mem /\ base' = base /\ bn' = bn
      /\ disturbed' = disturbed /\ lost' = lost
  BY DEF procVars
<1>3. TypeInv'
  BY <1>1, <1>2 DEF TypeInv
<1>4. AlarmInv'
  BY <1>1, <1>2 DEF AlarmInv, TypeInv
<1>5. NoFalseAlarm'
  BY <1>1, <1>2 DEF NoFalseAlarm, TypeInv
<1>6. DurableInv'
  BY <1>1, <1>2 DEF DurableInv, TypeInv
<1> QED BY <1>3, <1>4, <1>5, <1>6 DEF IInv

\* FlushWrite puts the settings of the process into the file, and overwrites
\* those of another one only with a note in lost.
LEMMA WriteKeeps ==
    ASSUME IInv, NEW p \in Procs, FlushWrite(p)
    PROVE  IInv'
<1> DEFINE rec == mem[p].rec
<1>1. TypeInv /\ AlarmInv /\ NoFalseAlarm /\ DurableInv
  BY DEF IInv
<1>2. /\ pc[p] = "write" /\ file' = [rec |-> rec, hash |-> rec]
      /\ mem' = [mem EXCEPT ![p].hash = rec] /\ base' = [base EXCEPT ![p] = rec]
      /\ pc' = [pc EXCEPT ![p] = IF p \in Intents THEN "append" ELSE "done"]
      /\ lost' = lost \cup {Cause(p, m) : m \in Beyond(Present, rec)}
      /\ disturbed' = [q \in Procs |-> disturbed[q] \/ q \in Procs \ {p}]
      /\ history' = history /\ bn' = bn /\ out' = out
  BY DEF FlushWrite, Goto, Arrives
<1>3. rec \in Record /\ mem[p] \in Managed
  BY <1>1 DEF TypeInv, Managed
<1>4. file' \in Files /\ file' # NoFile /\ file'.rec = rec /\ file'.rec # Broken
  BY <1>2, <1>3, ConstantsAssumption DEF Files
<1>5. \A q \in Procs : mem'[q].rec = mem[q].rec /\ mem'[q] \in Managed
  BY <1>1, <1>2, <1>3 DEF TypeInv, Managed
<1>6. TypeInv'
  <2>1. mem' \in [Procs -> Managed]
    BY <1>1, <1>2, <1>5 DEF TypeInv
  <2>2. pc' \in [Procs -> Places]
    BY <1>1, <1>2 DEF TypeInv, Places
  <2>3. base' \in [Procs -> Record \cup {NoHash}] /\ disturbed' \in [Procs -> BOOLEAN]
    BY <1>1, <1>2, <1>3 DEF TypeInv
  <2> QED BY <1>1, <1>2, <1>4, <2>1, <2>2, <2>3 DEF TypeInv, Managed
<1>7. AlarmInv' /\ NoFalseAlarm'
  BY <1>1, <1>2 DEF AlarmInv, NoFalseAlarm, TypeInv
<1>8. lost' = {} => /\ lost = {}
                    /\ file # NoFile => file.rec.bn \subseteq rec.bn /\ file.rec.mach \subseteq rec.mach
  <2> SUFFICES ASSUME lost' = {}
               PROVE  /\ lost = {}
                      /\ file # NoFile => file.rec.bn \subseteq rec.bn /\ file.rec.mach \subseteq rec.mach
    OBVIOUS
  <2>1. lost = {} /\ Beyond(Present, rec) = {}
    BY <1>2
  <2>2. file # NoFile => Present = file.rec
    BY <1>1, <2>1 DEF DurableInv, Present
  <2> QED BY <2>1, <2>2 DEF Beyond
<1>9. DurableInv'
  <2>1. (lost = {} /\ file # NoFile => file.rec # Broken)'
    BY <1>4
  <2>2. ASSUME NEW q \in Procs, pc'[q] \in {"flush", "write"}
        PROVE  q \in mem'[q].rec.mach /\ (q \in Intents => q \in mem'[q].rec.bn)
    BY <1>1, <1>2, <1>5, <2>2 DEF DurableInv, TypeInv
  <2>3. ASSUME NEW q \in Procs, pc'[q] \in {"append", "done"}, lost' = {}
        PROVE  q \in file'.rec.mach /\ (q \in Intents => q \in file'.rec.bn)
    <3>1. CASE q = p
      BY <1>1, <1>2, <1>4, <3>1 DEF DurableInv
    <3>2. CASE q # p
      <4>1. pc[q] \in {"append", "done"}
        BY <1>1, <1>2, <2>3, <3>2 DEF TypeInv
      <4> QED BY <1>1, <1>4, <1>8, <2>3, <4>1 DEF DurableInv
    <3> QED BY <3>1, <3>2
  <2>4. ASSUME NEW q \in Procs, pc'[q] = "done", q \in Intents
        PROVE  \E k \in DOMAIN history' : history'[k] = q
    BY <1>1, <1>2, <2>4 DEF DurableInv, TypeInv
  <2> QED BY <1>4, <2>1, <2>2, <2>3, <2>4 DEF DurableInv
<1> QED BY <1>6, <1>7, <1>9 DEF IInv

\* An edit only adds to a record, or breaks the file and is noted.
LEMMA EditKeeps ==
    ASSUME IInv, NEW e \in Edits, NEW kind \in EditKinds, Edit(e, kind)
    PROVE  IInv'
<1>1. TypeInv /\ AlarmInv /\ NoFalseAlarm /\ DurableInv
  BY DEF IInv
<1>2. PICK part \in {"bn", "mach"} :
        file' = CASE kind = "keeps" -> [file EXCEPT !.rec[part] = @ \cup {e}]
                  [] kind = "drops" -> [rec |-> [file.rec EXCEPT ![part] = @ \cup {e}], hash |-> NoHash]
                  [] kind = "breaks" -> [rec |-> Broken, hash |-> NoHash]
  BY Zenon DEF Edit
<1>3. /\ file # NoFile /\ file.rec # Broken
      /\ lost' = IF kind = "breaks" THEN lost \cup {"edit"} ELSE lost
      /\ disturbed' = [q \in Procs |-> disturbed[q] \/ q \in Procs]
      /\ mem' = mem /\ base' = base /\ bn' = bn /\ history' = history /\ pc' = pc /\ out' = out
  BY DEF Edit, Arrives, procVars
<1>4. file.rec \in Record /\ file.hash \in Record \cup {NoHash}
      /\ file \in [rec : Record \cup {Broken}, hash : Record \cup {NoHash}]
  BY <1>1, <1>3 DEF TypeInv, Files
<1> DEFINE more == [file.rec EXCEPT ![part] = @ \cup {e}]
<1>5. /\ more \in Record /\ more # Broken
      /\ file.rec.bn \subseteq more.bn /\ file.rec.mach \subseteq more.mach
  <2>1. CASE part = "bn"
    <3>1. more = [file.rec EXCEPT !.bn = @ \cup {e}]
      BY <2>1
    <3> QED BY <1>4, <3>1, ConstantsAssumption DEF Record, Marks
  <2>2. CASE part = "mach"
    <3>1. more = [file.rec EXCEPT !.mach = @ \cup {e}]
      BY <2>2
    <3> QED BY <1>4, <3>1, ConstantsAssumption DEF Record, Marks
  <2> QED BY <2>1, <2>2
<1>6. /\ kind \in {"keeps", "drops"} => file'.rec = more
      /\ file' \in [rec : Record \cup {Broken}, hash : Record \cup {NoHash}]
  <2>1. CASE kind = "keeps"
    BY <1>2, <1>4, <1>5, <2>1, Zenon
  <2>2. CASE kind = "drops"
    BY <1>2, <1>5, <2>2, Zenon
  <2>3. CASE kind = "breaks"
    BY <1>2, <2>3
  <2> QED BY <2>1, <2>2, <2>3 DEF EditKinds
<1>7. file' \in Files /\ file' # NoFile
  BY <1>6, ConstantsAssumption DEF Files
<1>8. TypeInv'
  BY <1>1, <1>3, <1>7 DEF TypeInv
<1>9. AlarmInv' /\ NoFalseAlarm'
  BY <1>1, <1>3 DEF AlarmInv, NoFalseAlarm, TypeInv
<1>10. lost' = {} => lost = {} /\ file'.rec = more
  BY <1>3, <1>6, Zenon DEF EditKinds
<1>11. DurableInv'
  BY <1>1, <1>3, <1>5, <1>7, <1>10, Zenon DEF DurableInv
<1> QED BY <1>8, <1>9, <1>11 DEF IInv

\* FlushActionHistory, when it succeeds, adds the action of the process.
LEMMA AppendKeeps ==
    ASSUME IInv, NEW p \in Procs, pc[p] = "append", history' = Append(history, p),
           pc' = [pc EXCEPT ![p] = "done"],
           UNCHANGED <<file, mem, base, bn, out, disturbed, lost>>
    PROVE  IInv'
<1>1. TypeInv /\ AlarmInv /\ NoFalseAlarm /\ DurableInv
  BY DEF IInv
<1>2. history \in Seq(Procs)
  BY <1>1 DEF TypeInv
<1>3. /\ history' \in Seq(Procs) /\ \E k \in DOMAIN history' : history'[k] = p
      /\ \A k \in DOMAIN history : k \in DOMAIN history' /\ history'[k] = history[k]
  <2>1. Len(history) + 1 \in DOMAIN history' /\ history'[Len(history) + 1] = p
    BY <1>2
  <2> QED BY <1>2, <2>1
<1>4. TypeInv'
  BY <1>1, <1>3 DEF TypeInv, Places
<1>5. AlarmInv' /\ NoFalseAlarm'
  BY <1>1 DEF AlarmInv, NoFalseAlarm, TypeInv
<1>6. DurableInv'
  <2>1. ASSUME NEW q \in Procs, pc'[q] = "done", q \in Intents
        PROVE  \E k \in DOMAIN history' : history'[k] = q
    <3>1. CASE q = p
      BY <1>3, <3>1
    <3>2. CASE q # p
      <4>1. pc[q] = "done"
        BY <1>1, <2>1, <3>2 DEF TypeInv
      <4>2. PICK k \in DOMAIN history : history[k] = q
        BY <1>1, <2>1, <4>1 DEF DurableInv
      <4> QED BY <1>3, <4>2
    <3> QED BY <3>1, <3>2
  <2>2. \A q \in Procs : pc'[q] \in {"append", "done"} => pc[q] \in {"append", "done"}
    BY <1>1 DEF TypeInv
  <2>3. \A q \in Procs : pc'[q] \in {"flush", "write"} => pc[q] \in {"flush", "write"}
    BY <1>1 DEF TypeInv
  <2> QED BY <1>1, <2>1, <2>2, <2>3 DEF DurableInv
<1> QED BY <1>4, <1>5, <1>6 DEF IInv

\* FlushCheck raises an alarm only over a file that changed or has no hash.
LEMMA CheckKeeps ==
    ASSUME IInv, NEW p \in Procs, FlushCheck(p)
    PROVE  IInv'
<1>1. TypeInv /\ AlarmInv
  BY DEF IInv
<1>2. pc[p] = "flush" /\ UNCHANGED <<file, procVars, disturbed, lost>> /\ out[p] = "none"
  BY <1>1 DEF FlushCheck, AlarmInv
<1>3. \/ pc' = [pc EXCEPT ![p] = "write"] /\ out' = out
      \/ \E o \in {"no baseline", "not parseable", "changed externally"} :
           /\ pc' = [pc EXCEPT ![p] = "failed"] /\ out' = [out EXCEPT ![p] = o]
           /\ o = "no baseline" => file # NoFile /\ base[p] = NoHash
           /\ o = "changed externally" => file # NoFile /\ DiskHash # base[p]
  BY DEF FlushCheck, Fail, Goto
<1>4. CASE pc' = [pc EXCEPT ![p] = "write"] /\ out' = out
  <2>1. out' = [out EXCEPT ![p] = "none"]
    BY <1>1, <1>2, <1>4 DEF TypeInv
  <2> QED BY <1>2, <1>4, <2>1, MovesKeep DEF Places
<1>5. ASSUME NEW o \in {"no baseline", "not parseable", "changed externally"},
             pc' = [pc EXCEPT ![p] = "failed"], out' = [out EXCEPT ![p] = o],
             o = "no baseline" => file # NoFile /\ base[p] = NoHash,
             o = "changed externally" => file # NoFile /\ DiskHash # base[p]
      PROVE  IInv'
  <2>1. o \in {"no baseline", "changed externally"} => disturbed[p] \/ (file # NoFile /\ file.hash = NoHash)
    BY <1>1, <1>2, <1>5 DEF AlarmInv, DiskHash
  <2> QED BY <1>2, <1>5, <2>1, MovesKeep DEF Places
<1> QED BY <1>3, <1>4, <1>5

\* Every step of every process keeps the invariant.
LEMMA ProcStepKeeps ==
    ASSUME IInv, NEW p \in Procs, ProcStep(p)
    PROVE  IInv'
<1>1. TypeInv /\ AlarmInv
  BY DEF IInv
<1>2. Readable => Refreshed(mem[p]) \in Managed
  BY <1>1, RefreshReads
<1>3. bn \in [Procs -> SUBSET Marks]
  BY <1>1 DEF TypeInv
<1>4. CASE Setup(p)
  <2>1. Reads(p, Refreshed(mem[p]), "setup") /\ bn' = bn /\ pc[p] = "new"
    BY <1>4 DEF Setup, Reads, Refresh
  <2>2. Refreshed(mem[p]) \in Managed
    BY <1>2, <2>1 DEF Reads
  <2> QED BY <1>3, <2>1, <2>2, ReadsKeeps
<1>5. CASE HandleIntent(p)
  <2> DEFINE s == [Refreshed(mem[p]) EXCEPT !.rec.last = p]
  <2>1. Reads(p, s, "ran") /\ bn' = bn /\ pc[p] = "setup"
    BY <1>5, Zenon DEF HandleIntent, Reads, Refresh
  <2>2. s \in Managed
    BY <1>2, <1>3, <2>1, PatchTyped, Zenon DEF Reads
  <2> HIDE DEF s
  <2> QED BY <1>3, <2>1, <2>2, ReadsKeeps
<1>6. CASE RefreshBlockNode(p)
  <2>1. /\ Reads(p, Refreshed(mem[p]), "probing") /\ pc[p] = "ran"
        /\ bn' = [bn EXCEPT ![p] = Refreshed(mem[p]).rec.bn]
    BY <1>6 DEF RefreshBlockNode, Reads, Refresh
  <2>2. Refreshed(mem[p]) \in Managed
    BY <1>2, <2>1 DEF Reads
  <2>3. Refreshed(mem[p]).rec.bn \in SUBSET Marks
    BY <2>2 DEF Managed, Record
  <2>4. bn' \in [Procs -> SUBSET Marks]
    BY <1>3, <2>1, <2>3
  <2> QED BY <2>1, <2>2, <2>4, ReadsKeeps
<1>7. CASE RefreshMachine(p)
  <2> DEFINE s == [Refreshed(mem[p]) EXCEPT !.rec.bn = bn[p] \cup {p}, !.rec.mach = @ \cup {p}]
  <2>1. Reads(p, s, "flush") /\ bn' = bn /\ pc[p] = "probing"
    BY <1>7 DEF RefreshMachine, Reads, Refresh
  <2>2. Refreshed(mem[p]) \in Managed /\ bn[p] \in SUBSET Marks
    BY <1>2, <1>3, <2>1, Zenon DEF Reads
  <2>3. s \in Managed /\ p \in s.rec.mach /\ p \in s.rec.bn
    BY <2>2, PatchTyped, Zenon
  <2> HIDE DEF s
  <2> QED BY <1>3, <2>1, <2>3, ReadsKeeps
<1>8. CASE WriteHostFirewallDecision(p)
  <2> DEFINE s == [Refreshed(mem[p]) EXCEPT !.rec.mach = @ \cup {p}]
  <2>1. Reads(p, s, "flush") /\ bn' = bn /\ pc[p] = "new" /\ p \notin Intents
    BY <1>8 DEF WriteHostFirewallDecision, Reads, Refresh
  <2>2. Refreshed(mem[p]) \in Managed /\ bn[p] \in SUBSET Marks
    BY <1>2, <1>3, <2>1, Zenon DEF Reads
  <2>3. s \in Managed /\ p \in s.rec.mach
    BY <2>2, PatchTyped, Zenon
  <2> HIDE DEF s
  <2> QED BY <1>3, <2>1, <2>3, ReadsKeeps
<1>9. CASE RefreshFails(p)
  BY <1>9, MovesKeep DEF RefreshFails, Fail, Goto, Places
<1>10. CASE FlushCheck(p)
  BY <1>10, CheckKeeps
<1>11. CASE FlushWrite(p)
  BY <1>11, WriteKeeps, Zenon
<1>12. CASE FlushWriteFails(p)
  BY <1>12, MovesKeep DEF FlushWriteFails, Fail, Goto, Places
<1>13. CASE FlushActionHistory(p)
  <2>1. CASE history' = Append(history, p) /\ Goto(p, "done") /\ UNCHANGED out
    BY <1>13, <2>1, AppendKeeps, Zenon DEF FlushActionHistory, Goto
  <2>2. CASE Fail(p, "append") /\ UNCHANGED history
    BY <1>13, <2>2, MovesKeep DEF FlushActionHistory, Fail, Goto, Places, procVars
  <2> QED BY <1>13, <2>1, <2>2 DEF FlushActionHistory
<1>14. CASE Crash(p)
  <2>1. out[p] = "none"
    BY <1>1, <1>14 DEF Crash, AlarmInv
  <2>2. out' = [out EXCEPT ![p] = "none"]
    BY <1>1, <1>14, <2>1 DEF Crash, TypeInv
  <2> QED BY <1>14, <2>2, MovesKeep DEF Crash, Goto, Places
<1> QED BY <1>4, <1>5, <1>6, <1>7, <1>8, <1>9, <1>10, <1>11, <1>12, <1>13, <1>14 DEF ProcStep

-----------------------------------------------------------------------------
\* The inductive invariant holds in every reachable state.
THEOREM InvariantHolds == Spec => []IInv
<1>1. Init => IInv
  <2> SUFFICES ASSUME Init PROVE IInv
    BY Zenon
  <2>1. NewState.rec \in Record /\ NewState \in Managed /\ NewState.rec # Broken
    BY ConstantsAssumption DEF NewState, Record, Managed
  <2>2. file \in Files /\ (file # NoFile => file.rec # Broken)
    BY <2>1 DEF Init, Files
  <2>3. TypeInv
    BY <2>1, <2>2 DEF Init, TypeInv, Managed, Places
  <2>4. AlarmInv /\ NoFalseAlarm /\ DurableInv
    BY <2>2 DEF Init, AlarmInv, NoFalseAlarm, DurableInv
  <2> QED BY <2>3, <2>4 DEF IInv
<1>2. IInv /\ [Next]_vars => IInv'
  <2> SUFFICES ASSUME IInv, [Next]_vars PROVE IInv'
    OBVIOUS
  <2>1. ASSUME NEW p \in Procs, ProcStep(p) PROVE IInv'
    BY <2>1, ProcStepKeeps
  <2>2. ASSUME NEW e \in Edits, NEW kind \in EditKinds, Edit(e, kind) PROVE IInv'
    BY <2>2, EditKeeps, Zenon
  <2>3. CASE UNCHANGED vars
    BY <2>3 DEF vars, IInv, TypeInv, AlarmInv, NoFalseAlarm, DurableInv
  <2> QED BY <2>1, <2>2, <2>3 DEF Next
<1> QED BY <1>1, <1>2, PTL DEF Spec

\* flushState raises no false alarm: an external change, or a missing baseline,
\* is reported only when the file changed after the last refresh of the process
\* or stores no hash, however many commands and edits there are.
THEOREM NoFalseAlarmHolds == Spec => []NoFalseAlarm
<1>1. IInv => NoFalseAlarm
  BY DEF IInv
<1> QED BY <1>1, InvariantHolds, PTL

\* What a command reported as done is durable: its settings are in state.yaml
\* and an intent's action is in the history, as long as nothing was lost in a
\* window or by an edit.
THEOREM DoneIsDurableHolds == Spec => []DoneIsDurable
<1>1. IInv => DoneIsDurable
  BY Zenon DEF IInv, DurableInv, DoneIsDurable
<1> QED BY <1>1, InvariantHolds, PTL

-----------------------------------------------------------------------------
\* Why a flush overwrites nothing it has not read outside of the windows.

MarksOf(r) == r.bn \cup r.mach

\* The marks that are not in the file yet: of edits to come, and of processes
\* that have not written.
Early == {"new", "setup", "ran", "probing", "flush", "write"}
Unwritten == unedited \cup {p \in Procs : pc[p] \in Early}

\* Such a mark is nowhere but in the memory of its process, so no record with
\* it has been a baseline of anybody: a hash that was superseded never returns.
FreshInv ==
    /\ unedited \subseteq Edits
    /\ file # NoFile =>
         /\ file.rec # Broken => MarksOf(file.rec) \cap Unwritten = {}
         /\ file.hash # NoHash => MarksOf(file.hash) \cap Unwritten = {}
    /\ \A p \in Procs :
         /\ (MarksOf(mem[p].rec) \cup bn[p]) \cap Unwritten \subseteq {p}
         /\ mem[p].hash # NoHash => MarksOf(mem[p].hash) \cap Unwritten = {}
         /\ base[p] # NoHash => MarksOf(base[p]) \cap Unwritten = {}

Parses == file # NoFile /\ file.rec # Broken

\* What the file has beyond the memory of a process came while it was probing,
\* or after the comparison of the hashes, or with the stored hash left as it was.
Windows(p) ==
    /\ pc[p] = "probing" /\ Parses => file.rec.bn \ bn[p] \subseteq lateProbe[p]
    /\ pc[p] = "flush" /\ Parses /\ base[p] # NoHash /\ DiskHash = base[p] =>
         Beyond(file.rec, mem[p].rec) \subseteq lateProbe[p] \cup kept
    /\ pc[p] = "write" =>
         Beyond(Present, mem[p].rec) \subseteq lateWrite[p] \cup lateProbe[p] \cup kept

WindowInv == \A p \in Procs : Windows(p)

LossInv == FreshInv /\ WindowInv /\ LostOnlyInWindows

\* Refresh brings no unwritten mark into memory, and its baseline has none.
LEMMA RefreshFresh ==
    ASSUME TypeInv, FreshInv, Readable, NEW p \in Procs
    PROVE  /\ MarksOf(Refreshed(mem[p]).rec) \cap Unwritten \subseteq {p}
           /\ Refreshed(mem[p]).hash # NoHash => MarksOf(Refreshed(mem[p]).hash) \cap Unwritten = {}
           /\ Baseline(mem[p], base[p]) # NoHash => MarksOf(Baseline(mem[p], base[p])) \cap Unwritten = {}
           /\ Parses => /\ Refreshed(mem[p]).rec.bn = file.rec.bn
                        /\ Refreshed(mem[p]).rec.mach = file.rec.mach
<1>1. CASE file = NoFile
  BY <1>1, Zenon DEF FreshInv, Refreshed, Baseline, Parses
<1>2. CASE file # NoFile
  <2>1. file.rec \in Record /\ file.rec # Broken
    BY <1>2, ConstantsAssumption DEF TypeInv, Files, Readable
  <2>2. \A l : /\ [file.rec EXCEPT !.last = l].bn = file.rec.bn
               /\ [file.rec EXCEPT !.last = l].mach = file.rec.mach
    BY <2>1, Zenon DEF Record
  <2>3. MarksOf(file.rec) \cap Unwritten = {}
    BY <1>2, <2>1 DEF FreshInv
  <2>4. Over(mem[p], file) # NoHash => MarksOf(Over(mem[p], file)) \cap Unwritten = {}
    BY <1>2 DEF FreshInv, Over
  <2>5. Refreshed(mem[p]).rec.bn = file.rec.bn /\ Refreshed(mem[p]).rec.mach = file.rec.mach
        /\ Refreshed(mem[p]).hash = Over(mem[p], file)
    BY <1>2, <2>2, Zenon DEF Refreshed
  <2>6. \/ Baseline(mem[p], base[p]) = Over(mem[p], file)
        \/ \E l : Baseline(mem[p], base[p]) = [file.rec EXCEPT !.last = l]
    BY <1>2, Zenon DEF Baseline
  <2>7. Baseline(mem[p], base[p]) # NoHash => MarksOf(Baseline(mem[p], base[p])) \cap Unwritten = {}
    BY <2>2, <2>3, <2>4, <2>6, Zenon DEF MarksOf
  <2> QED BY <2>3, <2>4, <2>5, <2>7 DEF MarksOf
<1> QED BY <1>1, <1>2

\* A refresh by p that puts the state s in memory and B in its block node part.
LEMMA ReadsLose ==
    ASSUME IInv, LossInv, NEW p \in Procs, NEW s, NEW B, NEW l \in {"setup", "ran", "probing", "flush"},
           pc[p] \in {"new", "setup", "ran", "probing"}, Reads(p, s, l), bn' = [bn EXCEPT ![p] = B],
           UNCHANGED <<unedited, lateProbe, lateWrite, kept>>,
           (MarksOf(s.rec) \cup B) \cap Unwritten \subseteq {p}, s.hash = Refreshed(mem[p]).hash,
           l = "probing" /\ Parses => file.rec.bn \subseteq B,
           l = "flush" /\ Parses => Beyond(file.rec, s.rec) \subseteq lateProbe[p]
    PROVE  LossInv'
<1>1. TypeInv /\ FreshInv /\ WindowInv /\ LostOnlyInWindows
  BY DEF IInv, LossInv
<1> DEFINE b == Baseline(mem[p], base[p])
<1>2. /\ s.hash # NoHash => MarksOf(s.hash) \cap Unwritten = {}
      /\ b # NoHash => MarksOf(b) \cap Unwritten = {}
  BY <1>1, RefreshFresh DEF Reads
<1>3. /\ mem' = [mem EXCEPT ![p] = s] /\ base' = [base EXCEPT ![p] = b]
      /\ pc' = [pc EXCEPT ![p] = l] /\ file' = file /\ lost' = lost
  BY Zenon DEF Reads, Refresh, Goto
<1> HIDE DEF b
<1>4. Unwritten' = Unwritten
  BY <1>1, <1>3 DEF Unwritten, Early, TypeInv
<1>5. FreshInv'
  <2>1. ASSUME NEW q \in Procs
        PROVE  /\ (MarksOf(mem'[q].rec) \cup bn'[q]) \cap Unwritten \subseteq {q}
               /\ mem'[q].hash # NoHash => MarksOf(mem'[q].hash) \cap Unwritten = {}
               /\ base'[q] # NoHash => MarksOf(base'[q]) \cap Unwritten = {}
    <3>1. CASE q = p
      <4>1. bn'[q] = B /\ mem'[q] = s /\ base'[q] = b
        BY <1>1, <1>3, <3>1 DEF TypeInv
      <4> QED BY <1>2, <3>1, <4>1
    <3>2. CASE q # p
      <4>1. bn'[q] = bn[q] /\ mem'[q] = mem[q] /\ base'[q] = base[q]
        BY <1>1, <1>3, <3>2 DEF TypeInv
      <4> QED BY <1>1, <4>1 DEF FreshInv
    <3> QED BY <3>1, <3>2
  <2> QED BY <1>1, <1>3, <1>4, <2>1 DEF FreshInv, MarksOf
<1>6. Parses' = Parses /\ DiskHash' = DiskHash /\ Present' = Present
  BY <1>3, Zenon DEF Parses, DiskHash, Present
<1>7. WindowInv'
  BY <1>1, <1>3, <1>6 DEF WindowInv, Windows, TypeInv
<1>8. LostOnlyInWindows'
  BY <1>1, <1>3, Zenon DEF LostOnlyInWindows
<1> QED BY <1>5, <1>7, <1>8 DEF LossInv

\* A process that moves on without touching the file or its memory.
LEMMA MovesLose ==
    ASSUME IInv, LossInv, NEW p \in Procs, NEW l \in {"write", "done", "failed", "crashed"},
           pc' = [pc EXCEPT ![p] = l],
           UNCHANGED <<file, mem, base, bn, unedited, lateProbe, lateWrite, kept, lost>>,
           l = "write" =>
             /\ pc[p] = "flush"
             /\ Beyond(Present, mem[p].rec) \subseteq lateWrite[p] \cup lateProbe[p] \cup kept
    PROVE  LossInv'
<1>1. TypeInv /\ FreshInv /\ WindowInv /\ LostOnlyInWindows
  BY Zenon DEF IInv, LossInv
<1>2. Unwritten' \subseteq Unwritten
  BY <1>1 DEF Unwritten, Early, TypeInv
<1>3. FreshInv'
  BY <1>1, <1>2 DEF FreshInv
<1>4. Parses' = Parses /\ DiskHash' = DiskHash /\ Present' = Present
  BY Zenon DEF Parses, DiskHash, Present
<1>5. WindowInv'
  BY <1>1, <1>4 DEF WindowInv, Windows, TypeInv
<1>6. LostOnlyInWindows'
  BY <1>1 DEF LostOnlyInWindows
<1> QED BY <1>3, <1>5, <1>6 DEF LossInv

\* When the file changes, a process that has not read the change has noted it
\* where it matters, unless the change shows in the hash.
LEMMA ArrivesLose ==
    ASSUME WindowInv, NEW marks, NEW others, Arrives(marks, others), NEW q \in Procs, q \in others,
           pc'[q] = pc[q], mem'[q].rec = mem[q].rec, base'[q] = base[q], bn'[q] = bn[q],
           kept \subseteq kept', Beyond(Present', Present) \subseteq marks,
           Parses' /\ base[q] # NoHash /\ DiskHash' = base[q] =>
             Parses /\ DiskHash' = DiskHash /\ Beyond(file'.rec, file.rec) \subseteq kept'
    PROVE  Windows(q)'
<1>1. Windows(q)
  BY Zenon DEF WindowInv
<1>2. /\ lateProbe'[q] = IF pc[q] = "probing" THEN lateProbe[q] \cup marks ELSE lateProbe[q]
      /\ lateWrite'[q] = IF pc[q] = "write" THEN lateWrite[q] \cup marks ELSE lateWrite[q]
  BY Zenon DEF Arrives
<1>3. /\ Parses => Present = file.rec
      /\ ~Parses => Present.bn = {} /\ Present.mach = {}
  BY Zenon DEF Parses, Present, NewState
<1>4. Parses' => Present' = file'.rec
  BY Zenon DEF Parses, Present
<1>5. pc[q] = "probing" /\ Parses' => file'.rec.bn \ bn[q] \subseteq lateProbe'[q]
  BY <1>1, <1>2, <1>3, <1>4, Zenon DEF Windows, Beyond
<1>6. pc[q] = "flush" /\ Parses' /\ base[q] # NoHash /\ DiskHash' = base[q] =>
        Beyond(file'.rec, mem[q].rec) \subseteq lateProbe'[q] \cup kept'
  BY <1>1, <1>2, Zenon DEF Windows, Beyond
<1>7. pc[q] = "write" => Beyond(Present', mem[q].rec) \subseteq lateWrite'[q] \cup lateProbe'[q] \cup kept'
  BY <1>1, <1>2 DEF Windows, Beyond
<1> QED BY <1>5, <1>6, <1>7 DEF Windows, Beyond

\* The record a process writes has its own mark, which no baseline has: a
\* process about to compare sees the change, and what is overwritten unread
\* reached the file in a window.
LEMMA WriteLoses ==
    ASSUME IInv, LossInv, NEW p \in Procs, FlushWrite(p)
    PROVE  LossInv'
<1> DEFINE rec == mem[p].rec
<1>1. TypeInv /\ DurableInv /\ FreshInv /\ WindowInv /\ LostOnlyInWindows
  BY DEF IInv, LossInv
<1>2. /\ pc[p] = "write" /\ file' = [rec |-> rec, hash |-> rec]
      /\ mem' = [mem EXCEPT ![p].hash = rec] /\ base' = [base EXCEPT ![p] = rec]
      /\ pc' = [pc EXCEPT ![p] = IF p \in Intents THEN "append" ELSE "done"]
      /\ lost' = lost \cup {Cause(p, m) : m \in Beyond(Present, rec)}
      /\ Arrives(Beyond(rec, Present), Procs \ {p})
      /\ bn' = bn /\ unedited' = unedited /\ kept' = kept
  BY DEF FlushWrite, Goto
<1>3. rec \in Record /\ p \in MarksOf(rec) /\ p \in Unwritten
  BY <1>1, <1>2 DEF TypeInv, DurableInv, MarksOf, Unwritten, Early
<1>4. file' # NoFile /\ file'.rec = rec /\ file'.hash = rec /\ file'.rec # Broken
  BY <1>2, <1>3, ConstantsAssumption
<1>5. Present' = rec /\ DiskHash' = rec
  BY <1>4 DEF Present, DiskHash
<1>6. \A q \in Procs : mem'[q].rec = mem[q].rec /\ mem'[q].hash = IF q = p THEN rec ELSE mem[q].hash
  BY <1>1, <1>2 DEF TypeInv
<1>7. Unwritten' \subseteq Unwritten \ {p}
  <2>1. unedited' = unedited /\ p \notin unedited
    BY <1>1, <1>2, ConstantsAssumption DEF FreshInv
  <2>2. \A q \in Procs : pc'[q] \in Early => q # p /\ pc[q] \in Early
    BY <1>1, <1>2 DEF Early, TypeInv
  <2> QED BY <2>1, <2>2 DEF Unwritten
<1>8. MarksOf(rec) \cap Unwritten' = {}
  BY <1>1, <1>7 DEF FreshInv
<1>9. FreshInv'
  <2>1. ASSUME NEW q \in Procs
        PROVE  /\ (MarksOf(mem'[q].rec) \cup bn'[q]) \cap Unwritten' \subseteq {q}
               /\ mem'[q].hash # NoHash => MarksOf(mem'[q].hash) \cap Unwritten' = {}
               /\ base'[q] # NoHash => MarksOf(base'[q]) \cap Unwritten' = {}
    <3>1. bn'[q] = bn[q] /\ base'[q] = IF q = p THEN rec ELSE base[q]
      BY <1>1, <1>2 DEF TypeInv
    <3> HIDE DEF rec
    <3> QED BY <1>1, <1>6, <1>7, <1>8, <3>1 DEF FreshInv
  <2> QED BY <1>1, <1>2, <1>4, <1>8, <2>1 DEF FreshInv, MarksOf
<1>10. WindowInv'
  <2> SUFFICES ASSUME NEW q \in Procs PROVE Windows(q)'
    BY Zenon DEF WindowInv
  <2>1. CASE q = p
    <3>1. pc'[q] \in {"append", "done"}
      BY <1>1, <1>2, <2>1 DEF TypeInv
    <3> QED BY <3>1 DEF Windows
  <2>2. CASE q # p
    <3>1. pc'[q] = pc[q] /\ base'[q] = base[q] /\ bn'[q] = bn[q] /\ q \in Procs \ {p}
      BY <1>1, <1>2, <2>2 DEF TypeInv
    <3>2. base[q] # NoHash => DiskHash' # base[q]
      BY <1>1, <1>3, <1>5, Zenon DEF FreshInv
    <3>3. Beyond(Present', Present) \subseteq Beyond(rec, Present)
      BY <1>5
    <3> HIDE DEF rec
    <3> QED BY <1>1, <1>2, <1>6, <3>1, <3>2, <3>3, ArrivesLose
  <2> QED BY <2>1, <2>2
<1>11. LostOnlyInWindows'
  <2>1. \A m \in Beyond(Present, rec) : m \in lateWrite[p] \cup lateProbe[p] \cup kept
    BY <1>1, <1>2 DEF WindowInv, Windows
  <2>2. \A m \in Beyond(Present, rec) : Cause(p, m) # "undetected"
    BY <2>1, Zenon DEF Cause
  <2> QED BY <1>1, <1>2, <2>2 DEF LostOnlyInWindows
<1> QED BY <1>9, <1>10, <1>11 DEF LossInv

\* An edit that leaves the stored hash is in kept; any other shows in the hash,
\* since no baseline has its mark.
LEMMA EditLoses ==
    ASSUME IInv, LossInv, NEW e \in Edits, NEW kind \in EditKinds, Edit(e, kind)
    PROVE  LossInv'
<1>1. TypeInv /\ FreshInv /\ WindowInv /\ LostOnlyInWindows
  BY Zenon DEF IInv, LossInv
<1>2. PICK part \in {"bn", "mach"} :
        file' = CASE kind = "keeps" -> [file EXCEPT !.rec[part] = @ \cup {e}]
                  [] kind = "drops" -> [rec |-> [file.rec EXCEPT ![part] = @ \cup {e}], hash |-> NoHash]
                  [] kind = "breaks" -> [rec |-> Broken, hash |-> NoHash]
  BY Zenon DEF Edit
<1>3. /\ e \in unedited /\ unedited' = unedited \ {e}
      /\ file # NoFile /\ file.rec # Broken
      /\ kept' = IF kind = "keeps" THEN kept \cup {e} ELSE kept
      /\ lost' = IF kind = "breaks" THEN lost \cup {"edit"} ELSE lost
      /\ Arrives({e}, Procs)
      /\ mem' = mem /\ base' = base /\ bn' = bn /\ pc' = pc
  BY DEF Edit, procVars
<1> DEFINE more == [file.rec EXCEPT ![part] = @ \cup {e}]
<1>4. /\ file.rec \in Record
      /\ file \in [rec : Record \cup {Broken}, hash : Record \cup {NoHash}]
  BY <1>1, <1>3 DEF TypeInv, Files
<1>5. Beyond(more, file.rec) \subseteq {e} /\ e \in MarksOf(more) /\ MarksOf(more) = MarksOf(file.rec) \cup {e}
  <2>1. CASE part = "bn"
    <3>1. more.bn = file.rec.bn \cup {e} /\ more.mach = file.rec.mach
      BY <1>4, <2>1, Zenon DEF Record
    <3> QED BY <3>1 DEF Beyond, MarksOf
  <2>2. CASE part = "mach"
    <3>1. more.mach = file.rec.mach \cup {e} /\ more.bn = file.rec.bn
      BY <1>4, <2>2 DEF Record
    <3> QED BY <3>1 DEF Beyond, MarksOf
  <2> QED BY <2>1, <2>2
<1>6. /\ kind = "keeps" => file'.rec = more /\ file'.hash = file.hash
      /\ kind = "drops" => file'.rec = more /\ file'.hash = NoHash
      /\ kind = "breaks" => file'.rec = Broken /\ file'.hash = NoHash
  BY <1>2, <1>4, Zenon
<1> HIDE DEF more
<1>7. Unwritten' = Unwritten \ {e} /\ e \in Unwritten
  BY <1>1, <1>3, ConstantsAssumption, Zenon DEF Unwritten
<1>8. FreshInv'
  <2>1. /\ kind # "breaks" => MarksOf(file'.rec) \cap Unwritten' = {}
        /\ file'.hash # NoHash => MarksOf(file'.hash) \cap Unwritten' = {}
    <3>1. MarksOf(file.rec) \cap Unwritten = {} /\ (file.hash # NoHash => MarksOf(file.hash) \cap Unwritten = {})
      BY <1>1, <1>3 DEF FreshInv
    <3> QED BY <1>5, <1>6, <1>7, <3>1 DEF EditKinds
  <2>2. file'.rec # Broken => kind # "breaks"
    BY <1>6, Zenon
  <2>3. \A q \in Procs :
          /\ (MarksOf(mem'[q].rec) \cup bn'[q]) \cap Unwritten' \subseteq {q}
          /\ mem'[q].hash # NoHash => MarksOf(mem'[q].hash) \cap Unwritten' = {}
          /\ base'[q] # NoHash => MarksOf(base'[q]) \cap Unwritten' = {}
    BY <1>1, <1>3, <1>7, Zenon DEF FreshInv
  <2>4. unedited' \subseteq Edits
    BY <1>1, <1>3, Zenon DEF FreshInv
  <2> QED BY <2>1, <2>2, <2>3, <2>4 DEF FreshInv, MarksOf
<1>9. Beyond(Present', Present) \subseteq {e}
  <2>1. Present = file.rec
    BY <1>3, Zenon DEF Present
  <2>2. Present' = file'.rec \/ (Present'.bn = {} /\ Present'.mach = {})
    BY Zenon DEF Present, NewState
  <2>3. CASE kind = "breaks"
    <3>1. Present'.bn = {} /\ Present'.mach = {}
      BY <1>6, <2>3, Zenon DEF Present, NewState
    <3> QED BY <3>1 DEF Beyond
  <2>4. CASE kind # "breaks"
    BY <1>5, <1>6, <2>1, <2>2, <2>4, Zenon DEF Beyond, EditKinds
  <2> QED BY <2>3, <2>4
<1>10. WindowInv'
  <2> SUFFICES ASSUME NEW q \in Procs PROVE Windows(q)'
    BY Zenon DEF WindowInv
  <2>1. ASSUME Parses', base[q] # NoHash, DiskHash' = base[q]
        PROVE  Parses /\ DiskHash' = DiskHash /\ Beyond(file'.rec, file.rec) \subseteq kept'
    <3>1. Parses /\ kind # "breaks" /\ file'.rec = more
      BY <1>3, <1>6, <2>1, Zenon DEF Parses, EditKinds
    <3>2. more # base[q]
      BY <1>1, <1>5, <1>7, <2>1, Zenon DEF FreshInv
    <3>3. kind = "keeps" /\ file'.hash = file.hash /\ file.hash # NoHash
      BY <1>6, <2>1, <3>1, <3>2, Zenon DEF DiskHash, EditKinds
    <3> QED BY <1>3, <1>5, <3>1, <3>3 DEF DiskHash
  <2>2. kept \subseteq kept'
    BY <1>3, Zenon
  <2> QED BY <1>1, <1>3, <1>9, <2>1, <2>2, ArrivesLose
<1>11. LostOnlyInWindows'
  BY <1>1, <1>3 DEF LostOnlyInWindows
<1> QED BY <1>8, <1>10, <1>11 DEF LossInv

\* The comparison of the hashes lets a process go on to the rename only over a
\* file with nothing beyond its memory that did not come in a window.
LEMMA CheckLoses ==
    ASSUME IInv, LossInv, NEW p \in Procs, FlushCheck(p)
    PROVE  LossInv'
<1>1. WindowInv
  BY DEF LossInv
<1>2. /\ pc[p] = "flush"
      /\ UNCHANGED <<file, mem, base, bn, unedited, lateProbe, lateWrite, kept, lost>>
  BY DEF FlushCheck, procVars
<1>3. \/ pc' = [pc EXCEPT ![p] = "failed"]
      \/ /\ pc' = [pc EXCEPT ![p] = "write"]
         /\ file = NoFile \/ (base[p] # NoHash /\ file.rec # Broken /\ DiskHash = base[p])
  BY DEF FlushCheck, Fail, Goto
<1>4. CASE pc' = [pc EXCEPT ![p] = "failed"]
  BY <1>2, <1>4, MovesLose, Zenon
<1>5. CASE /\ pc' = [pc EXCEPT ![p] = "write"]
           /\ file = NoFile \/ (base[p] # NoHash /\ file.rec # Broken /\ DiskHash = base[p])
  <2>1. CASE file = NoFile
    <3>1. Present.bn = {} /\ Present.mach = {}
      BY <2>1 DEF Present, NewState
    <3>2. Beyond(Present, mem[p].rec) = {}
      BY <3>1, Zenon DEF Beyond
    <3> QED BY <1>2, <1>5, <3>2, MovesLose, Zenon
  <2>2. CASE file # NoFile
    <3>1. Parses /\ Present = file.rec
      BY <1>5, <2>2 DEF Parses, Present
    <3>2. Beyond(Present, mem[p].rec) \subseteq lateWrite[p] \cup lateProbe[p] \cup kept
      BY <1>1, <1>2, <1>5, <2>2, <3>1 DEF WindowInv, Windows
    <3> QED BY <1>2, <1>5, <3>2, MovesLose, Zenon
  <2> QED BY <2>1, <2>2
<1> QED BY <1>3, <1>4, <1>5

\* Every step of every process keeps the accounts of what was lost and how.
LEMMA ProcStepLoses ==
    ASSUME IInv, LossInv, NEW p \in Procs, ProcStep(p)
    PROVE  LossInv'
<1> DEFINE r == Refreshed(mem[p])
<1>1. TypeInv /\ FreshInv /\ WindowInv
  BY Zenon DEF IInv, LossInv
<1>2. bn \in [Procs -> SUBSET Marks] /\ bn[p] \cap Unwritten \subseteq {p}
  BY <1>1 DEF TypeInv, FreshInv
<1>3. ASSUME Readable
      PROVE  /\ r \in Managed /\ MarksOf(r.rec) \cap Unwritten \subseteq {p}
             /\ Parses => r.rec.bn = file.rec.bn /\ r.rec.mach = file.rec.mach
  BY <1>1, <1>3, RefreshReads, RefreshFresh, Zenon
<1> HIDE DEF r
<1>4. CASE Setup(p)
  <2>1. Reads(p, r, "setup") /\ bn' = [bn EXCEPT ![p] = bn[p]] /\ pc[p] = "new" /\ Readable
        /\ UNCHANGED <<unedited, lateProbe, lateWrite, kept>>
    BY <1>2, <1>4 DEF Setup, Reads, Refresh, r
  <2>2. (MarksOf(r.rec) \cup bn[p]) \cap Unwritten \subseteq {p}
    BY <1>2, <1>3, <2>1
  <2> QED BY <2>1, <2>2, ReadsLose, Zenon DEF r
<1>5. CASE HandleIntent(p)
  <2> DEFINE s == [r EXCEPT !.rec.last = p]
  <2>1. Reads(p, s, "ran") /\ bn' = [bn EXCEPT ![p] = bn[p]] /\ pc[p] = "setup" /\ Readable
        /\ UNCHANGED <<unedited, lateProbe, lateWrite, kept>>
    BY <1>2, <1>5 DEF HandleIntent, Reads, Refresh, r
  <2>2. s.hash = r.hash /\ MarksOf(s.rec) = MarksOf(r.rec)
    BY <1>3, <2>1 DEF Managed, Record, MarksOf
  <2>3. (MarksOf(s.rec) \cup bn[p]) \cap Unwritten \subseteq {p}
    BY <1>2, <1>3, <2>1, <2>2
  <2> HIDE DEF s
  <2> QED BY <2>1, <2>2, <2>3, ReadsLose, Zenon DEF r
<1>6. CASE RefreshBlockNode(p)
  <2>1. /\ Reads(p, r, "probing") /\ bn' = [bn EXCEPT ![p] = r.rec.bn] /\ pc[p] = "ran" /\ Readable
        /\ UNCHANGED <<unedited, lateProbe, lateWrite, kept>>
    BY <1>6 DEF RefreshBlockNode, Reads, Refresh, r
  <2>2. (MarksOf(r.rec) \cup r.rec.bn) \cap Unwritten \subseteq {p} /\ (Parses => file.rec.bn \subseteq r.rec.bn)
    BY <1>3, <2>1 DEF MarksOf
  <2> QED BY <2>1, <2>2, ReadsLose, Zenon DEF r
<1>7. CASE RefreshMachine(p)
  <2> DEFINE s == [r EXCEPT !.rec.bn = bn[p] \cup {p}, !.rec.mach = @ \cup {p}]
  <2>1. Reads(p, s, "flush") /\ bn' = [bn EXCEPT ![p] = bn[p]] /\ pc[p] = "probing" /\ Readable
        /\ UNCHANGED <<unedited, lateProbe, lateWrite, kept>>
    BY <1>2, <1>7 DEF RefreshMachine, Reads, Refresh, r
  <2>2. s.hash = r.hash /\ s.rec.bn = bn[p] \cup {p} /\ s.rec.mach = r.rec.mach \cup {p}
    BY <1>3, <2>1, Zenon DEF Managed, Record
  <2> HIDE DEF s
  <2>3. (MarksOf(s.rec) \cup bn[p]) \cap Unwritten \subseteq {p}
    BY <1>2, <1>3, <2>1, <2>2 DEF MarksOf
  <2>4. Parses => Beyond(file.rec, s.rec) \subseteq lateProbe[p]
    BY <1>1, <1>3, <2>1, <2>2, Zenon DEF WindowInv, Windows, Beyond
  <2> QED BY <2>1, <2>2, <2>3, <2>4, ReadsLose, Zenon DEF r
<1>8. CASE WriteHostFirewallDecision(p)
  <2> DEFINE s == [r EXCEPT !.rec.mach = @ \cup {p}]
  <2>1. Reads(p, s, "flush") /\ bn' = [bn EXCEPT ![p] = bn[p]] /\ pc[p] = "new" /\ Readable
        /\ UNCHANGED <<unedited, lateProbe, lateWrite, kept>>
    BY <1>2, <1>8 DEF WriteHostFirewallDecision, Reads, Refresh, r
  <2>2. s.hash = r.hash /\ s.rec.bn = r.rec.bn /\ s.rec.mach = r.rec.mach \cup {p}
    BY <1>3, <2>1 DEF Managed, Record
  <2> HIDE DEF s
  <2>3. (MarksOf(s.rec) \cup bn[p]) \cap Unwritten \subseteq {p}
    BY <1>2, <1>3, <2>1, <2>2 DEF MarksOf
  <2>4. Parses => Beyond(file.rec, s.rec) \subseteq lateProbe[p]
    BY <1>3, <2>1, <2>2, Zenon DEF Beyond
  <2> QED BY <2>1, <2>2, <2>3, <2>4, ReadsLose, Zenon DEF r
<1>9. CASE RefreshFails(p)
  BY <1>9, MovesLose, Zenon DEF RefreshFails, Fail, Goto, procVars
<1>10. CASE FlushCheck(p)
  BY <1>10, CheckLoses
<1>11. CASE FlushWrite(p)
  BY <1>11, WriteLoses
<1>12. CASE FlushWriteFails(p)
  BY <1>12, MovesLose, Zenon DEF FlushWriteFails, Fail, Goto, procVars
<1>13. CASE FlushActionHistory(p)
  BY <1>13, MovesLose DEF FlushActionHistory, Fail, Goto
<1>14. CASE Crash(p)
  BY <1>14, MovesLose, Zenon DEF Crash, Goto, procVars
<1> QED BY <1>4, <1>5, <1>6, <1>7, <1>8, <1>9, <1>10, <1>11, <1>12, <1>13, <1>14 DEF ProcStep

\* Optimistic concurrency keeps its promise for any number of commands and
\* edits: flushState overwrites a setting it has not read only if the setting
\* reached the file between the comparison and the rename, between the two
\* refreshes of one composed state, or by an edit that left the stored hash.
THEOREM LostOnlyInWindowsHolds == Spec => []LostOnlyInWindows
<1>1. Init => LossInv
  <2> SUFFICES ASSUME Init PROVE LossInv
    OBVIOUS
  <2>1. MarksOf(NewState.rec) = {} /\ NewState.hash = NoHash
    BY DEF MarksOf, NewState
  <2>2. file # NoFile => MarksOf(file.rec) = {} /\ MarksOf(file.hash) = {}
    BY <2>1 DEF Init
  <2>3. \A p \in Procs : mem[p] = NewState /\ bn[p] = {} /\ base[p] = NoHash /\ pc[p] = "new"
    BY DEF Init
  <2>4. FreshInv
    BY <2>1, <2>2, <2>3, Zenon DEF Init, FreshInv
  <2>5. WindowInv /\ LostOnlyInWindows
    BY <2>3 DEF Init, WindowInv, Windows, LostOnlyInWindows
  <2> QED BY <2>4, <2>5 DEF LossInv
<1>2. IInv /\ LossInv /\ [Next]_vars => LossInv'
  <2> SUFFICES ASSUME IInv, LossInv, [Next]_vars PROVE LossInv'
    OBVIOUS
  <2>1. ASSUME NEW p \in Procs, ProcStep(p) PROVE LossInv'
    BY <2>1, ProcStepLoses
  <2>2. ASSUME NEW e \in Edits, NEW kind \in EditKinds, Edit(e, kind) PROVE LossInv'
    BY <2>2, EditLoses, Zenon
  <2>3. CASE UNCHANGED vars
    <3>1. UNCHANGED <<file, pc, mem, base, bn, unedited, lateProbe, lateWrite, kept, lost>>
      BY <2>3 DEF vars
    <3>2. FreshInv'
      BY <3>1, Zenon DEF LossInv, FreshInv, Unwritten
    <3>3. WindowInv'
      BY <3>1, Zenon DEF LossInv, WindowInv, Windows, Parses, DiskHash, Present
    <3> QED BY <3>1, <3>2, <3>3, Zenon DEF LossInv, LostOnlyInWindows
  <2> QED BY <2>1, <2>2, <2>3 DEF Next
<1>3. LossInv => LostOnlyInWindows
  BY DEF LossInv
<1> QED BY <1>1, <1>2, <1>3, InvariantHolds, PTL DEF Spec
=============================================================================
