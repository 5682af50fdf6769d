-------------------------- MODULE ClusterLifecycle --------------------------
(***************************************************************************)
(* What the cluster commands promise about the cluster, whatever the steps *)
(* they are made of: a cluster is absent, incomplete or serving; only an   *)
(* uninstall, a rollback or a fault may take it down; and a command that   *)
(* met no fault and reports success has reached its goal.                  *)
(***************************************************************************)
EXTENDS Integers

VARIABLES phase,     \* "absent", "incomplete" or "serving"
          job,       \* the running command: "none", "raise", "lower" or "other"
          excused,   \* it met a fault, or it has given up and rolls back
          outcome    \* what the last command reported

vars == <<phase, job, excused, outcome>>

Phases == {"absent", "incomplete", "serving"}
Rank(p) == CASE p = "absent" -> 0 [] p = "incomplete" -> 1 [] p = "serving" -> 2
Goal(j) == CASE j = "raise" -> phase = "serving" [] j = "lower" -> phase = "absent" [] OTHER -> TRUE

Init == phase \in Phases /\ job = "none" /\ excused = FALSE /\ outcome = "none"

\* A command is refused before it begins.
Refuse ==
    /\ job = "none" /\ outcome' = "refused"
    /\ UNCHANGED <<phase, job, excused>>

Start(j) ==
    /\ job = "none" /\ job' = j
    /\ UNCHANGED <<phase, excused, outcome>>

\* An install only builds up, an uninstall only takes down, and the commands
\* for what runs on the cluster leave it as it is.
Progress ==
    /\ job # "none" /\ phase' \in Phases
    /\ job = "raise" => Rank(phase') >= Rank(phase)
    /\ job = "lower" => Rank(phase') =< Rank(phase)
    /\ job = "other" => phase' = phase
    /\ UNCHANGED <<job, excused, outcome>>

\* A fault may leave anything, and a rollback takes apart what was there.
Setback ==
    /\ job # "none" /\ excused' = TRUE /\ phase' \in Phases
    /\ UNCHANGED <<job, outcome>>

End(result) == job # "none" /\ job' = "none" /\ excused' = FALSE /\ outcome' = result

Succeed == End("ok") /\ (excused \/ Goal(job)) /\ phase' = phase
GiveUp == End("failed") /\ phase' = phase
Die == End("killed") /\ phase' \in Phases

Next ==
    \/ \E j \in {"raise", "lower", "other"} : Start(j)
    \/ Refuse \/ Progress \/ Setback \/ Succeed \/ GiveUp \/ Die

Spec == Init /\ [][Next]_vars
=============================================================================
