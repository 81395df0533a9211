------------------------- MODULE CheckpointJudgement -------------------------
(***************************************************************************)
(* What the two commands of CheckpointGate promise, whatever the order in  *)
(* which they read: each judges the workspace once, on two views of it     *)
(* that are right about every file nobody wrote since the command started  *)
(* and that may show a written file in any of its versions.  A command     *)
(* nobody disturbs judges the workspace as it is.                          *)
(***************************************************************************)
EXTENDS CheckpointVerdicts

VARIABLES
  disk,      \* the six files
  working,   \* a command is at work
  stable,    \* files that were not written since it started
  verdict    \* what the command says, once it does

vars == <<disk, working, stable, verdict>>

Init ==
  /\ disk \in Workspaces
  /\ working = FALSE
  /\ stable = Files
  /\ verdict = NoVerdict

\* What a command may see in file f.
Seen(f) == IF f \in stable THEN {disk[f]} ELSE Versions[f]

Views == Combinations([f \in Files |-> Seen(f)])

Start ==
  /\ ~working
  /\ working' = TRUE
  /\ UNCHANGED <<disk, stable, verdict>>

Judge(tool, strict) ==
  /\ working /\ verdict = NoVerdict
  /\ verdict'.tool = tool /\ verdict'.strict = strict
  /\ \E v, w \in Views :
       \/ /\ tool = "plan-next"
          /\ \E rules \in BOOLEAN : verdict' = PlanVerdict(strict, rules, v, w)
       \/ /\ tool = "checkpoint-preflight"
          /\ verdict' = PreflightVerdict(strict, v, w)
  /\ UNCHANGED <<disk, working, stable>>

Exit ==
  /\ verdict # NoVerdict
  /\ verdict' = NoVerdict
  /\ working' = FALSE
  /\ stable' = Files
  /\ UNCHANGED disk

Write(f, s) ==
  /\ verdict = NoVerdict
  /\ disk' = [disk EXCEPT ![f] = s]
  /\ stable' = IF working THEN stable \ {f} ELSE stable
  /\ UNCHANGED <<working, verdict>>

Next ==
  \/ Start
  \/ \E tool \in {"plan-next", "checkpoint-preflight"}, strict \in BOOLEAN :
       Judge(tool, strict)
  \/ Exit
  \/ \E f \in Files : \E s \in Versions[f] : Write(f, s)

Spec == Init /\ [][Next]_vars
==============================================================================
