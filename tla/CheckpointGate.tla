---------------------------- MODULE CheckpointGate ----------------------------
(***************************************************************************)
(* `aso plan-next' and `aso checkpoint-preflight' at work, the commands    *)
(* that say whether the next action may start and whether a checkpoint may.*)
(*                                                                         *)
(* Both read the six sidecars one after the other to verify them, and then *)
(* all six again to decide; the orchestrator may write any of them in      *)
(* between.                                                                *)
(***************************************************************************)
EXTENDS CheckpointVerdicts

CONSTANT MaxWrites  \* bound: writes in the middle of one command

ASSUME VersionsAssumption == \A f \in Files : Versions[f] \subseteq Sidecar(f)
ASSUME MaxWritesAssumption == MaxWrites \in Nat

------------------------------------------------------------------------------
(* A command at work, and the orchestrator *)

VARIABLES
  disk,      \* the six files
  at,        \* files read by the command: 6 in each of two passes
  first,     \* the files as the verification read them
  second,    \* the files as they were loaded afterwards
  verdict,   \* what the command says, once it does
  stable,    \* files that were not written since the command started
  writes     \* counts the writes since then

vars == <<disk, at, first, second, verdict, stable, writes>>

Unread == [health |-> "unread"]

TypeOK ==
  /\ DOMAIN disk = Files
  /\ first = [f \in Files |-> first[f]] /\ second = [f \in Files |-> second[f]]
  /\ at \in 0 .. 12
  /\ \A f \in Files :
       /\ disk[f] \in Versions[f]
       /\ first[f] \in Versions[f] \cup {Unread}
       /\ second[f] \in Versions[f] \cup {Unread}
  /\ verdict \in Verdicts
  /\ stable \subseteq Files
  /\ writes \in 0 .. MaxWrites

Idle ==
  /\ at = 0
  /\ first = [f \in Files |-> Unread]
  /\ second = [f \in Files |-> Unread]
  /\ verdict = NoVerdict
  /\ stable = Files
  /\ writes = 0

Init == disk \in Workspaces /\ Idle

\* The k-th file of the verification, or of the loading.
Verify ==
  /\ at < 6
  /\ at' = at + 1
  /\ first' = [first EXCEPT ![Order[at + 1]] = disk[Order[at + 1]]]
  /\ UNCHANGED <<disk, second, verdict, stable, writes>>

Load_SkipsFlawed ==
  /\ at \in 6 .. 11
  /\ at' = at + 1
  /\ LET f == Order[at - 5] IN
     second' = [second EXCEPT ![f] =
       IF disk[f].health = "flawed" THEN [disk[f] EXCEPT !.content = Blank[f]]
       ELSE disk[f]]
  /\ UNCHANGED <<disk, first, verdict, stable, writes>>

Load ==
  /\ at \in 6 .. 11
  /\ at' = at + 1
  /\ second' = [second EXCEPT ![Order[at - 5]] = disk[Order[at - 5]]]
  /\ UNCHANGED <<disk, first, verdict, stable, writes>>

\* _plan; the rule registry is loaded last.
PlanNext(strict, rules) ==
  /\ at = 12 /\ verdict = NoVerdict
  /\ verdict' = PlanVerdict(strict, rules, first, second)
  /\ UNCHANGED <<disk, at, first, second, stable, writes>>

\* _workspace_report
CheckpointPreflight(strict) ==
  /\ at = 12 /\ verdict = NoVerdict
  /\ verdict' = PreflightVerdict(strict, first, second)
  /\ UNCHANGED <<disk, at, first, second, stable, writes>>

\* The command ends; another one may start.
Exit ==
  /\ verdict # NoVerdict
  /\ at' = 0
  /\ first' = [f \in Files |-> Unread]
  /\ second' = [f \in Files |-> Unread]
  /\ verdict' = NoVerdict
  /\ stable' = Files
  /\ writes' = 0
  /\ UNCHANGED disk

\* The orchestrator writes a sidecar while a command reads, or in between;
\* what it writes after the last reading no command sees.
Write(f, s) ==
  /\ at < 12
  /\ disk[f] # s
  /\ disk' = [disk EXCEPT ![f] = s]
  /\ \/ at = 0 /\ UNCHANGED <<stable, writes>>
     \/ /\ at > 0
        /\ writes < MaxWrites
        /\ writes' = writes + 1
        /\ stable' = stable \ {f}
  /\ UNCHANGED <<at, first, second, verdict>>

Next ==
  \/ Verify
  \/ Load
  \/ \E strict, rules \in BOOLEAN : PlanNext(strict, rules)
  \/ \E strict \in BOOLEAN : CheckpointPreflight(strict)
  \/ Exit
  \/ \E f \in Files : \E s \in Versions[f] : Write(f, s)

Spec == Init /\ [][Next]_vars

------------------------------------------------------------------------------
(* Properties.  Each says which files it needs nobody to write. *)

\* The verdict lets a checkpoint go ahead.
LetsCheckpoint ==
  /\ verdict.ok
  /\ \/ verdict.tool = "checkpoint-preflight"
     \/ verdict.recommended = "CHECKPOINT_PREFLIGHT"

\* An incident on file before the command starts freezes it, whatever is
\* written to the other five files meanwhile: the planner says FREEZE and is
\* not ready, and no checkpoint is eligible.
StandingIncidentFreezes ==
  \A f \in stable \cap {"PROJECT_STATE", "NEXT_ACTION"} :
    /\ verdict # NoVerdict
    /\ \/ f = "PROJECT_STATE"
          /\ \/ Of(disk, f).incident_phase
             \/ "incident" \in Of(disk, f).blockers
       \/ f = "NEXT_ACTION" /\ "incident" \in Of(disk, f).blocked_by
    => /\ ~verdict.ok
       /\ verdict.tool = "plan-next" => verdict.recommended = "FREEZE"

\* A plan that is ready and a checkpoint that is eligible concern a task
\* that exists, as long as nobody writes the two files that say so.
\* (A task registry without tasks is taken to be not in use.)
VerdictsConcernKnownTasks ==
  {"NEXT_ACTION", "TASK_REGISTRY"} \subseteq stable /\ verdict.ok
    => \/ Of(disk, "NEXT_ACTION").task_id \in Tasks(disk) \cup Nobody
       \/ Tasks(disk) = {}

\* No checkpoint of a known task without a trace of its own audit: its
\* status, or its audit references.  The evidence of another task's gate or
\* artifact does not do, although the commands' own evidence check is
\* content with it; and again only two files have to stand still.
CheckpointsRestOnTheTasksAudit ==
  /\ {"NEXT_ACTION", "TASK_REGISTRY"} \subseteq stable
  /\ LetsCheckpoint
  /\ IsCheckpointAttempt(disk)
  /\ Of(disk, "NEXT_ACTION").task_id \in Tasks(disk)
  => LET t == Of(disk, "TASK_REGISTRY")[Of(disk, "NEXT_ACTION").task_id] IN
     t.status \in {"audit_passed", "checkpoint_done", "completed"} \/ t.audit_refs

\* The two commands do not contradict each other: when the strict preflight
\* makes a checkpoint eligible, the planner asked for it on the same state,
\* or sees a blocked dependency, which the preflight does not look at.
PreflightAgreesWithPlan ==
  /\ stable = Files
  /\ verdict.tool = "checkpoint-preflight" /\ verdict.strict /\ verdict.ok
  /\ ~Of(disk, "NEXT_ACTION").dependency_blocked
  => \A strict \in BOOLEAN :
       /\ Recommended(strict, disk, disk) = "CHECKPOINT_PREFLIGHT"
       /\ Ready(strict, disk, disk, TRUE)

\* GIT_CHECKPOINT_VALIDATION_RULES.md, "Forbidden checkpoint attempts": no
\* checkpoint when CHECKPOINT_ELIGIBILITY_STATUS is not_checked, ineligible
\* or blocked.
NoCheckpointUnlessEligible ==
  verdict.tool = "checkpoint-preflight" /\ verdict.ok /\ stable = Files
    => Of(disk, "PROJECT_STATE").checkpoint_eligibility_status \notin
         {"not_checked", "ineligible", "blocked"}

\* The same section: no checkpoint after audit fail.
NoCheckpointAfterAuditFail ==
  /\ LetsCheckpoint /\ stable = Files
  /\ Of(disk, "NEXT_ACTION").task_id \in Tasks(disk)
  => Of(disk, "TASK_REGISTRY")[Of(disk, "NEXT_ACTION").task_id].status # "failed"

\* aso.py, the help of `plan-next --strict': "Treat verification warnings as
\* blocking dry-run planner findings."
StrictPlansRefuseWarnings ==
  /\ verdict.tool = "plan-next" /\ verdict.strict
  /\ stable = Files
  /\ FileWarnings(disk) # {}
  => ~verdict.ok

\* A command that reads twelve times in a fixed order is no different from one
\* that judges once: see CheckpointJudgement.
J == INSTANCE CheckpointJudgement WITH working <- at > 0
ImplementsJudgement == J!Spec
==============================================================================
