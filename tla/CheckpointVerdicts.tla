-------------------------- MODULE CheckpointVerdicts --------------------------
(***************************************************************************)
(* What `aso plan-next' (commands/plan_next.py) and `aso                   *)
(* checkpoint-preflight' in workspace mode                                 *)
(* (commands/checkpoint_preflight.py) say about the six sidecars, on top   *)
(* of state verification (commands/state_verify.py): verdicts as functions *)
(* of the sidecars as they were verified and as they were loaded           *)
(* afterwards.  Of a sidecar the model keeps what the verdicts depend on.  *)
(***************************************************************************)
EXTENDS Naturals

CONSTANTS
  Ids,        \* task ids
  None,       \* the NONE of a task reference
  Absent,     \* a task reference that is not there
  Versions    \* for each sidecar, the states its file may be in

\* SIDECARS, in the order in which they are read.
Order == <<"PROJECT_STATE", "CURRENT_GATE", "NEXT_ACTION", "TASK_REGISTRY",
           "ACCEPTED_ARTIFACTS", "WORKSPACE_IDENTITY">>

Files == {Order[i] : i \in 1 .. 6}

\* What _validate_sidecar finds wrong with one file, but for its content:
\* nothing; warnings; errors; no file but its Markdown view, which is a
\* warning; no file, or nothing that parses as an object.
Healths == {"clean", "warned", "flawed", "fallback", "lost"}

\* Task references that name no task.
Nobody == {None, Absent}

\* The blockers of the model: one that marks an incident, one that routes to
\* the owner, any other.
Blockers == {"incident", "gap", "other"}

Contents == [
  PROJECT_STATE |->
    [blockers : SUBSET Blockers,      \* active and checkpoint blockers
     incident_phase : BOOLEAN,        \* the phase or status is an incident's
     checkpoint_eligibility :
       {"", "blocked", "local_only", "push_allowed", "not_applicable", "other"},
     checkpoint_eligibility_status :
       {"", "not_checked", "eligible", "ineligible", "blocked"},
     active_branches : SUBSET (Ids \cup Nobody)],   \* their current tasks
  CURRENT_GATE |->
    [task_id : Ids \cup Nobody,
     audit_evidence : BOOLEAN],       \* gate_evidence mentions an audit
  NEXT_ACTION |->
    [task_id : Ids \cup Nobody,
     action_type : {"", "create_agent", "route_result", "update_state",
                    "wait_for_owner", "correction", "finalize", "stop"},
     auditor : BOOLEAN,               \* target_role is the auditor
     dependency_blocked : BOOLEAN,    \* dependency_status is "blocked"
     checkpoint_policy :
       {"", "forbidden", "local_only", "commit_and_push", "no_checkpoint"},
     checkpoint_receipt_required : BOOLEAN,
     blocked_by : SUBSET Blockers],
  TASK_REGISTRY |->
    \* The tasks; audit_refs: whether there are any.
    UNION {[T -> [status : {"audit_passed", "checkpoint_done", "completed",
                            "failed", "other"},
                  audit_refs : BOOLEAN]] : T \in SUBSET Ids},
  ACCEPTED_ARTIFACTS |->
    SUBSET [source_task : Ids \cup Nobody, audit_ref : BOOLEAN],
  WORKSPACE_IDENTITY |-> {"identity"}]

\* The content the commands use where there is no object to load.
Blank == [
  PROJECT_STATE |->
    [blockers |-> {}, incident_phase |-> FALSE, checkpoint_eligibility |-> "",
     checkpoint_eligibility_status |-> "", active_branches |-> {}],
  CURRENT_GATE |-> [task_id |-> Absent, audit_evidence |-> FALSE],
  NEXT_ACTION |->
    [task_id |-> Absent, action_type |-> "", auditor |-> FALSE,
     dependency_blocked |-> FALSE, checkpoint_policy |-> "",
     checkpoint_receipt_required |-> FALSE, blocked_by |-> {}],
  TASK_REGISTRY |-> [t \in {} |-> {}],
  ACCEPTED_ARTIFACTS |-> {},
  WORKSPACE_IDENTITY |-> "identity"]

\* No incident is among the phases and statuses a valid PROJECT_STATE has.
Sidecar(f) ==
  {s \in [health : Healths, content : Contents[f]] :
     /\ s.health \in {"fallback", "lost"} => s.content = Blank[f]
     /\ f = "PROJECT_STATE" /\ s.content.incident_phase => s.health = "flawed"}

ASSUME ReferenceAssumption == Ids \cap Nobody = {} /\ None # Absent
\* The workspaces that have one of V[f] in each file f.
Combinations(V) ==
  {[PROJECT_STATE |-> p, CURRENT_GATE |-> g, NEXT_ACTION |-> n,
    TASK_REGISTRY |-> t, ACCEPTED_ARTIFACTS |-> r, WORKSPACE_IDENTITY |-> w] :
     p \in V["PROJECT_STATE"], g \in V["CURRENT_GATE"], n \in V["NEXT_ACTION"],
     t \in V["TASK_REGISTRY"], r \in V["ACCEPTED_ARTIFACTS"],
     w \in V["WORKSPACE_IDENTITY"]}

Workspaces == Combinations(Versions)

------------------------------------------------------------------------------
(* State verification, of the sidecars v *)

Of(v, f) == v[f].content

Tasks(v) == DOMAIN Of(v, "TASK_REGISTRY")

FileErrors(v) == {f \in Files : v[f].health \in {"flawed", "lost"}}

FileWarnings(v) == {f \in Files : v[f].health \in {"warned", "fallback"}}

References_NoAction(v) ==
  Of(v, "PROJECT_STATE").active_branches
    \cup {Of(v, "CURRENT_GATE").task_id}
    \cup {a.source_task : a \in Of(v, "ACCEPTED_ARTIFACTS")}

References(v) ==
  Of(v, "PROJECT_STATE").active_branches
    \cup {Of(v, "CURRENT_GATE").task_id, Of(v, "NEXT_ACTION").task_id}
    \cup {a.source_task : a \in Of(v, "ACCEPTED_ARTIFACTS")}

\* References to unknown tasks, unless there are no tasks at all.
ReferenceFindings(v) ==
  IF Tasks(v) = {} THEN {} ELSE References(v) \ (Tasks(v) \cup Nobody)

IsCheckpointAttempt(v) ==
  Of(v, "NEXT_ACTION").checkpoint_policy \in {"local_only", "commit_and_push"}

CheckpointFinding_PushOnly(v) ==
  LET n == Of(v, "NEXT_ACTION")
      t == Of(v, "TASK_REGISTRY")[n.task_id] IN
  /\ n.checkpoint_policy = "commit_and_push"
  /\ n.task_id \in Tasks(v)
  /\ t.status \notin {"audit_passed", "checkpoint_done", "completed"}
  /\ ~t.audit_refs

\* A checkpoint is asked for, of a known task that passed no audit.
CheckpointFinding(v) ==
  LET n == Of(v, "NEXT_ACTION")
      t == Of(v, "TASK_REGISTRY")[n.task_id] IN
  /\ IsCheckpointAttempt(v) \/ n.checkpoint_receipt_required
  /\ n.task_id \in Tasks(v)
  /\ t.status \notin {"audit_passed", "checkpoint_done", "completed"}
  /\ ~t.audit_refs

Errors(v) ==
  FileErrors(v) # {} \/ ReferenceFindings(v) # {} \/ CheckpointFinding(v)

VerifyFails(strict, v) == Errors(v) \/ (strict /\ FileWarnings(v) # {})

------------------------------------------------------------------------------
(* The verdicts, on the sidecars v verified and w loaded afterwards *)

ActiveBlockers(w) ==
  Of(w, "PROJECT_STATE").blockers \cup Of(w, "NEXT_ACTION").blocked_by

\* Audit references of the task, of an artifact made by it, or, whichever
\* task it is about, of the current gate.
AuditPassEvidence(w) ==
  LET id == Of(w, "NEXT_ACTION").task_id IN
  \/ id \in Tasks(w) /\ Of(w, "TASK_REGISTRY")[id].audit_refs
  \/ \E a \in Of(w, "ACCEPTED_ARTIFACTS") : a.source_task = id /\ a.audit_ref
  \/ Of(w, "CURRENT_GATE").audit_evidence

HasIncident_PhaseOnly(w) == Of(w, "PROJECT_STATE").incident_phase

HasIncident(w) ==
  \/ Of(w, "PROJECT_STATE").incident_phase
  \/ "incident" \in ActiveBlockers(w)

HasOwnerOrGapBlocker(w) == "gap" \in ActiveBlockers(w)

\* _plan's branches, the first that applies.
Route(strict, v, w) ==
  LET n == Of(w, "NEXT_ACTION") IN
  IF HasIncident(w) THEN "incident"
  ELSE IF HasOwnerOrGapBlocker(w) \/ n.dependency_blocked THEN "owner"
  ELSE IF IsCheckpointAttempt(w)
    THEN IF AuditPassEvidence(w) THEN "checkpoint" ELSE "unaudited"
  ELSE IF VerifyFails(strict, v) THEN "unverified"
  ELSE IF n.action_type = "wait_for_owner" THEN "wait"
  ELSE "act"

RecommendedForActionType_Raw(n) ==
  CASE n.action_type = "create_agent" ->
         IF n.auditor THEN "CREATE_AUDITOR" ELSE "CREATE_AGENT"
    [] OTHER -> n.action_type

RecommendedForActionType(n) ==
  CASE n.action_type = "create_agent" ->
         IF n.auditor THEN "CREATE_AUDITOR" ELSE "CREATE_AGENT"
    [] n.action_type = "correction" -> "CREATE_AGENT"
    [] n.action_type = "route_result" -> "ROUTE_RESULT"
    [] n.action_type = "update_state" -> "UPDATE_STATE"
    [] n.action_type = "finalize" -> "FINALIZE"
    [] n.action_type = "stop" -> "STOP"
    [] OTHER -> "NONE"

Recommended(strict, v, w) ==
  LET route == Route(strict, v, w) IN
  CASE route = "incident" -> "FREEZE"
    [] route \in {"owner", "wait"} -> "ASK_OWNER"
    [] route = "checkpoint" -> "CHECKPOINT_PREFLIGHT"
    [] route = "unaudited" -> "CREATE_AUDITOR"
    [] route = "unverified" -> "NONE"
    [] OTHER -> RecommendedForActionType(Of(w, "NEXT_ACTION"))

\* The plan has no blocking rule; rules: the rule registry could be loaded.
Ready(strict, v, w, rules) ==
  /\ ~Errors(v)
  /\ rules
  /\ Route(strict, v, w) \in {"checkpoint", "unverified", "act"}

Eligible_BlockersIgnored(strict, v, w) ==
  LET p == Of(w, "PROJECT_STATE") IN
  /\ ~Errors(v)
  /\ AuditPassEvidence(w)
  /\ p.checkpoint_eligibility # "blocked"
  /\ p.checkpoint_eligibility_status \notin {"blocked", "ineligible"}
  /\ strict => IsCheckpointAttempt(w) /\ p.checkpoint_eligibility # "other"

\* The preflight has no blocking rule; in strict mode its own warnings,
\* though not those of the verification, are such rules.
Eligible(strict, v, w) ==
  LET p == Of(w, "PROJECT_STATE") IN
  /\ ~Errors(v)
  /\ AuditPassEvidence(w)
  /\ ActiveBlockers(w) = {}
  /\ p.checkpoint_eligibility # "blocked"
  /\ p.checkpoint_eligibility_status \notin {"blocked", "ineligible"}
  /\ strict => IsCheckpointAttempt(w) /\ p.checkpoint_eligibility # "other"

------------------------------------------------------------------------------
(* What the commands print *)

NoVerdict ==
  [tool |-> "none", strict |-> FALSE, recommended |-> "NONE", ok |-> FALSE]

Recommendations ==
  {"NONE", "FREEZE", "ASK_OWNER", "CHECKPOINT_PREFLIGHT", "CREATE_AUDITOR",
   "CREATE_AGENT", "ROUTE_RESULT", "UPDATE_STATE", "FINALIZE", "STOP"}

Verdicts ==
  [tool : {"none", "plan-next", "checkpoint-preflight"},
   strict : BOOLEAN, recommended : Recommendations, ok : BOOLEAN]

PlanVerdict(strict, rules, v, w) ==
  [tool |-> "plan-next", strict |-> strict,
   recommended |-> Recommended(strict, v, w), ok |-> Ready(strict, v, w, rules)]

PreflightVerdict(strict, v, w) ==
  [tool |-> "checkpoint-preflight", strict |-> strict,
   recommended |-> "NONE", ok |-> Eligible(strict, v, w)]
==============================================================================
