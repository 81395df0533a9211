-------------------------- MODULE MCCheckpointGate --------------------------
(* Instances of CheckpointGate for TLC. *)
EXTENDS CheckpointGate

CONSTANTS a, b

Clean(c) == [health |-> "clean", content |-> c]
Warned(c) == [health |-> "warned", content |-> c]
Flawed(c) == [health |-> "flawed", content |-> c]
Gone(h, f) == [health |-> h, content |-> Blank[f]]

State(blockers, eligibility, status) ==
  [blockers |-> blockers, incident_phase |-> FALSE,
   checkpoint_eligibility |-> eligibility,
   checkpoint_eligibility_status |-> status, active_branches |-> {a}]

Gate(t, audited) == [task_id |-> t, audit_evidence |-> audited]

Action(t, type, policy) ==
  [task_id |-> t, action_type |-> type, auditor |-> FALSE,
   dependency_blocked |-> FALSE, checkpoint_policy |-> policy,
   checkpoint_receipt_required |-> FALSE, blocked_by |-> {}]

Registered(t, status, audited) ==
  [u \in {t} |-> [status |-> status, audit_refs |-> audited]]

MCVersions == [
  PROJECT_STATE |->
    {Clean(State({}, "local_only", "eligible")),
     Clean(State({"incident"}, "push_allowed", "not_checked")),
     Warned(State({"other"}, "push_allowed", "ineligible")),
     Flawed([State({}, "other", "eligible") EXCEPT !.incident_phase = TRUE]),
     Gone("fallback", "PROJECT_STATE")},
  CURRENT_GATE |->
    {Clean(Gate(a, FALSE)), Clean(Gate(None, TRUE)), Gone("lost", "CURRENT_GATE")},
  NEXT_ACTION |->
    {Clean(Action(a, "update_state", "local_only")),
     Clean(Action(b, "update_state", "commit_and_push")),
     Clean([Action(a, "wait_for_owner", "commit_and_push") EXCEPT
              !.dependency_blocked = TRUE]),
     Clean([Action(a, "create_agent", "forbidden") EXCEPT
              !.checkpoint_receipt_required = TRUE]),
     Clean([Action(None, "finalize", "no_checkpoint") EXCEPT
              !.blocked_by = {"incident"}]),
     Gone("fallback", "NEXT_ACTION")},
  TASK_REGISTRY |->
    {Clean(Registered(a, "audit_passed", FALSE)),
     Clean(Registered(a, "other", FALSE)),
     Clean(Registered(a, "failed", TRUE)),
     Gone("fallback", "TASK_REGISTRY")},
  ACCEPTED_ARTIFACTS |->
    {Clean({}), Clean({[source_task |-> a, audit_ref |-> TRUE]})},
  WORKSPACE_IDENTITY |-> {Clean("identity")}]

\* A workspace where nothing is wrong, and each way an orchestrator has to
\* put it before a checkpoint it must not make.
MCDivergentVersions == [MCVersions EXCEPT
  !.PROJECT_STATE = {Clean(State({}, "local_only", "eligible")),
                     Clean(State({}, "local_only", "not_checked"))},
  !.CURRENT_GATE = {Clean(Gate(a, FALSE))},
  !.NEXT_ACTION = {Clean(Action(a, "update_state", "local_only"))},
  !.TASK_REGISTRY = {Clean(Registered(a, "audit_passed", TRUE)),
                     Clean(Registered(a, "failed", TRUE))},
  !.ACCEPTED_ARTIFACTS = {Clean({})},
  !.WORKSPACE_IDENTITY = {Clean("identity")}]

\* A workspace where nothing is wrong, but that the list of accepted artifacts
\* may exist as a Markdown view only.
MCFallbackVersions == [MCDivergentVersions EXCEPT
  !.ACCEPTED_ARTIFACTS = {Clean({}), Gone("fallback", "ACCEPTED_ARTIFACTS")}]
=============================================================================
