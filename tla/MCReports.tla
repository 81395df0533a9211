------------------------------ MODULE MCReports ------------------------------
(* Instances of Reports for TLC. *)
EXTENDS Reports

CONSTANTS a, b, c

Clean(x) == [health |-> "clean", content |-> x]

State(blockers) ==
  [empty |-> FALSE, blockers |-> blockers, incident_phase |-> FALSE,
   checkpoint_eligibility |-> "local_only",
   checkpoint_eligibility_status |-> "eligible", active_branches |-> {a}]

Action(t, type, policy, blockers) ==
  [task_id |-> t, action_type |-> type, auditor |-> FALSE,
   dependency_blocked |-> FALSE, checkpoint_policy |-> policy,
   checkpoint_receipt_required |-> FALSE, blocked_by |-> blockers]

Row(n, s, deps, push, audited) ==
  [id |-> n, status |-> s, dependencies |-> deps, push_status |-> push,
   refs |-> TRUE, requested_by_role |-> FALSE, requested_by_task |-> None,
   returns |-> FALSE, return_role |-> FALSE, return_task |-> None,
   audit_refs |-> audited, blocked_by |-> FALSE]

NoState ==
  [empty |-> TRUE, blockers |-> {}, incident_phase |-> FALSE,
   checkpoint_eligibility |-> "", checkpoint_eligibility_status |-> "",
   active_branches |-> {}]

MCVersions == [
  PROJECT_STATE |->
    {Clean(State({})), Clean(State({"incident"})),
     [health |-> "flawed", content |-> NoState],
     [health |-> "fallback", content |-> NoState]},
  CURRENT_GATE |->
    {Clean([task_id |-> a, audit_evidence |-> TRUE, blocking_status |-> FALSE]),
     Clean([task_id |-> None, audit_evidence |-> FALSE, blocking_status |-> TRUE])},
  NEXT_ACTION |->
    {Clean(Action(a, "update_state", "local_only", {})),
     Clean(Action(b, "create_agent", "forbidden", {})),
     Clean(Action(None, "finalize", "no_checkpoint", {"incident"}))},
  TASK_REGISTRY |->
    {Clean(<<Row(a, "ready", {b}, "not_attempted", TRUE),
             Row(b, "completed", {c}, "not_attempted", TRUE),
             Row(c, "completed", {}, "not_attempted", TRUE)>>),
     Clean(<<Row(a, "ready", {b}, "not_attempted", TRUE),
             Row(b, "completed", {c}, "not_attempted", TRUE),
             Row(c, "checkpoint_done", {}, "failed", TRUE)>>),
     Clean(<<Row(a, "audit_passed", {}, "not_attempted", FALSE),
             [Row(b, "ready", {a}, "not_attempted", FALSE) EXCEPT !.blocked_by = TRUE]>>),
     Clean(<<Row(b, "running", {a}, "not_attempted", FALSE)>>),
     [health |-> "flawed",
      content |-> <<Row(a, "audit_passed", {}, "not_attempted", TRUE),
                    Row(a, "pending", {}, "not_attempted", FALSE)>>],
     [health |-> "fallback", content |-> << >>]},
  ACCEPTED_ARTIFACTS |-> {Clean({})},
  WORKSPACE_IDENTITY |-> {Clean("identity")}]

Incident ==
  [reads |-> "text", empty |-> FALSE, INCIDENT_ID |-> "text",
   INCIDENT_CLASS |-> "text", TRIGGERING_RULE_IDS |-> "list",
   EXPECTED_FAILURE_STATUS |-> "text", failure |-> TRUE, approves |-> FALSE,
   weakens |-> FALSE]

MCIncidents ==
  {Incident,
   [Incident EXCEPT !.INCIDENT_ID = "absent"],
   [Incident EXCEPT !.EXPECTED_FAILURE_STATUS = "absent", !.failure = FALSE],
   [Incident EXCEPT !.EXPECTED_FAILURE_STATUS = "none", !.failure = FALSE],
   [Incident EXCEPT !.EXPECTED_FAILURE_STATUS = "list", !.failure = FALSE],
   [Incident EXCEPT !.failure = FALSE],
   [Incident EXCEPT !.approves = TRUE],
   [Incident EXCEPT !.reads = "unreadable"],
   [Incident EXCEPT !.reads = "undecodable"]}
==============================================================================
