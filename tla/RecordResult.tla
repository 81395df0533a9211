---------------------------- MODULE RecordResult ----------------------------
(***************************************************************************)
(* `aso record-result' (commands/record_result.py): reads one RESULT file  *)
(* and proposes how to route it.  The agent may still be writing the file. *)
(***************************************************************************)
EXTENDS WorkspaceRecords

VARIABLES
  proposal   \* the last report, or NONE

ProfileRoles == {"requirements_analyst", "solution_architect", "designer", "developer",
                 "tester", "technical_writer", "devops_setup_engineer", "release_manager"}

ResultStatuses == {"pass", "fail", "blocked", "gap"}

Routes == {"NONE", "CHECKPOINT_PREFLIGHT", "ROUTE_CORRECTION", "CREATE_AUDITOR",
           "ORCHESTRATOR_BLOCKED_ROUTING", "REGISTER_GAP"}

Proposals ==
  [file : ToSet(ResultFiles), strict : BOOLEAN, report_status : {"ready", "rejected"},
   result_type : {"unknown", "audit_result", "profile_result"}, route : Routes,
   checkpoint_candidate : BOOLEAN, io_error : BOOLEAN]

ProposalTypeOK == proposal \in Proposals \cup {NONE}

(***************************************************************************)
(* Reading a RESULT.                                                       *)
(***************************************************************************)
\* A value on a line of its own is a list to this parser, and a list is no
\* text; the template writes most values that way.
AsString(r, f) ==
  LET v == Field(results[r], f)
  IN  IF v = Missing \/ (results[r].doc.form = "lines" /\ f \in {"TASK_ID", "AGENT_INSTANCE_ID", "ROLE"})
      THEN NONE ELSE v

SuggestsAudit(r) == r \in AuditFiles \ Misnamed \/ "audit_heading" \in results[r].doc.marks

ResultType(r) ==
  IF AsString(r, "ROLE") = "auditor" \/ SuggestsAudit(r) THEN "audit_result" ELSE "profile_result"

SourceResultRefs(r) ==
  LET v == Field(results[r], "EVIDENCE") IN IF v = Missing THEN {} ELSE v

BypassClaimed(r) == Field(results[r], "NEXT_RECOMMENDED_ACTION") = "bypass"

IsEmpty(r) == results[r].upto = 0

\* Mutant: whoever wrote it, the name of the file decides.
ValidCommon_AnyRole(r, strictly) ==
  /\ ~IsEmpty(r)
  /\ "no_heading" \notin results[r].doc.marks
  /\ strictly =>
       /\ \A i \in DOMAIN Template : Field(results[r], Template[i]) # Missing
       /\ AsString(r, "STATUS") \in ResultStatuses
       /\ AsString(r, "ROLE") \in ProfileRoles \cup {"auditor"}
       /\ AsString(r, "REUSE_ALLOWED") = "false"
       /\ AsString(r, "AGENT_TERMINATION_REQUIRED") = "true"

\* Whether the file passes for a RESULT; every field of it only if strict.
ValidCommon(r, strictly) ==
  /\ ~IsEmpty(r)
  /\ "no_heading" \notin results[r].doc.marks
  /\ strictly =>
       /\ \A i \in DOMAIN Template : Field(results[r], Template[i]) # Missing
       /\ AsString(r, "STATUS") \in ResultStatuses
       /\ AsString(r, "ROLE") \in ProfileRoles \cup {"auditor"}
       /\ AsString(r, "REUSE_ALLOWED") = "false"
       /\ AsString(r, "AGENT_TERMINATION_REQUIRED") = "true"
       /\ SuggestsAudit(r) => AsString(r, "ROLE") = "auditor"

\* What to do next, whoever reports the status.
RouteOf(r, onPass) ==
  LET status == AsString(r, "STATUS")
  IN  CASE status = "pass" -> onPass
        [] status = "fail" -> "ROUTE_CORRECTION"
        [] status = "blocked" -> "ORCHESTRATOR_BLOCKED_ROUTING"
        [] status = "gap" -> "REGISTER_GAP"
        [] OTHER -> "NONE"

AuditRoute(r, strictly) ==
  IF strictly /\ SourceResultRefs(r) = {} THEN RouteOf(r, "NONE")
  ELSE RouteOf(r, "CHECKPOINT_PREFLIGHT")

ProfileRoute(r) ==
  RouteOf(r, IF AsString(r, "ROLE") \in ProfileRoles THEN "CREATE_AUDITOR" ELSE "NONE")

Route(r, strictly) ==
  IF ResultType(r) = "audit_result" THEN AuditRoute(r, strictly) ELSE ProfileRoute(r)

\* Errors of the route: an audit pass of nothing, a claim beyond the audit.
RouteError(r, strictly) ==
  /\ strictly /\ AsString(r, "STATUS") = "pass"
  /\ IF ResultType(r) = "audit_result" THEN SourceResultRefs(r) = {}
     ELSE AsString(r, "ROLE") \in ProfileRoles /\ BypassClaimed(r)

Report(r, strictly) ==
  IF ~Readable(results[r])
  THEN [file |-> r, strict |-> strictly, report_status |-> "rejected",
        result_type |-> "unknown", route |-> "NONE",
        checkpoint_candidate |-> FALSE, io_error |-> TRUE]
  ELSE LET valid == ValidCommon(r, strictly)
           route == IF valid THEN Route(r, strictly) ELSE "NONE"
       IN  [file |-> r, strict |-> strictly,
            report_status |-> IF valid /\ ~RouteError(r, strictly) THEN "ready" ELSE "rejected",
            result_type |-> IF IsEmpty(r) THEN "unknown" ELSE ResultType(r),
            route |-> route,
            checkpoint_candidate |-> route = "CHECKPOINT_PREFLIGHT",
            io_error |-> FALSE]

(***************************************************************************)
(* The command, which the orchestrator may repeat.                         *)
(***************************************************************************)
RecordOff == proposal = NONE

Propose ==
  /\ \E r \in DOMAIN results, strictly \in BOOLEAN :
       proposal' = Report(r, strictly) /\ proposal' # proposal
  /\ UNCHANGED recordVars

RecordNext ==
  \/ Propose
  \/ \E r \in DOMAIN results : WriteResult(r) /\ UNCHANGED proposal
=============================================================================
