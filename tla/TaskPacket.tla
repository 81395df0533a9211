----------------------------- MODULE TaskPacket -----------------------------
(***************************************************************************)
(* scripts/validate_task_packet.py: whether a Markdown document is a task  *)
(* packet, or a task proposal, that may be dispatched or checkpointed.     *)
(* Of a document the model keeps what the verdict tells apart.             *)
(***************************************************************************)

\* PROFILE_ROLES, the ones without an alias standing for each other.
PROFILE_ROLES == {"developer", "auditor", "solution_architect", "designer"}

\* ROLE_ALIASES
CanonicalRole(role) == IF role = "designer" THEN "solution_architect" ELSE role

\* Where a document lies: under ACTIVE_DOC_ROOT, at the bootstrap path of a
\* role, under project-input/PATCH_, or elsewhere.
Places == {"project-docs", "patch", "elsewhere"} \cup PROFILE_ROLES

\* Documents as validate_path reads them: the markers of their headings;
\* whether all mandatory sections of either schema are there and not empty;
\* whether the fields the model does not name have values of their enums.
Documents ==
  [readable : BOOLEAN, packet : BOOLEAN, proposal : BOOLEAN,
   complete : BOOLEAN, wellformed : BOOLEAN,
   status : {"active", "completed", "superseded", "deprecated"},
   kind : {"normal", "correction"}, correction_of : BOOLEAN,
   task_type : PROFILE_ROLES \cup {"orchestrator"},
   target_role : PROFILE_ROLES \cup {"orchestrator"},
   deprecated_docs : BOOLEAN,      \* REQUIRED_DOCS names archived documents
   non_dispatchable : BOOLEAN,     \* what DISPATCH_STATUS of a proposal must say
   place : Places]

\* require_task_packet_schema; missing sections end the check.
SchemaErrors(d) ==
  IF ~d.complete THEN {"sections"} ELSE
    {e \in {"enum", "role_mismatch", "deprecated_docs"} :
       CASE e = "enum" ->
              ~d.wellformed \/ {d.task_type, d.target_role} \ PROFILE_ROLES # {}
         [] e = "role_mismatch" ->
              CanonicalRole(d.task_type) # CanonicalRole(d.target_role)
         [] e = "deprecated_docs" -> d.deprecated_docs}

\* require_dispatchable_path; the first-bootstrap path may carry the role or
\* its canonical name, package corrections say what they correct.
DispatchablePath(d, bootstrap, correction) ==
  \/ d.place = "project-docs"
  \/ /\ bootstrap
     /\ d.target_role \in PROFILE_ROLES
     /\ d.place \in {d.target_role, CanonicalRole(d.target_role)}
  \/ /\ correction
     /\ d.place = "patch"
     /\ d.kind = "correction" /\ d.correction_of

ValidatePacket_StatusIgnored(d, mode, bootstrap, correction) ==
  /\ SchemaErrors(d) = {}
  /\ mode = "dispatch" =>
       d.status = "active" /\ DispatchablePath(d, bootstrap, correction)

\* validate_task_packet
ValidatePacket(d, mode, bootstrap, correction) ==
  /\ SchemaErrors(d) = {}
  /\ mode = "dispatch" => d.status = "active"
  /\ mode = "dispatch" \/ (mode = "checkpoint" /\ d.status = "active") =>
       DispatchablePath(d, bootstrap, correction)

\* validate_task_proposal
ValidateProposal(d, mode) == d.complete /\ d.non_dispatchable /\ mode # "dispatch"

\* validate_path: main exits with 0 iff every document is valid.
Valid(d, mode, bootstrap, correction) ==
  /\ d.readable
  /\ \/ d.packet /\ ~d.proposal /\ ValidatePacket(d, mode, bootstrap, correction)
     \/ d.proposal /\ ~d.packet /\ ValidateProposal(d, mode)
=============================================================================
