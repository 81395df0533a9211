--------------------------- MODULE IncidentFixture ---------------------------
(***************************************************************************)
(* commands/incident_fixture.py: a proposal for a regression fixture, made *)
(* from an incident file.  Both output paths are judged before anything is *)
(* written; the two documents are then written one after the other, and an *)
(* error in between ends the program.                                      *)
(***************************************************************************)
EXTENDS ReportPair

CONSTANT Incidents    \* the incident files

VARIABLES
  incident,   \* the incident file at hand, if any
  proposal,   \* the report: none yet, "ready" or "rejected"
  step        \* the next thing to do, "off" if the command does not run

fixtureVars == <<incident, proposal, step>>

\* A field of the incident (_parse_fields): not there; NONE, which is also
\* what a field with nothing on its line or below it becomes; a text on its
\* line; or a list on the lines below it.
Forms == {"absent", "none", "text", "list"}

IncidentFiles ==
  [reads : {"text", "unreadable", "undecodable"},
   empty : BOOLEAN,
   INCIDENT_ID : Forms,
   INCIDENT_CLASS : Forms,
   TRIGGERING_RULE_IDS : Forms,
   EXPECTED_FAILURE_STATUS : Forms,
   failure : BOOLEAN,     \* the expected status is one of a failure
   approves : BOOLEAN,    \* contains one of OWNER_APPROVAL_MARKERS,
   weakens : BOOLEAN]     \* of VALIDATOR_WEAKENING_MARKERS

ASSUME IncidentsAssumption == Incidents \subseteq IncidentFiles

REQUIRED_STRICT_FIELDS ==
  {"INCIDENT_ID", "INCIDENT_CLASS", "TRIGGERING_RULE_IDS", "EXPECTED_FAILURE_STATUS"}

Missing(f, field) == f[field] \in {"absent", "none"}

\* _validate_incident.  An expected status that is not there or is a list is
\* not looked at any further, but NONE is, and is no status of a failure.
Invalid(f, strict) ==
  \/ f.empty
  \/ strict /\ \E field \in REQUIRED_STRICT_FIELDS : Missing(f, field)
  \/ Missing(f, "TRIGGERING_RULE_IDS")
  \/ f.EXPECTED_FAILURE_STATUS = "none"
  \/ f.EXPECTED_FAILURE_STATUS = "text" /\ ~f.failure
  \/ f.approves
  \/ f.weakens

FixtureTypeOK ==
  /\ incident \in Incidents \cup {NONE}
  /\ proposal \in {"none", "ready", "rejected"}
  /\ step \in {"off", "build", "judge", "json", "text", "end"}

FixtureOff ==
  /\ incident = NONE
  /\ proposal = "none"
  /\ step = "off"

FixtureInit ==
  /\ incident \in Incidents
  /\ proposal = "none"
  /\ step = "build"

\* build_report: the incident is read once; bytes that are not UTF-8 end the
\* program there.
BuildProposal(strict) ==
  /\ step = "build"
  /\ ReadArguments
  /\ IF incident.reads = "undecodable"
     THEN exit' = "exception" /\ step' = "end" /\ UNCHANGED proposal
     ELSE /\ exit' = IF incident.reads = "unreadable" THEN "io_error"
                    ELSE IF Invalid(incident, strict) THEN "findings" ELSE "ok"
          /\ proposal' = IF exit' = "ok" THEN "ready" ELSE "rejected"
          /\ step' = "judge"
  /\ UNCHANGED <<incident, emitted>>

FixtureMayWrite(place) == place = NONE \/ MayWrite(place, {"proposals", "reports"})

JudgeOutputs_Json ==
  /\ step = "judge"
  /\ IF FixtureMayWrite(request.json)
     THEN UNCHANGED <<proposal, exit>>
     ELSE proposal' = "rejected" /\ exit' = "findings"
  /\ step' = IF exit' = "ok" THEN "json" ELSE "end"
  /\ UNCHANGED <<incident, request, emitted>>

\* _collect_output_targets: both paths, before anything is written.
JudgeOutputs ==
  /\ step = "judge"
  /\ IF FixtureMayWrite(request.json) /\ FixtureMayWrite(request.text)
     THEN UNCHANGED <<proposal, exit>>
     ELSE proposal' = "rejected" /\ exit' = "findings"
  /\ step' = IF exit' = "ok" THEN "json" ELSE "end"
  /\ UNCHANGED <<incident, request, emitted>>

\* _write_json, _write_text
WriteProposal(kind, outcome) ==
  /\ step = kind
  /\ IF request[kind] = NONE
     THEN outcome = "whole" /\ UNCHANGED <<emitted, exit>>
     ELSE /\ Emit(kind, outcome)
          /\ exit' = IF outcome = "whole" THEN exit ELSE "exception"
  /\ step' = IF outcome = "whole" /\ kind = "json" THEN "text" ELSE "end"
  /\ UNCHANGED <<incident, proposal, request>>

\* The command has ended; it is run once more.
RunFixture ==
  /\ step = "end"
  /\ step' = "build"
  /\ proposal' = "none"
  /\ incident' \in Incidents
  /\ PairReset

FixtureNext ==
  \/ \E strict \in BOOLEAN : BuildProposal(strict)
  \/ JudgeOutputs
  \/ \E kind \in {"json", "text"}, outcome \in {"no", "torn", "whole"} :
       WriteProposal(kind, outcome)
  \/ RunFixture
==============================================================================
