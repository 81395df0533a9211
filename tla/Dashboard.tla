------------------------------ MODULE Dashboard ------------------------------
(***************************************************************************)
(* `aso dashboard' (commands/dashboard.py).  One report puts together what *)
(* four other commands say, each of which reads the files for itself: the  *)
(* six sidecars to verify them, the six to plan, the task registry for     *)
(* `dag verify', and twice the six for the checkpoint preflight.  The      *)
(* orchestrator may write any of them in between.                          *)
(*                                                                         *)
(* The verdicts of the planner and of the preflight are those of           *)
(* CheckpointVerdicts, the one on the dependency graph is DagVerify's.     *)
(***************************************************************************)
EXTENDS Naturals, Sequences, FiniteSets, ReportPair

CONSTANTS
  Ids,        \* task ids
  None,       \* the NONE of a task reference
  Absent,     \* a task reference that is not there
  Versions,   \* for each sidecar, the states its file may be in
  MaxWrites   \* bound: writes in the middle of one report

VARIABLES
  disk,      \* the six files
  at,        \* how far the command has got: files read, plan, documents
  first,     \* the files as the last verification read them
  second,    \* the files as they were loaded after it
  report,    \* the report, as far as it is made
  stable,    \* files that were not written since the command started
  writes     \* counts the writes since then

dashVars == <<disk, at, first, second, report, stable, writes>>

\* Only the operators of the two modules are used here, not their actions.
Gate == INSTANCE CheckpointVerdicts
Dag == INSTANCE DagVerify WITH
  Entries <- {}, MaxTasks <- 0, file <- disk, pc <- at, same <- stable, drawn <- report

Order == Gate!Order
Files == Gate!Files

\* A task as the dashboard sees it: its registry entry, with the audit
\* references and whether anything is said to block it.
Rows ==
  [id : Ids,
   status : Dag!Statuses,
   dependencies : SUBSET Ids,
   push_status : {"not_required", "not_attempted", "pushed", "failed"},
   refs : BOOLEAN,
   requested_by_role : BOOLEAN,
   requested_by_task : Ids \cup {None},
   returns : BOOLEAN,
   return_role : BOOLEAN,
   return_task : Ids \cup {None},
   audit_refs : BOOLEAN,
   blocked_by : BOOLEAN]

\* A PROJECT_STATE file may parse and yet have no content, or an empty one;
\* that is an error, and the content is then that of no file at all.
IsSidecar(f, s) ==
  CASE f = "PROJECT_STATE" ->
         LET loaded == s.content
             told == [blockers |-> loaded.blockers, incident_phase |-> loaded.incident_phase,
                      checkpoint_eligibility |-> loaded.checkpoint_eligibility,
                      checkpoint_eligibility_status |-> loaded.checkpoint_eligibility_status,
                      active_branches |-> loaded.active_branches] IN
         /\ [s EXCEPT !.content = told] \in Gate!Sidecar(f)
         /\ loaded.empty \in BOOLEAN
         /\ s.health \in {"fallback", "lost"} => loaded.empty
         /\ loaded.empty => s.health \in {"flawed", "fallback", "lost"} /\ told = Gate!Blank[f]
    [] f = "TASK_REGISTRY" ->
         /\ s \in [health : Gate!Healths, content : Seq(Rows)]
         /\ s.health \in {"fallback", "lost"} => s.content = << >>
    [] f = "CURRENT_GATE" ->
         /\ s.content.blocking_status \in BOOLEAN
         /\ [s EXCEPT !.content = [task_id |-> s.content.task_id,
                                  audit_evidence |-> s.content.audit_evidence]]
              \in Gate!Sidecar(f)
         /\ s.health \in {"fallback", "lost"} => ~s.content.blocking_status
    [] OTHER -> s \in Gate!Sidecar(f)

ASSUME WritesAssumption == MaxWrites \in Nat
ASSUME FilesAssumption ==
  \A f \in Files : Versions[f] # {} /\ \A s \in Versions[f] : IsSidecar(f, s)

Content(v, f) == v[f].content

IsLoaded(v, f) == v[f].health \notin {"fallback", "lost", "unread"}

\* The files as the planner and the preflight look at them: of a task its
\* status, as far as they tell it apart, and whether it has audit references.
View(v) ==
  LET tasks == Content(v, "TASK_REGISTRY") IN
  [v EXCEPT !.TASK_REGISTRY.content =
     [t \in Dag!Known(tasks) |->
        [status |-> Dag!ById(tasks, t).status,
         audit_refs |-> Dag!ById(tasks, t).audit_refs]]]

------------------------------------------------------------------------------
(* The panels of the report, on the sidecars w loaded after verification *)

ReadyBlockedByUncheckpointedDependency_NotDone(tasks) ==
  {i \in DOMAIN tasks :
     /\ tasks[i].status = "ready"
     /\ \E d \in tasks[i].dependencies \cap Dag!Known(tasks) :
          LET t == Dag!ById(tasks, d) IN
          t.status # "checkpoint_done" \/ ~Dag!HasCheckpointEvidence(t)}

\* _ready_blocked_by_uncheckpointed_dependency: the dashboard's own account
\* of what `dag verify' looks for as well.
ReadyBlockedByUncheckpointedDependency(tasks) ==
  {i \in DOMAIN tasks :
     /\ tasks[i].status = "ready"
     /\ \E d \in tasks[i].dependencies \cap Dag!Known(tasks) :
          LET t == Dag!ById(tasks, d) IN
          \/ t.status = "audit_passed"
          \/ t.status = "checkpoint_done" /\ ~Dag!HasCheckpointEvidence(t)}

\* Whether _open_blockers finds any.
OpenBlockers(w, plan_ready) ==
  \/ Content(w, "PROJECT_STATE").blockers # {}
  \/ Content(w, "CURRENT_GATE").blocking_status
  \/ Content(w, "NEXT_ACTION").blocked_by # {}
  \/ \E i \in DOMAIN Content(w, "TASK_REGISTRY") :
       Content(w, "TASK_REGISTRY")[i].blocked_by
  \/ ~plan_ready

\* _incident_health: not available if there is no content, loaded or not.
\* The markers are looked for in the project state's own texts and in the
\* messages of the open blockers, the planner's among them; marked: one of
\* those texts that the planner does not look at (risks, gaps, reasons, the
\* gate's and the tasks' blockers) has one.
IncidentHealth(w, recommended, marked) ==
  LET p == Content(w, "PROJECT_STATE") IN
  IF p.empty THEN "not_available"
  ELSE IF \/ p.incident_phase
          \/ "incident" \in p.blockers \cup Content(w, "NEXT_ACTION").blocked_by
          \/ recommended = "FREEZE"
          \/ marked
       THEN "active_signal_detected"
  ELSE "no_active_signal"

------------------------------------------------------------------------------
(* The command *)

NoReport ==
  [recommended |-> "NONE", open |-> FALSE, counted |-> 0,
   incident_health |-> "not_available", dag |-> "not_available",
   eligible |-> "not_available", status |-> "none"]

Unread == [f \in Files |-> [health |-> "unread"]]

DashTypeOK ==
  /\ DOMAIN disk = Files /\ DOMAIN first = Files /\ DOMAIN second = Files
  /\ \A f \in Files :
       /\ disk[f] \in Versions[f]
       /\ first[f] \in Versions[f] \cup {[health |-> "unread"]}
       /\ second[f] \in Versions[f] \cup {[health |-> "unread"]}
  /\ at \in 0 .. 30
  /\ report \in [recommended : Gate!Recommendations, open : BOOLEAN, counted : Nat,
                 incident_health :
                   {"not_available", "active_signal_detected", "no_active_signal"},
                 dag : {"not_available", "passed", "failed"},
                 eligible : {"not_available", "yes", "no"},
                 status : {"none", "blocked", "ready"}]
  /\ stable \subseteq Files
  /\ writes \in 0 .. MaxWrites

Fresh ==
  /\ first = Unread
  /\ second = Unread
  /\ report = NoReport
  /\ stable = Files
  /\ writes = 0

DashInit ==
  /\ disk \in Gate!Workspaces
  /\ at = 0
  /\ Fresh

DashOff ==
  /\ disk = CHOOSE v \in Gate!Workspaces : TRUE
  /\ at = 30
  /\ Fresh

\* The next of the twelve readings of a pass that starts at from.
ReadIn(from) ==
  /\ at \in from .. from + 11
  /\ at' = at + 1
  /\ IF at < from + 6
     THEN LET f == Order[at - from + 1] IN
          first' = [first EXCEPT ![f] = disk[f]] /\ UNCHANGED second
     ELSE LET f == Order[at - from - 5] IN
          second' = [second EXCEPT ![f] = disk[f]] /\ UNCHANGED first
  /\ UNCHANGED <<disk, report, stable, writes>>

Read == ReadIn(0)

\* _plan, and the panels made from the same loaded files; rules: the rule
\* registry could be loaded.
Plan(rules, marked) ==
  /\ at = 12
  /\ at' = 13
  /\ LET v == View(first)  w == View(second)
         recommended == Gate!Recommended(FALSE, v, w) IN
     report' = [report EXCEPT
       !.recommended = recommended,
       !.open = OpenBlockers(second, Gate!Ready(FALSE, v, w, rules)),
       !.counted = Cardinality(
          ReadyBlockedByUncheckpointedDependency(Content(second, "TASK_REGISTRY"))),
       !.incident_health = IncidentHealth(second, recommended, marked)]
  /\ first' = Unread
  /\ UNCHANGED <<disk, second, stable, writes>>

DagPasses(file) ==
  /\ file.health \notin {"flawed", "lost"}
  /\ Dag!NoFindings(file.content)

SummarizeDag_NotConsulted ==
  /\ at = 13
  /\ LET dag == IF IsLoaded(second, "TASK_REGISTRY") THEN "passed" ELSE "not_available" IN
     report' = [report EXCEPT
       !.dag = dag,
       !.status = IF report.open \/ dag = "failed" THEN "blocked" ELSE "ready"]
  /\ at' = 27
  /\ UNCHANGED <<disk, first, second, stable, writes>>

SummarizeDag_Warns ==
  /\ at = 13
  /\ LET dag == IF ~IsLoaded(second, "TASK_REGISTRY") THEN "not_available"
                ELSE IF disk["TASK_REGISTRY"].health = "fallback" THEN "warning"
                ELSE "passed" IN
     report' = [report EXCEPT
       !.dag = dag,
       !.status = IF report.open \/ dag = "failed" THEN "blocked" ELSE "ready"]
  /\ at' = 27
  /\ UNCHANGED <<disk, first, second, stable, writes>>

\* _dag_summary: the registry is read once more, if it could be loaded
\* before; then the status is there.
SummarizeDag ==
  /\ at = 13
  /\ LET dag == IF ~IsLoaded(second, "TASK_REGISTRY") THEN "not_available"
                ELSE IF DagPasses(disk["TASK_REGISTRY"]) THEN "passed"
                ELSE "failed" IN
     report' = [report EXCEPT
       !.dag = dag,
       !.status = IF report.open \/ dag = "failed" THEN "blocked" ELSE "ready"]
  /\ at' = IF \A f \in {"PROJECT_STATE", "CURRENT_GATE", "NEXT_ACTION",
                        "TASK_REGISTRY"} : IsLoaded(second, f)
           THEN 14 ELSE 27
  /\ second' = Unread
  /\ UNCHANGED <<disk, first, stable, writes>>

\* _checkpoint_preflight_readiness: two more passes over the six files.
ReadAgain == ReadIn(14)

Preflight ==
  /\ at = 26
  /\ at' = 27
  /\ report' = [report EXCEPT !.eligible =
                  IF Gate!Eligible(FALSE, View(first), View(second)) THEN "yes" ELSE "no"]
  /\ first' = Unread
  /\ second' = Unread
  /\ UNCHANGED <<disk, stable, writes>>

Arguments ==
  /\ at = 27
  /\ at' = 28
  /\ ReadArguments
  /\ UNCHANGED <<disk, first, second, report, stable, writes, emitted, exit>>

\* _write_allowed, for the JSON document and then for the HTML one, each
\* judged just before it is written.
WriteDocument(kind, outcome) ==
  /\ at = (IF kind = "json" THEN 28 ELSE 29)
  /\ exit = "none"
  /\ \/ request[kind] = NONE
        /\ outcome = "whole" /\ UNCHANGED emitted
     \/ /\ request[kind] # NONE
        /\ outcome = "no" \/ MayWrite(request[kind], {"dashboard"})
        /\ Emit(kind, outcome)
  /\ IF outcome # "whole"
     THEN exit' = "io_error" /\ at' = 30
     ELSE /\ exit' = IF kind = "text" THEN "ok" ELSE exit
          /\ at' = at + 1
  /\ UNCHANGED <<disk, first, second, report, stable, writes, request>>

\* The command has ended; it is run once more.
RunDashboard ==
  /\ at = 30 /\ exit # "none"
  /\ at' = 0
  /\ first' = Unread
  /\ second' = Unread
  /\ report' = NoReport
  /\ stable' = Files
  /\ writes' = 0
  /\ PairReset
  /\ UNCHANGED disk

\* The orchestrator writes a sidecar while a command is at work.
WriteSidecar(f, s) ==
  /\ at < 26
  /\ disk[f] # s
  /\ writes < MaxWrites
  /\ disk' = [disk EXCEPT ![f] = s]
  /\ writes' = writes + 1
  /\ stable' = stable \ {f}
  /\ UNCHANGED <<at, first, second, report, request, emitted, exit>>

DashNext ==
  \/ (Read \/ (\E rules, marked \in BOOLEAN : Plan(rules, marked)) \/ SummarizeDag \/ ReadAgain
        \/ Preflight)
       /\ UNCHANGED pairVars
  \/ Arguments
  \/ \E kind \in {"json", "text"}, outcome \in {"no", "torn", "whole"} :
       WriteDocument(kind, outcome)
  \/ RunDashboard
  \/ \E f \in Files : \E s \in Versions[f] : WriteSidecar(f, s)

------------------------------------------------------------------------------
(* Properties.  Each says which files it needs nobody to write. *)

\* A dashboard that says ready can be acted on, whatever is written to the
\* other four files while it is made: the next action's task exists, nothing
\* in the registry is said to be blocked, and if the task is active then
\* every task it transitively depends on is done.  (A task registry without
\* tasks is taken to be not in use.)
ReadyDashboardIsExecutable ==
  report.status = "ready" /\ {"NEXT_ACTION", "TASK_REGISTRY"} \subseteq stable =>
    LET tasks == Content(disk, "TASK_REGISTRY")
        n == Content(disk, "NEXT_ACTION").task_id IN
    /\ n \in Dag!Known(tasks) \cup Gate!Nobody \/ Dag!Known(tasks) = {}
    /\ \A i \in DOMAIN tasks :
         /\ ~tasks[i].blocked_by
         /\ tasks[i].id = n /\ tasks[i].status \in Dag!DEPENDENCY_ACTIVE_STATUSES =>
              \A a \in Dag!AncestorsOf(tasks, i) : Dag!Satisfied(Dag!ById(tasks, a))

\* The panels, each from readings of its own, do not contradict each other,
\* whatever is written to the files that a clause does not name: tasks counted
\* as blocked by uncheckpointed dependencies make the graph fail; a frozen
\* plan blocks the report, shows as an incident if there is a project state to
\* show it, and never stands beside an eligible checkpoint; and a report that
\* is ready although a checkpoint is asked for recommends its preflight.
PanelsDoNotContradict ==
  report.status # "none" =>
    /\ report.counted > 0 /\ "TASK_REGISTRY" \in stable =>
         report.dag = "failed" /\ report.status = "blocked"
    /\ report.recommended = "FREEZE" =>
         /\ report.status = "blocked"
         /\ {"PROJECT_STATE", "NEXT_ACTION"} \subseteq stable => report.eligible # "yes"
         /\ "PROJECT_STATE" \in stable /\ ~Content(disk, "PROJECT_STATE").empty =>
              report.incident_health = "active_signal_detected"
    /\ /\ report.status = "ready" /\ "NEXT_ACTION" \in stable
       /\ Gate!IsCheckpointAttempt(View(disk))
       => report.recommended = "CHECKPOINT_PREFLIGHT"
==============================================================================
