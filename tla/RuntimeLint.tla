----------------------------- MODULE RuntimeLint -----------------------------
(***************************************************************************)
(* `aso lint --mode workspace' (commands/lint.py): the runtime files are   *)
(* read once, one after the other; the RESULT files and the task packets   *)
(* are listed and read again for every check that wants them.              *)
(***************************************************************************)
EXTENDS WorkspaceRecords

VARIABLES
  strict,      \* --strict: warnings fail as well
  seen,        \* the runtime files as read
  found,       \* the worst finding up to now
  todo,        \* the RESULT files still to be read for this check
  roll,        \* instances.jsonl as read
  at,          \* what the command does next
  touched,     \* the RESULT files written since the command began
  verdict,     \* the status in its report
  code         \* its exit code

lintVars == <<strict, seen, found, todo, roll, at, touched, verdict, code>>

LintTypeOK ==
  /\ strict \in BOOLEAN
  /\ DOMAIN seen \subseteq DOMAIN files
  /\ \A f \in DOMAIN seen : seen[f] \in Contents(f)
  /\ found \in {"none", "warning", "error"}
  /\ todo \subseteq ToSet(ResultFiles)
  /\ roll \subseteq Events
  /\ at \in {"off", "read", "files", "artifacts", "names", "references", "trace",
             "events", "lifecycle", "skeleton", "report", "end"}
  /\ touched \subseteq ToSet(ResultFiles)
  /\ verdict \in {"none", "io_error", "failed", "warning", "passed"}
  /\ code \in {"none", "ok", "findings", "io_error"}

LintOff ==
  /\ strict = FALSE /\ seen = << >> /\ found = "none" /\ todo = {}
  /\ roll = {} /\ at = "off" /\ touched = {} /\ verdict = "none" /\ code = "none"

LintInit ==
  /\ strict \in BOOLEAN
  /\ seen = << >> /\ found = "none" /\ todo = {}
  /\ roll = {} /\ at = "read" /\ touched = {} /\ verdict = "none" /\ code = "none"

(***************************************************************************)
(* Words the checks share.                                                 *)
(***************************************************************************)
IsNone(v) == v \in {NONE, "null", Missing}

HasExplicitReason(e) == e.marks \cap {"reason", "archive_reason"} # {}

IsHistoricalOrWaived(e) ==
  \/ "historical" \in e.marks
  \/ "waived" \in e.marks /\ HasExplicitReason(e)

HasCheckpointCoverage(e) ==
  \/ "covered_by" \in e.marks
  \/ "covered" \in e.marks /\ HasExplicitReason(e)

EntriesOf(s, t) ==
  {i \in DOMAIN s["TASK_REGISTRY"].entries : s["TASK_REGISTRY"].entries[i].task = t}

Registered(s, t) == EntriesOf(s, t) # {}

\* The last entry of a task hides those before it.
TaskEntry(s, t) == s["TASK_REGISTRY"].entries[Max(EntriesOf(s, t))]

Worse(a, b) ==
  IF "error" \in {a, b} THEN "error" ELSE IF "warning" \in {a, b} THEN "warning" ELSE "none"

Add(error, warning) ==
  found' = Worse(found, IF error THEN "error" ELSE IF warning THEN "warning" ELSE "none")

(***************************************************************************)
(* Checks of the runtime files as read.                                    *)
(***************************************************************************)
Closed == {"passed", "skipped", "closed", "completed", "inactive"}

CheckpointPolicies == {"local_only", "commit_and_push"}

TerminalStatuses == {"checkpoint_done", "completed", "superseded"}

Halts(action) == action.type \in {"stop", "finalize"}

DuplicateFields(s) ==
  \E f \in DOMAIN s \ {"TASK_REGISTRY", "ACCEPTED_ARTIFACTS"} : "conflict" \in s[f].marks

CheckpointGate(s) ==
  s["PROJECT_STATE"].checkpoint = "passed" /\ s["CURRENT_GATE"].status \notin Closed

StaleNextAction(s) ==
  LET action == s["NEXT_ACTION"]
      gate   == s["CURRENT_GATE"]
  IN  \/ ~IsNone(action.task) /\ ~IsNone(gate.task) /\ action.task # gate.task
      \/ /\ ~Halts(action) /\ ~IsNone(action.task)
         /\ \/ ~Registered(s, action.task)
            \/ TaskEntry(s, action.task).status \in TerminalStatuses
      \/ s["PROJECT_STATE"].project = "completed" /\ ~Halts(action)

CheckpointReceipt(s) ==
  LET action == s["NEXT_ACTION"]
      state  == s["PROJECT_STATE"]
  IN  /\ \/ "receipt_required" \in action.marks
         \/ action.policy \in CheckpointPolicies
         \/ state.checkpoint = "passed"
      /\ IsNone(action.receipt) /\ IsNone(state.receipt)

PostCheckpointNextAction(s) ==
  LET action == s["NEXT_ACTION"]
      gate   == s["CURRENT_GATE"]
      state  == s["PROJECT_STATE"]
  IN  /\ state.checkpoint = "passed"
      /\ action.policy \in CheckpointPolicies \/ action.type = "checkpoint"
      /\ \/ ~IsNone(action.task) /\ action.task = gate.task
         \/ ~IsNone(action.receipt) /\ action.receipt = state.receipt

Pushes(s) == {s[f].push : f \in {"PROJECT_STATE", "REPOSITORY_LOCK", "WORKSPACE_IDENTITY"}}

PushAllowed(s) == \E v, w \in Pushes(s) : ~IsNone(v) /\ ~IsNone(w) /\ v # w

PackageVersionTuple(s) ==
  "other_version" \in s["PROJECT_STATE"].marks /\ ~IsHistoricalOrWaived(s["PROJECT_STATE"])

TaskStatuses(s) ==
  \E i \in DOMAIN s["TASK_REGISTRY"].entries :
    LET e    == s["TASK_REGISTRY"].entries[i]
        done == e.status \in {"completed", "checkpoint_done"}
    IN  \/ e.status \in {"completed", "audit_passed", "checkpoint_done"} /\ e.results = {}
        \/ done /\ "audits" \notin e.marks /\ ~IsHistoricalOrWaived(e)
        \/ done /\ "checkpoint" \notin e.marks /\ ~IsHistoricalOrWaived(e) /\ ~HasCheckpointCoverage(e)
        \/ e.status \in {"audit_passed", "checkpoint_done"} /\ "audits" \notin e.marks
        \/ e.status = "checkpoint_done" /\ ("checkpoint" \notin e.marks \/ IsNone(e.commit))

RuntimeErrors(s) ==
  \/ DuplicateFields(s) \/ CheckpointGate(s) \/ StaleNextAction(s)
  \/ CheckpointReceipt(s) \/ PostCheckpointNextAction(s) \/ PushAllowed(s)
  \/ PackageVersionTuple(s) \/ TaskStatuses(s)

MissingAllowed(e) ==
  \/ "archive_reason" \in e.marks
  \/ "archived" \in e.marks /\ HasExplicitReason(e)

\* An accepted artifact nobody can find.
AcceptedArtifacts(s, t) ==
  \E i \in DOMAIN s["ACCEPTED_ARTIFACTS"].entries :
    LET e == s["ACCEPTED_ARTIFACTS"].entries[i]
    IN  /\ e.status = "accepted"
        /\ e.ref = NONE \/ (e.ref \notin t /\ ~MissingAllowed(e))

(***************************************************************************)
(* Checks of the other records, as they are when the check reads them.     *)
(***************************************************************************)
Present == {r \in ToSet(ResultFiles) : results[r] # Missing}

\* The files listed for a check are taken in the order of their paths.
First(r) ==
  \E i \in DOMAIN ResultFiles :
    ResultFiles[i] = r /\ \A k \in 1 .. i - 1 : ResultFiles[k] \notin todo

Content(r, f) == IF Readable(results[r]) THEN Field(results[r], f) ELSE Missing

Marks(r) ==
  IF Readable(results[r]) /\ Finished(results[r]) THEN results[r].doc.marks ELSE {}

\* Two kinds of records with one basename: one of them lacks its prefix.
BasenameCollisions == \E r \in Misnamed : results[r] # Missing

KnownTasks(s) ==
  {s["TASK_REGISTRY"].entries[i].task : i \in DOMAIN s["TASK_REGISTRY"].entries} \cup
  {IF Readable(packets[p]) /\ ~IsNone(packets[p].task) THEN packets[p].task ELSE p :
     p \in {q \in DOMAIN packets : packets[q] # Missing}}

KnownResults(s) ==
  {r \in DOMAIN results \ AuditFiles : results[r] # Missing} \cup
  UNION {s["TASK_REGISTRY"].entries[i].results : i \in DOMAIN s["TASK_REGISTRY"].entries}

AuditedRefs(r) ==
  IF Content(r, "EVIDENCE") = Missing THEN {} ELSE Content(r, "EVIDENCE") \ {NONE}

ResultAndAuditReferences(s) ==
  \E r \in Present :
    \/ IsNone(Content(r, "TASK_ID")) \/ Content(r, "TASK_ID") \notin KnownTasks(s)
    \/ r \in AuditFiles /\ (AuditedRefs(r) = {} \/ ~(AuditedRefs(r) \subseteq KnownResults(s)))

\* Mutant: a task packet does for an entry of the registry.
ResultRegistryTraceability_Packets(s, r) ==
  /\ ~IsHistoricalOrWaived([marks |-> Marks(r)])
  /\ IsNone(Content(r, "TASK_ID")) \/ Content(r, "TASK_ID") \notin KnownTasks(s)

ResultRegistryTraceability(s, r) ==
  /\ ~IsHistoricalOrWaived([marks |-> Marks(r)])
  /\ IsNone(Content(r, "TASK_ID")) \/ ~Registered(s, Content(r, "TASK_ID"))

Of(es, agent) == {e \in es : e.agent = agent}

Terminated(es, agent) == \E e \in Of(es, agent) : e.event = "agent_instance_terminated"

AgentReused(es, agent) ==
  \/ \E e \in Of(es, agent) : e.event = "agent_result_received" /\ e.reuse_allowed # "false"
  \/ Cardinality({e.task : e \in Of(es, agent)} \ {NONE}) > 1

LifecycleFields == {"TASK_ID", "AGENT_INSTANCE_ID", "SUMMARY", "REUSE_ALLOWED",
                    "AGENT_TERMINATION_REQUIRED"}

AgentLifecycle(es, r) ==
  LET agent == Content(r, "AGENT_INSTANCE_ID")
  IN  /\ Readable(results[r])
      /\ \/ \E f \in LifecycleFields : IsNone(Content(r, f))
         \/ Content(r, "REUSE_ALLOWED") # "false"
         \/ Content(r, "AGENT_TERMINATION_REQUIRED") # "true"
         \/ ~IsNone(agent) /\ (~Terminated(es, agent) \/ AgentReused(es, agent))

Levels == <<"low", "medium", "high", "xhigh">>

GateFloors == [audit |-> "xhigh", architecture_design |-> "xhigh", implementation |-> "high",
               runtime_lint |-> "medium", simple_file_move |-> "low"]

\* The floor of a packet.  The names of the fields that may give it form a
\* Python set, so if two give one, the run decides which of them counts.
ReasoningFloors(p) ==
  IF p.floors # {} THEN p.floors
  ELSE IF p.gate \in DOMAIN GateFloors THEN {GateFloors[p.gate]}
  ELSE IF p.kind = "audit" THEN {GateFloors["audit"]}
  ELSE IF p.kind \in {"setup", "launch"} THEN {GateFloors["implementation"]}
  ELSE IF p.role = "auditor" THEN {GateFloors["audit"]}
  ELSE IF p.role \in {"designer", "solution_architect"} THEN {GateFloors["architecture_design"]}
  ELSE {NONE}

BelowFloor(level, floor) ==
  \E i, k \in DOMAIN Levels : i < k /\ level = Levels[i] /\ floor = Levels[k]

\* A packet whose level is missing, unknown, or below a floor that is one.
ReasoningError(p, floor) ==
  \/ IsNone(p.level)
  \/ p.level \notin ToSet(Levels) \cup {"deprecated"}
  \/ /\ p.level \in ToSet(Levels)
     /\ floor \notin ToSet(Levels) \cup {NONE} \/ BelowFloor(p.level, floor)

SkeletonProductPass ==
  \/ \E p \in DOMAIN packets : Readable(packets[p]) /\ "skeleton_product" \in packets[p].marks
  \/ \E r \in DOMAIN results : "skeleton_product" \in Marks(r)
  \/ \E f \in DOMAIN files : Readable(files[f]) /\ "skeleton_product" \in files[f].marks

(***************************************************************************)
(* The command.                                                            *)
(***************************************************************************)
Goto(step) == at' = step

ReadRuntimeFile ==
  /\ at = "read"
  /\ Cardinality(DOMAIN seen) < Len(RuntimeFiles)
  /\ LET f == RuntimeFiles[Cardinality(DOMAIN seen) + 1]
     IN  seen' = [g \in DOMAIN seen \cup {f} |-> IF g = f THEN files[f] ELSE seen[g]]
  /\ UNCHANGED <<strict, found, todo, roll, at, touched, verdict, code>>

RequiredFilesRead ==
  /\ at = "read"
  /\ DOMAIN seen = ToSet(RuntimeFiles)
  /\ IF \A f \in DOMAIN seen : Readable(seen[f])
     THEN Goto("files") /\ UNCHANGED verdict
     ELSE Goto("report") /\ verdict' = "io_error"
  /\ UNCHANGED <<strict, seen, found, todo, roll, touched, code>>

CheckRuntimeFiles ==
  /\ at = "files" /\ Goto("artifacts")
  /\ Add(RuntimeErrors(seen), FALSE)
  /\ UNCHANGED <<strict, seen, todo, roll, touched, verdict, code>>

CheckAcceptedArtifacts ==
  /\ at = "artifacts" /\ Goto("names")
  /\ Add(AcceptedArtifacts(seen, tree), FALSE)
  /\ UNCHANGED <<strict, seen, todo, roll, touched, verdict, code>>

CheckBasenameCollisions ==
  /\ at = "names" /\ Goto("references")
  /\ Add(FALSE, BasenameCollisions)
  /\ UNCHANGED <<strict, seen, todo, roll, touched, verdict, code>>

\* The RESULT files are listed for the next check while this one ends.
CheckReferences ==
  /\ at = "references" /\ Goto("trace")
  /\ Add(FALSE, ResultAndAuditReferences(seen))
  /\ todo' = Present
  /\ UNCHANGED <<strict, seen, roll, touched, verdict, code>>

CheckTraceability ==
  /\ at = "trace"
  /\ \E r \in todo :
       /\ First(r)
       /\ Add(ResultRegistryTraceability(seen, r), FALSE)
       /\ todo' = todo \ {r}
  /\ UNCHANGED <<strict, seen, roll, at, touched, verdict, code>>

ReadEvents ==
  /\ at = "trace" /\ todo = {} /\ Goto("events")
  /\ roll' = IF events = Unreadable THEN {} ELSE events
  /\ UNCHANGED <<strict, seen, found, todo, touched, verdict, code>>

ListForLifecycle ==
  /\ at = "events" /\ Goto("lifecycle")
  /\ todo' = Present
  /\ UNCHANGED <<strict, seen, found, roll, touched, verdict, code>>

CheckLifecycle ==
  /\ at = "lifecycle"
  /\ \E r \in todo :
       /\ First(r)
       /\ Add(AgentLifecycle(roll, r), FALSE)
       /\ todo' = todo \ {r}
  /\ UNCHANGED <<strict, seen, roll, at, touched, verdict, code>>

CheckReasoningAndDesigner ==
  /\ at = "lifecycle" /\ todo = {} /\ Goto("skeleton")
  /\ LET read == {p \in DOMAIN packets : Readable(packets[p])}
         roles == \/ \E p \in read : packets[p].role = "designer"
                  \/ \E f \in DOMAIN seen : "designer" \in seen[f].marks
     IN  \E floor \in [read -> UNION {ReasoningFloors(packets[p]) : p \in read}] :
           /\ \A p \in read : floor[p] \in ReasoningFloors(packets[p])
           /\ Add(\E p \in read : ReasoningError(packets[p], floor[p]),
                  roles \/ \E p \in read : packets[p].level = "deprecated")
  /\ UNCHANGED <<strict, seen, todo, roll, touched, verdict, code>>

CheckSkeleton ==
  /\ at = "skeleton" /\ Goto("report")
  /\ Add(SkeletonProductPass, FALSE)
  /\ verdict' = IF found' = "error" \/ (strict /\ found' # "none") THEN "failed"
                ELSE IF found' = "none" THEN "passed" ELSE "warning"
  /\ UNCHANGED <<strict, seen, todo, roll, touched, code>>

\* The report is printed and, if asked for, written, which may fail.
WriteLintReport ==
  /\ at = "report" /\ Goto("end")
  /\ code' \in {"io_error", IF verdict \in {"passed", "warning"} THEN "ok"
                           ELSE IF verdict = "failed" THEN "findings" ELSE "io_error"}
  /\ UNCHANGED <<strict, seen, found, todo, roll, touched, verdict>>

LintStep ==
  \/ ReadRuntimeFile \/ RequiredFilesRead \/ CheckRuntimeFiles
  \/ CheckAcceptedArtifacts \/ CheckBasenameCollisions \/ CheckReferences
  \/ CheckTraceability \/ ReadEvents \/ ListForLifecycle \/ CheckLifecycle
  \/ CheckReasoningAndDesigner \/ CheckSkeleton \/ WriteLintReport

\* The writers while the command runs, and after it.
LintWriter ==
  \/ /\ WriteRuntimeFile \/ RecordEvent \/ WritePacket \/ ChangeTree
     /\ UNCHANGED lintVars
  \/ \E r \in DOMAIN results :
       /\ WriteResult(r)
       /\ touched' = touched \cup {r}
       /\ UNCHANGED <<strict, seen, found, todo, roll, at, verdict, code>>

LintNext ==
  \/ LintStep /\ UNCHANGED recordVars
  \/ LintWriter
=============================================================================
