------------------------------ MODULE DagVerify ------------------------------
(***************************************************************************)
(* `aso dag verify' and `aso dag render' (commands/dag.py) beside the      *)
(* orchestrator that writes TASK_REGISTRY.json.                            *)
(*                                                                         *)
(* A registry is the list of task entries of the file.  Of an entry the    *)
(* model keeps what the verdict reads.  The cycle check is the predicate   *)
(* CycleSearch implements.                                                 *)
(***************************************************************************)
EXTENDS DependencyGraph

CONSTANTS
  Ids,        \* task ids
  None,       \* an empty id, and the NONE of a reference
  Entries,    \* the task entries the orchestrator writes
  MaxTasks    \* bound: entries of a registry

ASSUME NoneAssumption == None \notin Ids
ASSUME MaxTasksAssumption == MaxTasks \in Nat

DEPENDENCY_SATISFIED_STATUSES == {"checkpoint_done", "completed"}

ActiveStatuses_InFlight == {"ready", "running", "audit_pending", "audit_passed"}

DEPENDENCY_ACTIVE_STATUSES ==
  {"ready", "running", "audit_pending", "audit_passed"}
    \cup DEPENDENCY_SATISFIED_STATUSES

Statuses ==
  {"pending", "ready", "running", "audit_pending", "audit_passed",
   "checkpoint_done", "blocked", "failed", "superseded", "completed"}

Task ==
  [id : Ids \cup {None},
   status : Statuses,
   dependencies : SUBSET Ids,
   push_status : {"not_required", "not_attempted", "pushed", "failed"},
   refs : BOOLEAN,           \* commit_hash, branch, checkpoint_ref and
                             \* accepted_files are all given
   requested_by_role : BOOLEAN,
   requested_by_task : Ids \cup {None},
   returns : BOOLEAN,        \* return_to_requester_after_audit_pass
   return_role : BOOLEAN,    \* whether one is given
   return_task : Ids \cup {None}]

ASSUME EntriesAssumption == Entries \subseteq Task

------------------------------------------------------------------------------
(* The verdict on a list of tasks *)

Known(tasks) == {tasks[i].id : i \in DOMAIN tasks} \ {None}

\* by_id: of the entries with one id, the last.
ById(tasks, n) ==
  tasks[CHOOSE i \in DOMAIN tasks :
          /\ tasks[i].id = n
          /\ \A j \in DOMAIN tasks : tasks[j].id = n => j <= i]

GraphOf(tasks) ==
  {e \in Known(tasks) \X Known(tasks) : e[2] \in ById(tasks, e[1]).dependencies}

HasCheckpointEvidence(task) == task.refs /\ task.push_status = "pushed"

\* The dependency counts as done.
Satisfied(task) ==
  \/ task.status = "completed"
  \/ task.status = "checkpoint_done" /\ HasCheckpointEvidence(task)

DuplicateFindings_Neighbours(tasks) ==
  {j \in DOMAIN tasks :
     tasks[j].id # None /\ j > 1 /\ tasks[j - 1].id = tasks[j].id}

\* Entries that repeat the id of an earlier one.
DuplicateFindings(tasks) ==
  {j \in DOMAIN tasks :
     tasks[j].id # None /\ \E i \in 1 .. j - 1 : tasks[i].id = tasks[j].id}

MissingDependencyFindings(tasks) ==
  {f \in (DOMAIN tasks) \X Ids :
     f[2] \in tasks[f[1]].dependencies \ Known(tasks)}

CycleFound_Never(tasks) == FALSE

CycleFound(tasks) == ~Acyclic(Known(tasks), GraphOf(tasks))

\* Active entries with a known dependency that is not satisfied.
StatusDependencyFindings(tasks) ==
  {f \in (DOMAIN tasks) \X Known(tasks) :
     /\ tasks[f[1]].status \in DEPENDENCY_ACTIVE_STATUSES
     /\ f[2] \in tasks[f[1]].dependencies
     /\ ~Satisfied(ById(tasks, f[2]))}

\* Entries whose requester or return metadata is wrong.
RequesterReturnFindings(tasks) ==
  {i \in DOMAIN tasks :
     LET t == tasks[i] IN
     \/ t.requested_by_task \notin Known(tasks) \cup {None}
     \/ t.requested_by_task = t.id /\ t.id # None
     \/ /\ t.returns
        /\ \/ ~t.requested_by_role
           \/ t.requested_by_task = None
           \/ ~t.return_role
           \/ t.return_task \notin Known(tasks)
     \/ /\ ~t.returns
        /\ t.return_role \/ t.return_task # None}

NoFindings(tasks) ==
  /\ DuplicateFindings(tasks) = {}
  /\ MissingDependencyFindings(tasks) = {}
  /\ ~CycleFound(tasks)
  /\ StatusDependencyFindings(tasks) = {}
  /\ RequesterReturnFindings(tasks) = {}

------------------------------------------------------------------------------
(* The file *)

\* What _validate_sidecar makes of it: "valid"; "flawed", an object that
\* breaks the sidecar contract; "unreadable", which a half-written file is
\* too; "fallback", absent while its Markdown view is there; "missing".
FileStates == {"valid", "flawed", "unreadable", "fallback", "missing"}

\* The tasks the commands load: none unless there is an object to load.
Loaded(file) ==
  IF file.state \in {"valid", "flawed"} THEN file.tasks ELSE << >>

\* "fallback" is a warning only.
SidecarError(file) == file.state \in {"flawed", "unreadable", "missing"}

Passes(file) == ~SidecarError(file) /\ NoFindings(Loaded(file))

------------------------------------------------------------------------------
(* The commands and the orchestrator *)

VARIABLES
  file,      \* TASK_REGISTRY.json
  pc,        \* of `dag render': "idle", the verdict "passed" or "failed"
             \* once it is there, "rendered".  `dag verify' ends on the
             \* verdict.
  same,      \* the file has not been written since the verdict was read
  drawn      \* the tasks of the rendered view

vars == <<file, pc, same, drawn>>

TypeOK ==
  /\ file \in [state : FileStates, tasks : Seq(Entries)]
  /\ Len(file.tasks) <= MaxTasks
  /\ pc \in {"idle", "passed", "failed", "rendered"}
  /\ same \in BOOLEAN
  /\ drawn \in Seq(Entries)
  /\ Len(drawn) <= MaxTasks

Init ==
  /\ file = [state |-> "valid", tasks |-> << >>]
  /\ pc = "idle"
  /\ same = TRUE
  /\ drawn = << >>

Verify_Warns ==
  /\ pc = "idle"
  /\ pc' = IF file.state = "fallback" THEN "warning"
           ELSE IF Passes(file) THEN "passed" ELSE "failed"
  /\ same' = TRUE
  /\ UNCHANGED <<file, drawn>>

\* verify_report: the registry is read, checked and reported.
Verify ==
  /\ pc = "idle"
  /\ pc' = IF Passes(file) THEN "passed" ELSE "failed"
  /\ same' = TRUE
  /\ UNCHANGED <<file, drawn>>

Render_Unguarded ==
  /\ pc \in {"passed", "failed"}
  /\ pc' = "rendered"
  /\ drawn' = Loaded(file)
  /\ UNCHANGED <<file, same>>

\* _render goes on after a pass: the registry is read again, the findings
\* of this second reading are dropped, and its tasks are drawn.
Render ==
  /\ pc = "passed"
  /\ pc' = "rendered"
  /\ drawn' = Loaded(file)
  /\ UNCHANGED <<file, same>>

\* The command ends; another one may start.
Exit ==
  /\ pc # "idle"
  /\ pc' = "idle"
  /\ same' = TRUE
  /\ drawn' = << >>
  /\ UNCHANGED file

\* The orchestrator writes the file, before a command or in the middle of
\* one; what it writes after the last reading no command sees.
Write(f) ==
  /\ pc \in {"idle", "passed"}
  /\ f # file
  /\ file' = f
  /\ same' = (pc = "idle")
  /\ UNCHANGED <<pc, drawn>>

\* A task is registered,
AddTask(t) ==
  /\ file.state \in {"valid", "flawed"}
  /\ Len(file.tasks) < MaxTasks
  /\ Write([file EXCEPT !.tasks = Append(@, t)])

\* or its progress is recorded (its dependencies stay what they are),
EditTask(i, t) ==
  /\ t.id = file.tasks[i].id
  /\ t.dependencies = file.tasks[i].dependencies
  /\ Write([file EXCEPT !.tasks[i] = t])

\* or the file as a whole is broken, repaired or lost.
Flaw(s) ==
  /\ file.state \in {"valid", "flawed"}
  /\ s \in {"valid", "flawed"}
  /\ Write([file EXCEPT !.state = s])

Lose(s) ==
  /\ s \in {"unreadable", "fallback", "missing"}
  /\ Write([state |-> s, tasks |-> << >>])

Recreate ==
  /\ file.state \notin {"valid", "flawed"}
  /\ Write([state |-> "valid", tasks |-> << >>])

Next ==
  \/ Verify
  \/ Render
  \/ Exit
  \/ \E t \in Entries : AddTask(t)
  \/ \E i \in DOMAIN file.tasks, t \in Entries : EditTask(i, t)
  \/ \E s \in FileStates : Flaw(s) \/ Lose(s)
  \/ Recreate

Spec == Init /\ [][Next]_vars

------------------------------------------------------------------------------
(* Properties *)

\* The verdict was read from the file as it is now.
Reported(verdict) == pc = verdict /\ same

\* The tasks the file's task i depends on, directly or not.
AncestorsOf(tasks, i) ==
  {a \in Known(tasks) :
     \/ a \in tasks[i].dependencies
     \/ \E d \in tasks[i].dependencies :
          a \in Ancestors(d, Known(tasks), GraphOf(tasks))}

\* A pass means more than the direct dependencies the check looks at: no
\* task is active as long as any task it transitively depends on is not
\* done, with the evidence of its checkpoint where it has one.
ActiveTasksRestOnDoneTasks ==
  Reported("passed") =>
    LET tasks == Loaded(file) IN
    \A i \in DOMAIN tasks :
      tasks[i].status \in DEPENDENCY_ACTIVE_STATUSES =>
        \A a \in AncestorsOf(tasks, i) : Satisfied(ById(tasks, a))

\* The registry once entry i is ready.
MadeReady(tasks, i) == [tasks EXCEPT ![i].status = "ready"]

Pending(tasks) == {i \in DOMAIN tasks : tasks[i].status = "pending"}

\* A passing registry cannot wedge the project: when all work handed out is
\* done and some is pending, there is a pending task that may be made ready
\* with the registry still passing.
AlwaysAWayOn ==
  Reported("passed") =>
    LET tasks == Loaded(file) IN
    /\ Pending(tasks) # {}
    /\ \A i \in (DOMAIN tasks) \ Pending(tasks) : Satisfied(tasks[i])
    => \E i \in Pending(tasks) : NoFindings(MadeReady(tasks, i))

\* What entry t refers to: its dependencies, its requester, and the task its
\* result returns to.
ReferencesOf(t) ==
  t.dependencies \cup ({t.requested_by_task, t.return_task} \ {None})

\* In a passing registry every reference names exactly one entry, other than
\* the entry itself for dependencies and requesters, so that the views and
\* checks that look a task up by its id all look at the same one.
ReferencesAreUnambiguous ==
  Reported("passed") =>
    LET tasks == Loaded(file) IN
    \A i \in DOMAIN tasks :
      /\ \A n \in ReferencesOf(tasks[i]) :
           \E k \in DOMAIN tasks :
             \A j \in DOMAIN tasks : tasks[j].id = n <=> j = k
      /\ tasks[i].id \notin
           tasks[i].dependencies \cup ({tasks[i].requested_by_task} \ {None})

\* The view of a registry that nobody touched meanwhile shows a registry
\* that passes.
UndisturbedViewPasses ==
  Reported("rendered") => NoFindings(drawn)

\* POST_AUDIT_GIT_CHECKPOINT.md, "Runtime updates after success": after a
\* successful local-only checkpoint the task is checkpoint_done, its valid
\* PUSH_STATUS is not_required, and the next task is routed.  Hence a
\* pending task whose dependencies are all completed or checkpointed, by
\* whichever policy, may be made ready.
Checkpointed(task) ==
  \/ task.status = "completed"
  \/ /\ task.status = "checkpoint_done"
     /\ task.refs
     /\ task.push_status \in {"pushed", "not_required"}

LocalCheckpointUnblocks ==
  Reported("passed") =>
    LET tasks == Loaded(file) IN
    \A i \in Pending(tasks) :
      (\A d \in tasks[i].dependencies : Checkpointed(ById(tasks, d)))
        => NoFindings(MadeReady(tasks, i))
==============================================================================
