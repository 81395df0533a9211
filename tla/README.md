# A TLA+ model of agent-system-orchestrator

Specifications, model-checking runs and machine-checked proofs for the decision
logic of `agent-system/`, the package that governs work done by agents through
files in a project workspace.

## 1. The system

A project workspace keeps its state in `project-runtime/`: six JSON *sidecars*
(`state/PROJECT_STATE`, `CURRENT_GATE`, `NEXT_ACTION`, `TASK_REGISTRY`,
`ACCEPTED_ARTIFACTS`, `WORKSPACE_IDENTITY`), each beside a Markdown view. The
**orchestrator** is an agent that follows the documents under `agent-system/`;
it alone writes this state. The programs in the repository do not write it:

- the **ASO command line** (`aso ...`, Python) reads the sidecars and says
  whether they are consistent, what may be done next, whether a checkpoint is
  eligible;
- the **shell scripts** initialise a workspace and run the checks before a
  commit.

So the programs are judges beside a writer. No lock is taken, no file is read
twice on purpose, and several commands read the same files more than once. What
makes them correct is that a good verdict means what the documents say it means;
what makes them hard is that state may change between two readings, that files
may be missing or broken, and that conditions on the same thing are written in
several places.

### Inventory

Paths are relative to `agent-system/`; `aso_tool` stands for
`tools/aso/agent_system_orchestrator_aso/aso_tool`.

| Component | State | Operations | Interacts with | Hard parts | What makes it correct |
|---|---|---|---|---|---|
| Cycle search, `aso_tool/commands/dag.py` | the marks `visiting`, `visited`, the stack, the reports | `visit` | called by the verdict | recursion depth, repeated mentions, order of marks | reports are real cycles, none twice, none missed; ends |
| `aso dag verify`, `dag render`, `dag.py` | none of its own; reads `TASK_REGISTRY` | `verify_report`, `_render` | orchestrator edits, state verify's file contract | second reading, duplicate ids, missing file | a pass means no unfinished work underneath, no deadlock, unambiguous references |
| `aso state verify`, `state_verify.py` | none | `_report` over six files | read by plan-next, preflight, dashboard, dag | missing/half-written files, Markdown drift | errors block; references exist; no checkpoint without audit |
| `aso plan-next`, `plan_next.py` | none | two reading passes, `_plan` | state verify, rule registry | passes may differ, order of the branches | freeze wins; only registered tasks; checkpoint only on audit |
| `aso checkpoint-preflight`, `checkpoint_preflight.py` | none | two reading passes, `_workspace_report`; `_package_report` | state verify, plan-next, package checks, git | as above; second list of conditions | agrees with the planner and the checkpoint rules |
| Package checks, `package_checks.py`, and package mode of `status`, `lint`, `doctor`, `checkpoint-preflight` | none | `inspect_package`, then each command's own checks | the worktree, git's index, those who edit the package | index and `.gitignore` read apart; versions in three files; git's silence | what passed holds no generated file and takes in none; versions agree |
| `aso dashboard`, `dashboard.py` | two documents | `build_report`, `_write_allowed` | dag, plan-next, preflight, each reading again | parts of one report about different states | ready means executable; panels agree; exit code true |
| `aso incident fixture`, `incident_fixture.py` | two documents | validation, output targets, two writes | output path policy | failure between the two writes | findings leave nothing, success leaves both |
| Context packs, `context_pack_build.py`, `validate_context_pack.py` | the pack | build, write, validate | task packets, repository tree, output path policy | documents and links change; two notions of a good pack | builder and validator agree; a strict pass is usable |
| Output path policy, `output_policy.py` | none | `validate_generated_output_path` | every writing command | check before write | no write into governed state |
| `aso lint`, `lint.py` | none | one reading of the runtime files, several of RESULTs and packets | agents and orchestrator writing them | many small checks, several readings | a passed lint vouches for the workspace |
| `aso status`, `status.py` | none | one reading of the runtime files | the files | missing values | agrees with lint |
| `aso record-result`, `record_result.py` | none | `_validate_common`, `_route` | RESULT documents | read while they are written | a strict proposal stands, and leads on only from an audit |
| `aso archive verify`, `archive_verify.py` | none | archive, registers, manifest | runtime files | names, prefixes, order of exclusions | no accepted artifact lost |
| Workspace initialisation, `scripts/init_project_workspace.sh` | target directory | checks, copy, identity, lock | git, a second run | killed half way, two runs | a lock vouches for what came before; refusals leave nothing |
| Shell preflight, `scripts/checkpoint_preflight.sh` | receipt file | six checks, receipt | git worktree, packet validator | worktree changes between checks; receipt before failure | a pass bounds the commit; receipt and result agree |
| Task packet validation, `scripts/validate_task_packet.py` | none | field and path rules | shell preflight | modes with exceptions | checkpoint mode no weaker than dispatch |
| `doctor --mode workspace`, design validation, rule registry | none | one-pass reports | runtime files, requirements, the package's own files | patterns | - |

`PROJECT.json` lists every component with its status and reason, and every
hazard at its line.

## 2. Modules

| Module | What it is |
|---|---|
| `DependencyGraph` | vocabulary: edges, acyclicity, cycles, chains, transitive dependencies |
| `CycleVerdict` | abstract specification of the cycle check: one right verdict, or a crash on a chain as long as the stack |
| `CycleSearch` | the recursive search, one action per way a call of `visit()` can go; implements `CycleVerdict` |
| `CycleSearchProofs` | its theorems |
| `DagVerify` | `dag verify` and `dag render` beside an orchestrator that edits `TASK_REGISTRY.json`; uses the cycle check through the predicate `Acyclic`, which `CycleSearch` is shown to decide |
| `DagVerifyProofs` | its theorems |
| `CheckpointVerdicts` | state verification and the verdicts of `plan-next` and `checkpoint-preflight`, as operators on six sidecars |
| `CheckpointJudgement` | abstract specification of the two commands: one judgement, on views that are right about the files at rest |
| `CheckpointGate` | the two commands reading six files twice beside a writing orchestrator; implements `CheckpointJudgement` |
| `CheckpointGateProofs` | its theorems |
| `InitWorkspace` | the initialisation script: runs that overlap and are killed, on one target |
| `TaskPacket` | the verdict of `validate_task_packet.py` on a document |
| `PreflightShell` | the shell preflight and its receipt, beside writers of everything it reads; uses `TaskPacket` |
| `OutputPolicy` | where a command may write its documents |
| `ContextPack` | packs built, written and validated while documents and links change; uses `OutputPolicy` |
| `ReportPair` | a report that becomes two documents, one after the other; uses `OutputPolicy` |
| `Dashboard` | `aso dashboard`, on the operators of `CheckpointVerdicts` and `DagVerify` |
| `IncidentFixture` | `aso incident fixture` |
| `Reports` | composes `Dashboard` and `IncidentFixture` |
| `WorkspaceRecords` | the files that the next four read, and who writes them |
| `RuntimeLint` | `aso lint --mode workspace` |
| `WorkspaceStatus` | `aso status --mode workspace`, as operators |
| `RecordResult` | `aso record-result` |
| `ArchiveVerify` | `aso archive verify` |
| `PackageChecks` | the commands in package mode, beside those who work on the package |
| `Records` | composes the five: one command at work on the records, or on the package |
| `InitWorkspaceProofs`, `PreflightShellProofs`, `ContextPackProofs`, `ReportsProofs`, `RecordsProofs` | their theorems |
| `MCCycleSearch`, `MCDagVerify`, `MCCheckpointGate`, `MCInitWorkspace`, `MCPreflightShell`, `MCContextPack`, `MCReports`, `MCRecords` | instances for TLC |

### CycleSearch

The variables are those of `_cycle_findings`: `graph`, `visiting`, `visited`,
`stack`, `cycles`, `seen_cycles`; `roots` and `todo` are what the outer loop and
the loops of the open `visit` calls have left, `pc` where the function is.
Ids are integers in `sorted` order. A dependency list may mention an id several
times, so the graph counts mentions. `frames` is how many nested calls the
interpreter has room for. `SkipVisited`, `ReportCycle`, `Enter`, `Leave` are the
ways through `visit`; `Overflow` is the `RecursionError`, which nothing catches;
`Finish` is the end of the outer loop.

### DagVerify

The file is a state (`valid`, `flawed`, `unreadable`, `fallback`, `missing`, as
`_validate_sidecar` distinguishes) and a list of task entries. An entry keeps its
id, status, dependencies, checkpoint evidence and requester/return metadata. Each
`*Findings` operator is the function of that name. `Verify` is one reading and
its verdict; `Render` the second reading after a pass. The orchestrator
(external) adds tasks, edits their progress, and breaks, loses or recreates the
file, before a command and in the middle of one. `same` remembers whether it
wrote since the verdict.

### CheckpointVerdicts, CheckpointGate and CheckpointJudgement

`disk` holds the six files. A file is a health (what `_validate_sidecar` makes of
it, its Markdown view included) and a content, abstracted to what the verdicts
read: blockers by how their text is classified, audit evidence by whether there
is any, task references as ids. `Verify` and `Load` are the twelve readings, one
file at a time, in the order of `SIDECARS`; `first` and `second` are what the two
passes saw. `PlanNext` and `CheckpointPreflight` decide. `Write` is the
orchestrator; `stable` remembers which files it has not written since the command
began. An unreadable workspace root behaves like six lost files.

The branches of `_plan` are `Route`, what it recommends `Recommended`, "no
blocking rule" is `Ready`; "no blocking rule" of the preflight is `Eligible`.

`CheckpointJudgement` forgets the readings: a command starts, judges once, and
ends. What it judges are two views of the workspace, one verified and one loaded,
that show a file nobody wrote as it is and a written file in any version
(`Views`). Undisturbed, both views are the workspace, so the command is as good as
atomic; that is the contract a caller can count on, whatever the order of reading.

### InitWorkspace

Each run of the script has a place `pc`, a command line `opt` (its paths already
looked up) and `seen`, what it has read of the repository. On disk are the
directories made, `agent-system` with a possible copy nested in it by a second
`cp`, and the two documents, each absent, opened and still empty, or written by a
run. One action is one system call that others can see: `ReadToplevel`,
`ReadRemote`, `ReadBranch`, `Decide`, `CheckLock`, `MakeDirectories`, `CheckCopy`,
`StartCopy`, `FinishCopy`, `PruneGit`, `CheckIdentity`, `OpenIdentity`,
`WriteIdentity`, `RecheckLock`, `OpenLock`, `WriteLock`. `Kill` ends a run anywhere;
`ChangeGit` is the owner. A remote is what `canonical_remote` makes of it.

### PreflightShell and TaskPacket

One action per check, in the order of the script, each reading its input when its
turn comes: `TaskPacketCheck`, `RuntimeSchemaCheck`, `IdentityAndGitTargetCheck`,
`BaselineTrackingCheck`, `FileScopeCheck`, `SecretScanCheck`, then `EmitReceipt`,
which may fail to write. `failures` collects the failed checks; `shown` is what the
printed receipt says, `saved` the one on disk, `result` what the run said at its end.
The worktree is what HEAD, index and worktree hold of each file, so that changed,
staged and untracked are distinguished as git does. A secret is in a file the scan
reads (`secret`) or in one it skips, of more than 1 MiB or binary (`buried`). The
four `Write*` actions change packet, state, repository and files; `stable` remembers
which they left alone.
`TaskPacket` keeps of a document what the validator's verdict depends on.

### ContextPack

The builder takes the required documents one by one (`ExamineDoc`, `DigestDoc`,
`SizeDoc`: three looks at the file system for each), decides, and writes the pack
in three more steps (`ResolveOutput`, `CheckOutput`, `WritePack`). The validator
reads a pack, looks at each document and source, and concludes. A reference has
properties of its text (`Lexical`), the references it covers (`Under`), and what
lies there now (`tree`); `leads` says where the directories lead. `WriteDoc` and
`Relink` are others; `still` remembers since when documents and links are at rest.

### Dashboard, IncidentFixture, Reports

The dashboard reads the six files in two passes for the plan, the registry once
for the graph, and the six twice more for the preflight: 25 readings, `at` counts
them. The judgements between are those of `CheckpointVerdicts` (`Gate!Recommended`,
`Gate!Eligible`) and `DagVerify` (`Dag!NoFindings`), used as operators on what was
read, as the program calls the functions of those commands. A task here has audit
references and blockers besides what each of the two modules keeps, and a
`PROJECT_STATE` that loads may have no content (`empty`), for which some panels test.
Then JSON and
HTML are judged and written one after the other (`WriteDocument`). The fixture
command judges both paths first (`JudgeOutputs`) and then writes; an exception
there is caught by nobody. An incident is text, unreadable, or not UTF-8, which ends
the command; each of its fields is absent, NONE or empty, a text, or a list, because
`_validate_incident` treats these differently from field to field (`Missing`,
`Invalid`). Both commands start over when they end.

### WorkspaceRecords, RuntimeLint, WorkspaceStatus, RecordResult, ArchiveVerify

The records are the seven runtime files, the RESULT files, the task packets, the
lines of `agents/instances.jsonl` and the set of existing paths. A record is its
fields and its *marks*, the facts the commands look for. A RESULT is a document
and how much of it has been written: agents write fields in the order of the
template. Lint reads the runtime files in order, then goes through its checks;
RESULTs are read anew for each that needs them. Record-result is one reading and a
routing. Archive verify reads the archive, then the register, the directories and
the recorded commits; a path is the sequence of its parts, so that `..`, `/` and
common prefixes can be modelled.

### PackageChecks

The *parts* are the files and directories the checks look at; a part is missing,
unreadable, text that is not UTF-8, or has marks, a version, the generated roots it
has git ignore, those it lets in again, and those on a line with leading blanks
(`literal`): the check strips such a line and finds the root listed (`Listed`), git
takes the blanks for part of the name and ignores nothing. `repository` is what git
says of the root and `tracked` its index. `inspect_package` is one action per check
(`CheckRoot` to `CheckGitignore`); the index is asked three times, `.gitignore` is
read last. Then preflight asks git whether this is a worktree (`AskWorktree`), and
doctor goes on from `CheckPackagePaths` to `CheckMakefile`. `WritePackageReport`
differs by command. `EditPart`, `AddFile` and `RemoveFile` (git without force, which
respects `.gitignore`), `CheckOut` (anything else that changes the index) and
`ChangeRepository` are others; `still` remembers which of the parts that a pass
rests on they left alone.

## 3. Runs

| Run | Instance | Properties | Shows |
|---|---|---|---|
| `cycle_search` | all graphs on 3 tasks, each dependency mentioned 0-2 times; 2 or 4 stack frames; 449,226 states | type; `ReportsAreTrue`, `ReportsCoverAllCycles`, `StepsAdvance`, `Termination`, `ImplementsVerdict` | the search does what its findings say, for every graph of that size |
| `dag_verify` | 3 ids, up to 3 entries (duplicates included), five task states and any dependencies, or requester/return metadata; 899,524 states | type; `ActiveTasksRestOnDoneTasks`, `AlwaysAWayOn`, `UndisturbedViewPasses`, `ReferencesAreUnambiguous` | what a pass means, and that a passing registry can be looked up by id |
| `checkpoint_gate` | 720 workspaces (2-6 states per file), one write anywhere during a command; 311,244 states | type; `StandingIncidentFreezes`, `VerdictsConcernKnownTasks`, `CheckpointsRestOnTheTasksAudit`, `PreflightAgreesWithPlan`, `ImplementsJudgement` | what survives a write between readings, which files must stand still, and that a command amounts to one judgement |
| `init_workspace` | two runs, five command lines, killed anywhere, one change of the repository; 1,602,444 states | type; `LockVouchesForWorkspace`, `RefusalsLeaveNothing`, `AcceptedLockMatchesRepository`, `SomeRunSucceeds` | what a lock and a refusal mean |
| `preflight_shell` | 5 packets, 4 states, 3 repositories, 17 worktrees, 4 command lines, one write between any two checks; 556,878 states | type; `PassedFilesAreInBounds`, `EligibleReceiptMatchesState`, `SavedVerdictIsTheResult`, `PassedPacketCouldBeDispatched` | what a pass and a receipt are worth, and which inputs must stand still for it |
| `context_pack` | 4 references, 6 packets, 3 packs by hand, one change of a document or of links; 662,640 states | type; `BuiltPacksAreAccepted`, `StrictPassIsUsable`, `PacksLandInTheirPlace` | that builder and validator agree, and where packs land |
| `reports` | up to 3 tasks, 9 incidents, 5 output places, one write among 25 readings; 478,999 states | type; `ReadyDashboardIsExecutable`, `PanelsDoNotContradict`, `ExitCodesAreTrue` | what a ready dashboard and an exit code are worth |
| `records` | 2 tasks, 2 agents, 3 RESULT files cut at 4 places, 8 archives, packages with one thing wrong, one write; 393,182 states | type; `PassedLintHolds`, `StrictProposalsStand`, `NoAcceptedArtifactIsLost`, `PassedPackageHolds` | what a lint, a strict proposal, a verified archive and a passed package are worth |
| `dag_local_checkpoint` | 2 entries | `LocalCheckpointUnblocks`, violated | finding 1 |
| `gate_not_checked` | 4 workspaces, no writes | `NoCheckpointUnlessEligible`, violated | finding 2 |
| `gate_audit_fail` | 4 workspaces, no writes | `NoCheckpointAfterAuditFail`, violated | finding 3 |
| `strict_plan` | 8 workspaces, no writes | `StrictPlansRefuseWarnings`, violated | finding 4 |

Every property of a passing run has a mutant in `PROJECT.json`: a plausible bug in
one definition (its operator stands above the definition it would replace) under
which TLC finds the property violated.

**Bounds.** `Nodes`, `MaxMentions`, `FrameLimits`: three tasks give self-loops,
two- and three-cycles, shared sub-graphs and disconnected roots; two mentions are
the least that repeats; two frames crash where four never do. `MaxTasks` = 3
entries give a dependency of a dependency and a duplicate beside another task.
`MaxWrites` = 1: one write is enough to make the passes differ; the theorems hold
for any number. Symmetry is used in the `DagVerify` runs, over ids that no
definition orders. Deadlock checking is off in `cycle_search`, where a finished
search stops, in the `DagVerify` runs, and in `init_workspace`, `preflight_shell`,
`context_pack` and `records`, whose commands end; in `reports` they start over.
Two runs of the initialisation script are the least that overlap; in some initial
states `agent-system` is there already. In `context_pack` the workspace
is under `/tmp` (`InTmp` = TRUE), which allows every output that FALSE allows.
The cuts 0, 4, 8 and 9 leave a RESULT empty, without its evidence, without its
last field, and whole. Several initial worlds of `records` are chosen, not the
product of all records; the write reaches the states next to them. A package begins
in order, or with one part, the repository or the index otherwise
(`MCPackageWorlds`), so that the write can be the second thing wrong, or its cure.

**Fairness.** Only `CycleSearch!FairSpec` has any: weak fairness of the whole next
step, which says that the interpreter keeps running the function. Nothing is
assumed of the orchestrator. `SomeRunSucceeds` speaks of runs that have ended, so it
needs no fairness.

### Findings

1. `dag.py:100` counts a `checkpoint_done` dependency as done only with
   `push_status` `pushed`; `POST_AUDIT_GIT_CHECKPOINT.md` makes `not_required` the
   valid value after a local-only checkpoint and routes to the next task.
   (`STATE_TRANSITION_RULES.md` speaks of commit and push only, so the documents
   do not agree among themselves.)
2. `checkpoint_preflight.py:19` does not block on eligibility status
   `not_checked`; `GIT_CHECKPOINT_VALIDATION_RULES.md` forbids a checkpoint then.
3. `checkpoint_preflight.py:263` (and `plan_next.py:184`) take any audit reference
   as evidence of a pass, also of a task whose status is `failed`; the same
   document forbids a checkpoint after audit fail.
4. `plan_next.py:346`: warnings of the verification do not block a strict plan. Its
   status stays `ready` and its exit code 0; at most `recommended_next_action` is
   `NONE`, and with a checkpoint asked for not even that. `aso.py:261` says of
   `plan-next --strict`: "Treat verification warnings as blocking dry-run planner
   findings." (In strict mode the branch for a failed verification also comes before
   the one for `wait_for_owner`, so there a plan with warnings is ready strictly and
   blocked otherwise. `checkpoint-preflight --strict` leaves out the same warnings,
   but its help does not name them.)

### Observations

Things the model contains as the code has them, against which no document makes a
promise that a run could refute.

- **Initialisation.** A run killed between identity and lock leaves a
  `WORKSPACE_IDENTITY.md` that says `PUSH_ALLOWED: true` with no lock beside it. A
  run killed once the copy has begun makes every later run refuse. Two runs at once
  can nest one copy in the other (`Raced`); the properties say what holds otherwise.
- **Shell preflight.** New untracked files are only examined with
  `--include-untracked`. The secret scan reads the worktree, not the index, so a
  secret that was staged and then removed from the worktree passes. So does one in a
file of more than 1 MiB, which the scan only notes, or in a binary file, which `grep
-I` leaves out, although `SECRET_SCAN_RULES.md` wants the scan to be fail-closed.
A task proposal
  is accepted as `--task-packet`. A receipt that cannot be written goes unnoticed; one
with a refused path is printed as eligible before the run ends as blocked.
  Runtime files can only be checkpointed with `--role orchestrator`.
- **Context packs.** The validator does not compare digests. The builder accepts
  broad and large directories and paths with `..`, which the validator rejects.
  Without `--strict` a source need not exist. Under `/tmp` the policy lets a pack
  overwrite `agent-system/`; a symbolic link at `project-runtime/proposals` is
  allowed as what it points to. `validate-context-pack --json-out` does not ask the
  output policy; neither do doctor, lint, status, archive, state verify and
  validate-design.
- **Dashboard and fixtures.** The incident panel says `not_available` when
  `PROJECT_STATE` cannot be loaded, and also when it is loaded and its content is
missing or empty, even if `NEXT_ACTION` freezes the plan. JSON
  is written before the HTML path is judged, so a failed run may leave one document;
  with one path for both the second replaces the first. `--out` of the fixture may
  overwrite the incident file. A rejected run leaves an earlier proposal standing.
  An incident whose `EXPECTED_FAILURE_STATUS` or `INCIDENT_ID` is a list passes with
  an empty one. `EXPECTED_FAILURE_STATUS: NONE`, or nothing after the colon, is
  rejected without `--strict`, too, while an incident without the field passes. An
  incident that is not UTF-8 ends the command with a traceback.
- **record-result.** A RESULT with its values on lines of their own, as
  `AGENT_RESULT_TEMPLATE.md` has them, has lists for `TASK_ID`, `AGENT_INSTANCE_ID`
  and `ROLE`, so `--strict` rejects it; lint reads both forms. `RISKS: NONE` on one
  line is the reverse. `SOURCE_RESULT_REF: NONE` counts as a reference. Without
  `--strict` a half-written audit, or one by a developer, may be a checkpoint
  candidate; `StrictProposalsStand` is about strict proposals for that reason.
- **lint.** A RESULT's task is not compared with the task of its agent's events.
  Which reasoning floor a packet with two is held to depends on the order of a
  Python set. `PUSH_ALLOWED: null` is no value for lint and one for status. Of
  several entries with one `TASK_ID` the last counts.
- **Package checks.** Only `OSError` is caught, so a text that is not UTF-8 ends the
  command with a traceback. git puts names with unusual characters in quotes; such a
  file under a generated root, or one that ends in `.pyc`, is not noticed. Lines of
  `.gitignore` are stripped before they are compared, and git takes leading blanks
  literally: with `  /project-runtime/` the check passes, and an ordinary `git add`
  takes in what lies there. A later line of `.gitignore` that lets a root in again
  is not considered, nor is a file or link with a root's name, which the pattern for
  a directory does not match. Where git says this is no repository, what is tracked
  goes unchecked; only preflight minds. That is told from git's message in English.
  `aso status` ends with 0 whatever it found. doctor compares a version only with
  one that is there.
- **archive verify.** Which members are read is decided before the common directory
  is stripped, so an archive wrapped in one directory always fails for want of a
  manifest. An exclusion given as a string counts as one with the reason
  "unspecified".

## 4. Proofs

All theorems hold for every value of the constants allowed by the named
assumptions: ids are natural numbers (`NodesAssumption`), bounds are numbers, a
reference to nobody is not an id, and the entries or file versions the
orchestrator writes are of the type the model gives them.

**CycleSearchProofs.** The invariant `IInv` adds to the type: the stack lists the
open tasks without repetition and each depends on the next; the open and the
finished tasks have been taken off the loops that lead to them (`SeenInv`,
`ControlInv`); every edge out of a finished task leads to a finished task or was
reported, and with reported closing edges removed the finished part is acyclic
(`Explained`); a reported cycle whose closing task is still open is a piece of the
stack (`ReportInv`). The last one is what makes "never twice" inductive: two
reports with the same steps would be the same piece of the same stack. From it:
`ReportsAreSound`, `ReportsAreComplete`, `CrashesAreDeep`, and `Implementation`, the
refinement of `CycleVerdict`. `EveryStepAdvances` proves the action property
`StepsAdvance`: each step finishes a task, or opens one that was neither open nor
finished, or takes a call off a loop, or ends the search, and what comes earlier in
this order is never undone. `SearchNeverWaits`: as long as the search is on, there is
a next call in sorted order (the least of the ids a loop has left, which exists
because `<` is well-founded), a task to finish, or the end. On finitely many tasks
these two are all of `Termination` except the fairness of the interpreter.

**DagVerifyProofs.** `IInv`: as long as nobody wrote since, the verdict on screen
is the verdict on the file. `ActiveTasksAreGrounded` then needs an argument about
all registries: the satisfied tasks are closed under dependencies, because a
satisfied status is itself an active one and so its dependencies were checked too;
hence they contain every ancestor. `NeverWedged` uses acyclicity: the pending
tasks have a member that depends on no pending one, and making it ready adds no
finding. `ReferencesName` and `ViewsPass` follow from the absence of findings.

**CheckpointGateProofs.** `IInv`: a file not written since the command started
reads the same in both passes (`Seen`), and what was said follows from what was
read (`Said`). `IncidentsFreeze`, `TasksAreKnown`, `AuditsComeFirst` and
`CommandsAgree` follow for any number of writes, each assuming only that the files
it names stood still.

`Implementation` is the refinement of `CheckpointJudgement`. It needs that what was
read of a file is one of its versions (`Complete`); then both passes are views in
the sense of the judgement (`PassesAreViews`). The first reading is the step that
starts a judgement, the verdict the one that judges; every other reading is a
stutter.

**InitWorkspaceProofs.** The invariant: what a run has checked of the repository is
still so until that changes (`SeenInv`, `StillInv`), so an accepted lock is true
(`LockInv`). As long as no copy is nested, exactly one run has come past the copy,
and identity and lock are as far as that run has got (`OwnInv`). A run that ended in
a refusal has written nothing (`RefusalInv`). Whatever is on disk that would make a
run refuse, some run stands behind it that is still going, has succeeded or was
killed (`WitnessInv`): hence runs do not all refuse because of one another. Assumed:
command lines are of their type (`OptionsAssumption`), no value stands for "nobody"
(`NoneAssumption`), bounds are numbers (`BoundAssumption`).

**PreflightShellProofs.** For every check, what it found in an input is still so
while nobody writes that input (`PacketChecked`, `StateChecked`, `TargetChecked`,
`ScopeChecked`, `SecretsChecked`), and result and both receipts, the printed and the
saved one, follow from the failures (`Ended`). That a pass bounds the commit then
takes the list of changed files from one check and the patterns from another.
Assumed: packets, states, repositories, trees and command lines are of their types.

**ContextPackProofs.** What the builder found in order is in order until a document
changes (`BuildInv`, `CleanInv`), and the pack says just that (`PackInv`); what the
validator has gone past without an error is as it should be (`TodoInv`, `CheckInv`).
`AcceptInv` joins the two: on a built pack the validator's errors are those that only
it looks for. `LandInv`: the place of a pack is judged when it is resolved. Assumed:
the types of references, nodes, packets, packs and links; that a pack has finitely
many sources; that links are followed to their end, and that a link at
`project-runtime/` moves what lies in it, too (`LinksAssumption`).

**ReportsProofs.** How far each document is follows from how far the command is
(`DashboardInv`, `FixtureInv`). Files that nobody wrote read alike in all passes
(`SeenInv`, `FilesInv`), so panels follow from files (`ReadyInv`, `PanelInv`), each
from the one or two it is made of: what `PanelsDoNotContradict` says of two panels
assumes only these at rest. A checkpoint is eligible only on readings that show no
incident (`EligibleWithoutIncident`), so the two panels agree on one. That an exit
code is true includes that the text document of a report never stands without the
whole JSON one. That a
ready dashboard's task has its whole ancestry done uses closure of the satisfied
tasks under dependencies again, for the tasks as the dashboard sees them. Assumed:
what may be written is of its type, and every file has some version.

**RecordsProofs.** *Proposals:* all fields of a RESULT are there only when the last
one is, since agents write in the order of the template; so a strict proposal, which
needs all, was made from a RESULT to which nothing is added any more. That order is
an assumption on agents, not on code in the repository; the template states it.
*Lint:* whatever it has gone past without an error was in order. Of the runtime
files that is about the copies it read (`CheckedInv`); of RESULTs it stays true until
they are written (`TraceInv`, `LifecycleInv`); of the events it stays true because
they are only ever added to (`EventsInv`). A verdict of success then means that all
of these hold (`VerdictInv`), and `PassedLintHolds` compares the copies with the
files. The entry that counts for a task is the last one, which exists because a
registry is a finite sequence (`GreatestExists`). *Archive:* the outcome is a
function of what was read (`JudgedInv`), so `NoAcceptedArtifactIsLost` follows from
what counts as lost; the exclusion that counts for a path is the last one
(`ExcludedIsLeftOut`). Assumed: the records a run begins with are of their types
(`WorldsAssumption`), registries are sequences, agents write documents in pieces of
the template, a set of events is not an unreadable file (`RecordsAssumption`), and no
proposal stands for "none" (`NoneAssumption`).

*Package:* the version doctor compares with is the one `PACKAGE_VERSIONING.md`
declares, while nobody writes it (`VersionInv`). With no finding so far, the
repository was one git can list (`WorktreeInv`), the index held nothing plain under a
generated root when it was asked (`IndexInv`), and `.gitignore`, once read, lists
all of them (`GitignoreInv`), which git ignores if no line has leading blanks and
none lets a root in again. Each part is conditional only on what it names, so the
others may change meanwhile. Between the two readings files may be added: since
`.gitignore` is unchanged, what it says when it is read it said when the index was,
so nothing that was added lies under a generated root. That is why the invariant
about the index is conditional on what `.gitignore` says *now* and not on its having
been read. `RouteInv` keeps the commands apart. Assumed: the version tuple contains
the package version (`VersioningAssumption`), and a package begins within its type
(`PackageWorldsAssumption`).

**Only model-checked.** `Termination`: with weak fairness it is about ENABLED, which
the provers do not handle, and about counting down a finite set, an induction; what
can be said without the two is proved (`EveryStepAdvances`, `SearchNeverWaits`). And
the four properties that are violated. What `MC*` modules define is not proved about.

## 5. Not modelled

- Text: the grammar of JSON and Markdown, regular expressions, the wording of
  findings, the drawing of diagrams and of the HTML page. What the verdicts tell
  apart is kept, as the health of a file, a mark of a record, a flag of a packet.
- The field contracts of the sidecars inside `state_verify.py`: they decide the
  health of a file.
- Panels of the dashboard that only show what was loaded.
- `doctor --mode workspace`, which repeats checks of lint on the same files; design
  validation and the rule registry: one pass of patterns. What can be wrong there is
  a pattern, and a test reaches that better.
- Hygiene and smoke scripts: drivers that run the commands on fixtures.
- Argument parsing and installation.
- `tools/aso/commands`: copies of the package's modules. Most differ in their
  imports only; `package_checks.py` lacks the layout checks of the original and
  `doctor.py` looks for other paths.

## 6. Plan

Done: `CycleSearch`, `DagVerify`, `CheckpointGate`; `InitWorkspace`;
`PreflightShell`; `OutputPolicy` and context packs; dashboard and incident fixtures;
lint, status, record-result and archive verification; package mode; proofs of each;
the refinements of `CycleVerdict` and `CheckpointJudgement`.

Left, in the order of what they would add:

1. Sessions of an orchestrator over the composed commands (plan, audit, preflight,
   checkpoint): `CheckpointGate` and `Records` keep different parts of the same
   files, so this needs one record that has both.
2. An abstract specification of the dashboard in the manner of `CheckpointJudgement`,
   with the five passes as views.
3. The graph part of design validation (traceability links).
4. `doctor --mode workspace`.
5. The field contracts of `state_verify.py`, as operators that yield a file's health.
