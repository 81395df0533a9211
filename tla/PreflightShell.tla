---------------------------- MODULE PreflightShell ----------------------------
(***************************************************************************)
(* scripts/checkpoint_preflight.sh: the checks that come before a commit,  *)
(* and the eligibility receipt.  Each check reads the files it is about    *)
(* when its turn comes: the task packet, PROJECT_STATE.md, the repository, *)
(* the changed files.  Agents and owner may write them in between.         *)
(***************************************************************************)
EXTENDS Naturals, TaskPacket

CONSTANTS
  Paths,       \* files of the worktree
  Kind,        \* for each, the part of the workspace it belongs to
  Sensitive,   \* those whose name alone is a secret_scan_check failure
  Packets,     \* task packets the task may have
  States,      \* contents PROJECT_STATE.md may have
  Gits,        \* origin and branch of the repository, as git tells them
  Trees,       \* what HEAD, index and worktree may hold of the files
  Options,     \* command lines
  NONE,        \* no remote, branch, role, override or receipt
  MaxWrites    \* bound: writes in the middle of one run

\* The cases of baseline_tracking_check and file_scope_check.
Kinds ==
  {"agent-system",    \* agent-system/*
   "critical",        \* identity, lock and state records of project-runtime/
   "runtime",         \* the rest of project-runtime/
   "gitignore",
   "TZ",              \* project-input/TZ.md
   "input",           \* the rest of project-input/, and project-archive/
   "project-docs", "product"}

\* A file in HEAD, in the index, in the worktree.  A secret can be buried in
\* a file of more than 1 MiB or in a binary one.
Contents == {"none", "old", "new", "secret", "buried"}

ASSUME PathsAssumption ==
  /\ Kind \in [Paths -> Kinds]
  /\ Sensitive \subseteq Paths
ASSUME PacketsAssumption ==
  \A p \in Packets :
    /\ p.document \in Documents
    /\ p.allowed \subseteq Paths /\ p.forbidden \subseteq Paths
    /\ p.governance \in BOOLEAN       \* a package governance task
ASSUME StatesAssumption ==
  \A s \in States :
    /\ s.complete \in BOOLEAN         \* the file and its required fields exist
    /\ s.audit \in {"passed", "failed", "pending"}
    /\ s.manual \in BOOLEAN           \* the preflight reference is a manual one
    /\ s.identity \in BOOLEAN         \* IDENTITY_VALIDATION_STATUS is passed
    /\ s.lock \in BOOLEAN             \* REPOSITORY_LOCK_STATUS is accepted
    /\ s.push_allowed \in BOOLEAN
    /\ s.eligibility \in {"local_only", "push_allowed"}
    /\ s.tz_policy \in BOOLEAN        \* TZ.md is the owner's, untracked
    /\ s.type \in {"package_repo", "project_workspace", "test_fixture", NONE}
    /\ {"remote", "branch"} \subseteq DOMAIN s     \* the expected ones
ASSUME GitsAssumption ==
  \A g \in Gits :
    /\ g.inside \in BOOLEAN           \* inside a worktree
    /\ g.at_root \in BOOLEAN          \* of the expected toplevel, if any is
    /\ {"remote", "branch"} \subseteq DOMAIN g
    /\ ~g.inside => g.remote = NONE /\ g.branch = NONE
ASSUME OptionsAssumption ==
  \A o \in Options :
    /\ o.docs \subseteq {"template", "validator", "schema", "matrix", "secret_rules"}
    /\ o.type \in {"package_repo", "project_workspace", "test_fixture", NONE}
    /\ o.role \in {"orchestrator", "developer", NONE}
    /\ {"remote", "branch"} \subseteq DOMAIN o     \* overrides, or NONE
    /\ o.push \in {"yes", "no", "auto"}
    /\ o.untracked \in BOOLEAN /\ o.write \in BOOLEAN
    /\ o.path \in {"missing", "outside", "checkpoints"}
ASSUME TreesAssumption ==
  Trees \subseteq [Paths -> [head : {"none", "old"}, index : Contents, work : Contents]]
ASSUME MaxWritesAssumption == MaxWrites \in Nat

VARIABLES
  packet, state, git, tree,   \* the four things read
  pc,         \* the next check
  opt,        \* the command line
  patterns,   \* allowed and forbidden changes, as the first check read them
  changed,    \* the changed files, as file_scope_check collected them
  failures,   \* which checks have failed
  shown,      \* what the receipt it printed says
  result,     \* what the run said when it ended
  saved,      \* the receipt it left on disk
  stable,     \* which of the four nobody has written since the run started
  writes      \* counts the writes since then

vars == <<packet, state, git, tree, pc, opt, patterns, changed, failures,
          shown, result, saved, stable, writes>>

inputs == <<packet, state, git, tree, stable, writes>>

Inputs == {"packet", "state", "git", "tree"}

------------------------------------------------------------------------------
(* What git says of a file *)

Untracked(p) == tree[p].index = "none" /\ tree[p].work # "none"

Changed_Unstaged(untracked) ==
  {p \in Paths :
     \/ tree[p].index # "none" /\ tree[p].work # tree[p].index
     \/ untracked /\ Untracked(p)}

\* git diff: the worktree against the index; git diff --cached: the index
\* against HEAD; git ls-files --others.
Changed(untracked) ==
  {p \in Paths :
     \/ tree[p].index # "none" /\ tree[p].work # tree[p].index
     \/ tree[p].index # tree[p].head
     \/ untracked /\ Untracked(p)}

\* Overrides come before the state's fields.
WorkspaceType(o) == IF o.type # NONE THEN o.type ELSE state.type
ExpectedRemote(o) == IF o.remote # NONE THEN o.remote ELSE state.remote
ExpectedBranch(o) == IF o.branch # NONE THEN o.branch ELSE state.branch
TargetRole(o) == IF o.role # NONE THEN o.role ELSE packet.document.target_role

------------------------------------------------------------------------------
(* The failures of each check *)

\* task_packet_check, in checkpoint mode and with both exceptions allowed.
PacketFailures(o) ==
  IF /\ "validator" \in o.docs
     /\ Valid(packet.document, "checkpoint", TRUE, TRUE)
     /\ packet.allowed # {}
    THEN {} ELSE {"packet"}

SchemaFailures_NoAudit(o) ==
  IF "schema" \notin o.docs \/ ~state.complete THEN {"schema"} ELSE
    IF state.manual THEN {"evidence"} ELSE {}

SchemaFailures_Unlisted(o) ==
  IF "schema" \notin o.docs \/ ~state.complete THEN {"schema"} ELSE
    IF state.audit # "passed" THEN {"audit"} ELSE {}

\* runtime_schema_check; without the schema or the state it stops early.
SchemaFailures(o) ==
  IF "schema" \notin o.docs \/ ~state.complete THEN {"schema"} ELSE
    (IF state.audit # "passed" THEN {"schema"} ELSE {})
      \cup (IF state.manual THEN {"evidence"} ELSE {})

PushRequested(o) ==
  o.push = "yes" \/ (o.push = "auto" /\ state.eligibility = "push_allowed")

\* identity_and_git_target_check
TargetFailures(o) ==
  IF ~git.inside THEN {"identity"} ELSE
    (IF ~git.at_root \/ ~state.identity \/ WorkspaceType(o) = NONE
       THEN {"identity"} ELSE {})
    \cup
    (IF \/ git.remote = NONE \/ git.remote # ExpectedRemote(o)
        \/ git.branch = NONE \/ git.branch # ExpectedBranch(o)
        \/ /\ PushRequested(o)
           /\ WorkspaceType(o) = "test_fixture" \/ ~state.lock \/ ~state.push_allowed
       THEN {"target"} ELSE {})

\* baseline_tracking_check
BaselineFailures ==
  IF git.inside /\ \E p \in Paths :
       /\ Untracked(p)
       /\ \/ Kind[p] \in {"agent-system", "critical", "gitignore"}
          \/ Kind[p] = "TZ" /\ ~state.tz_policy
    THEN {"baseline"} ELSE {}

\* One changed file in file_scope_check.
OutOfScope(p, o) ==
  /\ ~(Kind[p] = "TZ" /\ Untracked(p) /\ state.tz_policy)
  /\ \/ p \in patterns.forbidden
     \/ p \notin patterns.allowed
     \/ Kind[p] \in {"critical", "runtime"} /\ TargetRole(o) # "orchestrator"
     \/ Kind[p] \in {"TZ", "input"}
     \/ Kind[p] = "project-docs" /\ WorkspaceType(o) = "package_repo"
     \/ Kind[p] = "agent-system"
          /\ WorkspaceType(o) # "package_repo" /\ ~packet.governance

\* secret_scan_check of the files collected before, as they are now.  The name
\* decides before size and kind do; then a file of more than 1 MiB is only
\* noted, and a binary one not even that.
Exposed(p) ==
  \/ p \in Sensitive /\ tree[p].work # "none"
  \/ tree[p].work = "secret"

------------------------------------------------------------------------------
(* The script *)

NoPatterns == [allowed |-> {}, forbidden |-> {}]

Checks == {"packet", "schema", "target", "baseline", "scope", "secrets", "receipt"}

Failures ==
  {"docs", "packet", "schema", "evidence", "identity", "target", "baseline",
   "scope", "secret", "receipt"}

Receipts ==
  [eligible : BOOLEAN, audit : {"passed", "failed", "pending"},
   branch : {g.branch : g \in Gits}, files : SUBSET Paths, secrets : BOOLEAN]

TypeOK ==
  /\ packet \in Packets /\ state \in States /\ git \in Gits /\ tree \in Trees
  /\ pc \in Checks \cup {"idle", "done"}
  /\ opt \in Options
  /\ patterns.allowed \subseteq Paths /\ patterns.forbidden \subseteq Paths
  /\ changed \subseteq Paths
  /\ failures \subseteq Failures
  /\ shown \in {"none", "eligible", "blocked"}
  /\ result \in {"none", "passed", "blocked"}
  /\ saved \in Receipts \cup {NONE}
  /\ stable \subseteq Inputs
  /\ writes \in 0 .. MaxWrites

Init ==
  /\ packet \in Packets /\ state \in States /\ git \in Gits /\ tree \in Trees
  /\ pc = "idle"
  /\ opt \in Options     \* given when the script starts
  /\ patterns = NoPatterns
  /\ changed = {}
  /\ failures = {}
  /\ shown = "none"
  /\ result = "none"
  /\ saved = NONE
  /\ stable = Inputs
  /\ writes = 0

Then(place) == pc' = place

Fail(found) == failures' = failures \cup found

\* The arguments, and the template of the receipt.
Start ==
  /\ pc = "idle" /\ Then("packet")
  /\ Fail(IF "template" \in opt.docs THEN {} ELSE {"docs"})
  /\ UNCHANGED <<inputs, opt, patterns, changed, shown, result, saved>>

TaskPacketCheck ==
  /\ pc = "packet" /\ Then("schema")
  /\ Fail(PacketFailures(opt))
  /\ patterns' = IF "validator" \in opt.docs
                   THEN [allowed |-> packet.allowed, forbidden |-> packet.forbidden]
                   ELSE patterns
  /\ UNCHANGED <<inputs, opt, changed, shown, result, saved>>

RuntimeSchemaCheck ==
  /\ pc = "schema" /\ Then("target")
  /\ Fail(SchemaFailures(opt))
  /\ UNCHANGED <<inputs, opt, patterns, changed, shown, result, saved>>

IdentityAndGitTargetCheck ==
  /\ pc = "target" /\ Then("baseline")
  /\ Fail(TargetFailures(opt))
  /\ UNCHANGED <<inputs, opt, patterns, changed, shown, result, saved>>

BaselineTrackingCheck ==
  /\ pc = "baseline" /\ Then("scope")
  /\ Fail(BaselineFailures)
  /\ UNCHANGED <<inputs, opt, patterns, changed, shown, result, saved>>

\* collect_changed_files, and the scope of each.
FileScopeCheck ==
  /\ pc = "scope" /\ Then("secrets")
  /\ changed' = IF git.inside THEN Changed(opt.untracked) ELSE {}
  /\ Fail((IF "matrix" \in opt.docs THEN {} ELSE {"scope"})
            \cup (IF \E p \in changed' : OutOfScope(p, opt) THEN {"scope"} ELSE {}))
  /\ UNCHANGED <<inputs, opt, patterns, shown, result, saved>>

SecretScanCheck ==
  /\ pc = "secrets" /\ Then("receipt")
  /\ Fail((IF "secret_rules" \in opt.docs THEN {} ELSE {"docs"})
            \cup (IF \E p \in changed : Exposed(p) THEN {"secret"} ELSE {}))
  /\ UNCHANGED <<inputs, opt, patterns, changed, shown, result, saved>>

EmitReceipt_ScopeForgotten(written) ==
  LET receipt == [eligible |-> failures \subseteq {"scope"}, audit |-> state.audit,
                  branch |-> git.branch, files |-> changed,
                  secrets |-> "secret" \in failures]
      misplaced == opt.write /\ opt.path # "checkpoints" IN
  /\ pc = "receipt" /\ Then("done")
  /\ Fail(IF misplaced THEN {"receipt"} ELSE {})
  /\ shown' = IF receipt.eligible THEN "eligible" ELSE "blocked"
  /\ saved' = IF opt.write /\ ~misplaced /\ written
                THEN receipt ELSE saved
  /\ result' = IF failures' = {} THEN "passed" ELSE "blocked"
  /\ UNCHANGED <<inputs, opt, patterns, changed>>

\* emit_receipt prints the receipt, reading audit status and branch anew,
\* and saves it below project-runtime/checkpoints/ if asked to; a write that
\* fails goes unnoticed.  The result follows: passed, if nothing failed.
EmitReceipt(written) ==
  LET receipt == [eligible |-> failures = {}, audit |-> state.audit,
                  branch |-> git.branch, files |-> changed,
                  secrets |-> "secret" \in failures]
      misplaced == opt.write /\ opt.path # "checkpoints" IN
  /\ pc = "receipt" /\ Then("done")
  /\ Fail(IF misplaced THEN {"receipt"} ELSE {})
  /\ shown' = IF receipt.eligible THEN "eligible" ELSE "blocked"
  /\ saved' = IF opt.write /\ ~misplaced /\ written
                THEN receipt ELSE saved
  /\ result' = IF failures' = {} THEN "passed" ELSE "blocked"
  /\ UNCHANGED <<inputs, opt, patterns, changed>>

\* A write by somebody else, to one of the four.
Write(input) ==
  /\ pc \notin {"idle", "done"}
  /\ writes < MaxWrites
  /\ writes' = writes + 1
  /\ stable' = stable \ {input}
  /\ UNCHANGED <<pc, opt, patterns, changed, failures, shown, result, saved>>

WritePacket ==
  /\ Write("packet") /\ packet' \in Packets \ {packet}
  /\ UNCHANGED <<state, git, tree>>

WriteState ==
  /\ Write("state") /\ state' \in States \ {state}
  /\ UNCHANGED <<packet, git, tree>>

WriteGit ==
  /\ Write("git") /\ git' \in Gits \ {git}
  /\ UNCHANGED <<packet, state, tree>>

WriteTree ==
  /\ Write("tree") /\ tree' \in Trees \ {tree}
  /\ UNCHANGED <<packet, state, git>>

Next ==
  \/ Start
  \/ TaskPacketCheck \/ RuntimeSchemaCheck \/ IdentityAndGitTargetCheck
  \/ BaselineTrackingCheck \/ FileScopeCheck \/ SecretScanCheck
  \/ \E written \in BOOLEAN : EmitReceipt(written)
  \/ WritePacket \/ WriteState \/ WriteGit \/ WriteTree

Spec == Init /\ [][Next]_vars

------------------------------------------------------------------------------
(* Properties.  Each says which inputs nobody may write during the run. *)

\* Nothing that a commit of the index would add lies outside the packet's
\* allowed changes or inside project-input/, though patterns, list of files
\* and contents are read at different times; and in the worktree, where the
\* scan looks, none of it has a sensitive name or a secret in a text of up to
\* 1 MiB.  (Of a secret that was staged and then removed from the worktree
\* only the scan sees nothing; of one in a larger file or a binary one neither.)
PassedFilesAreInBounds ==
  result = "passed" /\ {"packet", "git", "tree"} \subseteq stable =>
    \A p \in Paths :
      tree[p].index # tree[p].head /\ tree[p].index # "none" =>
        /\ p \in packet.allowed \ packet.forbidden
        /\ Kind[p] \notin {"TZ", "input"}
        /\ p \in Sensitive => tree[p].work = "none"
        /\ tree[p].work # "secret"

\* A saved receipt that says eligible agrees with the state it was issued on,
\* whatever happens to packet and files: the audit passed and the branch is
\* the expected one, both read twice, once to check and once to print.
EligibleReceiptMatchesState ==
  saved # NONE /\ saved.eligible /\ {"state", "git"} \subseteq stable =>
      saved.audit = "passed" /\ saved.branch = ExpectedBranch(opt)

\* The receipt on disk and the result of the run that saved it never differ,
\* although one more check follows the decision what the receipt says.  The
\* receipt that was printed may be refuted by that check, and by no other; it
\* is not on disk then.
SavedVerdictIsTheResult ==
  pc = "done" =>
    /\ saved # NONE => (saved.eligible <=> result = "passed")
    /\ shown = "eligible" \/ result = "blocked"
    /\ shown = "eligible" /\ result = "blocked" =>
         failures = {"receipt"} /\ saved = NONE

\* Validation at the checkpoint is no weaker than before dispatch: a task
\* packet that is still active and passes could be dispatched as it is.
PassedPacketCouldBeDispatched ==
  /\ result = "passed" /\ "packet" \in stable
  /\ packet.document.packet /\ packet.document.status = "active"
  => Valid(packet.document, "dispatch", TRUE, TRUE)
==============================================================================
