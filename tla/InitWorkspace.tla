---------------------------- MODULE InitWorkspace ----------------------------
(***************************************************************************)
(* scripts/init_project_workspace.sh: runs of the script on one target     *)
(* directory.  A run checks its arguments and the target's repository,     *)
(* copies agent-system/ and writes WORKSPACE_IDENTITY.md and then          *)
(* REPOSITORY_LOCK.md, one system call after the other.  It may be killed  *)
(* at any point, other runs may come before, after or in between, and the  *)
(* owner may change the repository meanwhile.                              *)
(***************************************************************************)
EXTENDS Naturals

CONSTANTS
  Runs,        \* runs of the script on this target
  Options,     \* the command lines they are started with
  Repos,       \* what a remote names once it is in canonical form
  Branches,
  NONE,        \* "NONE": no remote, no branch, no owner of a file
  SourceGit,   \* whether a .git lies somewhere below the source's agent-system
  MaxChanges   \* bound: changes of the repository

Remotes == [host : {"github.com", "alias", "other"}, repo : Repos]

\* What git says in the target: the worktree it is in, the origin, the branch.
Gits ==
  [top : {"own", "ancestor"},
   remote : Remotes \cup {NONE}, branch : Branches \cup {NONE}]
    \cup {[top |-> "none", remote |-> NONE, branch |-> NONE]}

\* A command line, the paths in it looked up, which no step below changes.
CommandLines ==
  [complete : BOOLEAN,       \* all required arguments, all well formed
   target : {"usable", "no_directory", "in_package"},
   source : BOOLEAN,         \* the source has an agent-system directory
   type : {"project_workspace", "implementation_repo", "test_fixture"},
   remote : Remotes, branch : Branches,
   alias : BOOLEAN,          \* the SSH host alias is approved or evidenced
   accept : BOOLEAN,         \* --accept-repository-lock
   push : BOOLEAN]           \* --push-allowed true

ASSUME OptionsAssumption == Options \subseteq CommandLines
ASSUME NoneAssumption ==
  NONE \notin Runs /\ NONE \notin Repos /\ NONE \notin Branches
    /\ NONE \notin Remotes
ASSUME BoundAssumption == SourceGit \in BOOLEAN /\ MaxChanges \in Nat

VARIABLES
  pc,         \* where each run is
  opt,        \* its command line
  seen,       \* what it read of the repository
  git,        \* the target's repository
  made,       \* the directories made: the target, and the three below it
  agent,      \* TARGET/agent-system, and a copy nested in it
  identity,   \* WORKSPACE_IDENTITY.md
  lock,       \* REPOSITORY_LOCK.md
  still,      \* runs since whose start the repository has not changed
  changes     \* counts its changes

vars == <<pc, opt, seen, git, made, agent, identity, lock, still, changes>>

disk == <<made, agent, identity, lock>>

environment == <<git, still, changes>>

------------------------------------------------------------------------------

\* canonical_remote: the repository a remote names, if it is an accepted form.
Canonical(o, remote) ==
  IF remote # NONE /\ remote.host \in
       {"github.com"} \cup (IF o.alias THEN {"alias"} ELSE {})
    THEN remote.repo ELSE NONE

\* The checks before anything is made.
Acceptable(o) ==
  /\ o.complete
  /\ ~(o.type = "test_fixture" /\ o.push)
  /\ o.push => o.accept
  /\ o.target = "usable"
  /\ Canonical(o, o.remote) # NONE

\* A file: not there, opened and still empty, or what a run has written.
Missing == [state |-> "missing"]
Empty == [state |-> "empty"]
Documents ==
  [state : {"written"}, by : Runs, top : {"none", "own"},
   remote : Remotes \cup {NONE}, branch : Branches \cup {NONE},
   accepted : BOOLEAN, push : BOOLEAN]

\* What identity and lock say about push and lock, and of the repository.
Document(r) ==
  [state |-> "written", by |-> r, top |-> seen[r].top,
   remote |-> seen[r].remote, branch |-> seen[r].branch,
   accepted |-> opt[r].accept, push |-> opt[r].accept /\ opt[r].push]

Ended == {"succeeded", "refused", "killed"}

Locations ==
  {"new", "toplevel", "remote", "branch", "decide", "check_lock", "mkdir",
   "check_copy", "copy", "copying", "prune", "check_identity",
   "open_identity", "write_identity", "recheck_lock", "open_lock",
   "write_lock"} \cup Ended

Blank == [top |-> "none", remote |-> NONE, branch |-> NONE]

TypeOK ==
  /\ pc \in [Runs -> Locations]
  /\ opt \in [Runs -> Options]
  /\ seen \in [Runs -> [top : {"none", "own", "ancestor"},
                       remote : Remotes \cup {NONE}, branch : Branches \cup {NONE}]]
  /\ git \in Gits
  /\ made \subseteq {"target", "dirs"}
  /\ agent \in [top : {"absent", "partial", "full"},
                nested : {"absent", "partial", "full"},
                by : Runs \cup {NONE}, git : SUBSET {"top", "nested"}]
  /\ identity \in {Missing, Empty} \cup Documents
  /\ lock \in {Missing, Empty} \cup Documents
  /\ still \subseteq Runs
  /\ changes \in 0 .. MaxChanges

Init ==
  /\ pc = [r \in Runs |-> "new"]
  /\ opt \in [Runs -> Options]
  /\ seen = [r \in Runs |-> Blank]
  /\ git \in Gits
  /\ made = {}
  /\ agent \in {[top |-> t, nested |-> "absent", by |-> NONE, git |-> {}] :
                  t \in {"absent", "full"}}
  /\ identity = Missing
  /\ lock = Missing
  /\ still = {}
  /\ changes = 0

Go(r, place) == pc' = [pc EXCEPT ![r] = place]

Refuse(r) == Go(r, "refused")

\* Arguments, source and target; then mkdir -p of the target.
Start(r) ==
  /\ pc[r] = "new"
  /\ still' = still \cup {r}
  /\ IF Acceptable(opt[r])
       THEN Go(r, "toplevel") /\ made' = made \cup {"target"}
       ELSE Refuse(r) /\ made' = made
  /\ UNCHANGED <<opt, seen, git, agent, identity, lock, changes>>

ReadToplevel_AnyWorktree(r) ==
  /\ pc[r] = "toplevel"
  /\ seen' = [seen EXCEPT ![r].top = git.top]
  /\ Go(r, IF git.top = "own" THEN "remote" ELSE "decide")
  /\ UNCHANGED <<opt, disk, environment>>

\* git rev-parse --show-toplevel; an ancestor's worktree is refused.
ReadToplevel(r) ==
  /\ pc[r] = "toplevel"
  /\ seen' = [seen EXCEPT ![r].top = git.top]
  /\ Go(r, CASE git.top = "none" -> "decide"
             [] git.top = "own" -> "remote"
             [] git.top = "ancestor" -> "refused")
  /\ UNCHANGED <<opt, disk, environment>>

ReadRemote_AnyForm(r) ==
  /\ pc[r] = "remote"
  /\ seen' = [seen EXCEPT ![r].remote = git.remote]
  /\ IF Canonical(opt[r], git.remote) # NONE
       THEN Go(r, "branch") ELSE Refuse(r)
  /\ UNCHANGED <<opt, disk, environment>>

\* git remote get-url origin; refused unless it names the expected repository.
\* A repository that went away has no origin and no branch.
ReadRemote(r) ==
  /\ pc[r] = "remote"
  /\ seen' = [seen EXCEPT ![r].remote = git.remote]
  /\ IF Canonical(opt[r], git.remote) = Canonical(opt[r], opt[r].remote)
       THEN Go(r, "branch") ELSE Refuse(r)
  /\ UNCHANGED <<opt, disk, environment>>

\* git branch --show-current
ReadBranch(r) ==
  /\ pc[r] = "branch"
  /\ seen' = [seen EXCEPT ![r].branch = git.branch]
  /\ IF git.branch = opt[r].branch THEN Go(r, "decide") ELSE Refuse(r)
  /\ UNCHANGED <<opt, disk, environment>>

\* No lock is accepted without a repository of the target's own; and the
\* first look at an existing identity.
Decide(r) ==
  /\ pc[r] = "decide"
  /\ IF /\ opt[r].accept => seen[r].top = "own"
        /\ identity = Missing
       THEN Go(r, "check_lock") ELSE Refuse(r)
  /\ UNCHANGED <<opt, seen, disk, environment>>

CheckLock(r) ==
  /\ pc[r] = "check_lock"
  /\ IF lock = Missing THEN Go(r, "mkdir") ELSE Refuse(r)
  /\ UNCHANGED <<opt, seen, disk, environment>>

MakeDirectories(r) ==
  /\ pc[r] = "mkdir"
  /\ made' = made \cup {"dirs"}
  /\ Go(r, "check_copy")
  /\ UNCHANGED <<opt, seen, agent, identity, lock, environment>>

\* copy_agent_system: there is a source, and nothing at the destination.
CheckCopy(r) ==
  /\ pc[r] = "check_copy"
  /\ IF opt[r].source /\ agent.top = "absent" THEN Go(r, "copy") ELSE Refuse(r)
  /\ UNCHANGED <<opt, seen, disk, environment>>

\* cp -R begins.  If the destination has come to exist since the check, cp
\* copies into it, or fails if it looked before and could not make it.
StartCopy(r) ==
  /\ pc[r] = "copy"
  /\ \/ /\ agent.top = "absent"
        /\ agent' = [agent EXCEPT !.top = "partial", !.by = r]
        /\ Go(r, "copying")
     \/ /\ agent.top # "absent"
        /\ agent' = [agent EXCEPT !.nested = "partial"]
        /\ Go(r, "copying")
     \/ /\ agent.top # "absent"
        /\ agent' = agent
        /\ Refuse(r)
  /\ UNCHANGED <<opt, seen, made, identity, lock, environment>>

\* cp -R ends.
FinishCopy(r) ==
  /\ pc[r] = "copying"
  /\ LET place == IF agent.by = r THEN "top" ELSE "nested" IN
     agent' = [agent EXCEPT
       ![place] = "full",
       !.git = IF SourceGit THEN @ \cup {place} ELSE @]
  /\ Go(r, "prune")
  /\ UNCHANGED <<opt, seen, made, identity, lock, environment>>

PruneGit_InSource(r) ==
  /\ pc[r] = "prune"
  /\ Go(r, "check_identity")
  /\ UNCHANGED <<opt, seen, disk, environment>>

\* find ... -name .git -prune -exec rm -rf
PruneGit(r) ==
  /\ pc[r] = "prune"
  /\ agent' = [agent EXCEPT !.git = {}]
  /\ Go(r, "check_identity")
  /\ UNCHANGED <<opt, seen, made, identity, lock, environment>>

CheckIdentity_NotNested(r) ==
  /\ pc[r] = "check_identity"
  /\ IF identity = Missing /\ agent.nested = "absent"
       THEN Go(r, "open_identity") ELSE Refuse(r)
  /\ UNCHANGED <<opt, seen, disk, environment>>

CheckIdentity(r) ==
  /\ pc[r] = "check_identity"
  /\ IF identity = Missing THEN Go(r, "open_identity") ELSE Refuse(r)
  /\ UNCHANGED <<opt, seen, disk, environment>>

\* write_workspace_identity: cat > truncates, then writes.
OpenIdentity(r) ==
  /\ pc[r] = "open_identity"
  /\ identity' = Empty
  /\ Go(r, "write_identity")
  /\ UNCHANGED <<opt, seen, made, agent, lock, environment>>

WriteIdentity(r) ==
  /\ pc[r] = "write_identity"
  /\ identity' = Document(r)
  /\ Go(r, "recheck_lock")
  /\ UNCHANGED <<opt, seen, made, agent, lock, environment>>

RecheckLock_IdentityPath(r) ==
  /\ pc[r] = "recheck_lock"
  /\ IF identity = Missing THEN Go(r, "open_lock") ELSE Refuse(r)
  /\ UNCHANGED <<opt, seen, disk, environment>>

RecheckLock(r) ==
  /\ pc[r] = "recheck_lock"
  /\ IF lock = Missing THEN Go(r, "open_lock") ELSE Refuse(r)
  /\ UNCHANGED <<opt, seen, disk, environment>>

\* write_repository_lock
OpenLock(r) ==
  /\ pc[r] = "open_lock"
  /\ lock' = Empty
  /\ Go(r, "write_lock")
  /\ UNCHANGED <<opt, seen, made, agent, identity, environment>>

WriteLock(r) ==
  /\ pc[r] = "write_lock"
  /\ lock' = Document(r)
  /\ Go(r, "succeeded")
  /\ UNCHANGED <<opt, seen, made, agent, identity, environment>>

\* The process is killed, or the machine stops.
Kill(r) ==
  /\ pc[r] \notin Ended \cup {"new"}
  /\ Go(r, "killed")
  /\ UNCHANGED <<opt, seen, disk, environment>>

\* The owner makes, removes or moves the repository, its origin or branch.
ChangeGit(g) ==
  /\ changes < MaxChanges
  /\ g # git
  /\ git' = g
  /\ still' = {}
  /\ changes' = changes + 1
  /\ UNCHANGED <<pc, opt, seen, disk>>

Step(r) ==
  \/ Start(r) \/ ReadToplevel(r) \/ ReadRemote(r) \/ ReadBranch(r)
  \/ Decide(r) \/ CheckLock(r) \/ MakeDirectories(r)
  \/ CheckCopy(r) \/ StartCopy(r) \/ FinishCopy(r) \/ PruneGit(r)
  \/ CheckIdentity(r) \/ OpenIdentity(r) \/ WriteIdentity(r)
  \/ RecheckLock(r) \/ OpenLock(r) \/ WriteLock(r)

Next ==
  \/ \E r \in Runs : Step(r) \/ Kill(r)
  \/ \E g \in Gits : ChangeGit(g)

Spec == Init /\ [][Next]_vars

------------------------------------------------------------------------------
(* Properties.  A nested copy is what two runs leave that both found no    *)
(* agent-system; what is promised without one is promised for any runs,    *)
(* overlapping or not, killed anywhere.                                    *)

Raced == agent.nested # "absent"

\* write_repository_lock comes last, so that a written lock vouches for the
\* whole workspace: a complete copy without any .git, and an identity of the
\* same run that says the same.  Leftovers of killed runs are never built on.
LockVouchesForWorkspace ==
  lock \in Documents /\ ~Raced
    => identity = lock /\ agent.top = "full" /\ agent.git = {}
       /\ agent.by = lock.by

\* A run that dies with an error message has not touched agent-system,
\* identity or lock: all it may leave is empty directories.
RefusalsLeaveNothing ==
  ~Raced =>
    \A r \in Runs :
      pc[r] = "refused" =>
        /\ agent.by # r
        /\ identity \in Documents => identity.by # r
        /\ lock \in Documents => lock.by # r

\* An accepted lock tells the truth: unless the repository changed since the
\* run started that wrote it, the target has a repository of its own, with
\* the expected origin and branch.
AcceptedLockMatchesRepository ==
  lock \in Documents /\ lock.accepted /\ lock.by \in still =>
    LET o == opt[lock.by] IN
    /\ git.top = "own"
    /\ Canonical(o, git.remote) = Canonical(o, o.remote)
    /\ git.branch = o.branch

\* What the script would not refuse as the repository stands.
Welcome(o) ==
  /\ Acceptable(o) /\ o.source
  /\ git.top # "ancestor"
  /\ o.accept => git.top = "own"
  /\ git.top = "own" =>
       Canonical(o, git.remote) = Canonical(o, o.remote) /\ git.branch = o.branch

\* Runs at the same time do not refuse each other to death: if nobody was
\* killed, nothing was there before and the repository stood still, then one
\* of the runs that had no other reason to refuse has initialised the target.
SomeRunSucceeds ==
  /\ \A r \in Runs : pc[r] \in {"succeeded", "refused"}
  /\ changes = 0
  /\ ~(agent.top = "full" /\ agent.by = NONE)
  /\ \E r \in Runs : Welcome(opt[r])
  => \E r \in Runs : pc[r] = "succeeded"
==============================================================================
