------------------------------- MODULE Records -------------------------------
(***************************************************************************)
(* The commands that judge the records of a workspace, one of them at      *)
(* work: `aso lint', `aso archive verify', or `aso record-result'; or one   *)
(* of those that judge the package itself.                                 *)
(***************************************************************************)
EXTENDS RuntimeLint, RecordResult, ArchiveVerify, PackageChecks

CONSTANTS LintWorlds, ArchiveWorlds, RecordWorlds,   \* the records each begins with
          PackageWorlds                              \* records and package

ASSUME WorldsAssumption ==
  \A w \in LintWorlds \cup ArchiveWorlds \cup RecordWorlds \cup PackageWorlds :
    /\ DOMAIN w.files = ToSet(RuntimeFiles) /\ \A f \in DOMAIN w.files : w.files[f] \in Contents(f)
    /\ DOMAIN w.packets = DOMAIN PacketVersions
    /\ \A p \in DOMAIN w.packets : w.packets[p] \in PacketVersions[p] \cup {Missing, Unreadable}
    /\ w.results \in ResultStates
    /\ w.events \in (SUBSET Events) \cup {Unreadable}
    /\ w.tree \in Trees
ASSUME PackageWorldsAssumption ==
  /\ \A w \in PackageWorlds :
       /\ DOMAIN w.parts = Parts /\ \A p \in Parts : w.parts[p] \in PartContents(p)
       /\ w.repository \in Repositories
       /\ w.tracked \subseteq TrackedFiles
  /\ \A index \in Indexes : index \subseteq TrackedFiles
ASSUME NoneAssumption == NONE \notin Proposals \cup ResultStatuses \cup ProfileRoles \cup {"auditor"}

S == INSTANCE WorkspaceStatus

vars == <<recordVars, lintVars, proposal, archiveVars, packageVars>>

TypeOK == RecordsTypeOK /\ LintTypeOK /\ ProposalTypeOK /\ ArchiveTypeOK /\ PackageTypeOK

World(w) ==
  /\ files = w.files /\ results = w.results /\ packets = w.packets
  /\ events = w.events /\ tree = w.tree /\ writes = 0

PackageWorld(w) == parts = w.parts /\ repository = w.repository /\ tracked = w.tracked

Init ==
  \/ (\E w \in LintWorlds : World(w)) /\ LintInit /\ ArchiveOff /\ RecordOff /\ PackageOff
  \/ (\E w \in ArchiveWorlds : World(w)) /\ LintOff /\ ArchiveInit /\ RecordOff /\ PackageOff
  \/ (\E w \in RecordWorlds : World(w)) /\ LintOff /\ ArchiveOff /\ RecordOff /\ PackageOff
  \/ /\ \E w \in PackageWorlds : World(w) /\ PackageWorld(w)
     /\ LintOff /\ ArchiveOff /\ RecordOff /\ PackageInit

RecordsNext ==
  \/ at # "off" /\ LintNext /\ UNCHANGED <<proposal, archiveVars>>
  \/ phase # "off" /\ ArchiveNext /\ UNCHANGED <<proposal, lintVars>>
  \/ at = "off" /\ phase = "off" /\ RecordNext /\ UNCHANGED <<lintVars, archiveVars>>

Next ==
  \/ place = "off" /\ RecordsNext /\ UNCHANGED packageVars
  \/ place # "off" /\ PackageNext /\ UNCHANGED <<lintVars, proposal, archiveVars>>

Spec == Init /\ [][Next]_vars

(***************************************************************************)
(* Lint.                                                                   *)
(***************************************************************************)
\* The task that NEXT_ACTION would have dispatched is there to be worked on,
\* it is the one the gate is about, and no checkpoint is made twice.
NextActionDispatchable ==
  LET action == files["NEXT_ACTION"]
      gate   == files["CURRENT_GATE"]
      state  == files["PROJECT_STATE"]
  IN  /\ ~Halts(action) => state.project # "completed"
      /\ ~Halts(action) /\ ~IsNone(action.task) =>
           /\ \E i \in DOMAIN files["TASK_REGISTRY"].entries :
                LET e == files["TASK_REGISTRY"].entries[i]
                IN  e.task = action.task /\ e.status \notin TerminalStatuses
           /\ gate.task = action.task \/ IsNone(gate.task)
           /\ state.checkpoint = "passed" =>
                action.type # "checkpoint" \/ action.receipt # state.receipt

\* A RESULT that nobody has touched since the lint began belongs to a task
\* of the registry, and no agent that wrote one is still at work.
ResultsAccountedFor ==
  \A r \in DOMAIN results \ touched : results[r] # Missing =>
    /\ Readable(results[r])
    /\ \/ Registered(files, Field(results[r], "TASK_ID"))
       \/ IsHistoricalOrWaived(results[r].doc)
    /\ events # Unreadable
    /\ Terminated(events, Field(results[r], "AGENT_INSTANCE_ID"))

\* `aso status' sees no failure either, except one of spelling: some of what
\* lint takes for no PUSH_ALLOWED, like null, it takes for a value.  And what it
\* shows as the next task is not one that is done.
StatusAgrees ==
  /\ S!StatusFails(files) => \E v \in Pushes(files) : v # NONE /\ IsNone(v)
  /\ ~IsNone(S!TaskShown(files)) /\ ~Halts(files["NEXT_ACTION"]) =>
       TaskEntry(files, S!TaskShown(files)).status \notin TerminalStatuses

\* A lint that exits with success vouches for the workspace as long as the runtime
\* files it read are those that are there, whatever agents and orchestrator
\* wrote meanwhile.
PassedLintHolds ==
  code = "ok" /\ files = seen =>
    NextActionDispatchable /\ ResultsAccountedFor /\ StatusAgrees

(***************************************************************************)
(* record-result.                                                          *)
(***************************************************************************)
\* A strict proposal that is ready concerns a RESULT that is there in whole,
\* so it is the one a second run gets, and it leads to the checkpoint only
\* on the pass of an auditor who says which RESULT was checked.
StrictProposalsStand ==
  proposal \in {p \in Proposals : p.strict /\ p.report_status = "ready"} =>
    LET r == proposal.file
    IN  /\ Finished(results[r])
        /\ Report(r, TRUE) = proposal
        /\ proposal.checkpoint_candidate =>
             /\ results[r].doc.ROLE = "auditor"
             /\ results[r].doc.STATUS = "pass"
             /\ results[r].doc.EVIDENCE # {}

(***************************************************************************)
(* archive verify.                                                         *)
(***************************************************************************)
\* Unpacking the archive creates a file or directory of this path.
Unpacked(path) == \E n \in read.names : IsPrefix(path, n)

\* Named in the manifest with a reason, and not named again without one.
LeftOut(path) ==
  LET m == Manifest(read)
  IN  \E i \in DOMAIN m.excluded :
        /\ m.excluded[i].reason # NONE
        /\ IsPrefix(NormalizeMember(m.excluded[i].path), path)
        /\ \A k \in DOMAIN m.excluded :
             k > i /\ NormalizeMember(m.excluded[k].path) = NormalizeMember(m.excluded[i].path) =>
               m.excluded[k].reason # NONE

\* The register and the archive are those that were read.
ArchiveStands ==
  /\ Readable(archive) /\ read = ReadArchive(archive.members)
  /\ register = RootOrArchive("ACCEPTED_ARTIFACTS")

\* An archive verified with success loses no accepted artifact: as long as the
\* register and the archive are those that were read, whatever was accepted
\* is unpacked from it or was left out for a reason the manifest gives; and
\* if it passed, the register was found and the commit is a recorded one.
NoAcceptedArtifactIsLost ==
  exit = "ok" /\ ArchiveStands =>
    /\ Manifest(read) # Missing
    /\ \A e \in Accepted(register) :
         Unpacked(ArtifactRef(e)) \/ LeftOut(ArtifactRef(e))
    /\ outcome = "passed" =>
         /\ register # Missing
         /\ hashes = {} \/ Manifest(read).commit \in hashes

(***************************************************************************)
(* The package.                                                            *)
(***************************************************************************)
\* No file of a generated root is tracked, but for one whose name git quotes.
NothingGeneratedTracked ==
  \A f \in tracked : f.name = "plain" => f.root \notin GeneratedRoots

VersionAgrees(p) ==
  Readable(Part(p)) => Part(p).version \in {NONE, Part("PACKAGE_VERSIONING.md").version}

\* A package judged with success stays what it was judged to be, each part of
\* the promise as long as nobody else changes what it names.  It is in a
\* repository, or in none, which preflight alone refuses.  It stays free of
\* generated files, whatever is added to git without force, if .gitignore lets
\* no generated root in again and has no line that git reads unlike the check:
\* .gitignore, read last, was complete when the index was read.  And doctor's
\* versions agree, though each was read apart.
PassedPackageHolds ==
  answer \in {"passed", "eligible"} =>
    /\ "repository" \in still =>
         Git = "worktree" \/ (Git = "outside" /\ command # "checkpoint-preflight")
    /\ /\ {"repository", "index", ".gitignore"} \subseteq still /\ Git = "worktree"
       /\ Part(".gitignore").reopened = {} /\ Part(".gitignore").literal = {}
       => NothingGeneratedTracked
    /\ command = "doctor" =>
         \A p \in {"pyproject.toml", "__init__.py"} :
           {"PACKAGE_VERSIONING.md", p} \subseteq still => VersionAgrees(p)
=============================================================================
