---------------------------- MODULE ArchiveVerify ----------------------------
(***************************************************************************)
(* `aso archive verify' (commands/archive_verify.py): reads an archive,    *)
(* then the runtime files under the root (or else their copies in the      *)
(* archive), and judges whether every accepted artifact is archived or     *)
(* left out for a reason.  The archive may be made anew, and the           *)
(* orchestrator may go on, while it does.                                  *)
(*                                                                         *)
(* A path is the sequence of its parts; "/", "." and ".." are parts too.   *)
(***************************************************************************)
EXTENDS WorkspaceRecords

CONSTANTS
  Archives      \* archives: how they are packed, and contents by member name

VARIABLES
  archive,      \* the archive file: Missing, Unreadable or one of Archives
  read,         \* what of it was read: names, prefix, text files
  register,     \* ACCEPTED_ARTIFACTS as read, or Missing
  dirs,         \* the directories the archive has to have
  hashes,       \* the commits recorded in the runtime files
  phase,        \* what the command does next
  outcome,      \* the status in its report
  exit          \* its exit code

archiveVars == <<archive, read, register, dirs, hashes, phase, outcome, exit>>

(***************************************************************************)
(* Names.                                                                  *)
(***************************************************************************)
\* Members that climb are given no name at all.
NormalizeMember(path) ==
  IF ".." \in ToSet(path) THEN << >> ELSE SelectSeq(path, LAMBDA part : part \notin {"", ".", "/"})

ProjectDirs == {"project-runtime", "project-docs", "project-input"}

ManifestCandidates ==
  <<<<"archive-manifest.json">>, <<"archive_manifest.json">>, <<"manifest.json">>,
    <<"project-runtime", "ARCHIVE_MANIFEST.json">>>>

StripPrefix(name, prefix) ==
  IF prefix # "" /\ name # << >> /\ Head(name) = prefix THEN Tail(name) ELSE name

\* The one directory everything is packed in, if it holds a project.
CommonArchivePrefix(names) ==
  LET tops     == {Head(n) : n \in names}
      stripped == {Tail(n) : n \in names}
  IN  IF /\ Cardinality(tops) = 1
         /\ \A t \in tops : t \notin ProjectDirs /\ <<t>> \notin ToSet(ManifestCandidates)
         /\ \/ \E n \in stripped : n # << >> /\ Head(n) \in ProjectDirs
            \/ \E n \in stripped : n \in ToSet(ManifestCandidates)
      THEN CHOOSE t \in tops : TRUE
      ELSE ""

RuntimeCopies == [f \in {"ACCEPTED_ARTIFACTS", "PROJECT_STATE", "TASK_REGISTRY"} |->
                    <<"project-runtime", f>>]

\* Which members are read: judged by the name before a prefix is taken off.
ShouldReadText(name) ==
  name \in ToSet(ManifestCandidates) \cup {RuntimeCopies[f] : f \in DOMAIN RuntimeCopies}

Nothing == [names |-> {}, prefix |-> "", text |-> << >>]

\* _read_archive of an archive that can be opened.
ReadArchive(members) ==
  LET raw    == {NormalizeMember(m) : m \in DOMAIN members} \ {<< >>}
      prefix == CommonArchivePrefix(raw)
      texts  == {m \in DOMAIN members : ShouldReadText(NormalizeMember(m))}
      inText == {StripPrefix(NormalizeMember(m), prefix) : m \in texts} \ {<< >>}
  IN  [names  |-> {StripPrefix(n, prefix) : n \in raw} \ {<< >>},
       prefix |-> prefix,
       text   |-> [n \in inText |->
                     members[CHOOSE m \in texts : StripPrefix(NormalizeMember(m), prefix) = n]]]

\* Of a path as NormalizeMember leaves it; to normalise it once more, as the
\* code does, changes nothing.
PathExists(names, path) == path # << >> /\ \E n \in names : IsPrefix(path, n)

(***************************************************************************)
(* The manifest.                                                           *)
(***************************************************************************)
\* The first candidate in the archive, whether it is good or not.
ManifestPath(a) ==
  LET there == SelectSeq(ManifestCandidates, LAMBDA c : c \in DOMAIN a.text)
  IN  IF there = << >> THEN << >> ELSE Head(there)

\* Missing when there is none, or it is no JSON object.
Manifest(a) ==
  IF ManifestPath(a) = << >> \/ a.text[ManifestPath(a)] = Unreadable
  THEN Missing ELSE a.text[ManifestPath(a)]

\* The reasons given for leaving paths out, in the order of the manifest:
\* the last one given for a path counts, and none given cancels the others.
Exclusions(m) ==
  IF m = Missing THEN << >>
  ELSE LET last(i) == ~\E k \in DOMAIN m.excluded :
                         k > i /\ NormalizeMember(m.excluded[k].path) = NormalizeMember(m.excluded[i].path)
           chosen  == {i \in DOMAIN m.excluded : last(i) /\ NormalizeMember(m.excluded[i].path) # << >>}
       IN  [p \in {NormalizeMember(m.excluded[i].path) : i \in chosen} |->
              m.excluded[CHOOSE i \in chosen : NormalizeMember(m.excluded[i].path) = p].reason]

\* Mutant: no reason is asked for.
IsExcluded_NoReason(path, exclusions) ==
  \E p \in DOMAIN exclusions : IsPrefix(p, path)

\* Of a normalised path.
IsExcluded(path, exclusions) ==
  \E p \in DOMAIN exclusions : exclusions[p] # NONE /\ IsPrefix(p, path)

ArchiveCommitHash(m) == IF m = Missing THEN NONE ELSE m.commit

(***************************************************************************)
(* The registers.                                                          *)
(***************************************************************************)
\* A file under the root, else its copy in the archive.
RootOrArchive(f) ==
  IF Readable(files[f]) THEN files[f]
  ELSE IF RuntimeCopies[f] \in DOMAIN read.text THEN read.text[RuntimeCopies[f]] ELSE Missing

Accepted(reg) ==
  IF reg = Missing THEN {}
  ELSE {reg.entries[i] : i \in {k \in DOMAIN reg.entries : reg.entries[k].status = "accepted"}}

ArtifactRef(e) == IF e.ref = NONE THEN << >> ELSE NormalizeMember(e.ref)

\* Accepted, and neither in the archive nor left out for a reason.
Lost(e, a, m) ==
  \/ ArtifactRef(e) = << >>
  \/ ~PathExists(a.names, ArtifactRef(e)) /\ ~IsExcluded(ArtifactRef(e), Exclusions(m))

Commits(content) ==
  IF content = Missing THEN {}
  ELSE (IF "entries" \in DOMAIN content
        THEN {content.entries[i].commit : i \in DOMAIN content.entries}
        ELSE {content.commit}) \ {NONE}

(***************************************************************************)
(* The command.                                                            *)
(***************************************************************************)
ArchiveOff ==
  /\ archive = Missing /\ read = Nothing /\ register = Missing
  /\ dirs = {} /\ hashes = {} /\ phase = "off" /\ outcome = "none" /\ exit = "none"

ArchiveInit ==
  /\ archive \in Archives \cup {Missing, Unreadable}
  /\ read = Nothing /\ register = Missing
  /\ dirs = {} /\ hashes = {} /\ phase = "open" /\ outcome = "none" /\ exit = "none"

ArchiveTypeOK ==
  /\ archive \in Archives \cup {Missing, Unreadable}
  /\ read # Nothing => \E a \in Archives : read = ReadArchive(a.members)
  /\ dirs \subseteq ProjectDirs
  /\ phase \in {"off", "open", "accepted", "input", "state", "registry", "judge", "report", "end"}
  /\ outcome \in {"none", "usage", "io_error", "failed", "warning", "passed"}
  /\ exit \in {"none", "usage", "io_error", "findings", "ok"}

OpenArchive ==
  /\ phase = "open"
  /\ IF archive \notin {Missing, Unreadable} /\ archive.kind = "unsupported"
     THEN phase' = "report" /\ outcome' = "usage" /\ UNCHANGED read
     ELSE IF Readable(archive)
     THEN phase' = "accepted" /\ read' = ReadArchive(archive.members) /\ UNCHANGED outcome
     ELSE phase' = "report" /\ outcome' = "io_error" /\ UNCHANGED read
  /\ UNCHANGED <<archive, register, dirs, hashes, exit>>

ReadAccepted ==
  /\ phase = "accepted" /\ phase' = "input"
  /\ register' = RootOrArchive("ACCEPTED_ARTIFACTS")
  /\ UNCHANGED <<archive, read, dirs, hashes, outcome, exit>>

\* Mutant: the agent system is expected to be packed with the project.
ExpectDirs_AgentSystem ==
  /\ phase = "input" /\ phase' = "state"
  /\ dirs' = {"project-runtime", "project-docs", "agent-system"}
  /\ UNCHANGED <<archive, read, register, hashes, outcome, exit>>

ExpectDirs ==
  /\ phase = "input" /\ phase' = "state"
  /\ dirs' = {"project-runtime", "project-docs"} \cup
             (IF <<"project-input">> \in tree THEN {"project-input"} ELSE {})
  /\ UNCHANGED <<archive, read, register, hashes, outcome, exit>>

ReadProjectHashes ==
  /\ phase = "state" /\ phase' = "registry"
  /\ hashes' = ({e.commit : e \in Accepted(register)} \ {NONE})
               \cup Commits(RootOrArchive("PROJECT_STATE"))
  /\ UNCHANGED <<archive, read, register, dirs, outcome, exit>>

ReadRegistryHashes ==
  /\ phase = "registry" /\ phase' = "judge"
  /\ hashes' = hashes \cup Commits(RootOrArchive("TASK_REGISTRY"))
  /\ UNCHANGED <<archive, read, register, dirs, outcome, exit>>

\* The commit of the archive is none of those recorded.
CommitMismatch(m) == hashes # {} /\ ArchiveCommitHash(m) \notin hashes \cup {NONE}

ArchiveErrors(m) ==
  \/ \E d \in dirs : ~PathExists(read.names, <<d>>)
  \/ m = Missing
  \/ \E e \in Accepted(register) : Lost(e, read, m)
  \/ CommitMismatch(m)

\* What cannot be told: no register, or no commit to compare.
Inconclusive(m) == register = Missing \/ (hashes # {} /\ ArchiveCommitHash(m) = NONE)

Verify ==
  /\ phase = "judge" /\ phase' = "report"
  /\ outcome' = IF ArchiveErrors(Manifest(read)) THEN "failed"
                ELSE IF Inconclusive(Manifest(read)) THEN "warning" ELSE "passed"
  /\ UNCHANGED <<archive, read, register, dirs, hashes, exit>>

\* The report is printed and, if asked for, written, which may fail.
WriteArchiveReport ==
  /\ phase = "report" /\ phase' = "end"
  /\ exit' \in {"io_error", IF outcome \in {"passed", "warning"} THEN "ok"
                            ELSE IF outcome = "failed" THEN "findings" ELSE outcome}
  /\ UNCHANGED <<archive, read, register, dirs, hashes, outcome>>

ArchiveStep ==
  \/ OpenArchive \/ ReadAccepted \/ ExpectDirs \/ ReadProjectHashes
  \/ ReadRegistryHashes \/ Verify \/ WriteArchiveReport

\* The archive is made anew, whole or not.
PackArchive ==
  /\ Written
  /\ \E a \in (Archives \cup {Unreadable}) \ {archive} : archive' = a
  /\ UNCHANGED <<files, results, packets, events, tree>>
  /\ UNCHANGED <<read, register, dirs, hashes, phase, outcome, exit>>

ArchiveNext ==
  \/ ArchiveStep /\ UNCHANGED recordVars
  \/ PackArchive
  \/ (WriteRuntimeFile \/ ChangeTree) /\ UNCHANGED archiveVars
=============================================================================
