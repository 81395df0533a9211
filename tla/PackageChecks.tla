---------------------------- MODULE PackageChecks ----------------------------
(***************************************************************************)
(* Package mode: `aso package-layout verify' (and its alias package-sync), *)
(* `status', `lint', `doctor' and `checkpoint-preflight' judge the         *)
(* repository of the package itself.  Each runs inspect_package            *)
(* (commands/package_checks.py), which looks at one part of the worktree   *)
(* after the other and asks git three times what it tracks; doctor and     *)
(* preflight then ask more.  Those who work on the package may edit it,    *)
(* add files to git and check out other commits meanwhile.                 *)
(***************************************************************************)
EXTENDS WorkspaceRecords

CONSTANTS
  PartVersions,   \* what each part of the worktree holds when it can be read
  Garbled,        \* a text that is not UTF-8
  TrackedFiles,   \* files that git may track
  Indexes         \* sets of them that a checkout or a forced add may leave

\* The version tuple has the package version in it.
ASSUME VersioningAssumption ==
  \A c \in PartVersions["PACKAGE_VERSIONING.md"] : "tuple" \in c.marks => c.version # NONE

VARIABLES
  parts,          \* what is there of each part
  repository,     \* what git says of the root
  tracked,        \* what git tracks
  command,        \* the command at work
  place,          \* what it does next
  fault,          \* the worst finding up to now
  active,         \* the package version PACKAGE_VERSIONING.md declares, as read
  answer,         \* the status in its report
  leave,          \* its exit code
  still           \* what nobody changed since it began

packageVars == <<parts, repository, tracked, command, place, fault, active, answer, leave, still>>

Package == "agent-system/tools/aso/agent_system_orchestrator_aso"

Directories == {"agent-system", "agent-system/tools/aso", Package, "aso_tool"}

Texts == {"aso.py", "pyproject.toml", ".github/workflows", "README.md", "agent-system/README.md",
          ".gitignore", "PACKAGE_VERSIONING.md", "__init__.py", "aso_tool/aso.py", "Makefile"}

\* "commands" are the other files that doctor wants to be there.
Parts == {".", "agent_system_orchestrator_aso", "tests", "commands"} \cup Directories \cup Texts

GeneratedRoots == {"project-runtime", "project-input", "project-archive"}

Repositories == {"worktree", "corrupt", "outside", "unusable"}

Commands == {"package-layout", "status", "lint", "doctor", "checkpoint-preflight"}

\* What the meaning of a pass rests on.
Guarded == {"repository", "index", ".gitignore", "PACKAGE_VERSIONING.md", "pyproject.toml",
            "__init__.py"}

\* The parts that a part, or the index, lies in.
Enclosing(p) ==
  {"."} \cup
  CASE p \in {".", "README.md", ".gitignore", "pyproject.toml", "Makefile", ".github/workflows",
              "agent-system", "agent_system_orchestrator_aso", "repository", "index"} -> {}
    [] p \in {"agent-system/tools/aso", "agent-system/README.md", "PACKAGE_VERSIONING.md"} ->
         {"agent-system"}
    [] p \in {"aso.py", "tests", Package} -> {"agent-system", "agent-system/tools/aso"}
    [] p \in {"__init__.py", "aso_tool"} -> {"agent-system", "agent-system/tools/aso", Package}
    [] OTHER -> Directories

\* A root that is no directory counts as missing.
PartContents(p) ==
  PartVersions[p] \cup {Missing} \cup (IF p = "." THEN {} ELSE {Unreadable})
    \cup (IF p \in Texts THEN {Garbled} ELSE {})

Places ==
  {"off", "arguments", ".", "directories", "wrapper", "pyproject", "roots", "caches", "duplicates",
   "workflows", "readmes", "gitignore", "worktree", "paths", "versioning", "pyproject version",
   "wrapper version", "markers", "registration", "tests", "makefile", "report", "end"}

PackageTypeOK ==
  /\ DOMAIN parts = Parts /\ \A p \in Parts : parts[p] \in PartContents(p)
  /\ repository \in Repositories
  /\ tracked \subseteq TrackedFiles
  /\ command \in Commands
  /\ place \in Places
  /\ fault \in {"none", "error", "no root"}
  /\ active \in {NONE} \cup {c.version : c \in PartVersions["PACKAGE_VERSIONING.md"]}
  /\ answer \in {"none", "usage", "crash", "io_error", "fail", "failed", "blocked", "passed", "eligible"}
  /\ leave \in {"none", "usage", "crash", "io_error", "findings", "ok"}
  /\ still \subseteq Guarded

(***************************************************************************)
(* What the checks see.                                                    *)
(***************************************************************************)
\* Nothing is there under a directory that is not, and git cannot start there.
Part(p) ==
  IF \E q \in Enclosing(p) \ {p} : parts[q] \in {Missing, Unreadable} THEN Missing ELSE parts[p]

Git == IF parts["."] = Missing THEN "unusable" ELSE repository

Exists(p) == Part(p) # Missing

Lacks(p, marks) == ~Readable(Part(p)) \/ ~(marks \subseteq Part(p).marks)

\* ls-files fails, and does not say that this is no git repository.
ListingFails == Git \in {"corrupt", "unusable"}

\* git puts a name with unusual characters in quotes, so its first directory
\* is none of the generated roots, and its ending is not `.pyc'.
ListedUnderRoot(f) == f.root \in GeneratedRoots /\ f.name # "quoted"

ListedAsCache(f) == f.cache = "directory" \/ (f.cache = "ending" /\ f.name # "quoted")

Readmes == {"README.md", "agent-system/README.md"}

\* A README that denies the CLI is wrong only where there is one.
ReadmeFlawed(p) ==
  Lacks(p, {"terms"}) \/ (Exists("agent-system/tools/aso") /\ ~Lacks(p, {"denies"}))

\* The roots that .gitignore has a pattern for once its lines are stripped:
\* those of its `literal' lines are the ones whose blanks belong to the pattern
\* in the eyes of git, which then ignores something else.
Listed(g) == g.ignored \cup g.literal

\* Mutant: a pattern for one generated root is enough.
GitignoreFlawed_Any ==
  ~Readable(Part(".gitignore")) \/ GeneratedRoots \cap Listed(Part(".gitignore")) = {}

GitignoreFlawed ==
  ~Readable(Part(".gitignore")) \/ ~(GeneratedRoots \subseteq Listed(Part(".gitignore")))

PyprojectMarks == {"toml", "entrypoint", "where", "include"}

RequiredPaths == Directories \cup {"aso.py", "pyproject.toml", "Makefile", "tests", "commands"}

(***************************************************************************)
(* The commands.                                                           *)
(***************************************************************************)
PackageOff ==
  /\ parts = [p \in Parts |-> Missing] /\ repository = "outside" /\ tracked = {}
  /\ command = "package-layout" /\ place = "off" /\ fault = "none" /\ active = NONE
  /\ answer = "none" /\ leave = "none" /\ still = {}

PackageInit ==
  /\ command \in Commands
  /\ place = IF command = "status" THEN "arguments" ELSE "."
  /\ fault = "none" /\ active = NONE /\ answer = "none" /\ leave = "none"
  /\ still = Guarded

Surroundings == <<parts, repository, tracked, still>>

Worsen(error) == fault' = IF fault # "none" THEN fault ELSE IF error THEN "error" ELSE "none"

\* A check that reads no text.
Inspect(from, to, error) ==
  /\ place = from /\ place' = to
  /\ Worsen(error)
  /\ UNCHANGED <<command, active, answer, leave>>

\* Only OSError is caught when a text is read.
Undecodable(from, p) ==
  /\ place = from /\ Part(p) = Garbled /\ place' = "end"
  /\ answer' = "crash" /\ leave' = "crash"
  /\ UNCHANGED <<command, fault, active>>

ReadText(from, to, p, error) ==
  \/ Undecodable(from, p)
  \/ Part(p) # Garbled /\ Inspect(from, to, error)

\* The parser of `status' alone insists on a root.
ParseArguments ==
  /\ place = "arguments"
  /\ IF Exists(".") THEN place' = "." /\ UNCHANGED <<answer, leave>>
     ELSE place' = "end" /\ answer' = "usage" /\ leave' = "usage"
  /\ UNCHANGED <<command, fault, active>>

AfterInspection ==
  CASE command = "doctor" -> "paths"
    [] command = "checkpoint-preflight" -> "worktree"
    [] OTHER -> "report"

CheckRoot ==
  /\ place = "."
  /\ IF Exists(".") THEN place' = "directories" /\ UNCHANGED fault
     ELSE place' = AfterInspection /\ fault' = "no root"
  /\ UNCHANGED <<command, active, answer, leave>>

CheckDirectories ==
  Inspect("directories", "wrapper",
       \/ \E p \in Directories : ~Readable(Part(p))
       \/ Exists("agent_system_orchestrator_aso"))

\* A wrapper that does run may be too slow.
CheckWrapper ==
  \E slow \in BOOLEAN :
    ReadText("wrapper", "pyproject", "aso.py", slow \/ Lacks("aso.py", {"delegates", "runs"}))

CheckPyproject ==
  ReadText("pyproject", "roots", "pyproject.toml", Lacks("pyproject.toml", PyprojectMarks))

ListGeneratedRoots ==
  Inspect("roots", "caches",
       ListingFails \/ (Git = "worktree" /\ \E f \in tracked : ListedUnderRoot(f)))

ListCaches ==
  Inspect("caches", "duplicates",
       ListingFails \/ (Git = "worktree" /\ \E f \in tracked : ListedAsCache(f)))

ListDuplicates ==
  Inspect("duplicates", "workflows",
       \/ ListingFails
       \/ Git = "worktree" /\ \E f \in tracked : f.root = "agent_system_orchestrator_aso")

CheckWorkflows ==
  ReadText("workflows", "readmes", ".github/workflows", Lacks(".github/workflows", {"trigger"}))

CheckReadmes ==
  \/ \E p \in Readmes : Undecodable("readmes", p)
  \/ /\ \A p \in Readmes : Part(p) # Garbled
     /\ Inspect("readmes", "gitignore", \E p \in Readmes : ReadmeFlawed(p))

CheckGitignore == ReadText("gitignore", AfterInspection, ".gitignore", GitignoreFlawed)

\* Preflight: git says of a corrupt worktree that it is one.
AskWorktree == Inspect("worktree", "report", Git \notin {"worktree", "corrupt"})

\* Doctor.
CheckPackagePaths == Inspect("paths", "versioning", \E p \in RequiredPaths : ~Exists(p))

ReadVersioning ==
  LET p == "PACKAGE_VERSIONING.md"
  IN  \/ Undecodable("versioning", p)
      \/ /\ place = "versioning" /\ Part(p) # Garbled /\ place' = "pyproject version"
         /\ Worsen(Lacks(p, {"tuple"}))
         /\ active' = IF Readable(Part(p)) THEN Part(p).version ELSE NONE
         /\ UNCHANGED <<command, answer, leave>>

OtherVersion(p) == active # NONE /\ Readable(Part(p)) /\ Part(p).version \notin {NONE, active}

CompareVersions ==
  \/ ReadText("pyproject version", "wrapper version", "pyproject.toml", OtherVersion("pyproject.toml"))
  \/ ReadText("wrapper version", "markers", "__init__.py", OtherVersion("__init__.py"))

CheckMarkers ==
  ReadText("markers", "registration", "pyproject.toml", Lacks("pyproject.toml", {"markers"}))

CheckRegistration ==
  ReadText("registration", "tests", "aso_tool/aso.py", Lacks("aso_tool/aso.py", {"doctor"}))

CheckTests == Inspect("tests", "makefile", Lacks("tests", {"tests"}))

CheckMakefile == ReadText("makefile", "report", "Makefile", Lacks("Makefile", {"targets"}))

\* The report is printed and then, if asked for, written, which may fail.
Says(text, exit) == answer' = text /\ leave' \in {exit, "io_error"}

Judges(good, bad) ==
  \/ fault = "none" /\ Says(good, "ok")
  \/ fault = "error" /\ Says(bad, "findings")
  \/ fault = "no root" /\ Says("io_error", "io_error")

LintReport == command = "lint" /\ Judges("passed", "failed")

DoctorReport == command = "doctor" /\ Judges("passed", "failed")

PreflightReport == command = "checkpoint-preflight" /\ Judges("eligible", "blocked")

\* This one is only printed.
LayoutReport ==
  /\ command = "package-layout"
  /\ answer' = IF fault = "none" THEN "passed" ELSE "fail"
  /\ leave' = IF fault = "none" THEN "ok" ELSE "findings"

\* Whatever it found, `status' ends well.
StatusReport ==
  command = "status" /\ Says(IF fault = "none" THEN "passed" ELSE "failed", "ok")

WritePackageReport ==
  /\ place = "report" /\ place' = "end"
  /\ LayoutReport \/ StatusReport \/ LintReport \/ DoctorReport \/ PreflightReport
  /\ UNCHANGED <<command, fault, active>>

PackageStep ==
  \/ ParseArguments \/ CheckRoot \/ CheckDirectories \/ CheckWrapper \/ CheckPyproject
  \/ ListGeneratedRoots \/ ListCaches \/ ListDuplicates \/ CheckWorkflows \/ CheckReadmes
  \/ CheckGitignore \/ AskWorktree \/ CheckPackagePaths \/ ReadVersioning \/ CompareVersions
  \/ CheckMarkers \/ CheckRegistration \/ CheckTests \/ CheckMakefile \/ WritePackageReport

(***************************************************************************)
(* Those who work on the package.                                          *)
(***************************************************************************)
Progress == <<command, place, fault, active, answer, leave>>

\* What git ignores.  A pattern for a directory says nothing of a file or a link
\* of its name; a line that git takes literally says nothing of the root;
\* nothing below an ignored directory can be let in again, but the directory
\* itself can, by a later line.
Ignored(f) ==
  LET g == Part(".gitignore")
  IN  Readable(g) /\ g # Garbled /\ f.root \in g.ignored \ g.reopened /\ f.name # "itself"

EditPart ==
  /\ Written
  /\ \E p \in Parts : \E c \in PartContents(p) \ {parts[p]} :
       /\ parts' = [parts EXCEPT ![p] = c]
       /\ still' = {q \in still : q # p /\ p \notin Enclosing(q)}
  /\ UNCHANGED <<repository, tracked>>

\* `git add' and `git rm --cached', as long as nothing is forced.
AddFile ==
  /\ Written /\ Git = "worktree"
  /\ \E f \in TrackedFiles \ tracked : ~Ignored(f) /\ tracked' = tracked \cup {f}
  /\ UNCHANGED <<parts, repository, still>>

RemoveFile ==
  /\ Written /\ Git = "worktree"
  /\ \E f \in tracked : tracked' = tracked \ {f}
  /\ UNCHANGED <<parts, repository, still>>

\* Anything else that changes the index.
CheckOut ==
  /\ Written
  /\ \E index \in Indexes \ {tracked} : tracked' = index
  /\ still' = still \ {"index"}
  /\ UNCHANGED <<parts, repository>>

ChangeRepository ==
  /\ Written
  /\ \E r \in Repositories \ {repository} : repository' = r
  /\ still' = still \ {"repository"}
  /\ UNCHANGED <<parts, tracked>>

PackageWriter ==
  /\ EditPart \/ AddFile \/ RemoveFile \/ CheckOut \/ ChangeRepository
  /\ UNCHANGED Progress /\ UNCHANGED <<files, results, packets, events, tree>>

PackageNext ==
  \/ PackageStep /\ UNCHANGED Surroundings /\ UNCHANGED recordVars
  \/ PackageWriter
=============================================================================
