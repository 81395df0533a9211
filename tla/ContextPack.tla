----------------------------- MODULE ContextPack -----------------------------
(***************************************************************************)
(* commands/context_pack_build.py and commands/validate_context_pack.py:   *)
(* a context pack is built from a task packet, written where the output    *)
(* policy lets it, and validated later.  Each of them looks at the         *)
(* repository one document after the other, while others may change        *)
(* documents and links.  Packs may also be written by hand.                *)
(***************************************************************************)
EXTENDS Naturals, Sequences, SequencesExt, OutputPolicy

CONSTANTS
  Paths,       \* the references that packets and packs contain
  Lexical,     \* what each is by its text alone
  Under,       \* for each, the references it covers as a forbidden prefix
  Defaults,    \* DEFAULT_FORBIDDEN_DOCS among them
  Nodes,       \* what may lie at a reference
  Trees,       \* what lies there in the beginning
  Packets,     \* task packets
  Packs,       \* context packs written by hand
  Links,       \* what the directories of the workspace may lead to
  Outputs,     \* where --json-out may point, or NONE
  InTmp,       \* whether the workspace itself lies under /tmp
  NONE,        \* no packet, pack, output or destination
  MaxWrites    \* bound: documents and links changed by others

Missing == [kind |-> "missing", version |-> 0, size |-> "bounded", leaks |-> FALSE]

\* What the text of a reference alone says.
Texts ==
  [whole : BOOLEAN,        \* _is_whole_project_reference
   archived : BOOLEAN,     \* _is_archive_path or _is_deprecated_path
   unsafe : BOOLEAN,       \* what _normalize_context_path refuses
   broad : BOOLEAN,        \* _is_broad_directory_context
   slash : BOOLEAN]        \* written with a slash at its end

\* What may lie at a reference: resolved, with the version of its content,
\* and for directories whether too large, and whether links lead out of them.
NodeKinds ==
  [kind : {"missing", "file", "dir", "outside"},
   version : Nat,
   size : {"bounded", "many_files", "many_bytes"},
   leaks : BOOLEAN]

\* What the sections of a task packet say.
ParsedPackets ==
  [readable : BOOLEAN, task_id : BOOLEAN, required : Seq(Paths),
   forbidden : SUBSET Paths, source : SUBSET Paths]

ASSUME PathsAssumption ==
  Lexical \in [Paths -> Texts] /\ Under \in [Paths -> SUBSET Paths] /\ Defaults \subseteq Paths
ASSUME NodesAssumption ==
  Nodes \subseteq NodeKinds /\ Missing \in Nodes /\ Trees \subseteq [Paths -> Nodes]
ASSUME PacketsAssumption == Packets \subseteq ParsedPackets
ASSUME LinksAssumption ==
  /\ Links \subseteq [Locations -> Locations]
  /\ Outputs \subseteq Locations \cup {NONE}
  /\ InTmp \in BOOLEAN
  \* Where directories lead in the end; what lies in project-runtime/ lies
  \* where that leads.
  /\ \A l \in Links :
       /\ \A x \in Locations : l[l[x]] = l[x]
       /\ \A d \in GeneratedDirs : l[d] = d => l["runtime"] = "runtime"
ASSUME NoneAssumption == NONE \notin Locations \cup {"hand", "builder"}
ASSUME BoundAssumption == MaxWrites \in Nat

\* A required document in a pack: its path, whether that ends with a slash,
\* the versions whose digest and size were taken.
Entries ==
  [path : Paths, slash : BOOLEAN, sha256 : {n.version : n \in Nodes},
   estimated_chars : {n.version : n \in Nodes}]

\* A pack, as JSON: all fields are there and of their types; it fits into the
\* budget it states; the lists.
ContextPacks ==
  [by : {NONE, "hand", "builder"}, fields : BOOLEAN, fits : BOOLEAN,
   docs : Seq(Entries), forbidden : SUBSET Paths,
   source : SUBSET [path : Paths, slash : BOOLEAN]]

ASSUME PacksAssumption ==
  \A k \in Packs : k \in ContextPacks /\ IsFiniteSet(k.source)

VARIABLES
  tree,       \* what lies at the references
  leads,      \* where directories lead
  packet, strict, out,   \* the arguments: packet, --strict, --json-out
  pc,         \* the next step of the command that runs
  todo,       \* references it has yet to look at
  looked,     \* what the one being digested was when it was looked at
  docs,       \* entries made so far
  errors, warnings,
  built,      \* what the builder ended with
  target,     \* the resolved output path
  pack,       \* the pack to validate, and whether the builder wrote it
  landed,     \* where the builder's pack was written
  verdict,    \* of the validator
  still,      \* what nobody has changed: tree since build or validation
              \* began, links since the build began
  writes

vars == <<tree, leads, packet, strict, out, pc, todo, looked, docs, errors,
          warnings, built, target, pack, landed, verdict, still, writes>>

arguments == <<packet, strict, out>>
environment == <<tree, leads, still, writes>>
findings == <<errors, warnings>>

------------------------------------------------------------------------------
(* The builder *)

NoPack ==
  [by |-> NONE, fields |-> FALSE, fits |-> FALSE, docs |-> <<>>,
   forbidden |-> {}, source |-> {}]

Places == {"idle", "docs", "sha256", "size", "resolve", "check", "write", "end_build",
           "validate", "vdocs", "vsource", "end"}

\* CPS and CPB stand for all errors of the schema and of the budget.
ErrorCodes ==
  {"CPB-BUILD-001", "CPB-BUILD-002", "CPB-BUILD-003", "CPB-BUILD-004",
   "CPB-BUILD-005", "CPB-BUILD-006", "CPB-BUILD-007",
   "CPS", "CPB", "CPP-001", "CPP-002", "CPP-004", "CPP-005", "CPP-006",
   "CPB-004", "CPB-005"}

TypeOK ==
  /\ tree \in [Paths -> Nodes] /\ leads \in Links
  /\ packet \in Packets /\ strict \in BOOLEAN /\ out \in Outputs
  /\ pc \in Places
  /\ Range(todo) \subseteq Paths \cup [path : Paths, slash : BOOLEAN]
  /\ looked \in Nodes
  /\ \A i \in DOMAIN docs : docs[i] \in Entries
  /\ Len(docs) <= Len(packet.required)
  /\ errors \subseteq ErrorCodes
  /\ warnings \subseteq {"CPB-BUILD-005", "CPS-007"}
  /\ built \in {"none", "failed", "passed", "io_error", "crashed"}
  /\ target \in Locations \cup {NONE}
  /\ pack \in ContextPacks /\ IsFiniteSet(pack.source)
  /\ landed \in Locations \cup {NONE}
  /\ verdict \in {"none", "failed", "warning", "passed"}
  /\ still \subseteq {"build", "validation", "links"}
  /\ writes \in 0 .. MaxWrites

Init ==
  /\ tree \in Trees /\ leads \in Links
  /\ packet \in Packets /\ strict \in BOOLEAN /\ out \in Outputs
  /\ pc = "idle" /\ todo = <<>> /\ looked = Missing /\ docs = <<>>
  /\ errors = {} /\ warnings = {}
  /\ built = "none" /\ target = NONE /\ pack = NoPack /\ landed = NONE
  /\ verdict = "none"
  /\ still = {"build", "validation", "links"}
  /\ writes = 0

\* run_build: the packet is read once, and parsed.
ReadPacket ==
  /\ pc = "idle"
  /\ IF packet.readable
       THEN /\ pc' = "docs" /\ built' = built
            /\ todo' = packet.required
            /\ errors' = (IF packet.task_id THEN {} ELSE {"CPB-BUILD-006"})
                 \cup (IF packet.required # <<>> THEN {} ELSE {"CPB-BUILD-007"})
       ELSE pc' = "end_build" /\ built' = "io_error" /\ UNCHANGED <<todo, errors>>
  /\ UNCHANGED <<arguments, looked, docs, warnings, target, pack, landed, verdict, environment>>

\* _parse_forbidden_docs
ForbiddenDocs == Defaults \cup packet.forbidden

Covered(p, forbidden) == \E f \in forbidden : p \in Under[f]

\* The findings of _expanded_required_docs about one reference.
DocFindings(p) ==
  CASE Lexical[p].whole -> {"CPB-BUILD-003"}
    [] ~Lexical[p].whole /\ Lexical[p].archived -> {"CPB-BUILD-004"}
    [] OTHER ->
         IF Covered(p, ForbiddenDocs) THEN {"CPB-BUILD-002"}
         ELSE CASE tree[p].kind = "outside" -> {"CPB-BUILD-001"}
                [] tree[p].kind = "missing" -> {"CPB-BUILD-005"}
                [] OTHER -> {}

\* One turn of the loop of _expanded_required_docs, up to the digest.
ExamineDoc ==
  /\ pc = "docs" /\ todo # <<>>
  /\ LET found == DocFindings(Head(todo))
         mild == ~strict /\ "CPB-BUILD-005" \in found IN
     /\ IF found = {}
          THEN pc' = "sha256" /\ looked' = tree[Head(todo)] /\ todo' = todo
          ELSE pc' = pc /\ looked' = looked /\ todo' = Tail(todo)
     /\ errors' = IF mild THEN errors ELSE errors \cup found
     /\ warnings' = IF mild THEN warnings \cup found ELSE warnings
  /\ UNCHANGED <<arguments, docs, built, target, pack, landed, verdict, environment>>

\* What is read of the reference that was looked at: a directory is walked,
\* which is empty when it is gone; a file that is gone raises OSError.
Readable(p) == looked.kind = "dir" \/ tree[p].kind \in {"file", "outside"}
ReadNow(p) == IF looked.kind = "dir" /\ tree[p].kind # "dir" THEN 0 ELSE tree[p].version

Entry(p, digest, size) ==
  [path |-> p, slash |-> Lexical[p].slash \/ looked.kind = "dir",
   sha256 |-> digest, estimated_chars |-> size]

\* _file_sha256 or _directory_sha256, of _doc_entry or _directory_entry.
DigestDoc ==
  /\ pc = "sha256"
  /\ IF Readable(Head(todo))
       THEN /\ docs' = Append(docs, Entry(Head(todo), ReadNow(Head(todo)), 0))
            /\ pc' = "size" /\ built' = built
       ELSE docs' = docs /\ pc' = "end_build" /\ built' = "crashed"
  /\ UNCHANGED <<arguments, todo, looked, findings, target, pack, landed, verdict, environment>>

SizeDoc_Appends ==
  /\ pc = "size"
  /\ docs' = Append(docs, Entry(Head(todo), Last(docs).sha256, ReadNow(Head(todo))))
  /\ todo' = Tail(todo)
  /\ pc' = "docs"
  /\ UNCHANGED <<arguments, looked, findings, built, target, pack, landed, verdict, environment>>

\* stat, or _directory_size; the entry is dropped if its path is there twice.
SizeDoc ==
  /\ pc = "size"
  /\ LET p == Head(todo)
         last == Len(docs)
         before == SubSeq(docs, 1, last - 1)
         same(e) == e.path = p /\ e.slash = docs[last].slash IN
     IF Readable(p)
       THEN /\ docs' = IF \E i \in DOMAIN before : same(before[i]) THEN before
                       ELSE [docs EXCEPT ![last].estimated_chars = ReadNow(p)]
            /\ todo' = Tail(todo)
            /\ pc' = "docs" /\ built' = built
       ELSE UNCHANGED <<docs, todo>> /\ pc' = "end_build" /\ built' = "crashed"
  /\ UNCHANGED <<arguments, looked, findings, target, pack, landed, verdict, environment>>

DocPaths == {[path |-> docs[i].path, slash |-> docs[i].slash] : i \in DOMAIN docs}

SourcePaths_Unfiltered ==
  LET named == {[path |-> p, slash |-> Lexical[p].slash] : p \in packet.source} IN
  IF named = {} THEN DocPaths ELSE named

\* Sources named by the packet count as far as they are required documents.
SourcePaths ==
  LET named == {[path |-> p, slash |-> Lexical[p].slash] : p \in packet.source} IN
  IF named \cap DocPaths = {} THEN DocPaths ELSE named \cap DocPaths

\* The proposal, whose budget _budget_for makes large enough for itself.
Proposal ==
  [by |-> "builder", fields |-> TRUE, fits |-> TRUE, docs |-> docs,
   forbidden |-> ForbiddenDocs, source |-> SourcePaths]

\* The end of _build_context_pack.
Decide ==
  /\ pc = "docs" /\ todo = <<>>
  /\ IF errors = {} /\ docs # <<>> /\ (strict => warnings = {})
       THEN built' = "passed" /\ pc' = IF out = NONE THEN "end_build" ELSE "resolve"
       ELSE built' = "failed" /\ pc' = "end_build"
  /\ UNCHANGED <<arguments, todo, looked, docs, findings, target, pack, landed, verdict, environment>>

\* _write_json: the path is resolved,
ResolveOutput ==
  /\ pc = "resolve"
  /\ target' = leads[out]
  /\ pc' = "check"
  /\ UNCHANGED <<arguments, todo, looked, docs, findings, built, pack, landed, verdict, environment>>

\* ... judged,
CheckOutput ==
  /\ pc = "check"
  /\ IF Allowed(leads[target], leads, {"proposals"}, InTmp)
       THEN pc' = "write" /\ built' = built
       ELSE pc' = "end_build" /\ built' = "io_error"
  /\ UNCHANGED <<arguments, todo, looked, docs, findings, target, pack, landed, verdict, environment>>

\* ... and written to; a directory that is not there, or an OSError, ends it.
WritePack(written) ==
  /\ pc = "write"
  /\ IF written
       THEN landed' = leads[target] /\ pack' = Proposal /\ built' = built
       ELSE built' = "io_error" /\ UNCHANGED <<landed, pack>>
  /\ pc' = "end_build"
  /\ UNCHANGED <<arguments, todo, looked, docs, findings, target, verdict, environment>>

------------------------------------------------------------------------------
(* The validator, of a pack that the builder or somebody else has written. *)

HandOver(k) ==
  /\ pc = "idle" \/ (pc = "end_build" /\ pack.by = "builder")
  /\ IF pc = "idle"
       THEN k \in Packs /\ pack' = [k EXCEPT !.by = "hand"]
       ELSE k = pack /\ pack' = pack
  /\ strict' \in BOOLEAN
  /\ pc' = "validate"
  /\ errors' = {} /\ warnings' = {}
  /\ still' = still \cup {"validation"}
  /\ UNCHANGED <<tree, leads, packet, out, todo, looked, docs, built, target, landed, verdict, writes>>

\* _normalize_context_path
NormalErrors(p) == IF Lexical[p].unsafe THEN {"CPP-001"} ELSE {}

\* _validate_context_path_policy
PolicyErrors(p, forbidden) ==
  (IF Lexical[p].archived THEN {"CPP-002"} ELSE {})
    \cup (IF Covered(p, {f \in forbidden : ~Lexical[f].unsafe}) THEN {"CPP-004"} ELSE {})

\* _validate_directory_context
DirectoryErrors(p) ==
  (IF Lexical[p].broad THEN {"CPP-006"} ELSE {})
    \cup (IF tree[p].leaks THEN {"CPP-001"} ELSE {})
    \cup (CASE tree[p].size = "many_files" -> {"CPB-004"}
            [] tree[p].size = "many_bytes" -> {"CPB-005"}
            [] OTHER -> {})

\* _validate_top_level, and the first checks of the lists
TopLevelErrors ==
  IF pack.fields /\ pack.docs # <<>> /\ pack.source # {} THEN {} ELSE {"CPS"}

\* _validate_forbidden_docs
ForbiddenErrors == UNION {NormalErrors(f) : f \in pack.forbidden}

\* _validate_budget
BudgetErrors == IF pack.fits THEN {} ELSE {"CPB"}

\* _report reads the pack.
ReadPack ==
  /\ pc = "validate"
  /\ errors' = TopLevelErrors \cup ForbiddenErrors
  /\ todo' = [i \in DOMAIN pack.docs |-> pack.docs[i].path]
  /\ pc' = "vdocs"
  /\ UNCHANGED <<arguments, looked, docs, warnings, built, target, pack, landed, verdict, environment>>

\* One turn of the loop of _validate_required_docs.
ValidateDoc ==
  /\ pc = "vdocs" /\ todo # <<>>
  /\ LET p == Head(todo) IN
     errors' = errors \cup
       IF Lexical[p].unsafe THEN NormalErrors(p)
       ELSE PolicyErrors(p, pack.forbidden) \cup
              CASE tree[p].kind = "outside" -> {"CPP-001"}
                [] tree[p].kind = "missing" -> {"CPP-005"}
                [] tree[p].kind = "dir" -> DirectoryErrors(p)
                [] OTHER -> {}
  /\ todo' = Tail(todo)
  /\ UNCHANGED <<arguments, pc, looked, docs, warnings, built, target, pack, landed, verdict, environment>>

DocsDone ==
  /\ pc = "vdocs" /\ todo = <<>>
  /\ pc' = "vsource"
  /\ todo' = SetToSeq(pack.source)
  /\ UNCHANGED <<arguments, looked, docs, findings, built, target, pack, landed, verdict, environment>>

\* The errors of one turn of the loop of _validate_source_of_truth.
SourceErrors(p) ==
  IF Lexical[p].unsafe THEN NormalErrors(p)
  ELSE PolicyErrors(p, pack.forbidden) \cup
         CASE tree[p].kind = "outside" -> {"CPP-001"}
           [] tree[p].kind = "dir" -> DirectoryErrors(p)
           [] OTHER -> {}

ValidateSource_AnyDoc ==
  /\ pc = "vsource" /\ todo # <<>>
  /\ errors' = errors \cup SourceErrors(Head(todo).path)
  /\ todo' = Tail(todo)
  /\ UNCHANGED <<arguments, pc, looked, docs, warnings, built, target, pack, landed, verdict, environment>>

\* ... and its warning: a source should be among the required documents.
ValidateSource ==
  /\ pc = "vsource" /\ todo # <<>>
  /\ LET s == Head(todo)
         required == {[path |-> d.path, slash |-> d.slash] : d \in Range(pack.docs)} IN
     /\ errors' = errors \cup SourceErrors(s.path)
     /\ warnings' = warnings \cup
          (IF s \notin required /\ ~Lexical[s.path].unsafe THEN {"CPS-007"} ELSE {})
  /\ todo' = Tail(todo)
  /\ UNCHANGED <<arguments, pc, looked, docs, built, target, pack, landed, verdict, environment>>

\* _validate_budget, _status
Conclude ==
  /\ pc = "vsource" /\ todo = <<>>
  /\ errors' = errors \cup BudgetErrors
  /\ verdict' = CASE errors' # {} \/ (strict /\ warnings # {}) -> "failed"
                  [] errors' = {} /\ ~strict /\ warnings # {} -> "warning"
                  [] errors' = {} /\ warnings = {} -> "passed"
  /\ pc' = "end"
  /\ UNCHANGED <<arguments, todo, looked, docs, warnings, built, target, pack, landed, environment>>

------------------------------------------------------------------------------
(* Others *)

Change(what) ==
  /\ pc \notin {"idle", "end"}
  /\ writes < MaxWrites
  /\ writes' = writes + 1
  /\ still' = still \ what
  /\ UNCHANGED <<arguments, pc, todo, looked, docs, findings, built, target, pack, landed, verdict>>

WriteDoc(p, n) ==
  /\ Change({"build", "validation"})
  /\ n # tree[p]
  /\ tree' = [tree EXCEPT ![p] = n]
  /\ leads' = leads

Relink(l) ==
  /\ Change({"links"})
  /\ l # leads
  /\ leads' = l
  /\ tree' = tree

Next ==
  \/ ReadPacket \/ ExamineDoc \/ DigestDoc \/ SizeDoc \/ Decide
  \/ ResolveOutput \/ CheckOutput \/ (\E written \in BOOLEAN : WritePack(written))
  \/ (\E k \in Packs \cup {pack} : HandOver(k))
  \/ ReadPack \/ ValidateDoc \/ DocsDone \/ ValidateSource \/ Conclude
  \/ (\E p \in Paths, n \in Nodes : WriteDoc(p, n))
  \/ (\E l \in Links : Relink(l))

Spec == Init /\ [][Next]_vars

------------------------------------------------------------------------------
(* Properties *)

\* Two programs, written apart, know what a good pack is.  What the builder
\* writes, the strict validator accepts, as long as no document changes from
\* the start of the build; except for the things that only the validator
\* looks at: directories (how broad, how large, where links in them lead) and
\* paths with `..' or without any part.
BuiltPacksAreAccepted ==
  verdict = "failed" /\ pack.by = "builder" /\ "build" \in still =>
    \/ \E i \in DOMAIN pack.docs :
         LET p == pack.docs[i].path IN
         Lexical[p].unsafe \/ (tree[p].kind = "dir" /\ DirectoryErrors(p) # {})
    \/ \E f \in pack.forbidden : Lexical[f].unsafe

\* A strict pass means that the receiver can rely on the pack, whoever wrote
\* it: every required document and every source of truth is there, inside
\* the repository, bounded, and not forbidden; though whether a source exists
\* is looked at nowhere, and documents are looked at one after the other.
\* A pack that passes otherwise may name sources that are not there.
StrictPassIsUsable ==
  verdict = "passed" /\ strict /\ "validation" \in still =>
    \A p \in {d.path : d \in Range(pack.docs)} \cup {s.path : s \in pack.source} :
      /\ tree[p].kind = "file" \/ (tree[p].kind = "dir" /\ DirectoryErrors(p) = {})
      /\ \A f \in pack.forbidden : p \notin Under[f]
      /\ ~Lexical[p].archived

\* A pack is written to /tmp or to the proposals of the workspace, never into
\* its state, input, archive or other generated documents: unless links were
\* changed while the builder ran, or the proposals directory is itself a link.
\* If the whole workspace lies under /tmp, the package may be overwritten.
PacksLandInTheirPlace ==
  /\ landed # NONE
  /\ "links" \in still
  /\ leads["proposals"] = "proposals"
  => \/ landed \in {"proposals", "tmp"}
     \/ InTmp /\ landed = "agent-system"
==============================================================================
