-------------------------- MODULE WorkspaceRecords --------------------------
(***************************************************************************)
(* The records of a workspace that `aso lint', `aso status', `aso          *)
(* record-result' and `aso archive verify' read: the runtime files, the    *)
(* RESULT files, the task packets, the events of the agents and the paths  *)
(* that exist.  The commands only read; the orchestrator and the agents    *)
(* write while they do.                                                    *)
(*                                                                         *)
(* A record has its fields and a set of `marks', the facts about it that   *)
(* the commands look for: a field repeated with another value, a waiver, a *)
(* reason for it, a deprecated role, and so on.                            *)
(***************************************************************************)
EXTENDS Integers, FiniteSets, SequencesExt

CONSTANTS
  NONE,            \* what stands for no value
  Missing,         \* a file that is not there
  Unreadable,      \* a file that cannot be read
  Versions,        \* what each runtime file may hold
  ResultFiles,     \* the RESULT files, in the order of their paths
  AuditFiles,      \* those under results/audit
  Misnamed,        \* those without the RESULT_ or AUDIT_RESULT_ of their kind
  Documents,       \* the RESULTs that agents write into them
  Drafts,          \* bound: those they start while a command is at work
  Cuts,            \* how much of one may be there while it is being written
  PacketVersions,  \* what each task packet may hold
  Events,          \* the lines of agents/instances.jsonl
  Trees,           \* sets of paths that exist under the root
  MaxWrites        \* bound: how often records change

RuntimeFiles == <<"PROJECT_STATE", "CURRENT_GATE", "NEXT_ACTION", "TASK_REGISTRY",
                  "ACCEPTED_ARTIFACTS", "REPOSITORY_LOCK", "WORKSPACE_IDENTITY">>

\* The fields of a RESULT in the order of its template; SUMMARY stands for all
\* those that the commands only want to be there.
Template == <<"STATUS", "TASK_ID", "AGENT_INSTANCE_ID", "ROLE", "SUMMARY", "EVIDENCE",
              "NEXT_RECOMMENDED_ACTION", "REUSE_ALLOWED", "AGENT_TERMINATION_REQUIRED">>

ASSUME RecordsAssumption ==
  /\ DOMAIN Versions = ToSet(RuntimeFiles)
  /\ \A v \in Versions["TASK_REGISTRY"] : v.entries \in Seq(ToSet(v.entries))
  /\ AuditFiles \cup Misnamed \subseteq ToSet(ResultFiles)
  /\ Drafts \subseteq Documents
  /\ Cuts \subseteq 0 .. Len(Template)
  /\ \A es \in SUBSET Events : es # Unreadable
  /\ MaxWrites \in Nat

VARIABLES files, results, packets, events, tree, writes

recordVars == <<files, results, packets, events, tree, writes>>

Contents(f) == Versions[f] \cup {Missing, Unreadable}

\* What the RESULT files may hold: of a document, as much as is written.
ResultStates ==
  [ToSet(ResultFiles) -> {Missing, Unreadable} \cup [doc : Documents, upto : 0 .. Len(Template)]]

RecordsTypeOK ==
  /\ DOMAIN files = ToSet(RuntimeFiles)
  /\ \A f \in DOMAIN files : files[f] \in Contents(f)
  /\ results \in ResultStates
  /\ DOMAIN packets = DOMAIN PacketVersions
  /\ \A p \in DOMAIN packets : packets[p] \in PacketVersions[p] \cup {Missing, Unreadable}
  /\ events \in (SUBSET Events) \cup {Unreadable}
  /\ tree \in Trees
  /\ writes \in 0 .. MaxWrites

Readable(content) == content \notin {Missing, Unreadable}

\* A field of a RESULT file, Missing when it is not written, or not yet.
Field(result, f) ==
  IF \E i \in 1 .. result.upto : Template[i] = f THEN result.doc[f] ELSE Missing

Finished(result) == result.upto = Len(Template)

(***************************************************************************)
(* The writers.                                                            *)
(***************************************************************************)
Written == writes < MaxWrites /\ writes' = writes + 1

\* The orchestrator writes a runtime file.
WriteRuntimeFile ==
  /\ Written
  /\ \E f \in DOMAIN files : \E v \in Contents(f) \ {files[f]} :
       files' = [files EXCEPT ![f] = v]
  /\ UNCHANGED <<results, packets, events, tree>>

\* An agent starts its RESULT, or goes on with it.
WriteResult(r) ==
  /\ Written
  /\ \/ /\ results[r] = Missing
        /\ \E d \in Drafts, k \in Cuts : results' = [results EXCEPT ![r] = [doc |-> d, upto |-> k]]
     \/ /\ Readable(results[r])
        /\ \E k \in Cuts : k > results[r].upto /\ results' = [results EXCEPT ![r].upto = k]
  /\ UNCHANGED <<files, packets, events, tree>>

\* The orchestrator records what became of an agent.
RecordEvent ==
  /\ Written
  /\ events # Unreadable
  /\ \E e \in Events \ events : events' = events \cup {e}
  /\ UNCHANGED <<files, results, packets, tree>>

\* A task packet is written.
WritePacket ==
  /\ Written
  /\ \E p \in DOMAIN packets : \E v \in PacketVersions[p] \ {packets[p]} :
       packets' = [packets EXCEPT ![p] = v]
  /\ UNCHANGED <<files, results, events, tree>>

\* Work products come and go.
ChangeTree ==
  /\ Written
  /\ \E t \in Trees \ {tree} : tree' = t
  /\ UNCHANGED <<files, results, packets, events>>
=============================================================================
