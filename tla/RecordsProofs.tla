---------------------------- MODULE RecordsProofs ----------------------------
(***************************************************************************)
(* What a strict proposal, a lint that did not fail and a verified archive *)
(* are worth, for all records, archives and any number of writes.          *)
(*                                                                         *)
(* The arguments.  All fields of a RESULT are there only if the last one   *)
(* is, and then the agent has nothing left to write (WholeIsFinished).  So *)
(* what a strict proposal was made from stays as it is.  What lint has     *)
(* found nothing wrong with was in order, and still is, as far as it is    *)
(* about the files as read and about RESULTs nobody touched (CheckedInv,   *)
(* TraceInv, EventsInv, LifecycleInv).  The outcome of an archive          *)
(* verification is a function of what was read (JudgedInv).                *)
(***************************************************************************)
EXTENDS Records, WellFoundedInduction, FiniteSetTheorems, TLAPS

\* The proposal is strict and ready.
Stands == proposal \in {p \in Proposals : p.strict /\ p.report_status = "ready"}

RecordInv == results \in ResultStates /\ StrictProposalsStand

\* Where a lint is after each of its checks.
AfterSkeleton  == {"report", "end"}
AfterLifecycle == {"skeleton"} \cup AfterSkeleton
AfterEvents    == {"events", "lifecycle"} \cup AfterLifecycle
AfterTrace     == AfterEvents
AfterReferences == {"trace"} \cup AfterTrace
AfterFiles     == {"artifacts", "names", "references"} \cup AfterReferences

\* It found no error up to now, in files it could read.
NoError == found # "error" /\ verdict # "io_error"

\* The RESULTs that are there and have been there since the lint began.
Untouched == {r \in DOMAIN results \ touched : results[r] # Missing}

CheckedInv ==
  /\ at \in {"files"} \cup AfterFiles /\ verdict # "io_error" =>
       DOMAIN seen = ToSet(RuntimeFiles) /\ \A f \in DOMAIN seen : Readable(seen[f])
  /\ at \in AfterFiles /\ NoError => ~RuntimeErrors(seen)

TraceInv ==
  at \in AfterReferences /\ NoError =>
    \A r \in Untouched :
      (at = "trace" /\ r \in todo) \/ ~ResultRegistryTraceability(seen, r)

EventsInv ==
  at \in AfterEvents /\ verdict # "io_error" =>
    IF events = Unreadable THEN roll = {} ELSE roll \subseteq events

LifecycleInv ==
  at \in {"lifecycle"} \cup AfterLifecycle /\ NoError =>
    \A r \in Untouched : (at = "lifecycle" /\ r \in todo) \/ ~AgentLifecycle(roll, r)

VerdictInv ==
  /\ verdict # "none" => at \in AfterSkeleton
  /\ verdict \in {"passed", "warning"} => found # "error"
  /\ code # "none" => at = "end"
  /\ code = "ok" => verdict \in {"passed", "warning"}

LintInv == CheckedInv /\ TraceInv /\ EventsInv /\ LifecycleInv /\ VerdictInv

------------------------------------------------------------------------------
LEMMA TemplateOrder ==
  /\ Len(Template) = 9 /\ DOMAIN Template = 1 .. 9
  /\ \A i, j \in 1 .. 9 : Template[i] = Template[j] => i = j
  /\ Template[1] = "STATUS" /\ Template[4] = "ROLE" /\ Template[6] = "EVIDENCE"
<1>1. /\ Template[1] = "STATUS" /\ Template[2] = "TASK_ID"
      /\ Template[3] = "AGENT_INSTANCE_ID" /\ Template[4] = "ROLE"
      /\ Template[5] = "SUMMARY" /\ Template[6] = "EVIDENCE"
      /\ Template[7] = "NEXT_RECOMMENDED_ACTION" /\ Template[8] = "REUSE_ALLOWED"
      /\ Template[9] = "AGENT_TERMINATION_REQUIRED"
  BY DEF Template
<1>2. Len(Template) = 9 /\ DOMAIN Template = 1 .. 9
  BY DEF Template
<1>3. \A i : i \in 1 .. 9 <=> i \in {1, 2, 3, 4, 5, 6, 7, 8, 9}
  OBVIOUS
<1>4. \A i, j \in 1 .. 9 : Template[i] = Template[j] => i = j
  BY <1>1, <1>3
<1> QED BY <1>1, <1>2, <1>4

LEMMA WrittenResult ==
  ASSUME results \in ResultStates, NEW r \in DOMAIN results, Readable(results[r])
  PROVE  results[r].doc \in Documents /\ results[r].upto \in 0 .. Len(Template)
BY DEF ResultStates, Readable

\* A RESULT with all its fields is written to its end.
LEMMA WholeIsFinished ==
  ASSUME results \in ResultStates, NEW r \in DOMAIN results, Readable(results[r]),
         \A i \in DOMAIN Template : Field(results[r], Template[i]) # Missing
  PROVE  /\ Finished(results[r])
         /\ \A i \in DOMAIN Template :
              Field(results[r], Template[i]) = results[r].doc[Template[i]]
<1>1. results[r].upto \in 0 .. 9
  BY WrittenResult, TemplateOrder
<1>2. \E i \in 1 .. results[r].upto : Template[i] = Template[9]
  BY TemplateOrder DEF Field
<1>3. results[r].upto = 9
  BY <1>1, <1>2, TemplateOrder
<1> QED BY <1>3, TemplateOrder DEF Finished, Field

\* What a strict proposal says of the RESULT it is made from.
LEMMA StrictReport ==
  ASSUME results \in ResultStates, NEW r \in DOMAIN results,
         Report(r, TRUE).report_status = "ready"
  PROVE  /\ Readable(results[r]) /\ Finished(results[r])
         /\ Report(r, TRUE).file = r
         /\ Report(r, TRUE).checkpoint_candidate =>
              /\ results[r].doc.ROLE = "auditor"
              /\ results[r].doc.STATUS = "pass"
              /\ results[r].doc.EVIDENCE # {}
<1>1. Readable(results[r])
  BY DEF Report
<1>2. ValidCommon(r, TRUE)
  BY <1>1 DEF Report
<1>3. \A i \in DOMAIN Template : Field(results[r], Template[i]) # Missing
  BY <1>2 DEF ValidCommon
<1>4. /\ Finished(results[r])
      /\ \A i \in DOMAIN Template : Field(results[r], Template[i]) = results[r].doc[Template[i]]
  BY <1>1, <1>3, WholeIsFinished
<1>5. Report(r, TRUE).file = r /\ Report(r, TRUE).checkpoint_candidate =
        (Route(r, TRUE) = "CHECKPOINT_PREFLIGHT")
  BY <1>1, <1>2 DEF Report
<1>6. ASSUME Route(r, TRUE) = "CHECKPOINT_PREFLIGHT"
      PROVE  /\ results[r].doc.ROLE = "auditor"
             /\ results[r].doc.STATUS = "pass"
             /\ results[r].doc.EVIDENCE # {}
  <2>1. ProfileRoute(r) # "CHECKPOINT_PREFLIGHT"
    BY DEF ProfileRoute, RouteOf
  <2>2. ResultType(r) = "audit_result" /\ AuditRoute(r, TRUE) = "CHECKPOINT_PREFLIGHT"
    BY <1>6, <2>1 DEF Route
  <2>3. SourceResultRefs(r) # {} /\ AsString(r, "STATUS") = "pass"
    <3>1. RouteOf(r, "NONE") # "CHECKPOINT_PREFLIGHT"
      BY DEF RouteOf
    <3>2. SourceResultRefs(r) # {} /\ RouteOf(r, "CHECKPOINT_PREFLIGHT") = "CHECKPOINT_PREFLIGHT"
      BY <2>2, <3>1 DEF AuditRoute
    <3> QED BY <3>2 DEF RouteOf
  <2>4. AsString(r, "ROLE") = "auditor"
    BY <1>2, <2>2 DEF ResultType, ValidCommon
  <2>5. /\ Field(results[r], "ROLE") = results[r].doc.ROLE
        /\ Field(results[r], "STATUS") = results[r].doc.STATUS
        /\ Field(results[r], "EVIDENCE") = results[r].doc.EVIDENCE
        /\ 1 \in DOMAIN Template /\ 4 \in DOMAIN Template /\ 6 \in DOMAIN Template
    BY <1>4, TemplateOrder
  <2>6. results[r].doc.ROLE = "auditor" /\ results[r].doc.STATUS = "pass"
    BY <2>3, <2>4, <2>5, NoneAssumption DEF AsString, ResultStatuses
  <2>7. results[r].doc.EVIDENCE # {}
    BY <1>3, <2>3, <2>5, TemplateOrder DEF SourceResultRefs
  <2> QED BY <2>6, <2>7
<1> QED BY <1>1, <1>4, <1>5, <1>6

------------------------------------------------------------------------------
(* The writers *)

\* A report depends on the RESULT it is about only.
LEMMA SameReport ==
  ASSUME NEW r, results'[r] = results[r]
  PROVE  Report(r, TRUE)' = Report(r, TRUE)
BY DEF Report, ValidCommon, Route, RouteError, ResultType, AuditRoute, ProfileRoute, RouteOf,
   AsString, SuggestsAudit, SourceResultRefs, BypassClaimed, IsEmpty

\* Nothing can be written to a finished RESULT, and what is written to
\* another is as much of a document.
LEMMA OneResult ==
  ASSUME results \in ResultStates, NEW w \in DOMAIN results, WriteResult(w)
  PROVE  /\ results' \in ResultStates
         /\ \A r \in DOMAIN results :
              Readable(results[r]) /\ Finished(results[r]) => results'[r] = results[r]
<1>1. Cuts \subseteq 0 .. Len(Template) /\ Drafts \subseteq Documents /\ Len(Template) = 9
  BY RecordsAssumption, TemplateOrder
<1>2. DOMAIN results = ToSet(ResultFiles)
  BY DEF ResultStates
<1>3. CASE /\ results[w] = Missing
           /\ \E d \in Drafts, k \in Cuts :
                results' = [results EXCEPT ![w] = [doc |-> d, upto |-> k]]
  <2>1. \A r \in DOMAIN results : r # w => results'[r] = results[r]
    BY <1>3
  <2>2. results' \in ResultStates
    BY <1>1, <1>2, <1>3 DEF ResultStates
  <2> QED BY <1>3, <2>1, <2>2 DEF Readable
<1>4. CASE /\ Readable(results[w])
           /\ \E k \in Cuts :
                k > results[w].upto /\ results' = [results EXCEPT ![w].upto = k]
  <2>1. PICK k \in Cuts : k > results[w].upto /\ results' = [results EXCEPT ![w].upto = k]
    BY <1>4
  <2>2. \A r \in DOMAIN results : r # w => results'[r] = results[r]
    BY <2>1
  <2>3. results[w] \in [doc : Documents, upto : 0 .. Len(Template)]
    BY <1>2, <1>4 DEF ResultStates, Readable
  <2>4. [results[w] EXCEPT !.upto = k] \in [doc : Documents, upto : 0 .. Len(Template)]
    BY <1>1, <2>3
  <2>5. results' \in ResultStates
    BY <1>2, <2>1, <2>4 DEF ResultStates
  <2>6. ~Finished(results[w])
    BY <1>1, <2>1, <2>3 DEF Finished
  <2> QED BY <2>2, <2>5, <2>6
<1> QED BY <1>3, <1>4 DEF WriteResult

\* A step that at most goes on with a RESULT leaves a strict proposal right.
LEMMA WritingKeeps ==
  ASSUME RecordInv, proposal' = proposal,
         results' = results \/ \E w \in DOMAIN results : WriteResult(w)
  PROVE  RecordInv'
<1>1. results \in ResultStates /\ StrictProposalsStand
  BY DEF RecordInv
<1>2. /\ results' \in ResultStates
      /\ \A r \in DOMAIN results :
           Readable(results[r]) /\ Finished(results[r]) => results'[r] = results[r]
  BY <1>1, OneResult
<1>3. ASSUME Stands
      PROVE  LET r == proposal.file
             IN  /\ Finished(results'[r])
                 /\ Report(r, TRUE)' = proposal
                 /\ proposal.checkpoint_candidate =>
                      /\ results'[r].doc.ROLE = "auditor"
                      /\ results'[r].doc.STATUS = "pass"
                      /\ results'[r].doc.EVIDENCE # {}
  <2> DEFINE r == proposal.file
  <2>1. /\ Finished(results[r]) /\ Report(r, TRUE) = proposal
        /\ proposal.checkpoint_candidate =>
             /\ results[r].doc.ROLE = "auditor"
             /\ results[r].doc.STATUS = "pass"
             /\ results[r].doc.EVIDENCE # {}
    BY <1>1, <1>3 DEF StrictProposalsStand, Stands
  <2>2. r \in DOMAIN results
    BY <1>1, <1>3 DEF Stands, Proposals, ResultStates
  <2>3. proposal.report_status = "ready"
    BY <1>3 DEF Stands
  <2> HIDE DEF r
  <2>4. Readable(results[r])
    BY <1>1, <2>1, <2>2, <2>3, StrictReport
  <2>5. results'[r] = results[r]
    BY <1>2, <2>1, <2>2, <2>4
  <2> QED BY <2>1, <2>5, SameReport DEF r
<1>4. StrictProposalsStand'
  BY <1>3 DEF StrictProposalsStand, Stands
<1> QED BY <1>2, <1>4 DEF RecordInv

\* So does every step of a lint or an archive verification.
LEMMA OtherCommands ==
  ASSUME RecordInv, (LintNext \/ ArchiveNext), UNCHANGED proposal
  PROVE  RecordInv'
<1>1. CASE LintNext
  <2>1. results' = results \/ \E w \in DOMAIN results : WriteResult(w)
    BY <1>1 DEF LintNext, LintWriter, WriteRuntimeFile, RecordEvent, WritePacket, ChangeTree,
       recordVars
  <2> QED BY <2>1, WritingKeeps
<1>2. CASE ArchiveNext
  <2>1. results' = results
    BY <1>2 DEF ArchiveNext, PackArchive, WriteRuntimeFile, ChangeTree, recordVars
  <2> QED BY <2>1, WritingKeeps
<1> QED BY <1>1, <1>2

\* A judgement of the package leaves the records alone.
LEMMA PackageLeavesRecords ==
  ASSUME PackageNext
  PROVE  /\ UNCHANGED <<files, results, packets, events, tree>>
         /\ writes' = writes \/ Written
BY DEF PackageNext, PackageWriter, EditPart, AddFile, RemoveFile, CheckOut, ChangeRepository,
   recordVars

\* A proposal that is made is right when it is made.
LEMMA ProposalsStart ==
  ASSUME RecordInv, Propose
  PROVE  RecordInv'
<1>1. results' = results /\ results \in ResultStates
  BY DEF Propose, recordVars, RecordInv
<1>2. PICK r \in DOMAIN results, strictly \in BOOLEAN : proposal' = Report(r, strictly)
  BY DEF Propose
<1>3. Report(r, strictly).strict = strictly /\ Report(r, strictly).file = r
  BY DEF Report
<1>4. ASSUME Stands'
      PROVE  LET q == proposal'.file
             IN  /\ Finished(results[q])
                 /\ Report(q, TRUE) = proposal'
                 /\ proposal'.checkpoint_candidate =>
                      /\ results[q].doc.ROLE = "auditor"
                      /\ results[q].doc.STATUS = "pass"
                      /\ results[q].doc.EVIDENCE # {}
  <2>1. proposal'.strict /\ proposal'.report_status = "ready"
    BY <1>4 DEF Stands
  <2>2. strictly = TRUE /\ proposal' = Report(r, TRUE) /\ proposal'.file = r
    BY <1>2, <1>3, <2>1
  <2> QED BY <1>1, <2>1, <2>2, StrictReport
<1>5. \A q : Report(q, TRUE)' = Report(q, TRUE)
  BY <1>1, SameReport
<1>6. StrictProposalsStand'
  BY <1>1, <1>4, <1>5 DEF StrictProposalsStand, Stands
<1> QED BY <1>1, <1>6 DEF RecordInv

------------------------------------------------------------------------------
\* A strict proposal that is ready stands, whatever is written after it.
THEOREM StrictProposalsHold == Spec => []StrictProposalsStand
<1>1. Init => RecordInv
  <2> SUFFICES ASSUME Init PROVE RecordInv
    OBVIOUS
  <2>1. results \in ResultStates
    BY WorldsAssumption DEF Init, World
  <2>2. proposal = NONE
    BY DEF Init, RecordOff
  <2> QED BY <2>1, <2>2, NoneAssumption DEF RecordInv, StrictProposalsStand
<1>2. RecordInv /\ [Next]_vars => RecordInv'
  <2> SUFFICES ASSUME RecordInv, [Next]_vars PROVE RecordInv'
    OBVIOUS
  <2>1. CASE \/ at # "off" /\ LintNext /\ UNCHANGED <<proposal, archiveVars>>
             \/ phase # "off" /\ ArchiveNext /\ UNCHANGED <<proposal, lintVars>>
    BY <2>1, OtherCommands
  <2>2. CASE RecordNext
    <3>1. CASE Propose
      BY <3>1, ProposalsStart
    <3>2. CASE \E w \in DOMAIN results : WriteResult(w) /\ UNCHANGED proposal
      BY <3>2, WritingKeeps
    <3> QED BY <2>2, <3>1, <3>2 DEF RecordNext
  <2>3. CASE PackageNext /\ UNCHANGED proposal
    BY <2>3, PackageLeavesRecords, WritingKeeps
  <2>4. CASE UNCHANGED vars
    BY <2>4, WritingKeeps DEF vars, recordVars
  <2> QED BY <2>1, <2>2, <2>3, <2>4 DEF Next, RecordsNext
<1>3. RecordInv => StrictProposalsStand
  BY DEF RecordInv
<1> QED BY <1>1, <1>2, <1>3, PTL DEF Spec

------------------------------------------------------------------------------
(* Types *)

LEMMA WritersKeepTypes ==
  ASSUME RecordsTypeOK,
         \/ WriteRuntimeFile \/ RecordEvent \/ WritePacket \/ ChangeTree \/ PackArchive
         \/ \E r \in DOMAIN results : WriteResult(r)
         \/ UNCHANGED recordVars
  PROVE  RecordsTypeOK'
<1>1. MaxWrites \in Nat
  BY RecordsAssumption
<1>2. CASE WriteRuntimeFile
  BY <1>1, <1>2 DEF RecordsTypeOK, WriteRuntimeFile, Written
<1>3. CASE RecordEvent
  BY <1>1, <1>3 DEF RecordsTypeOK, RecordEvent, Written
<1>4. CASE WritePacket
  BY <1>1, <1>4 DEF RecordsTypeOK, WritePacket, Written
<1>5. CASE ChangeTree
  BY <1>1, <1>5 DEF RecordsTypeOK, ChangeTree, Written
<1>6. CASE PackArchive
  BY <1>1, <1>6 DEF RecordsTypeOK, PackArchive, Written
<1>7. CASE \E r \in DOMAIN results : WriteResult(r)
  <2>1. results' \in ResultStates
    BY <1>7, OneResult DEF RecordsTypeOK
  <2> QED BY <1>1, <1>7, <2>1 DEF RecordsTypeOK, WriteResult, Written
<1>8. CASE UNCHANGED recordVars
  BY <1>8 DEF RecordsTypeOK, recordVars
<1> QED BY <1>2, <1>3, <1>4, <1>5, <1>6, <1>7, <1>8

\* Seven files, read one after the other.
LEMMA RuntimeFilesFinite ==
  /\ IsFiniteSet(ToSet(RuntimeFiles)) /\ Len(RuntimeFiles) \in Nat
  /\ \A n \in Nat : n < Len(RuntimeFiles) => RuntimeFiles[n + 1] \in ToSet(RuntimeFiles)
  /\ ToSet(RuntimeFiles) =
       {"PROJECT_STATE", "CURRENT_GATE", "NEXT_ACTION", "TASK_REGISTRY",
        "ACCEPTED_ARTIFACTS", "REPOSITORY_LOCK", "WORKSPACE_IDENTITY"}
<1>1. Len(RuntimeFiles) = 7 /\ DOMAIN RuntimeFiles = 1 .. 7
  BY DEF RuntimeFiles
<1>2. ToSet(RuntimeFiles) =
        {"PROJECT_STATE", "CURRENT_GATE", "NEXT_ACTION", "TASK_REGISTRY",
         "ACCEPTED_ARTIFACTS", "REPOSITORY_LOCK", "WORKSPACE_IDENTITY"}
  <2>1. \A i : i \in 1 .. 7 <=> i \in {1, 2, 3, 4, 5, 6, 7}
    OBVIOUS
  <2> QED BY <1>1, <2>1 DEF ToSet, RuntimeFiles
<1>3. IsFiniteSet(ToSet(RuntimeFiles))
  <2>1. \A x, y : IsFiniteSet({x, y})
    <3> SUFFICES ASSUME NEW x, NEW y PROVE IsFiniteSet({x, y})
      OBVIOUS
    <3>1. IsFiniteSet({x}) /\ IsFiniteSet({y})
      BY FS_Singleton
    <3>2. IsFiniteSet({x} \cup {y})
      BY <3>1, FS_Union
    <3>3. {x, y} = {x} \cup {y}
      OBVIOUS
    <3> QED BY <3>2, <3>3
  <2>2. \A A, B : IsFiniteSet(A) /\ IsFiniteSet(B) => IsFiniteSet(A \cup B)
    BY FS_Union
  <2>3. IsFiniteSet(({"PROJECT_STATE", "CURRENT_GATE"} \cup {"NEXT_ACTION", "TASK_REGISTRY"})
          \cup ({"ACCEPTED_ARTIFACTS", "REPOSITORY_LOCK"} \cup {"WORKSPACE_IDENTITY", "WORKSPACE_IDENTITY"}))
    BY <2>1, <2>2
  <2>4. ToSet(RuntimeFiles) =
          ({"PROJECT_STATE", "CURRENT_GATE"} \cup {"NEXT_ACTION", "TASK_REGISTRY"})
            \cup ({"ACCEPTED_ARTIFACTS", "REPOSITORY_LOCK"} \cup {"WORKSPACE_IDENTITY", "WORKSPACE_IDENTITY"})
    BY <1>2
  <2> QED BY <2>3, <2>4
<1>4. \A n \in Nat : n < Len(RuntimeFiles) => RuntimeFiles[n + 1] \in ToSet(RuntimeFiles)
  BY <1>1 DEF ToSet
<1> QED BY <1>1, <1>2, <1>3, <1>4

LEMMA FoundType == \A a, b : Worse(a, b) \in {"none", "warning", "error"}
BY DEF Worse

LEMMA LintKeepsTypes ==
  ASSUME RecordsTypeOK, LintTypeOK, LintStep, UNCHANGED recordVars
  PROVE  LintTypeOK'
<1>0. /\ DOMAIN files = ToSet(RuntimeFiles) /\ \A f \in DOMAIN files : files[f] \in Contents(f)
      /\ files' = files
  BY DEF RecordsTypeOK, recordVars
<1>1. CASE ReadRuntimeFile
  <2>1. Cardinality(DOMAIN seen) \in Nat
    BY <1>0, RuntimeFilesFinite, FS_Subset, FS_CardinalityType DEF LintTypeOK
  <2> DEFINE f == RuntimeFiles[Cardinality(DOMAIN seen) + 1]
  <2>2. f \in DOMAIN files
    BY <1>0, <1>1, <2>1, RuntimeFilesFinite DEF ReadRuntimeFile
  <2>3. seen' = [g \in DOMAIN seen \cup {f} |-> IF g = f THEN files[f] ELSE seen[g]]
    BY <1>1 DEF ReadRuntimeFile
  <2> HIDE DEF f
  <2>4. DOMAIN seen' \subseteq DOMAIN files
    BY <2>2, <2>3 DEF LintTypeOK
  <2>5. \A g \in DOMAIN seen' : seen'[g] \in Contents(g)
    BY <1>0, <2>2, <2>3 DEF LintTypeOK
  <2>6. UNCHANGED <<strict, found, todo, roll, at, touched, verdict, code>>
    BY <1>1 DEF ReadRuntimeFile
  <2> QED BY <1>0, <2>4, <2>5, <2>6 DEF LintTypeOK, Contents
<1>2. CASE RequiredFilesRead
  BY <1>0, <1>2 DEF LintTypeOK, RequiredFilesRead, Goto, Contents
<1>3. CASE CheckRuntimeFiles \/ CheckAcceptedArtifacts \/ CheckBasenameCollisions
  BY <1>0, <1>3, FoundType
  DEF LintTypeOK, CheckRuntimeFiles, CheckAcceptedArtifacts, CheckBasenameCollisions, Goto,
      Contents, Add
<1>4. CASE CheckReferences \/ ListForLifecycle
  <2>1. todo' = Present /\ Present \subseteq ToSet(ResultFiles)
    BY <1>4 DEF CheckReferences, ListForLifecycle, Present
  <2> QED BY <1>0, <1>4, <2>1, FoundType
          DEF LintTypeOK, CheckReferences, ListForLifecycle, Goto, Contents, Add
<1>5. CASE CheckTraceability \/ CheckLifecycle
  BY <1>0, <1>5, FoundType DEF LintTypeOK, CheckTraceability, CheckLifecycle, Contents, Add
<1>6. CASE ReadEvents
  <2>1. roll' \subseteq Events
    <3>1. events \in (SUBSET Events) \cup {Unreadable}
      BY DEF RecordsTypeOK
    <3>2. roll' = IF events = Unreadable THEN {} ELSE events
      BY <1>6 DEF ReadEvents
    <3> QED BY <3>1, <3>2
  <2>2. at' = "events" /\ UNCHANGED <<strict, seen, found, todo, touched, verdict, code>>
    BY <1>6 DEF ReadEvents, Goto
  <2> QED BY <1>0, <2>1, <2>2 DEF LintTypeOK, Contents
<1>7. CASE CheckReasoningAndDesigner
  <2>1. found' \in {"none", "warning", "error"}
    BY <1>7, FoundType DEF CheckReasoningAndDesigner, Add
  <2> QED BY <1>0, <1>7, <2>1 DEF LintTypeOK, CheckReasoningAndDesigner, Goto, Contents
<1>8. CASE CheckSkeleton
  <2>1. found' \in {"none", "warning", "error"}
    BY <1>8, FoundType DEF CheckSkeleton, Add
  <2> QED BY <1>0, <1>8, <2>1 DEF LintTypeOK, CheckSkeleton, Goto, Contents
<1>9. CASE WriteLintReport
  BY <1>0, <1>9 DEF LintTypeOK, WriteLintReport, Goto, Contents
<1> QED
  BY <1>1, <1>2, <1>3, <1>4, <1>5, <1>6, <1>7, <1>8, <1>9 DEF LintStep

\* A writer changes no more of the lint than which RESULTs are touched.
LEMMA LintWriterKeepsTypes ==
  ASSUME RecordsTypeOK, LintTypeOK, LintWriter
  PROVE  LintTypeOK'
<1>1. DOMAIN files' = DOMAIN files /\ DOMAIN results = ToSet(ResultFiles)
  BY DEF LintWriter, WriteRuntimeFile, RecordEvent, WritePacket, ChangeTree, WriteResult,
     RecordsTypeOK, ResultStates
<1>2. touched' \subseteq ToSet(ResultFiles)
  BY <1>1 DEF LintWriter, LintTypeOK, lintVars
<1>3. UNCHANGED <<strict, seen, found, todo, roll, at, verdict, code>>
  BY DEF LintWriter, lintVars
<1> QED BY <1>1, <1>2, <1>3 DEF LintTypeOK, Contents

LEMMA RouteType ==
  ASSUME NEW r, NEW onPass \in Routes
  PROVE  RouteOf(r, onPass) \in Routes
BY DEF RouteOf, Routes

LEMMA ReportType ==
  ASSUME RecordsTypeOK, NEW r \in DOMAIN results, NEW strictly \in BOOLEAN
  PROVE  Report(r, strictly) \in Proposals
<1>1. r \in ToSet(ResultFiles)
  BY DEF RecordsTypeOK, ResultStates
<1>2. Route(r, strictly) \in Routes /\ "NONE" \in Routes
  <2>1. {"NONE", "CHECKPOINT_PREFLIGHT", "CREATE_AUDITOR"} \subseteq Routes
    BY DEF Routes
  <2>2. AuditRoute(r, strictly) \in Routes
    BY <2>1, RouteType DEF AuditRoute
  <2>3. ProfileRoute(r) \in Routes
    BY <2>1, RouteType DEF ProfileRoute
  <2> QED BY <2>1, <2>2, <2>3 DEF Route
<1>3. (IF IsEmpty(r) THEN "unknown" ELSE ResultType(r)) \in {"unknown", "audit_result", "profile_result"}
  BY DEF ResultType
<1>4. CASE ~Readable(results[r])
  BY <1>1, <1>2, <1>4 DEF Report, Proposals
<1>5. CASE Readable(results[r])
  BY <1>1, <1>2, <1>3, <1>5 DEF Report, Proposals
<1> QED BY <1>4, <1>5

LEMMA ArchiveKeepsTypes ==
  ASSUME ArchiveTypeOK, ArchiveStep
  PROVE  ArchiveTypeOK'
<1>1. CASE OpenArchive
  <2>1. archive' = archive
    BY <1>1 DEF OpenArchive
  <2>2. read' = read \/ (archive \in Archives /\ read' = ReadArchive(archive.members))
    BY <1>1 DEF OpenArchive, ArchiveTypeOK, Readable
  <2>3. read' # Nothing => \E a \in Archives : read' = ReadArchive(a.members)
    BY <2>2 DEF ArchiveTypeOK
  <2>4. /\ phase' \in {"report", "accepted"}
        /\ outcome' \in {"usage", "io_error", outcome}
        /\ UNCHANGED <<dirs, exit>>
    BY <1>1 DEF OpenArchive
  <2> QED BY <2>1, <2>3, <2>4 DEF ArchiveTypeOK
<1>2. CASE ReadAccepted
  BY <1>2 DEF ReadAccepted, ArchiveTypeOK
<1>3. CASE ExpectDirs
  BY <1>3 DEF ExpectDirs, ArchiveTypeOK, ProjectDirs
<1>4. CASE ReadProjectHashes
  BY <1>4 DEF ReadProjectHashes, ArchiveTypeOK
<1>5. CASE ReadRegistryHashes
  BY <1>5 DEF ReadRegistryHashes, ArchiveTypeOK
<1>6. CASE Verify
  BY <1>6 DEF Verify, ArchiveTypeOK
<1>7. CASE WriteArchiveReport
  BY <1>7 DEF WriteArchiveReport, ArchiveTypeOK
<1> QED BY <1>1, <1>2, <1>3, <1>4, <1>5, <1>6, <1>7 DEF ArchiveStep

LEMMA PackageTypeInit ==
  ASSUME PackageOff \/ ((\E w \in PackageWorlds : PackageWorld(w)) /\ PackageInit)
  PROVE  PackageTypeOK
<1>1. CASE PackageOff
  BY <1>1 DEF PackageOff, PackageTypeOK, PartContents, Repositories, Commands, Places
<1>2. CASE (\E w \in PackageWorlds : PackageWorld(w)) /\ PackageInit
  <2>1. PICK w \in PackageWorlds : PackageWorld(w)
    BY <1>2
  <2>2. /\ DOMAIN parts = Parts /\ \A p \in Parts : parts[p] \in PartContents(p)
        /\ repository \in Repositories /\ tracked \subseteq TrackedFiles
    BY <2>1, PackageWorldsAssumption DEF PackageWorld
  <2> QED BY <1>2, <2>2 DEF PackageInit, PackageTypeOK, Places
<1> QED BY <1>1, <1>2

\* What is read of a part is one of its versions.
LEMMA PartRead ==
  ASSUME PackageTypeOK, NEW p \in Parts, Readable(Part(p)), Part(p) # Garbled
  PROVE  Part(p) \in PartVersions[p]
BY DEF PackageTypeOK, Part, Readable, PartContents

\* What a check that looks at a part may do.
Inspected ==
  /\ place' \in Places /\ fault' \in {fault, "error"}
  /\ answer' \in {answer, "crash"} /\ leave' \in {leave, "crash"}
  /\ UNCHANGED <<command, active>>

LEMMA PackageStepKeepsTypes ==
  ASSUME PackageTypeOK, PackageStep, UNCHANGED Surroundings
  PROVE  PackageTypeOK'
<1>0. AfterInspection \in Places
  BY DEF AfterInspection, Places
<1>1. CASE ParseArguments \/ CheckRoot
  BY <1>0, <1>1 DEF ParseArguments, CheckRoot, Surroundings, PackageTypeOK, PartContents, Places
<1>2. CASE ReadVersioning
  <2>1. CASE Undecodable("versioning", "PACKAGE_VERSIONING.md")
    BY <2>1 DEF Undecodable, Surroundings, PackageTypeOK, PartContents, Places
  <2>2. CASE ~Undecodable("versioning", "PACKAGE_VERSIONING.md")
    <3>1. "PACKAGE_VERSIONING.md" \in Parts
      BY DEF Parts, Texts
    <3>2. active' \in {NONE} \cup {c.version : c \in PartVersions["PACKAGE_VERSIONING.md"]}
      BY <1>2, <2>2, <3>1, PartRead DEF ReadVersioning
    <3>3. place' = "pyproject version" /\ fault' \in {"none", "error", "no root"}
          /\ UNCHANGED <<command, answer, leave>>
      BY <1>2, <2>2 DEF ReadVersioning, Worsen, PackageTypeOK
    <3> QED BY <3>2, <3>3 DEF Surroundings, PackageTypeOK, PartContents, Places
  <2> QED BY <2>1, <2>2
<1>3. CASE WritePackageReport
  BY <1>3 DEF WritePackageReport, LayoutReport, StatusReport, LintReport, DoctorReport,
              PreflightReport, Judges, Says, Surroundings, PackageTypeOK, PartContents, Places
<1>4. CASE Inspected
  BY <1>4 DEF Inspected, Surroundings, PackageTypeOK, PartContents
<1> USE DEF Inspected, Inspect, Undecodable, ReadText, Worsen, Places
<1>5. CASE CheckDirectories
  BY <1>0, <1>4, <1>5 DEF CheckDirectories
<1>6. CASE CheckWrapper
  BY <1>0, <1>4, <1>6 DEF CheckWrapper
<1>7. CASE CheckPyproject
  BY <1>0, <1>4, <1>7 DEF CheckPyproject
<1>8. CASE ListGeneratedRoots
  BY <1>0, <1>4, <1>8 DEF ListGeneratedRoots
<1>9. CASE ListCaches
  BY <1>0, <1>4, <1>9 DEF ListCaches
<1>10. CASE ListDuplicates
  BY <1>0, <1>4, <1>10 DEF ListDuplicates
<1>11. CASE CheckWorkflows
  BY <1>0, <1>4, <1>11 DEF CheckWorkflows
<1>12. CASE CheckReadmes
  BY <1>0, <1>4, <1>12 DEF CheckReadmes
<1>13. CASE CheckGitignore
  BY <1>0, <1>4, <1>13 DEF CheckGitignore
<1>14. CASE AskWorktree
  BY <1>0, <1>4, <1>14 DEF AskWorktree
<1>15. CASE CheckPackagePaths
  BY <1>0, <1>4, <1>15 DEF CheckPackagePaths
<1>16. CASE CompareVersions
  BY <1>0, <1>4, <1>16 DEF CompareVersions
<1>17. CASE CheckMarkers
  BY <1>0, <1>4, <1>17 DEF CheckMarkers
<1>18. CASE CheckRegistration
  BY <1>0, <1>4, <1>18 DEF CheckRegistration
<1>19. CASE CheckTests
  BY <1>0, <1>4, <1>19 DEF CheckTests
<1>20. CASE CheckMakefile
  BY <1>0, <1>4, <1>20 DEF CheckMakefile
<1> QED BY <1>1, <1>2, <1>3, <1>4, <1>5, <1>6, <1>7, <1>8, <1>9, <1>10, <1>11, <1>12, <1>13, <1>14, <1>15, <1>16, <1>17, <1>18, <1>19, <1>20 DEF PackageStep

LEMMA PackageWriterKeepsTypes ==
  ASSUME PackageTypeOK, PackageWriter
  PROVE  PackageTypeOK'
<1>0. UNCHANGED Progress
  BY DEF PackageWriter
<1>1. CASE EditPart
  <2>1. PICK p \in Parts : \E c \in PartContents(p) \ {parts[p]} :
          /\ parts' = [parts EXCEPT ![p] = c]
          /\ still' = {q \in still : q # p /\ p \notin Enclosing(q)}
    BY <1>1 DEF EditPart
  <2>2. DOMAIN parts' = Parts /\ (\A q \in Parts : parts'[q] \in PartContents(q))
        /\ still' \subseteq Guarded
    BY <2>1 DEF PackageTypeOK
  <2> QED BY <1>0, <1>1, <2>2 DEF EditPart, Progress, PackageTypeOK, PartContents
<1>2. CASE AddFile
  BY <1>0, <1>2 DEF AddFile, Progress, PackageTypeOK, PartContents
<1>3. CASE RemoveFile
  BY <1>0, <1>3 DEF RemoveFile, Progress, PackageTypeOK, PartContents
<1>4. CASE CheckOut
  BY <1>0, <1>4, PackageWorldsAssumption DEF CheckOut, Progress, PackageTypeOK, PartContents
<1>5. CASE ChangeRepository
  BY <1>0, <1>5 DEF ChangeRepository, Progress, PackageTypeOK, PartContents
<1> QED BY <1>1, <1>2, <1>3, <1>4, <1>5 DEF PackageWriter

LEMMA TypeInit == Init => TypeOK
<1> SUFFICES ASSUME Init PROVE TypeOK
  OBVIOUS
<1>1. PICK w \in LintWorlds \cup ArchiveWorlds \cup RecordWorlds \cup PackageWorlds : World(w)
  BY DEF Init
<1>2. RecordsTypeOK
  BY <1>1, WorldsAssumption, RecordsAssumption DEF World, RecordsTypeOK
<1>3. LintTypeOK
  <2>1. /\ seen = << >> /\ todo = {} /\ roll = {} /\ touched = {} /\ strict \in BOOLEAN
        /\ found = "none" /\ at \in {"off", "read"} /\ verdict = "none" /\ code = "none"
    BY DEF Init, LintInit, LintOff
  <2>2. DOMAIN seen = {}
    BY <2>1
  <2> QED BY <2>1, <2>2 DEF LintTypeOK
<1>4. ProposalTypeOK
  BY DEF Init, RecordOff, ProposalTypeOK
<1>5. ArchiveTypeOK
  BY DEF Init, ArchiveInit, ArchiveOff, ArchiveTypeOK
<1>6. PackageTypeOK
  BY PackageTypeInit DEF Init
<1> QED BY <1>2, <1>3, <1>4, <1>5, <1>6 DEF TypeOK

LEMMA TypeStep == TypeOK /\ [Next]_vars => TypeOK'
<1> SUFFICES ASSUME TypeOK, [Next]_vars PROVE TypeOK'
  OBVIOUS
<1>0. RecordsTypeOK /\ LintTypeOK /\ ProposalTypeOK /\ ArchiveTypeOK /\ PackageTypeOK
  BY DEF TypeOK
<1>1. CASE LintNext /\ UNCHANGED <<proposal, archiveVars>> /\ UNCHANGED packageVars
  <2>1. RecordsTypeOK'
    BY <1>0, <1>1, WritersKeepTypes DEF LintNext, LintWriter
  <2>2. LintTypeOK'
    BY <1>0, <1>1, LintKeepsTypes, LintWriterKeepsTypes DEF LintNext
  <2>3. ProposalTypeOK' /\ ArchiveTypeOK'
    BY <1>0, <1>1 DEF ProposalTypeOK, ArchiveTypeOK, archiveVars
  <2>4. PackageTypeOK'
    BY <1>0, <1>1 DEF PackageTypeOK, packageVars
  <2> QED BY <2>1, <2>2, <2>3, <2>4 DEF TypeOK
<1>2. CASE ArchiveNext /\ UNCHANGED <<proposal, lintVars>> /\ UNCHANGED packageVars
  <2>1. RecordsTypeOK'
    BY <1>0, <1>2, WritersKeepTypes DEF ArchiveNext
  <2>2. ArchiveTypeOK'
    <3>1. CASE ArchiveStep
      BY <1>0, <3>1, ArchiveKeepsTypes
    <3>2. CASE PackArchive
      BY <1>0, <3>2 DEF PackArchive, ArchiveTypeOK
    <3>3. CASE UNCHANGED archiveVars
      BY <1>0, <3>3 DEF archiveVars, ArchiveTypeOK
    <3> QED BY <1>2, <3>1, <3>2, <3>3 DEF ArchiveNext
  <2>3. LintTypeOK' /\ ProposalTypeOK'
    <3>1. DOMAIN files' = DOMAIN files
      BY <1>0, <2>1 DEF RecordsTypeOK
    <3> QED BY <1>0, <1>2, <3>1 DEF LintTypeOK, ProposalTypeOK, lintVars, Contents
  <2>4. PackageTypeOK'
    BY <1>0, <1>2 DEF PackageTypeOK, packageVars
  <2> QED BY <2>1, <2>2, <2>3, <2>4 DEF TypeOK
<1>3. CASE RecordNext /\ UNCHANGED <<lintVars, archiveVars>> /\ UNCHANGED packageVars
  <2>1. RecordsTypeOK'
    BY <1>0, <1>3, WritersKeepTypes DEF RecordNext, Propose
  <2>2. ProposalTypeOK'
    BY <1>0, <1>3, ReportType DEF RecordNext, Propose, ProposalTypeOK
  <2>3. LintTypeOK' /\ ArchiveTypeOK'
    <3>1. DOMAIN files' = DOMAIN files
      BY <1>0, <2>1 DEF RecordsTypeOK
    <3> QED BY <1>0, <1>3, <3>1 DEF LintTypeOK, ArchiveTypeOK, lintVars, archiveVars, Contents
  <2>4. PackageTypeOK'
    BY <1>0, <1>3 DEF PackageTypeOK, packageVars
  <2> QED BY <2>1, <2>2, <2>3, <2>4 DEF TypeOK
<1>4. CASE PackageNext /\ UNCHANGED <<lintVars, proposal, archiveVars>>
  <2>1. RecordsTypeOK'
    BY <1>0, <1>4, PackageLeavesRecords, RecordsAssumption DEF RecordsTypeOK, Written
  <2>2. PackageTypeOK'
    BY <1>0, <1>4, PackageStepKeepsTypes, PackageWriterKeepsTypes DEF PackageNext
  <2>3. LintTypeOK' /\ ProposalTypeOK' /\ ArchiveTypeOK'
    <3>1. DOMAIN files' = DOMAIN files
      BY <1>0, <2>1 DEF RecordsTypeOK
    <3> QED BY <1>0, <1>4, <3>1
            DEF LintTypeOK, ProposalTypeOK, ArchiveTypeOK, lintVars, archiveVars, Contents
  <2> QED BY <2>1, <2>2, <2>3 DEF TypeOK
<1>5. CASE UNCHANGED vars
  <2>1. RecordsTypeOK'
    BY <1>0, <1>5, WritersKeepTypes DEF vars
  <2>2. PackageTypeOK'
    BY <1>0, <1>5 DEF PackageTypeOK, packageVars, vars
  <2> QED BY <1>0, <1>5, <2>1, <2>2
          DEF TypeOK, LintTypeOK, ProposalTypeOK, ArchiveTypeOK, vars, lintVars, archiveVars,
              recordVars, Contents
<1> QED BY <1>1, <1>2, <1>3, <1>4, <1>5 DEF Next, RecordsNext

\* Records, commands and their reports keep their types.
THEOREM TypesAreKept == Spec => []TypeOK
BY TypeInit, TypeStep, PTL DEF Spec

------------------------------------------------------------------------------
(* Lint *)

\* Checks depend on the RESULT they are about only, and on what was read.
LEMMA SameChecks ==
  ASSUME NEW r, results'[r] = results[r]
  PROVE  /\ seen' = seen =>
              ResultRegistryTraceability(seen, r)' = ResultRegistryTraceability(seen, r)
         /\ roll' = roll => AgentLifecycle(roll, r)' = AgentLifecycle(roll, r)
BY DEF ResultRegistryTraceability, AgentLifecycle, Content, Marks

\* An error is never forgotten.
LEMMA ErrorsStay ==
  ASSUME NEW error, NEW warning, Add(error, warning), found' # "error"
  PROVE  found # "error" /\ ~error
BY DEF Add, Worse

LEMMA LintInvInit == Init => LintInv
<1> SUFFICES ASSUME Init PROVE LintInv
  OBVIOUS
<1>1. at \in {"off", "read"} /\ verdict = "none" /\ code = "none"
  BY DEF Init, LintInit, LintOff
<1> QED
  BY <1>1 DEF LintInv, CheckedInv, TraceInv, EventsInv, LifecycleInv, VerdictInv, AfterSkeleton,
     AfterLifecycle, AfterEvents, AfterTrace, AfterReferences, AfterFiles

\* A step that leaves a lint alone, but for the RESULTs touched.
LEMMA WritersKeepChecks ==
  ASSUME TypeOK, LintInv,
         UNCHANGED <<seen, found, todo, roll, at, verdict, code>>,
         \/ results' = results /\ touched' = touched
         \/ \E w \in DOMAIN results : WriteResult(w) /\ touched' = touched \cup {w}
         \/ at = "off",
         \/ events' = events
         \/ events # Unreadable /\ events' # Unreadable /\ events \subseteq events'
  PROVE  LintInv'
<1>1. CASE at = "off"
  BY <1>1 DEF LintInv, CheckedInv, TraceInv, EventsInv, LifecycleInv, VerdictInv, AfterSkeleton,
     AfterLifecycle, AfterEvents, AfterTrace, AfterReferences, AfterFiles
<1>2. CASE at # "off"
  <2>1. Untouched' \subseteq Untouched /\ \A r \in Untouched' : results'[r] = results[r]
    <3>1. CASE results' = results /\ touched' = touched
      BY <3>1 DEF Untouched
    <3>2. CASE \E w \in DOMAIN results : WriteResult(w) /\ touched' = touched \cup {w}
      <4>1. PICK w \in DOMAIN results : WriteResult(w) /\ touched' = touched \cup {w}
        BY <3>2
      <4>2. DOMAIN results' = DOMAIN results /\ \A r \in DOMAIN results \ {w} : results'[r] = results[r]
        BY <4>1 DEF WriteResult, TypeOK, RecordsTypeOK, ResultStates
      <4> QED BY <4>1, <4>2 DEF Untouched
    <3> QED BY <1>2, <3>1, <3>2
  <2>2. CheckedInv'
    BY DEF LintInv, CheckedInv, NoError
  <2>3. TraceInv'
    BY <2>1, SameChecks DEF LintInv, TraceInv, NoError
  <2>4. EventsInv'
    BY DEF LintInv, EventsInv
  <2>5. LifecycleInv'
    BY <2>1, SameChecks DEF LintInv, LifecycleInv, NoError
  <2>6. VerdictInv'
    BY DEF LintInv, VerdictInv
  <2> QED BY <2>2, <2>3, <2>4, <2>5, <2>6 DEF LintInv
<1> QED BY <1>1, <1>2

LEMMA ChecksKeep ==
  ASSUME TypeOK, LintInv, LintStep, UNCHANGED recordVars
  PROVE  LintInv'
<1> USE DEF AfterSkeleton, AfterLifecycle, AfterEvents, AfterTrace, AfterReferences, AfterFiles
<1>0. /\ results' = results /\ events' = events /\ DOMAIN files = ToSet(RuntimeFiles)
      /\ CheckedInv /\ TraceInv /\ EventsInv /\ LifecycleInv /\ VerdictInv
  BY DEF recordVars, LintInv, TypeOK, RecordsTypeOK
<1>1. CASE ReadRuntimeFile
  BY <1>0, <1>1
  DEF ReadRuntimeFile, LintInv, CheckedInv, TraceInv, EventsInv, LifecycleInv, VerdictInv
<1>2. CASE RequiredFilesRead
  BY <1>0, <1>2
  DEF RequiredFilesRead, Goto, LintInv, CheckedInv, TraceInv, EventsInv, LifecycleInv, VerdictInv, NoError
<1>3. CASE CheckRuntimeFiles
  <2>1. found' # "error" => ~RuntimeErrors(seen)
    BY <1>3, ErrorsStay DEF CheckRuntimeFiles
  <2> QED
    BY <1>0, <1>3, <2>1
    DEF CheckRuntimeFiles, Goto, LintInv, CheckedInv, TraceInv, EventsInv, LifecycleInv, VerdictInv, NoError
<1>4. CASE CheckAcceptedArtifacts \/ CheckBasenameCollisions
  <2>1. found' # "error" => found # "error"
    BY <1>4, ErrorsStay DEF CheckAcceptedArtifacts, CheckBasenameCollisions
  <2> QED
    BY <1>0, <1>4, <2>1
    DEF CheckAcceptedArtifacts, CheckBasenameCollisions, Goto, LintInv, CheckedInv, TraceInv,
        EventsInv, LifecycleInv, VerdictInv, NoError
<1>5. CASE CheckReferences
  <2>1. found' # "error" => found # "error"
    BY <1>5, ErrorsStay DEF CheckReferences
  <2>2. at = "references" /\ at' = "trace" /\ todo' = Present
        /\ UNCHANGED <<seen, roll, touched, verdict, code>>
    BY <1>5 DEF CheckReferences, Goto
  <2>3. Untouched' \subseteq Present
    BY <1>0, <2>2 DEF Untouched, Present, TypeOK, RecordsTypeOK, ResultStates
  <2> QED
    BY <1>0, <2>1, <2>2, <2>3
    DEF LintInv, CheckedInv, TraceInv, EventsInv, LifecycleInv, VerdictInv, NoError
<1>6. CASE CheckTraceability
  <2>1. PICK r \in todo :
          /\ Add(ResultRegistryTraceability(seen, r), FALSE)
          /\ todo' = todo \ {r}
    BY <1>6 DEF CheckTraceability
  <2>2. found' # "error" => found # "error" /\ ~ResultRegistryTraceability(seen, r)
    BY <2>1, ErrorsStay
  <2>3. at = "trace" /\ UNCHANGED <<seen, roll, at, touched, verdict, code>>
    BY <1>6 DEF CheckTraceability
  <2>4. Untouched' = Untouched
    BY <1>0, <2>3 DEF Untouched
  <2>5. \A q : ResultRegistryTraceability(seen, q)' = ResultRegistryTraceability(seen, q)
    BY <1>0, <2>3, SameChecks
  <2>6. TraceInv'
    BY <1>0, <2>1, <2>2, <2>3, <2>4, <2>5 DEF TraceInv, NoError
  <2> QED
    BY <1>0, <2>2, <2>3, <2>6
    DEF LintInv, CheckedInv, EventsInv, LifecycleInv, VerdictInv, NoError
<1>7. CASE ReadEvents
  <2>1. at = "trace" /\ at' = "events" /\ todo = {} /\ UNCHANGED <<seen, found, touched, verdict, code>>
        /\ roll' = IF events = Unreadable THEN {} ELSE events
    BY <1>7 DEF ReadEvents, Goto
  <2>2. Untouched' = Untouched
    BY <1>0, <2>1 DEF Untouched
  <2>3. \A q : ResultRegistryTraceability(seen, q)' = ResultRegistryTraceability(seen, q)
    BY <1>0, <2>1, SameChecks
  <2>4. TraceInv'
    BY <1>0, <2>1, <2>2, <2>3 DEF TraceInv, NoError
  <2> QED
    BY <1>0, <2>1, <2>4
    DEF LintInv, CheckedInv, EventsInv, LifecycleInv, VerdictInv, NoError
<1>8. CASE ListForLifecycle
  <2>1. at = "events" /\ at' = "lifecycle" /\ todo' = Present
        /\ UNCHANGED <<seen, found, roll, touched, verdict, code>>
    BY <1>8 DEF ListForLifecycle, Goto
  <2>2. Untouched' = Untouched /\ Untouched \subseteq Present
    BY <1>0, <2>1 DEF Untouched, Present, TypeOK, RecordsTypeOK, ResultStates
  <2>3. \A q : ResultRegistryTraceability(seen, q)' = ResultRegistryTraceability(seen, q)
    BY <1>0, <2>1, SameChecks
  <2>4. TraceInv' /\ LifecycleInv'
    BY <1>0, <2>1, <2>2, <2>3 DEF TraceInv, LifecycleInv, NoError
  <2> QED
    BY <1>0, <2>1, <2>4 DEF LintInv, CheckedInv, EventsInv, VerdictInv, NoError
<1>9. CASE CheckLifecycle
  <2>1. PICK r \in todo : Add(AgentLifecycle(roll, r), FALSE) /\ todo' = todo \ {r}
    BY <1>9 DEF CheckLifecycle
  <2>2. found' # "error" => found # "error" /\ ~AgentLifecycle(roll, r)
    BY <2>1, ErrorsStay
  <2>3. at = "lifecycle" /\ UNCHANGED <<seen, roll, at, touched, verdict, code>>
    BY <1>9 DEF CheckLifecycle
  <2>4. Untouched' = Untouched
    BY <1>0, <2>3 DEF Untouched
  <2>5. \A q : /\ ResultRegistryTraceability(seen, q)' = ResultRegistryTraceability(seen, q)
              /\ AgentLifecycle(roll, q)' = AgentLifecycle(roll, q)
    BY <1>0, <2>3, SameChecks
  <2>6. TraceInv' /\ LifecycleInv'
    BY <1>0, <2>1, <2>2, <2>3, <2>4, <2>5 DEF TraceInv, LifecycleInv, NoError
  <2> QED
    BY <1>0, <2>2, <2>3, <2>6 DEF LintInv, CheckedInv, EventsInv, VerdictInv, NoError
<1>10. CASE CheckReasoningAndDesigner \/ CheckSkeleton \/ WriteLintReport
  <2>1. /\ at \in {"lifecycle", "skeleton", "report"} /\ at' \in AfterLifecycle
        /\ at = "lifecycle" => todo = {}
        /\ UNCHANGED <<seen, roll, touched>>
    BY <1>10 DEF CheckReasoningAndDesigner, CheckSkeleton, WriteLintReport, Goto
  <2>2. NoError' => NoError
    <3>1. found' # "error" => found # "error"
      BY <1>10, ErrorsStay DEF CheckReasoningAndDesigner, CheckSkeleton, WriteLintReport
    <3>2. verdict' # "io_error" => verdict # "io_error"
      BY <1>0, <1>10
      DEF CheckReasoningAndDesigner, CheckSkeleton, WriteLintReport, VerdictInv
    <3> QED BY <3>1, <3>2 DEF NoError
  <2>3. Untouched' = Untouched
    BY <1>0, <2>1 DEF Untouched
  <2>4. \A q : /\ ResultRegistryTraceability(seen, q)' = ResultRegistryTraceability(seen, q)
              /\ AgentLifecycle(roll, q)' = AgentLifecycle(roll, q)
    BY <1>0, <2>1, SameChecks
  <2>5. TraceInv' /\ LifecycleInv'
    BY <1>0, <2>1, <2>2, <2>3, <2>4 DEF TraceInv, LifecycleInv
  <2>6. verdict' # "io_error" => verdict # "io_error"
    BY <1>0, <1>10
    DEF CheckReasoningAndDesigner, CheckSkeleton, WriteLintReport, VerdictInv
  <2>7. CheckedInv' /\ EventsInv'
    BY <1>0, <2>1, <2>2, <2>6 DEF CheckedInv, EventsInv
  <2>8. VerdictInv'
    BY <1>0, <1>10
    DEF CheckReasoningAndDesigner, CheckSkeleton, WriteLintReport, VerdictInv, Goto
  <2> QED BY <2>5, <2>7, <2>8 DEF LintInv
<1> QED
  BY <1>1, <1>2, <1>3, <1>4, <1>5, <1>6, <1>7, <1>8, <1>9, <1>10 DEF LintStep

LEMMA LintInvStep == TypeOK /\ LintInv /\ [Next]_vars => LintInv'
<1> SUFFICES ASSUME TypeOK, LintInv, [Next]_vars PROVE LintInv'
  OBVIOUS
<1>1. CASE LintNext
  <2>1. CASE LintStep /\ UNCHANGED recordVars
    BY <2>1, ChecksKeep
  <2>2. CASE LintWriter
    <3>1. UNCHANGED <<seen, found, todo, roll, at, verdict, code>>
      BY <2>2 DEF LintWriter, lintVars
    <3>2. \/ results' = results /\ touched' = touched
          \/ \E w \in DOMAIN results : WriteResult(w) /\ touched' = touched \cup {w}
      <4>1. CASE \E w \in DOMAIN results : WriteResult(w) /\ touched' = touched \cup {w}
        BY <4>1
      <4>2. CASE /\ WriteRuntimeFile \/ RecordEvent \/ WritePacket \/ ChangeTree
                 /\ UNCHANGED lintVars
        BY <4>2 DEF WriteRuntimeFile, RecordEvent, WritePacket, ChangeTree, lintVars
      <4> QED BY <2>2, <4>1, <4>2 DEF LintWriter
    <3>3. \/ events' = events
          \/ events # Unreadable /\ events' # Unreadable /\ events \subseteq events'
      <4>1. CASE \E w \in DOMAIN results : WriteResult(w) /\ touched' = touched \cup {w}
        BY <4>1 DEF WriteResult
      <4>2. CASE RecordEvent
        <5>1. PICK e \in Events \ events : events' = events \cup {e}
          BY <4>2 DEF RecordEvent
        <5>2. events # Unreadable
          BY <4>2 DEF RecordEvent
        <5>3. events \in SUBSET Events
          BY <5>2 DEF TypeOK, RecordsTypeOK
        <5>4. events' \in SUBSET Events
          BY <5>1, <5>3
        <5> QED BY <5>1, <5>2, <5>4, RecordsAssumption
      <4>3. CASE WriteRuntimeFile \/ WritePacket \/ ChangeTree
        BY <4>3 DEF WriteRuntimeFile, WritePacket, ChangeTree
      <4> QED BY <2>2, <4>1, <4>2, <4>3 DEF LintWriter
    <3> QED BY <3>1, <3>2, <3>3, WritersKeepChecks
  <2> QED BY <1>1, <2>1, <2>2 DEF LintNext
<1>2. CASE ArchiveNext /\ UNCHANGED lintVars
  <2>1. results' = results /\ events' = events
    BY <1>2 DEF ArchiveNext, recordVars, PackArchive, WriteRuntimeFile, ChangeTree
  <2> QED BY <1>2, <2>1, WritersKeepChecks DEF lintVars
<1>3. CASE at = "off" /\ RecordNext /\ UNCHANGED lintVars
  <2>1. events' = events
    BY <1>3 DEF RecordNext, Propose, WriteResult, recordVars
  <2> QED BY <1>3, <2>1, WritersKeepChecks DEF lintVars
<1>4. CASE PackageNext /\ UNCHANGED lintVars
  BY <1>4, PackageLeavesRecords, WritersKeepChecks DEF lintVars
<1>5. CASE UNCHANGED vars
  BY <1>5, WritersKeepChecks DEF vars, lintVars, recordVars
<1> QED BY <1>1, <1>2, <1>3, <1>4, <1>5 DEF Next, RecordsNext

THEOREM LintInvHolds == Spec => [](TypeOK /\ LintInv)
BY TypeInit, TypeStep, LintInvInit, LintInvStep, PTL DEF Spec

------------------------------------------------------------------------------
(***************************************************************************)
(* What the lint found nothing wrong with, where it still holds.           *)
(***************************************************************************)
\* A set of numbers up to n has a greatest.
LEMMA GreatestExists ==
  ASSUME NEW n \in Nat, NEW T \in SUBSET (1 .. n), T # {}
  PROVE  Max(T) \in T
<1> DEFINE below == OpToRel(<, Nat)
           D == {n - i : i \in T}
<1>1. IsWellFoundedOn(below, Nat)
  BY NatLessThanWellFounded
<1>2. /\ D \subseteq Nat /\ D # {}
      /\ \A i \in T : i \in 1 .. n
  <2>1. \A i \in T : i \in 1 .. n /\ n - i \in Nat
    OBVIOUS
  <2>2. PICK i \in T : TRUE
    OBVIOUS
  <2>3. n - i \in D
    OBVIOUS
  <2> QED BY <2>1, <2>3
<1>3. PICK d \in D : \A y \in D : <<y, d>> \notin below
  <2> HIDE DEF below, D
  <2> QED BY <1>1, <1>2, WFMin
<1>4. \A y \in D : ~(y < d)
  BY <1>2, <1>3 DEF OpToRel
<1>5. PICK m \in T : d = n - m
  OBVIOUS
<1>6. \A i \in T : n - i \in D
  OBVIOUS
<1>7. \A i \in T : m >= i
  <2> TAKE i \in T
  <2>1. ~(n - i < n - m)
    BY <1>4, <1>5, <1>6
  <2>2. i \in 1 .. n /\ m \in 1 .. n
    BY <1>2, <1>5
  <2> QED BY <2>1, <2>2
<1> QED BY <1>5, <1>7 DEF Max

\* The entry of the registry that counts for a task is one of that task.
LEMMA TaskEntryIsOne ==
  ASSUME NEW s, s["TASK_REGISTRY"] \in Versions["TASK_REGISTRY"], NEW t, Registered(s, t)
  PROVE  \E i \in DOMAIN s["TASK_REGISTRY"].entries :
           s["TASK_REGISTRY"].entries[i].task = t /\ s["TASK_REGISTRY"].entries[i] = TaskEntry(s, t)
<1>1. s["TASK_REGISTRY"].entries \in Seq(ToSet(s["TASK_REGISTRY"].entries))
  BY RecordsAssumption
<1>2. PICK n \in Nat : DOMAIN s["TASK_REGISTRY"].entries = 1 .. n
  <2> DEFINE es == s["TASK_REGISTRY"].entries
  <2>1. DOMAIN es = 1 .. Len(es) /\ Len(es) \in Nat
    <3> HIDE DEF es
    <3> SUFFICES ASSUME es \in Seq(ToSet(es)) PROVE DOMAIN es = 1 .. Len(es) /\ Len(es) \in Nat
      BY <1>1 DEF es
    <3> QED OBVIOUS
  <2> QED BY <2>1
<1>3. EntriesOf(s, t) \in SUBSET (1 .. n) /\ EntriesOf(s, t) # {}
  BY <1>2 DEF EntriesOf, Registered
<1>4. Max(EntriesOf(s, t)) \in EntriesOf(s, t)
  BY <1>3, GreatestExists
<1> QED BY <1>4 DEF EntriesOf, TaskEntry

\* What a lint that succeeded found in the files it read.
LEMMA PassedMeans ==
  ASSUME TypeOK, LintInv, code = "ok"
  PROVE  /\ DOMAIN seen = ToSet(RuntimeFiles) /\ \A f \in DOMAIN seen : Readable(seen[f])
         /\ ~RuntimeErrors(seen)
         /\ \A r \in Untouched : ~ResultRegistryTraceability(seen, r) /\ ~AgentLifecycle(roll, r)
         /\ IF events = Unreadable THEN roll = {} ELSE roll \subseteq events
BY DEF LintInv, CheckedInv, TraceInv, EventsInv, LifecycleInv, VerdictInv, NoError,
   AfterSkeleton, AfterLifecycle, AfterEvents, AfterTrace, AfterReferences, AfterFiles

LEMMA Dispatchable ==
  ASSUME ~RuntimeErrors(files), files["TASK_REGISTRY"] \in Versions["TASK_REGISTRY"]
  PROVE  NextActionDispatchable
<1>1. ~StaleNextAction(files) /\ ~PostCheckpointNextAction(files) /\ ~CheckpointReceipt(files)
  BY DEF RuntimeErrors
<1> DEFINE action == files["NEXT_ACTION"]
           gate   == files["CURRENT_GATE"]
           state  == files["PROJECT_STATE"]
<1>2. ~Halts(action) => state.project # "completed"
  BY <1>1 DEF StaleNextAction
<1>3. ASSUME ~Halts(action), ~IsNone(action.task)
      PROVE  /\ \E i \in DOMAIN files["TASK_REGISTRY"].entries :
                  LET e == files["TASK_REGISTRY"].entries[i]
                  IN  e.task = action.task /\ e.status \notin TerminalStatuses
             /\ gate.task = action.task \/ IsNone(gate.task)
             /\ state.checkpoint = "passed" =>
                  action.type # "checkpoint" \/ action.receipt # state.receipt
  <2>1. /\ Registered(files, action.task)
        /\ TaskEntry(files, action.task).status \notin TerminalStatuses
        /\ gate.task = action.task \/ IsNone(gate.task)
    BY <1>1, <1>3 DEF StaleNextAction
  <2>2. PICK i \in DOMAIN files["TASK_REGISTRY"].entries :
          /\ files["TASK_REGISTRY"].entries[i].task = action.task
          /\ files["TASK_REGISTRY"].entries[i] = TaskEntry(files, action.task)
    BY <2>1, TaskEntryIsOne
  <2>3. ASSUME state.checkpoint = "passed", action.type = "checkpoint",
               action.receipt = state.receipt
        PROVE  FALSE
    <3>1. IsNone(action.receipt)
      BY <1>1, <2>3 DEF PostCheckpointNextAction
    <3>2. IsNone(state.receipt)
      BY <2>3, <3>1
    <3> QED BY <1>1, <2>3, <3>1, <3>2 DEF CheckpointReceipt
  <2> QED BY <2>1, <2>2, <2>3
<1> QED BY <1>2, <1>3 DEF NextActionDispatchable

LEMMA AccountedFor ==
  ASSUME TypeOK, LintInv, code = "ok", files = seen
  PROVE  ResultsAccountedFor
<1> SUFFICES ASSUME NEW r \in DOMAIN results \ touched, results[r] # Missing
             PROVE  /\ Readable(results[r])
                    /\ \/ Registered(files, Field(results[r], "TASK_ID"))
                       \/ IsHistoricalOrWaived(results[r].doc)
                    /\ events # Unreadable
                    /\ Terminated(events, Field(results[r], "AGENT_INSTANCE_ID"))
  BY DEF ResultsAccountedFor
<1>1. /\ ~ResultRegistryTraceability(files, r)
      /\ ~AgentLifecycle(roll, r)
      /\ IF events = Unreadable THEN roll = {} ELSE roll \subseteq events
  BY PassedMeans DEF Untouched
<1>2. Readable(results[r])
  <2> SUFFICES ASSUME ~Readable(results[r]) PROVE FALSE
    OBVIOUS
  <2>1. IsNone(Content(r, "TASK_ID"))
    BY DEF Content, IsNone
  <2>2. ~IsHistoricalOrWaived([marks |-> Marks(r)])
    BY DEF IsHistoricalOrWaived, Marks
  <2> QED BY <1>1, <2>1, <2>2 DEF ResultRegistryTraceability
<1>3. ASSUME ~Registered(files, Field(results[r], "TASK_ID"))
      PROVE  IsHistoricalOrWaived(results[r].doc)
  <2>1. IsHistoricalOrWaived([marks |-> Marks(r)])
    BY <1>1, <1>2, <1>3 DEF ResultRegistryTraceability, Content
  <2>2. CASE Finished(results[r])
    BY <1>2, <2>1, <2>2 DEF IsHistoricalOrWaived, HasExplicitReason, Marks
  <2>3. CASE ~Finished(results[r])
    BY <2>1, <2>3 DEF IsHistoricalOrWaived, Marks
  <2> QED BY <2>2, <2>3
<1>4. Terminated(roll, Field(results[r], "AGENT_INSTANCE_ID"))
  BY <1>1, <1>2 DEF AgentLifecycle, LifecycleFields, Content
<1>5. events # Unreadable
  BY <1>1, <1>4 DEF Terminated, Of
<1>6. Terminated(events, Field(results[r], "AGENT_INSTANCE_ID"))
  BY <1>1, <1>4, <1>5 DEF Terminated, Of
<1> QED BY <1>2, <1>3, <1>5, <1>6

LEMMA StatusAgreesToo ==
  ASSUME DOMAIN files = ToSet(RuntimeFiles), \A f \in DOMAIN files : Readable(files[f]),
         ~RuntimeErrors(files)
  PROVE  StatusAgrees
<1>1. \A f \in {"PROJECT_STATE", "CURRENT_GATE", "NEXT_ACTION", "REPOSITORY_LOCK",
                "WORKSPACE_IDENTITY"} : Readable(files[f])
  BY RuntimeFilesFinite
<1>2. \A f \in {"PROJECT_STATE", "CURRENT_GATE", "NEXT_ACTION", "REPOSITORY_LOCK",
                "WORKSPACE_IDENTITY"} : \A k : S!Value(files[f], k) = files[f][k]
  BY <1>1 DEF Readable, S!Value
<1>3. S!PushAllowedValues(files) = Pushes(files)
  BY <1>2 DEF S!PushAllowedValues, Pushes
<1>4. ASSUME S!StatusFails(files), \A v \in Pushes(files) : v = NONE \/ ~IsNone(v)
      PROVE  FALSE
  <2>1. ~\E f \in DOMAIN files : files[f] = Unreadable
    BY DEF Readable
  <2>2. ~S!GateLeftOpen(files)
    BY <1>2 DEF S!GateLeftOpen, RuntimeErrors, CheckpointGate, Closed
  <2>3. Pushes(files) \ {NONE} = {v \in Pushes(files) : ~IsNone(v)}
    BY <1>4 DEF IsNone
  <2>4. ~\E v, w \in Pushes(files) \ {NONE} : v # w
    BY <2>3 DEF RuntimeErrors, PushAllowed
  <2> QED BY <1>3, <1>4, <2>1, <2>2, <2>4 DEF S!StatusFails
<1>5. ASSUME ~IsNone(S!TaskShown(files)), ~Halts(files["NEXT_ACTION"])
      PROVE  TaskEntry(files, S!TaskShown(files)).status \notin TerminalStatuses
  <2>1. S!TaskShown(files) = files["NEXT_ACTION"].task
    BY <1>2, <1>5 DEF S!TaskShown, IsNone
  <2> QED BY <1>5, <2>1 DEF RuntimeErrors, StaleNextAction
<1> QED BY <1>4, <1>5 DEF StatusAgrees

\* What a lint that exits with success promises, for all records, files and writes.
THEOREM PassedLintsHold == Spec => []PassedLintHolds
<1>1. TypeOK /\ LintInv => PassedLintHolds
  <2> SUFFICES ASSUME TypeOK, LintInv, code = "ok", files = seen
               PROVE  NextActionDispatchable /\ ResultsAccountedFor /\ StatusAgrees
    BY DEF PassedLintHolds
  <2>1. /\ DOMAIN files = ToSet(RuntimeFiles) /\ \A f \in DOMAIN files : Readable(files[f])
        /\ ~RuntimeErrors(files)
    BY PassedMeans
  <2>2. files["TASK_REGISTRY"] \in Versions["TASK_REGISTRY"]
    <3>1. "TASK_REGISTRY" \in DOMAIN files
      BY <2>1, RuntimeFilesFinite
    <3> QED BY <2>1, <3>1 DEF TypeOK, RecordsTypeOK, Contents, Readable
  <2> QED BY <2>1, <2>2, Dispatchable, AccountedFor, StatusAgreesToo
<1> QED BY <1>1, LintInvHolds, PTL

------------------------------------------------------------------------------
(***************************************************************************)
(* The archive.                                                            *)
(***************************************************************************)
\* What was read, judged.
Judged ==
  IF ArchiveErrors(Manifest(read)) THEN "failed"
  ELSE IF Inconclusive(Manifest(read)) THEN "warning" ELSE "passed"

JudgedInv ==
  /\ outcome \in {"failed", "warning", "passed"} =>
       phase \in {"report", "end"} /\ outcome = Judged
  /\ exit = "ok" => phase = "end" /\ outcome \in {"warning", "passed"}

LEMMA SameJudgement ==
  ASSUME UNCHANGED <<read, register, dirs, hashes>>
  PROVE  Judged' = Judged
<1>1. Manifest(read)' = Manifest(read)
  OBVIOUS
<1>2. Accepted(register)' = Accepted(register)
  OBVIOUS
<1>3. \A e, m : Lost(e, read, m)' = Lost(e, read, m)
  OBVIOUS
<1>4. \A d : PathExists(read.names, d)' = PathExists(read.names, d)
  OBVIOUS
<1> QED BY <1>1, <1>2, <1>3, <1>4 DEF Judged, ArchiveErrors, Inconclusive, CommitMismatch

LEMMA JudgedInit == Init => JudgedInv
BY DEF Init, ArchiveInit, ArchiveOff, JudgedInv

LEMMA JudgedStep == TypeOK /\ JudgedInv /\ [Next]_vars => JudgedInv'
<1> SUFFICES ASSUME TypeOK, JudgedInv, [Next]_vars PROVE JudgedInv'
  OBVIOUS
<1>1. CASE UNCHANGED <<read, register, dirs, hashes, phase, outcome, exit>>
  BY <1>1, SameJudgement DEF JudgedInv
<1>2. CASE ArchiveStep
  <2>1. CASE OpenArchive \/ ReadAccepted \/ ExpectDirs \/ ReadProjectHashes \/ ReadRegistryHashes
    <3>1. outcome' \notin {"failed", "warning", "passed"} /\ exit' # "ok"
      BY <2>1 DEF OpenArchive, ReadAccepted, ExpectDirs, ReadProjectHashes, ReadRegistryHashes, JudgedInv
    <3> QED BY <3>1 DEF JudgedInv
  <2>2. CASE Verify
    <3>1. outcome' = Judged /\ phase' = "report" /\ exit' # "ok"
          /\ UNCHANGED <<read, register, dirs, hashes>>
      BY <2>2 DEF Verify, Judged, JudgedInv
    <3> QED BY <3>1, SameJudgement DEF JudgedInv
  <2>3. CASE WriteArchiveReport
    <3>1. /\ phase' = "end" /\ UNCHANGED <<read, register, dirs, hashes, outcome>>
          /\ exit' = "ok" => outcome \in {"warning", "passed"}
      BY <2>3 DEF WriteArchiveReport, TypeOK, ArchiveTypeOK
    <3> QED BY <3>1, SameJudgement DEF JudgedInv
  <2> QED BY <1>2, <2>1, <2>2, <2>3 DEF ArchiveStep
<1> QED BY <1>1, <1>2
   DEF Next, RecordsNext, vars, archiveVars, RecordNext, Propose, ArchiveNext, PackArchive

\* A path taken for left out is named in the manifest, with a reason, last.
LEMMA ExcludedIsLeftOut ==
  ASSUME NEW path, IsExcluded(path, Exclusions(Manifest(read)))
  PROVE  Manifest(read) # Missing /\ LeftOut(path)
<1> DEFINE m == Manifest(read)
           name(i) == NormalizeMember(m.excluded[i].path)
           last(i) == ~\E k \in DOMAIN m.excluded : k > i /\ name(k) = name(i)
           chosen == {i \in DOMAIN m.excluded : last(i) /\ name(i) # << >>}
           at_(p) == CHOOSE i \in chosen : name(i) = p
<1>1. m # Missing
  <2> SUFFICES ASSUME m = Missing PROVE FALSE
    OBVIOUS
  <2>1. Exclusions(m) = << >> /\ DOMAIN << >> = {}
    BY DEF Exclusions
  <2> QED BY <2>1 DEF IsExcluded
<1>2. Exclusions(m) = [p \in {name(i) : i \in chosen} |-> m.excluded[at_(p)].reason]
  BY <1>1 DEF Exclusions
<1>3. PICK p \in {name(i) : i \in chosen} : m.excluded[at_(p)].reason # NONE /\ IsPrefix(p, path)
  <2> HIDE DEF m, name, chosen, at_
  <2>1. IsExcluded(path, Exclusions(m))
    BY DEF m
  <2> QED BY <1>2, <2>1 DEF IsExcluded
<1>4. at_(p) \in chosen /\ name(at_(p)) = p
  <2> HIDE DEF m, name, chosen
  <2>1. PICK i \in chosen : name(i) = p
    BY <1>3
  <2> QED BY <2>1
<1>5. /\ at_(p) \in DOMAIN m.excluded /\ last(at_(p))
  BY <1>4
<1>6. LeftOut(path)
  <2> HIDE DEF at_
  <2>1. /\ m.excluded[at_(p)].reason # NONE /\ IsPrefix(name(at_(p)), path)
        /\ ~\E k \in DOMAIN m.excluded : k > at_(p) /\ name(k) = name(at_(p))
    BY <1>3, <1>4, <1>5
  <2> QED BY <1>5, <2>1 DEF LeftOut
<1> QED BY <1>1, <1>6

\* What an archive verified with success holds, whatever was read, and when.
THEOREM VerifiedArchivesLoseNothing == Spec => []NoAcceptedArtifactIsLost
<1>1. JudgedInv => NoAcceptedArtifactIsLost
  <2> SUFFICES ASSUME JudgedInv, exit = "ok"
               PROVE  /\ Manifest(read) # Missing
                      /\ \A e \in Accepted(register) :
                           Unpacked(ArtifactRef(e)) \/ LeftOut(ArtifactRef(e))
                      /\ outcome = "passed" =>
                           /\ register # Missing
                           /\ hashes = {} \/ Manifest(read).commit \in hashes
    BY DEF NoAcceptedArtifactIsLost
  <2>1. ~ArchiveErrors(Manifest(read)) /\ (outcome = "passed" => ~Inconclusive(Manifest(read)))
    BY DEF JudgedInv, Judged
  <2>2. Manifest(read) # Missing
    BY <2>1 DEF ArchiveErrors
  <2>3. ASSUME NEW e \in Accepted(register)
        PROVE  Unpacked(ArtifactRef(e)) \/ LeftOut(ArtifactRef(e))
    <3>1. ~Lost(e, read, Manifest(read))
      BY <2>1 DEF ArchiveErrors
    <3>2. CASE PathExists(read.names, ArtifactRef(e))
      BY <3>2 DEF PathExists, Unpacked
    <3>3. CASE IsExcluded(ArtifactRef(e), Exclusions(Manifest(read)))
      BY <3>3, ExcludedIsLeftOut
    <3> QED BY <3>1, <3>2, <3>3 DEF Lost
  <2>4. ASSUME outcome = "passed"
        PROVE  register # Missing /\ (hashes = {} \/ Manifest(read).commit \in hashes)
    BY <2>1, <2>2, <2>4 DEF Inconclusive, ArchiveErrors, CommitMismatch, ArchiveCommitHash
  <2> QED BY <2>2, <2>3, <2>4
<1>2. Spec => []JudgedInv
  BY TypesAreKept, JudgedInit, JudgedStep, PTL DEF Spec
<1> QED BY <1>1, <1>2, PTL

------------------------------------------------------------------------------
(* The package *)

\* Where a judgement of the package is after some of its checks.
AfterWrapperVersion == {"markers", "registration", "tests", "makefile", "report", "end"}
AfterPyprojectVersion == {"wrapper version"} \cup AfterWrapperVersion
AfterVersioning == {"pyproject version"} \cup AfterPyprojectVersion
AfterGitignore == {"worktree", "paths", "versioning"} \cup AfterVersioning
AfterRoots == {"caches", "duplicates", "workflows", "readmes", "gitignore"} \cup AfterGitignore

\* It found nothing wrong up to now.
Clean == fault = "none" /\ answer \notin {"usage", "crash"}

\* What nobody may change for the index to stay clean.
IndexGuards == {"repository", "index", ".gitignore"}

\* All generated roots are ignored, for good.
IgnoresAll ==
  LET g == Part(".gitignore")
  IN  Readable(g) /\ g # Garbled /\ GeneratedRoots \subseteq g.ignored /\ g.reopened = {}

RouteInv ==
  /\ place = "worktree" => command = "checkpoint-preflight"
  /\ place \in {"paths", "versioning"} \cup (AfterVersioning \ {"report", "end"}) => command = "doctor"
  /\ place # "end" => answer = "none"
  /\ answer \in {"passed", "eligible"} => fault = "none"

IndexInv ==
  Clean /\ place \in AfterRoots =>
    /\ "repository" \in still => Git \in {"worktree", "outside"}
    /\ IndexGuards \subseteq still /\ Git = "worktree" /\ IgnoresAll => NothingGeneratedTracked

GitignoreInv ==
  Clean /\ place \in AfterGitignore /\ ".gitignore" \in still => ~GitignoreFlawed /\ Part(".gitignore") # Garbled

WorktreeInv ==
  /\ Clean /\ place \in {"report", "end"} /\ command = "checkpoint-preflight"
  /\ "repository" \in still
  =>
    Git \in {"worktree", "corrupt"}

VersionInv ==
  Clean /\ command = "doctor" =>
    /\ place \in AfterVersioning =>
         /\ active # NONE
         /\ "PACKAGE_VERSIONING.md" \in still => active = Part("PACKAGE_VERSIONING.md").version
    /\ place \in AfterPyprojectVersion /\ "pyproject.toml" \in still => ~OtherVersion("pyproject.toml")
    /\ place \in AfterWrapperVersion /\ "__init__.py" \in still => ~OtherVersion("__init__.py")

PackageInv == RouteInv /\ IndexInv /\ GitignoreInv /\ WorktreeInv /\ VersionInv

LEMMA PackageInvInit == Init => PackageInv
<1> SUFFICES ASSUME Init PROVE PackageInv
  OBVIOUS
<1>1. place \in {"off", "arguments", "."} /\ answer = "none"
  BY DEF Init, PackageOff, PackageInit
<1> QED
  BY <1>1 DEF PackageInv, RouteInv, IndexInv, GitignoreInv, WorktreeInv, VersionInv,
     AfterWrapperVersion, AfterPyprojectVersion, AfterVersioning, AfterGitignore, AfterRoots

\* What is read of the package does not change in a step of the command.
LEMMA SamePackage ==
  ASSUME UNCHANGED Surroundings
  PROVE  /\ Git' = Git /\ \A p : Part(p)' = Part(p)
         /\ GitignoreFlawed' = GitignoreFlawed /\ IgnoresAll' = IgnoresAll
         /\ NothingGeneratedTracked' = NothingGeneratedTracked
         /\ active' = active => \A p : OtherVersion(p)' = OtherVersion(p)
BY DEF Surroundings, Git, Part, GitignoreFlawed, Listed, IgnoresAll, NothingGeneratedTracked, OtherVersion

\* Nor, as far as it stands still, in a step of others, who add nothing to git
\* that is ignored.
LEMMA StandingPackage ==
  ASSUME PackageTypeOK, PackageWriter
  PROVE  /\ still' \subseteq still
         /\ "repository" \in still' => Git' = Git
         /\ \A p \in {".gitignore", "PACKAGE_VERSIONING.md", "pyproject.toml", "__init__.py"} :
              p \in still' => Part(p)' = Part(p)
         /\ "index" \in still' /\ IgnoresAll /\ NothingGeneratedTracked => NothingGeneratedTracked'
<1>1. CASE EditPart
  <2>1. PICK q \in Parts : /\ \E c \in PartContents(q) \ {parts[q]} : parts' = [parts EXCEPT ![q] = c]
                           /\ still' = {p \in still : p # q /\ q \notin Enclosing(p)}
    BY <1>1 DEF EditPart
  <2>2. still' \subseteq still /\ \A p \in still' : p # q /\ q \notin Enclosing(p)
    BY <2>1
  <2>3. \A p \in Parts : p # q => parts'[p] = parts[p]
    BY <2>1 DEF PackageTypeOK
  <2>4. "." \in Parts /\ "." \in Enclosing("repository")
    BY DEF Parts, Enclosing
  <2>5. "repository" \in still' => Git' = Git
    BY <1>1, <2>2, <2>3, <2>4 DEF Git, EditPart
  <2>6. ASSUME NEW p \in {".gitignore", "PACKAGE_VERSIONING.md", "pyproject.toml", "__init__.py"},
               p \in still'
        PROVE  Part(p)' = Part(p)
    <3>1. p \in Parts /\ Enclosing(p) \subseteq Parts
      BY DEF Parts, Texts, Enclosing, Directories
    <3>2. p # q /\ q \notin Enclosing(p)
      BY <2>2, <2>6
    <3>3. parts'[p] = parts[p] /\ \A x \in Enclosing(p) : parts'[x] = parts[x]
      BY <2>3, <3>1, <3>2
    <3> QED BY <3>3 DEF Part
  <2>7. NothingGeneratedTracked' = NothingGeneratedTracked
    BY <1>1 DEF EditPart, NothingGeneratedTracked
  <2> QED BY <2>2, <2>5, <2>6, <2>7
<1>2. CASE AddFile
  <2>1. UNCHANGED <<parts, repository, still>>
    BY <1>2 DEF AddFile
  <2>2. ASSUME IgnoresAll, NothingGeneratedTracked
        PROVE  NothingGeneratedTracked'
    <3>1. PICK f \in TrackedFiles \ tracked : ~Ignored(f) /\ tracked' = tracked \cup {f}
      BY <1>2 DEF AddFile
    <3>2. f.name = "plain" => f.root \notin GeneratedRoots
      BY <2>2, <3>1 DEF Ignored, IgnoresAll
    <3> QED BY <2>2, <3>1, <3>2 DEF NothingGeneratedTracked
  <2> QED BY <2>1, <2>2 DEF Git, Part
<1>3. CASE RemoveFile
  BY <1>3 DEF RemoveFile, Git, Part, NothingGeneratedTracked
<1>4. CASE CheckOut
  BY <1>4 DEF CheckOut, Git, Part
<1>5. CASE ChangeRepository
  BY <1>5 DEF ChangeRepository, Git, Part, NothingGeneratedTracked
<1> QED BY <1>1, <1>2, <1>3, <1>4, <1>5 DEF PackageWriter

LEMMA WritersKeepPackageInv ==
  ASSUME PackageTypeOK, PackageInv, PackageWriter
  PROVE  PackageInv'
<1>0. UNCHANGED <<command, place, fault, active, answer, leave>>
  BY DEF PackageWriter, Progress
<1>1. RouteInv'
  BY <1>0 DEF PackageInv, RouteInv
<1>2. SUFFICES ASSUME Clean' PROVE IndexInv' /\ GitignoreInv' /\ WorktreeInv' /\ VersionInv'
  BY <1>1 DEF PackageInv, IndexInv, GitignoreInv, WorktreeInv, VersionInv
<1>3. /\ Clean /\ still' \subseteq still
      /\ "repository" \in still' => Git' = Git
      /\ ".gitignore" \in still' => Part(".gitignore")' = Part(".gitignore")
      /\ "PACKAGE_VERSIONING.md" \in still' =>
           Part("PACKAGE_VERSIONING.md")' = Part("PACKAGE_VERSIONING.md")
      /\ "pyproject.toml" \in still' => Part("pyproject.toml")' = Part("pyproject.toml")
      /\ "__init__.py" \in still' => Part("__init__.py")' = Part("__init__.py")
      /\ "index" \in still' /\ IgnoresAll /\ NothingGeneratedTracked => NothingGeneratedTracked'
  BY <1>0, <1>2, StandingPackage DEF Clean
<1>4. /\ ".gitignore" \in still' => GitignoreFlawed' = GitignoreFlawed /\ IgnoresAll' = IgnoresAll
      /\ "pyproject.toml" \in still' =>
           OtherVersion("pyproject.toml")' = OtherVersion("pyproject.toml")
      /\ "__init__.py" \in still' => OtherVersion("__init__.py")' = OtherVersion("__init__.py")
  BY <1>0, <1>3 DEF GitignoreFlawed, Listed, IgnoresAll, OtherVersion
<1>5. IndexInv'
  BY <1>0, <1>3, <1>4 DEF PackageInv, IndexInv, IndexGuards
<1>6. GitignoreInv' /\ WorktreeInv'
  BY <1>0, <1>3, <1>4 DEF PackageInv, GitignoreInv, WorktreeInv
<1>7. VersionInv'
  BY <1>0, <1>3, <1>4 DEF PackageInv, VersionInv
<1> QED BY <1>5, <1>6, <1>7

LEMMA PackageStepKeepsInv ==
  ASSUME PackageTypeOK, PackageInv, PackageStep, UNCHANGED Surroundings
  PROVE  PackageInv'
<1> USE DEF PackageInv, RouteInv, IndexInv, GitignoreInv, WorktreeInv, VersionInv, Clean,
        AfterWrapperVersion, AfterPyprojectVersion, AfterVersioning, AfterGitignore, AfterRoots
<1>0. /\ Git' = Git /\ (\A p : Part(p)' = Part(p)) /\ still' = still
      /\ GitignoreFlawed' = GitignoreFlawed /\ IgnoresAll' = IgnoresAll
      /\ NothingGeneratedTracked' = NothingGeneratedTracked
      /\ active' = active => \A p : OtherVersion(p)' = OtherVersion(p)
  BY SamePackage DEF Surroundings
<1>1. CASE ParseArguments \/ CheckRoot
  BY <1>0, <1>1 DEF ParseArguments, CheckRoot, AfterInspection
<1>2. CASE ReadVersioning
  <2>1. CASE Undecodable("versioning", "PACKAGE_VERSIONING.md")
    BY <1>0, <2>1 DEF Undecodable
  <2>2. CASE ~Undecodable("versioning", "PACKAGE_VERSIONING.md")
    <3> DEFINE p == "PACKAGE_VERSIONING.md"
    <3>1. /\ place = "versioning" /\ Part(p) # Garbled /\ place' = "pyproject version"
          /\ Worsen(Lacks(p, {"tuple"}))
          /\ active' = IF Readable(Part(p)) THEN Part(p).version ELSE NONE
          /\ UNCHANGED <<command, answer, leave>>
      BY <1>2, <2>2 DEF ReadVersioning
    <3>2. ASSUME fault' = "none"
          PROVE  fault = "none" /\ active' # NONE /\ active' = Part(p).version
      <4>1. fault = "none" /\ ~Lacks(p, {"tuple"})
        BY <3>1, <3>2 DEF Worsen
      <4>2. Part(p) \in PartVersions[p]
        BY <3>1, <4>1, PartRead DEF Lacks, Parts, Texts
      <4> QED BY <3>1, <4>1, <4>2, VersioningAssumption DEF Lacks
    <3> QED BY <1>0, <3>1, <3>2
  <2> QED BY <2>1, <2>2
<1>3. CASE WritePackageReport
  <2>1. /\ place = "report" /\ place' = "end" /\ UNCHANGED <<command, fault, active>>
        /\ LayoutReport \/ StatusReport \/ LintReport \/ DoctorReport \/ PreflightReport
    BY <1>3 DEF WritePackageReport
  <2>2. answer' \in {"passed", "eligible"} => fault = "none"
    BY <2>1 DEF LayoutReport, StatusReport, LintReport, DoctorReport, PreflightReport, Judges, Says
  <2>3. RouteInv'
    BY <2>1, <2>2
  <2>4. IndexInv' /\ GitignoreInv'
    BY <1>0, <2>1
  <2>5. WorktreeInv' /\ VersionInv'
    BY <1>0, <2>1
  <2> QED BY <2>3, <2>4, <2>5
<1>4. CASE CheckDirectories
  BY <1>0, <1>4 DEF CheckDirectories, Inspect, Undecodable, ReadText, Worsen
<1>5. CASE CheckWrapper
  BY <1>0, <1>5 DEF CheckWrapper, Inspect, Undecodable, ReadText, Worsen
<1>6. CASE CheckPyproject
  BY <1>0, <1>6 DEF CheckPyproject, Inspect, Undecodable, ReadText, Worsen
<1>7. CASE ListGeneratedRoots
  <2>1. /\ place = "roots" /\ place' = "caches" /\ UNCHANGED <<command, active, answer, leave>>
        /\ fault' = "none" =>
             /\ fault = "none" /\ ~ListingFails
             /\ Git = "worktree" => ~\E f \in tracked : ListedUnderRoot(f)
    BY <1>7 DEF ListGeneratedRoots, Inspect, Worsen
  <2>2. fault' = "none" => Git \in {"worktree", "outside"}
    BY <2>1 DEF ListingFails, Git, PackageTypeOK, Repositories
  <2>3. fault' = "none" /\ Git = "worktree" => NothingGeneratedTracked
    BY <2>1 DEF NothingGeneratedTracked, ListedUnderRoot
  <2> QED BY <1>0, <2>1, <2>2, <2>3
<1>8. CASE ListCaches
  BY <1>0, <1>8 DEF ListCaches, Inspect, Undecodable, ReadText, Worsen
<1>9. CASE ListDuplicates
  BY <1>0, <1>9 DEF ListDuplicates, Inspect, Undecodable, ReadText, Worsen
<1>10. CASE CheckWorkflows
  BY <1>0, <1>10 DEF CheckWorkflows, Inspect, Undecodable, ReadText, Worsen
<1>11. CASE CheckReadmes
  BY <1>0, <1>11 DEF CheckReadmes, Inspect, Undecodable, ReadText, Worsen
<1>12. CASE CheckGitignore
  <2>1. CASE Undecodable("gitignore", ".gitignore")
    BY <1>0, <2>1 DEF Undecodable
  <2>2. CASE Part(".gitignore") # Garbled /\ Inspect("gitignore", AfterInspection, GitignoreFlawed)
    <3>1. /\ place = "gitignore" /\ place' = AfterInspection /\ UNCHANGED <<command, active, answer, leave>>
          /\ fault' = "none" => fault = "none" /\ ~GitignoreFlawed
      BY <2>2 DEF Inspect, Worsen
    <3>2. /\ place' = "worktree" => command = "checkpoint-preflight"
          /\ place' = "paths" => command = "doctor"
          /\ place' = "report" => command \notin {"doctor", "checkpoint-preflight"}
          /\ place' \in {"paths", "worktree", "report"}
      BY <3>1 DEF AfterInspection
    <3> QED BY <1>0, <2>2, <3>1, <3>2
  <2> QED BY <1>12, <2>1, <2>2 DEF CheckGitignore, ReadText
<1>13. CASE AskWorktree
  BY <1>0, <1>13 DEF AskWorktree, Inspect, Undecodable, ReadText, Worsen
<1>14. CASE CheckPackagePaths
  BY <1>0, <1>14 DEF CheckPackagePaths, Inspect, Undecodable, ReadText, Worsen
<1>15. CASE CompareVersions
  BY <1>0, <1>15 DEF CompareVersions, Inspect, Undecodable, ReadText, Worsen
<1>16. CASE CheckMarkers
  BY <1>0, <1>16 DEF CheckMarkers, Inspect, Undecodable, ReadText, Worsen
<1>17. CASE CheckRegistration
  BY <1>0, <1>17 DEF CheckRegistration, Inspect, Undecodable, ReadText, Worsen
<1>18. CASE CheckTests
  BY <1>0, <1>18 DEF CheckTests, Inspect, Undecodable, ReadText, Worsen
<1>19. CASE CheckMakefile
  BY <1>0, <1>19 DEF CheckMakefile, Inspect, Undecodable, ReadText, Worsen
<1> QED BY <1>1, <1>2, <1>3, <1>4, <1>5, <1>6, <1>7, <1>8, <1>9, <1>10, <1>11, <1>12, <1>13, <1>14, <1>15, <1>16, <1>17, <1>18, <1>19 DEF PackageStep

LEMMA PackageInvStep == TypeOK /\ PackageInv /\ [Next]_vars => PackageInv'
<1> SUFFICES ASSUME TypeOK, PackageInv, [Next]_vars PROVE PackageInv'
  OBVIOUS
<1>0. PackageTypeOK
  BY DEF TypeOK
<1>1. CASE PackageNext
  <2>1. CASE PackageStep /\ UNCHANGED Surroundings
    BY <1>0, <2>1, PackageStepKeepsInv
  <2>2. CASE PackageWriter
    BY <1>0, <2>2, WritersKeepPackageInv
  <2> QED BY <1>1, <2>1, <2>2 DEF PackageNext
<1>2. CASE UNCHANGED packageVars
  <2>1. /\ UNCHANGED Surroundings
        /\ UNCHANGED <<command, place, fault, active, answer, leave>>
    BY <1>2 DEF packageVars, Surroundings
  <2> QED BY <2>1, SamePackage
          DEF PackageInv, RouteInv, IndexInv, GitignoreInv, WorktreeInv, VersionInv, Clean, Surroundings
<1> QED BY <1>1, <1>2 DEF Next, vars

\* What a package that passed is worth, whatever is done to it meanwhile and later.
THEOREM PassedPackagesHold == Spec => []PassedPackageHolds
<1>1. PackageInv /\ PackageTypeOK => PassedPackageHolds
  <2> SUFFICES ASSUME PackageInv, PackageTypeOK, answer \in {"passed", "eligible"}
               PROVE  PassedPackageHolds
    BY DEF PassedPackageHolds
  <2>1. Clean /\ place = "end"
    BY DEF PackageInv, RouteInv, Clean
  <2>2. /\ "repository" \in still => Git \in {"worktree", "outside"}
        /\ IndexGuards \subseteq still /\ Git = "worktree" /\ IgnoresAll => NothingGeneratedTracked
    BY <2>1 DEF PackageInv, IndexInv, AfterRoots, AfterGitignore, AfterVersioning,
       AfterPyprojectVersion, AfterWrapperVersion
  <2>3. ".gitignore" \in still => ~GitignoreFlawed /\ Part(".gitignore") # Garbled
    BY <2>1 DEF PackageInv, GitignoreInv, AfterGitignore, AfterVersioning,
       AfterPyprojectVersion, AfterWrapperVersion
  <2>4. command = "checkpoint-preflight" /\ "repository" \in still => Git \in {"worktree", "corrupt"}
    BY <2>1 DEF PackageInv, WorktreeInv
  <2>5. ASSUME command = "doctor", NEW p \in {"pyproject.toml", "__init__.py"},
               {"PACKAGE_VERSIONING.md", p} \subseteq still
        PROVE  VersionAgrees(p)
    <3>1. active # NONE /\ active = Part("PACKAGE_VERSIONING.md").version
      BY <2>1, <2>5 DEF PackageInv, VersionInv, AfterVersioning, AfterPyprojectVersion,
         AfterWrapperVersion
    <3>2. ~OtherVersion(p)
      BY <2>1, <2>5 DEF PackageInv, VersionInv, AfterPyprojectVersion, AfterWrapperVersion
    <3> QED BY <3>1, <3>2 DEF VersionAgrees, OtherVersion
  <2>6. ASSUME ".gitignore" \in still, Part(".gitignore").reopened = {},
               Part(".gitignore").literal = {}
        PROVE  IgnoresAll
    BY <2>3, <2>6 DEF GitignoreFlawed, Listed, IgnoresAll
  <2> QED BY <2>2, <2>4, <2>5, <2>6 DEF PassedPackageHolds, IndexGuards
<1>2. Spec => [](TypeOK /\ PackageInv)
  BY TypeInit, TypeStep, PackageInvInit, PackageInvStep, PTL DEF Spec
<1>3. TypeOK => PackageTypeOK
  BY DEF TypeOK
<1> QED BY <1>1, <1>2, <1>3, PTL

==============================================================================
