------------------------- MODULE CheckpointGateProofs -------------------------
(***************************************************************************)
(* What the commands of CheckpointGate guarantee, for every set of tasks,  *)
(* every state the files can be in and any number of writes during a       *)
(* command.                                                                *)
(*                                                                         *)
(* The argument: a file nobody wrote since the command started still reads *)
(* as it did in both passes (Seen), and what was said follows from what    *)
(* was read (Said).  The properties are then facts about the verdict       *)
(* operators.                                                              *)
(***************************************************************************)
EXTENDS CheckpointGate, TLAPS

Seen ==
  \A i \in 1 .. 6 :
    Order[i] \in stable =>
      /\ at >= i => first[Order[i]] = disk[Order[i]]
      /\ at >= i + 6 => second[Order[i]] = disk[Order[i]]

Said ==
  \/ verdict = NoVerdict
  \/ /\ at = 12
     /\ \/ \E strict, rules \in BOOLEAN : verdict = PlanVerdict(strict, rules, first, second)
        \/ \E strict \in BOOLEAN : verdict = PreflightVerdict(strict, first, second)

\* What was read of a file was one of its versions.
Complete ==
  \A i \in 1 .. 6 :
    /\ at >= i => first[Order[i]] \in Versions[Order[i]]
    /\ at >= i + 6 => second[Order[i]] \in Versions[Order[i]]

IInv == TypeOK /\ Seen /\ Said

------------------------------------------------------------------------------
\* The sidecars are read in a fixed order, each once in a pass.
LEMMA Orders ==
  /\ \A i \in 1 .. 6 : Order[i] \in Files
  /\ \A f \in Files : \E i \in 1 .. 6 : f = Order[i]
  /\ \A i, j \in 1 .. 6 : Order[i] = Order[j] => i = j
<1>1. /\ Order[1] = "PROJECT_STATE" /\ Order[2] = "CURRENT_GATE"
      /\ Order[3] = "NEXT_ACTION" /\ Order[4] = "TASK_REGISTRY"
      /\ Order[5] = "ACCEPTED_ARTIFACTS" /\ Order[6] = "WORKSPACE_IDENTITY"
  BY DEF Order
<1>2. \A i \in 1 .. 6 : i \in {1, 2, 3, 4, 5, 6}
  OBVIOUS
<1>3. \A i, j \in 1 .. 6 : Order[i] = Order[j] => i = j
  BY <1>1, <1>2
<1> QED BY <1>3 DEF Files

\* The names the verdicts use are sidecars.
LEMMA Names ==
  /\ "PROJECT_STATE" \in Files /\ "CURRENT_GATE" \in Files
  /\ "NEXT_ACTION" \in Files /\ "TASK_REGISTRY" \in Files
  /\ "ACCEPTED_ARTIFACTS" \in Files /\ "WORKSPACE_IDENTITY" \in Files
<1>1. /\ Order[1] = "PROJECT_STATE" /\ Order[2] = "CURRENT_GATE"
      /\ Order[3] = "NEXT_ACTION" /\ Order[4] = "TASK_REGISTRY"
      /\ Order[5] = "ACCEPTED_ARTIFACTS" /\ Order[6] = "WORKSPACE_IDENTITY"
  BY DEF Order
<1> QED BY <1>1, Orders, 1 \in 1 .. 6, 2 \in 1 .. 6, 3 \in 1 .. 6, 4 \in 1 .. 6,
           5 \in 1 .. 6, 6 \in 1 .. 6

LEMMA FilesList ==
  Files = {"PROJECT_STATE", "CURRENT_GATE", "NEXT_ACTION", "TASK_REGISTRY",
           "ACCEPTED_ARTIFACTS", "WORKSPACE_IDENTITY"}
<1>1. /\ Order[1] = "PROJECT_STATE" /\ Order[2] = "CURRENT_GATE"
      /\ Order[3] = "NEXT_ACTION" /\ Order[4] = "TASK_REGISTRY"
      /\ Order[5] = "ACCEPTED_ARTIFACTS" /\ Order[6] = "WORKSPACE_IDENTITY"
  BY DEF Order
<1>2. \A i : i \in 1 .. 6 <=> i \in {1, 2, 3, 4, 5, 6}
  OBVIOUS
<1> QED BY <1>1, <1>2 DEF Files

\* Whatever is recommended is one of the recommendations.
LEMMA RecommendedType ==
  ASSUME NEW strict, NEW v, NEW w
  PROVE  Recommended(strict, v, w) \in Recommendations
<1>1. \A n : RecommendedForActionType(n) \in Recommendations
  BY DEF RecommendedForActionType, Recommendations
<1>2. Route(strict, v, w) \in {"incident", "owner", "checkpoint", "unaudited",
                               "unverified", "wait", "act"}
  BY DEF Route
<1> HIDE DEF Route, RecommendedForActionType
<1> QED BY <1>1, <1>2 DEF Recommended, Recommendations

LEMMA VerdictTypes ==
  ASSUME NEW strict \in BOOLEAN, NEW rules \in BOOLEAN
  PROVE  /\ PlanVerdict(strict, rules, first, second) \in Verdicts
         /\ PreflightVerdict(strict, first, second) \in Verdicts
<1>1. Recommended(strict, first, second) \in Recommendations
  BY RecommendedType
<1>2. Ready(strict, first, second, rules) \in BOOLEAN
  BY DEF Ready
<1>3. Eligible(strict, first, second) \in BOOLEAN
  BY DEF Eligible
<1>4. "NONE" \in Recommendations
  BY DEF Recommendations
<1> QED BY <1>1, <1>2, <1>3, <1>4 DEF PlanVerdict, PreflightVerdict, Verdicts

------------------------------------------------------------------------------
\* A workspace has one of its versions in each file.
LEMMA WorkspaceType ==
  ASSUME NEW d \in Workspaces
  PROVE  DOMAIN d = Files /\ \A f \in Files : d[f] \in Versions[f]
<1>1. PICK p \in Versions["PROJECT_STATE"], g \in Versions["CURRENT_GATE"],
           n \in Versions["NEXT_ACTION"], t \in Versions["TASK_REGISTRY"],
           r \in Versions["ACCEPTED_ARTIFACTS"],
           w \in Versions["WORKSPACE_IDENTITY"] :
        d = [PROJECT_STATE |-> p, CURRENT_GATE |-> g, NEXT_ACTION |-> n,
             TASK_REGISTRY |-> t, ACCEPTED_ARTIFACTS |-> r,
             WORKSPACE_IDENTITY |-> w]
  BY DEF Workspaces, Combinations
<1>2. Files = {"PROJECT_STATE", "CURRENT_GATE", "NEXT_ACTION", "TASK_REGISTRY",
               "ACCEPTED_ARTIFACTS", "WORKSPACE_IDENTITY"}
  BY FilesList
<1> QED BY <1>1, <1>2

\* The idle states satisfy the invariant.
LEMMA InitIInv == Init => IInv
<1> SUFFICES ASSUME Init PROVE IInv
  OBVIOUS
<1>1. NoVerdict \in Verdicts
  BY DEF NoVerdict, Recommendations, Verdicts
<1>2. TypeOK
  BY <1>1, WorkspaceType, MaxWritesAssumption DEF Init, Idle, TypeOK
<1>3. Seen
  BY DEF Init, Idle, Seen
<1>4. Said
  BY DEF Init, Idle, Said
<1> QED BY <1>2, <1>3, <1>4 DEF IInv

\* A command that only started with at < 12 has said nothing.
LEMMA SilentBefore == ASSUME IInv, at # 12 PROVE verdict = NoVerdict
BY DEF IInv, Said

\* Every step keeps the invariant.
LEMMA NextIInv == IInv /\ [Next]_vars => IInv'
<1> SUFFICES ASSUME IInv, [Next]_vars PROVE IInv'
  OBVIOUS
<1> USE DEF IInv
<1>1. CASE Verify
  <2>1. /\ at \in 0 .. 5 /\ at' = at + 1 /\ at + 1 \in 1 .. 6
    BY <1>1 DEF Verify, TypeOK
  <2>2. Order[at + 1] \in Files
    BY <2>1, Orders
  <2>3. TypeOK'
    BY <1>1, <2>1, <2>2 DEF Verify, TypeOK
  <2>4. Seen'
    <3> SUFFICES ASSUME NEW i \in 1 .. 6, Order[i] \in stable
                 PROVE  /\ at' >= i => first'[Order[i]] = disk[Order[i]]
                        /\ at' >= i + 6 => second[Order[i]] = disk[Order[i]]
      BY <1>1 DEF Verify, Seen
    <3>1. CASE i = at + 1
      BY <1>1, <2>1, <2>2, <3>1 DEF Verify, TypeOK
    <3>2. CASE i # at + 1
      <4>1. Order[i] # Order[at + 1]
        BY <2>1, <3>2, Orders
      <4>2. first'[Order[i]] = first[Order[i]]
        BY <1>1, <4>1, Orders DEF Verify, TypeOK
      <4>3. at' >= i => at >= i
        BY <2>1, <3>2
      <4> QED BY <4>2, <4>3, <2>1 DEF Seen
    <3> QED BY <3>1, <3>2
  <2>5. Said'
    BY <1>1, <2>1, SilentBefore DEF Verify, Said
  <2> QED BY <2>3, <2>4, <2>5
<1>2. CASE Load
  <2>1. /\ at \in 6 .. 11 /\ at' = at + 1 /\ at - 5 \in 1 .. 6
    BY <1>2 DEF Load, TypeOK
  <2>2. Order[at - 5] \in Files
    BY <2>1, Orders
  <2>3. TypeOK'
    BY <1>2, <2>1, <2>2 DEF Load, TypeOK
  <2>4. Seen'
    <3> SUFFICES ASSUME NEW i \in 1 .. 6, Order[i] \in stable
                 PROVE  /\ at' >= i => first[Order[i]] = disk[Order[i]]
                        /\ at' >= i + 6 => second'[Order[i]] = disk[Order[i]]
      BY <1>2 DEF Load, Seen
    <3>0. first[Order[i]] = disk[Order[i]]
      BY <2>1 DEF Seen
    <3>1. CASE i = at - 5
      BY <1>2, <2>1, <2>2, <3>0, <3>1 DEF Load, TypeOK
    <3>2. CASE i # at - 5
      <4>1. Order[i] # Order[at - 5]
        BY <2>1, <3>2, Orders
      <4>2. second'[Order[i]] = second[Order[i]]
        BY <1>2, <4>1, Orders DEF Load, TypeOK
      <4>3. at' >= i + 6 => at >= i + 6
        BY <2>1, <3>2
      <4> QED BY <4>2, <4>3, <3>0, <2>1 DEF Seen
    <3> QED BY <3>1, <3>2
  <2>5. Said'
    BY <1>2, <2>1, SilentBefore DEF Load, Said
  <2> QED BY <2>3, <2>4, <2>5
<1>3. ASSUME NEW strict \in BOOLEAN, NEW rules \in BOOLEAN, PlanNext(strict, rules)
      PROVE  IInv'
  <2>1. verdict' = PlanVerdict(strict, rules, first, second)
    BY <1>3 DEF PlanNext, PlanVerdict
  <2>2. UNCHANGED <<disk, at, first, second, stable, writes>> /\ at = 12
    BY <1>3 DEF PlanNext
  <2>3. TypeOK'
    BY <2>1, <2>2, VerdictTypes DEF TypeOK
  <2>4. Seen'
    BY <2>2 DEF Seen
  <2>5. PlanVerdict(strict, rules, first, second)' = PlanVerdict(strict, rules, first, second)
    BY <2>2 DEF PlanVerdict
  <2>6. Said'
    BY <2>1, <2>2, <2>5 DEF Said
  <2> QED BY <2>3, <2>4, <2>6
<1>4. ASSUME NEW strict \in BOOLEAN, CheckpointPreflight(strict)
      PROVE  IInv'
  <2>1. verdict' = PreflightVerdict(strict, first, second)
    BY <1>4 DEF CheckpointPreflight, PreflightVerdict
  <2>2. UNCHANGED <<disk, at, first, second, stable, writes>> /\ at = 12
    BY <1>4 DEF CheckpointPreflight
  <2>3. TypeOK'
    BY <2>1, <2>2, VerdictTypes DEF TypeOK
  <2>4. Seen'
    BY <2>2 DEF Seen
  <2>5. PreflightVerdict(strict, first, second)' = PreflightVerdict(strict, first, second)
    BY <2>2 DEF PreflightVerdict
  <2>6. Said'
    BY <2>1, <2>2, <2>5 DEF Said
  <2> QED BY <2>3, <2>4, <2>6
<1>5. CASE Exit
  <2>1. NoVerdict \in Verdicts
    BY DEF NoVerdict, Recommendations, Verdicts
  <2>2. TypeOK'
    BY <1>5, <2>1, MaxWritesAssumption DEF Exit, TypeOK
  <2>3. Seen'
    BY <1>5 DEF Exit, Seen
  <2>4. Said'
    BY <1>5 DEF Exit, Said
  <2> QED BY <2>2, <2>3, <2>4
<1>6. ASSUME NEW f \in Files, NEW s \in Versions[f], Write(f, s)
      PROVE  IInv'
  <2>1. /\ at \in 0 .. 11 /\ disk' = [disk EXCEPT ![f] = s]
        /\ UNCHANGED <<at, first, second, verdict>>
    BY <1>6 DEF Write, TypeOK
  <2>2. TypeOK'
    BY <1>6, <2>1, MaxWritesAssumption DEF Write, TypeOK
  <2>3. Seen'
    <3> SUFFICES ASSUME NEW i \in 1 .. 6, Order[i] \in stable'
                 PROVE  /\ at >= i => first[Order[i]] = disk'[Order[i]]
                        /\ at >= i + 6 => second[Order[i]] = disk'[Order[i]]
      BY <2>1 DEF Seen
    <3>1. CASE at = 0
      BY <3>1
    <3>2. CASE at > 0
      <4>1. Order[i] \in stable /\ Order[i] # f
        BY <1>6, <3>2 DEF Write, TypeOK
      <4>2. disk'[Order[i]] = disk[Order[i]]
        BY <2>1, <4>1, Orders DEF TypeOK
      <4> QED BY <4>1, <4>2 DEF Seen
    <3> QED BY <2>1, <3>1, <3>2
  <2>4. Said'
    BY <2>1, SilentBefore DEF Said
  <2> QED BY <2>2, <2>3, <2>4
<1>7. CASE UNCHANGED vars
  <2>1. UNCHANGED <<disk, at, first, second, verdict, stable, writes>>
    BY <1>7 DEF vars
  <2>2. TypeOK' /\ Seen'
    BY <2>1 DEF TypeOK, Seen
  <2>3. \A strict, rules \in BOOLEAN :
          /\ PlanVerdict(strict, rules, first, second)' = PlanVerdict(strict, rules, first, second)
          /\ PreflightVerdict(strict, first, second)' = PreflightVerdict(strict, first, second)
    BY <2>1 DEF PlanVerdict, PreflightVerdict
  <2>4. Said'
    BY <2>1, <2>3 DEF Said
  <2> QED BY <2>2, <2>4
<1> QED BY <1>1, <1>2, <1>3, <1>4, <1>5, <1>6, <1>7 DEF Next

\* In every state, files nobody wrote still read as they did, and what was
\* said follows from what was read.
THEOREM Inductive == Spec => []IInv
BY InitIInv, NextIInv, PTL DEF Spec

\* The command and the files stay within their types.
THEOREM TypeCorrect == Spec => []TypeOK
<1>1. IInv => TypeOK
  BY DEF IInv
<1> QED BY <1>1, Inductive, PTL

------------------------------------------------------------------------------
\* Once there is a verdict, both passes hold what an unwritten file holds.
LEMMA BothPasses ==
  ASSUME IInv, verdict # NoVerdict
  PROVE  /\ \A f \in stable : f \in Files => first[f] = disk[f] /\ second[f] = disk[f]
         /\ \/ \E strict, rules \in BOOLEAN : verdict = PlanVerdict(strict, rules, first, second)
            \/ \E strict \in BOOLEAN : verdict = PreflightVerdict(strict, first, second)
<1>1. /\ at = 12
      /\ \/ \E strict, rules \in BOOLEAN : verdict = PlanVerdict(strict, rules, first, second)
         \/ \E strict \in BOOLEAN : verdict = PreflightVerdict(strict, first, second)
  BY DEF IInv, Said
<1>2. ASSUME NEW f \in stable, f \in Files
      PROVE  first[f] = disk[f] /\ second[f] = disk[f]
  <2>1. PICK i \in 1 .. 6 : f = Order[i]
    BY <1>2, Orders
  <2>2. at >= i /\ at >= i + 6
    BY <1>1
  <2> QED BY <1>2, <2>1, <2>2 DEF IInv, Seen
<1> QED BY <1>1, <1>2

\* A good verdict is about a state in which the verification saw no error.
LEMMA GoodVerdict ==
  ASSUME IInv, verdict.ok
  PROVE  verdict # NoVerdict /\ ~Errors(first)
<1>1. verdict # NoVerdict
  BY DEF NoVerdict
<1>2. CASE \E strict, rules \in BOOLEAN : verdict = PlanVerdict(strict, rules, first, second)
  BY <1>1, <1>2 DEF PlanVerdict, Ready
<1>3. CASE \E strict \in BOOLEAN : verdict = PreflightVerdict(strict, first, second)
  BY <1>1, <1>3 DEF PreflightVerdict, Eligible
<1> QED BY <1>1, <1>2, <1>3, BothPasses

\* A file in which an incident's phase is recorded breaks its contract.
LEMMA IncidentPhaseIsFlawed ==
  ASSUME NEW s \in Versions["PROJECT_STATE"], s.content.incident_phase
  PROVE  s.health = "flawed"
<1>1. s \in Sidecar("PROJECT_STATE")
  BY VersionsAssumption, Names
<1> QED BY <1>1 DEF Sidecar

\* An incident on file in PROJECT_STATE or NEXT_ACTION, unwritten since the
\* command started, freezes plan and checkpoint alike.
THEOREM IncidentsFreeze == Spec => []StandingIncidentFreezes
<1>1. IInv => StandingIncidentFreezes
  <2> SUFFICES ASSUME IInv, verdict # NoVerdict,
                      NEW f \in stable \cap {"PROJECT_STATE", "NEXT_ACTION"},
                      \/ f = "PROJECT_STATE"
                         /\ \/ Of(disk, f).incident_phase
                            \/ "incident" \in Of(disk, f).blockers
                      \/ f = "NEXT_ACTION" /\ "incident" \in Of(disk, f).blocked_by
               PROVE  /\ ~verdict.ok
                      /\ verdict.tool = "plan-next" => verdict.recommended = "FREEZE"
    BY DEF StandingIncidentFreezes
  <2>1. first[f] = disk[f] /\ second[f] = disk[f] /\ f \in Files
    BY BothPasses, Names
  <2>2. HasIncident(second)
    BY <2>1 DEF HasIncident, ActiveBlockers, Of
  <2>3. \A strict : Route(strict, first, second) = "incident"
    BY <2>2 DEF Route
  <2>4. ASSUME NEW strict \in BOOLEAN, NEW rules \in BOOLEAN,
               verdict = PlanVerdict(strict, rules, first, second)
        PROVE  ~verdict.ok /\ verdict.recommended = "FREEZE"
    <3>1. Recommended(strict, first, second) = "FREEZE"
      BY <2>3 DEF Recommended
    <3>2. ~Ready(strict, first, second, rules)
      BY <2>3 DEF Ready
    <3> QED BY <2>4, <3>1, <3>2 DEF PlanVerdict
  <2>5. ASSUME NEW strict \in BOOLEAN, verdict = PreflightVerdict(strict, first, second)
        PROVE  ~verdict.ok /\ verdict.tool # "plan-next"
    <3>1. CASE f = "PROJECT_STATE" /\ Of(disk, f).incident_phase
      <4>1. disk[f] \in Versions["PROJECT_STATE"] /\ disk[f].content.incident_phase
        BY <2>1, <3>1 DEF IInv, TypeOK, Of
      <4>2. first[f].health = "flawed"
        BY <2>1, <4>1, IncidentPhaseIsFlawed
      <4>3. Errors(first)
        BY <2>1, <4>2 DEF Errors, FileErrors
      <4> QED BY <2>5, <4>3 DEF PreflightVerdict, Eligible
    <3>2. CASE ~(f = "PROJECT_STATE" /\ Of(disk, f).incident_phase)
      <4>1. "incident" \in ActiveBlockers(second)
        BY <2>1, <3>2 DEF ActiveBlockers, Of
      <4>2. ~Eligible(strict, first, second)
        BY <4>1 DEF Eligible
      <4> QED BY <2>5, <4>2 DEF PreflightVerdict
    <3> QED BY <3>1, <3>2
  <2> QED BY <2>4, <2>5, BothPasses
<1> QED BY <1>1, Inductive, PTL

\* With NEXT_ACTION and TASK_REGISTRY unwritten, a plan that is ready and a
\* checkpoint that is eligible concern a registered task.
THEOREM TasksAreKnown == Spec => []VerdictsConcernKnownTasks
<1>1. IInv => VerdictsConcernKnownTasks
  <2> SUFFICES ASSUME IInv, {"NEXT_ACTION", "TASK_REGISTRY"} \subseteq stable,
                      verdict.ok, Tasks(disk) # {}
               PROVE  Of(disk, "NEXT_ACTION").task_id \in Tasks(disk) \cup Nobody
    BY DEF VerdictsConcernKnownTasks
  <2>1. /\ first["NEXT_ACTION"] = disk["NEXT_ACTION"]
        /\ first["TASK_REGISTRY"] = disk["TASK_REGISTRY"]
    BY GoodVerdict, BothPasses, Names
  <2>2. Tasks(first) = Tasks(disk)
    BY <2>1 DEF Tasks, Of
  <2>3. ReferenceFindings(first) = {}
    BY GoodVerdict DEF Errors
  <2>4. Of(disk, "NEXT_ACTION").task_id \in References(first)
    BY <2>1 DEF References, Of
  <2> QED BY <2>2, <2>3, <2>4 DEF ReferenceFindings
<1> QED BY <1>1, Inductive, PTL

\* With the same two files unwritten, a checkpoint of a registered task goes
\* ahead only on the task's own audit.
THEOREM AuditsComeFirst == Spec => []CheckpointsRestOnTheTasksAudit
<1>1. IInv => CheckpointsRestOnTheTasksAudit
  <2> SUFFICES ASSUME IInv, {"NEXT_ACTION", "TASK_REGISTRY"} \subseteq stable,
                      verdict.ok, IsCheckpointAttempt(disk),
                      Of(disk, "NEXT_ACTION").task_id \in Tasks(disk)
               PROVE  LET t == Of(disk, "TASK_REGISTRY")
                                 [Of(disk, "NEXT_ACTION").task_id]
                      IN  \/ t.status \in {"audit_passed", "checkpoint_done",
                                           "completed"}
                          \/ t.audit_refs
    BY DEF CheckpointsRestOnTheTasksAudit, LetsCheckpoint
  <2>1. /\ first["NEXT_ACTION"] = disk["NEXT_ACTION"]
        /\ first["TASK_REGISTRY"] = disk["TASK_REGISTRY"]
    BY GoodVerdict, BothPasses, Names
  <2>2. /\ Of(first, "NEXT_ACTION") = Of(disk, "NEXT_ACTION")
        /\ Of(first, "TASK_REGISTRY") = Of(disk, "TASK_REGISTRY")
    BY <2>1 DEF Of
  <2>3. ~CheckpointFinding(first)
    BY GoodVerdict DEF Errors
  <2>4. IsCheckpointAttempt(first) /\ Tasks(first) = Tasks(disk)
    BY <2>2 DEF IsCheckpointAttempt, Tasks
  <2> QED BY <2>2, <2>3, <2>4 DEF CheckpointFinding
<1> QED BY <1>1, Inductive, PTL

\* On files nobody writes, a checkpoint the strict preflight makes eligible
\* is the one the planner asks for, unless a dependency is blocked.
THEOREM CommandsAgree == Spec => []PreflightAgreesWithPlan
<1>1. IInv => PreflightAgreesWithPlan
  <2> SUFFICES ASSUME IInv, stable = Files,
                      verdict.tool = "checkpoint-preflight", verdict.strict,
                      verdict.ok, ~Of(disk, "NEXT_ACTION").dependency_blocked,
                      NEW strict \in BOOLEAN
               PROVE  /\ Recommended(strict, disk, disk) = "CHECKPOINT_PREFLIGHT"
                      /\ Ready(strict, disk, disk, TRUE)
    BY DEF PreflightAgreesWithPlan
  <2>1. \A f \in Files : first[f] = disk[f] /\ second[f] = disk[f]
    BY GoodVerdict, BothPasses
  <2>2. \A f \in Files : Of(first, f) = Of(disk, f) /\ Of(second, f) = Of(disk, f)
    BY <2>1 DEF Of
  <2>3. PICK s \in BOOLEAN : verdict = PreflightVerdict(s, first, second)
    <3>1. \A x, rules \in BOOLEAN : PlanVerdict(x, rules, first, second).tool # "checkpoint-preflight"
      BY DEF PlanVerdict
    <3> QED BY <3>1, GoodVerdict, BothPasses
  <2>4. s = TRUE /\ Eligible(TRUE, first, second)
    BY <2>3 DEF PreflightVerdict
  <2>5. /\ AuditPassEvidence(disk)
        /\ ActiveBlockers(disk) = {}
        /\ IsCheckpointAttempt(disk)
    BY <2>2, <2>4, Names
    DEF Eligible, AuditPassEvidence, ActiveBlockers, IsCheckpointAttempt, Tasks
  <2>6. ~Errors(disk)
    <3>1. ~Errors(first)
      BY <2>4 DEF Eligible
    <3>2. FileErrors(disk) = {}
      BY <2>1, <3>1 DEF Errors, FileErrors
    <3>3. ReferenceFindings(disk) = {}
      BY <2>2, <3>1, Names DEF Errors, ReferenceFindings, References, Tasks
    <3>4. ~CheckpointFinding(disk)
      BY <2>2, <3>1, Names
      DEF Errors, CheckpointFinding, IsCheckpointAttempt, Tasks
    <3> QED BY <3>2, <3>3, <3>4 DEF Errors
  <2>7. ~HasIncident(disk)
    <3>1. ~Of(disk, "PROJECT_STATE").incident_phase
      <4> SUFFICES ASSUME Of(disk, "PROJECT_STATE").incident_phase PROVE FALSE
        OBVIOUS
      <4>1. disk["PROJECT_STATE"] \in Versions["PROJECT_STATE"]
        BY Names DEF IInv, TypeOK
      <4>2. disk["PROJECT_STATE"].health = "flawed"
        BY <4>1, IncidentPhaseIsFlawed DEF Of
      <4> QED BY <2>6, <4>2, Names DEF Errors, FileErrors
    <3> QED BY <2>5, <3>1 DEF HasIncident
  <2>8. ~HasOwnerOrGapBlocker(disk)
    BY <2>5 DEF HasOwnerOrGapBlocker
  <2>9. Route(strict, disk, disk) = "checkpoint"
    BY <2>5, <2>7, <2>8 DEF Route
  <2>10. Recommended(strict, disk, disk) = "CHECKPOINT_PREFLIGHT"
    BY <2>9 DEF Recommended
  <2> QED BY <2>6, <2>9, <2>10 DEF Ready
<1> QED BY <1>1, Inductive, PTL

------------------------------------------------------------------------------
(* A command implements one judgement. *)

\* Six files, each in one of the versions it may show.
LEMMA Combined ==
  ASSUME NEW V, NEW x, x = [f \in Files |-> x[f]],
         \A f \in Files : x[f] \in V[f]
  PROVE  x \in Combinations(V)
<1>1. Files = {"PROJECT_STATE", "CURRENT_GATE", "NEXT_ACTION", "TASK_REGISTRY",
               "ACCEPTED_ARTIFACTS", "WORKSPACE_IDENTITY"}
  BY FilesList
<1>2. x = [PROJECT_STATE |-> x["PROJECT_STATE"], CURRENT_GATE |-> x["CURRENT_GATE"],
           NEXT_ACTION |-> x["NEXT_ACTION"], TASK_REGISTRY |-> x["TASK_REGISTRY"],
           ACCEPTED_ARTIFACTS |-> x["ACCEPTED_ARTIFACTS"],
           WORKSPACE_IDENTITY |-> x["WORKSPACE_IDENTITY"]]
  BY <1>1
<1>3. /\ x["PROJECT_STATE"] \in V["PROJECT_STATE"]
      /\ x["CURRENT_GATE"] \in V["CURRENT_GATE"]
      /\ x["NEXT_ACTION"] \in V["NEXT_ACTION"]
      /\ x["TASK_REGISTRY"] \in V["TASK_REGISTRY"]
      /\ x["ACCEPTED_ARTIFACTS"] \in V["ACCEPTED_ARTIFACTS"]
      /\ x["WORKSPACE_IDENTITY"] \in V["WORKSPACE_IDENTITY"]
  BY Names
<1> QED BY <1>2, <1>3 DEF Combinations

\* At first nothing was read.
LEMMA InitComplete == Init => Complete
BY DEF Init, Idle, Complete

\* Reading a file yields the version it has.
LEMMA NextComplete == IInv /\ Complete /\ [Next]_vars => Complete'
<1> SUFFICES ASSUME IInv, Complete, [Next]_vars,
                    NEW i \in 1 .. 6
             PROVE  /\ at' >= i => first'[Order[i]] \in Versions[Order[i]]
                    /\ at' >= i + 6 => second'[Order[i]] \in Versions[Order[i]]
  BY DEF Complete
<1>0. Order[i] \in Files /\ disk[Order[i]] \in Versions[Order[i]]
  BY Orders DEF IInv, TypeOK
<1>1. CASE Verify
  <2>1. /\ at \in 0 .. 5 /\ at' = at + 1 /\ at + 1 \in 1 .. 6
        /\ first' = [first EXCEPT ![Order[at + 1]] = disk[Order[at + 1]]]
    BY <1>1 DEF Verify, IInv, TypeOK
  <2>2. first'[Order[i]] = IF i = at + 1 THEN disk[Order[i]] ELSE first[Order[i]]
    BY <1>0, <2>1, Orders DEF IInv, TypeOK
  <2>3. i # at + 1 /\ at' >= i => at >= i
    BY <2>1
  <2> QED BY <1>0, <2>1, <2>2, <2>3 DEF Complete
<1>2. CASE Load
  <2>1. /\ at \in 6 .. 11 /\ at' = at + 1 /\ at - 5 \in 1 .. 6
        /\ second' = [second EXCEPT ![Order[at - 5]] = disk[Order[at - 5]]]
        /\ first' = first
    BY <1>2 DEF Load, IInv, TypeOK
  <2>2. second'[Order[i]] = IF i = at - 5 THEN disk[Order[i]] ELSE second[Order[i]]
    BY <1>0, <2>1, Orders DEF IInv, TypeOK
  <2>3. i # at - 5 /\ at' >= i + 6 => at >= i + 6
    BY <2>1
  <2>4. at >= i
    BY <2>1
  <2> QED BY <1>0, <2>1, <2>2, <2>3, <2>4 DEF Complete
<1>3. CASE Exit
  BY <1>3 DEF Exit
<1>4. CASE UNCHANGED <<at, first, second>>
  BY <1>4 DEF Complete
<1>5. \/ Verify \/ Load \/ Exit
      \/ UNCHANGED <<at, first, second>>
  BY DEF Next, PlanNext, CheckpointPreflight, Write, vars
<1> QED BY <1>1, <1>2, <1>3, <1>4, <1>5

LEMMA SameCombinations ==
  ASSUME NEW V
  PROVE  J!Combinations(V) = Combinations(V)
<1>1. \A x : x \in J!Combinations(V) <=> x \in Combinations(V)
  BY DEF J!Combinations, Combinations
<1> QED BY <1>1

\* Both passes are views in the sense of the judgement.
LEMMA PassesAreViews ==
  ASSUME IInv, Complete, at = 12
  PROVE  first \in J!Views /\ second \in J!Views
<1>1. ASSUME NEW f \in Files
      PROVE  first[f] \in J!Seen(f) /\ second[f] \in J!Seen(f)
  <2>1. PICK i \in 1 .. 6 : f = Order[i]
    BY Orders
  <2>2. at >= i /\ at >= i + 6
    OBVIOUS
  <2>3. first[f] \in Versions[f] /\ second[f] \in Versions[f]
    BY <2>1, <2>2 DEF Complete
  <2>4. f \in stable => first[f] = disk[f] /\ second[f] = disk[f]
    BY <2>1, <2>2 DEF IInv, Seen
  <2> QED BY <2>3, <2>4 DEF J!Seen
<1> DEFINE V == [f \in Files |-> J!Seen(f)]
<1>2. \A f \in Files : first[f] \in V[f] /\ second[f] \in V[f]
  BY <1>1
<1>3. first = [f \in Files |-> first[f]] /\ second = [f \in Files |-> second[f]]
  BY DEF IInv, TypeOK
<1> HIDE DEF V
<1>4. first \in Combinations(V) /\ second \in Combinations(V)
  BY <1>2, <1>3, Combined
<1>5. J!Files = Files
  BY Zenon DEF J!Files, Files, J!Order, Order
<1>6. J!Combinations(V) = Combinations(V)
  BY SameCombinations
<1>7. J!Views = J!Combinations(V)
  BY <1>5 DEF J!Views, V
<1> QED BY <1>4, <1>6, <1>7

\* The judgement's verdicts are the commands'.
LEMMA SameVerdicts ==
  ASSUME NEW strict, NEW rules, NEW v, NEW w
  PROVE  /\ J!PlanVerdict(strict, rules, v, w) = PlanVerdict(strict, rules, v, w)
         /\ J!PreflightVerdict(strict, v, w) = PreflightVerdict(strict, v, w)
<1>1. J!Route(strict, v, w) = Route(strict, v, w)
  BY Zenon
  DEF Recommended, Route, Ready, Errors, VerifyFails, FileErrors, FileWarnings,
      ReferenceFindings, References, CheckpointFinding, IsCheckpointAttempt,
      HasIncident, HasOwnerOrGapBlocker, ActiveBlockers, AuditPassEvidence,
      RecommendedForActionType, Tasks, Of, Nobody, Files, Order, J!Recommended,
      J!Route, J!Ready, J!Errors, J!VerifyFails, J!FileErrors, J!FileWarnings,
      J!ReferenceFindings, J!References, J!CheckpointFinding, J!IsCheckpointAttempt,
      J!HasIncident, J!HasOwnerOrGapBlocker, J!ActiveBlockers, J!AuditPassEvidence,
      J!RecommendedForActionType, J!Tasks, J!Of, J!Nobody, J!Files, J!Order
<1>2. J!Errors(v) = Errors(v)
  BY Zenon
  DEF Recommended, Route, Ready, Errors, VerifyFails, FileErrors, FileWarnings,
      ReferenceFindings, References, CheckpointFinding, IsCheckpointAttempt,
      HasIncident, HasOwnerOrGapBlocker, ActiveBlockers, AuditPassEvidence,
      RecommendedForActionType, Tasks, Of, Nobody, Files, Order, J!Recommended,
      J!Route, J!Ready, J!Errors, J!VerifyFails, J!FileErrors, J!FileWarnings,
      J!ReferenceFindings, J!References, J!CheckpointFinding, J!IsCheckpointAttempt,
      J!HasIncident, J!HasOwnerOrGapBlocker, J!ActiveBlockers, J!AuditPassEvidence,
      J!RecommendedForActionType, J!Tasks, J!Of, J!Nobody, J!Files, J!Order
<1> QED BY Zenon
  DEF Recommended, Route, Ready, Errors, VerifyFails, FileErrors, FileWarnings,
      ReferenceFindings, References, CheckpointFinding, IsCheckpointAttempt,
      HasIncident, HasOwnerOrGapBlocker, ActiveBlockers, AuditPassEvidence,
      RecommendedForActionType, Tasks, Of, Nobody, Files, Order, J!Recommended,
      J!Route, J!Ready, J!Errors, J!VerifyFails, J!FileErrors, J!FileWarnings,
      J!ReferenceFindings, J!References, J!CheckpointFinding, J!IsCheckpointAttempt,
      J!HasIncident, J!HasOwnerOrGapBlocker, J!ActiveBlockers, J!AuditPassEvidence,
      J!RecommendedForActionType, J!Tasks, J!Of, J!Nobody, J!Files, J!Order,
      PlanVerdict, J!PlanVerdict, Eligible, J!Eligible, PreflightVerdict,
      J!PreflightVerdict

\* Every step of a command is a step of the judgement, or none.
LEMMA NextJudges ==
  IInv /\ Complete /\ [Next]_vars => [J!Next]_(J!vars)
<1> SUFFICES ASSUME IInv, Complete, [Next]_vars PROVE [J!Next]_(J!vars)
  OBVIOUS
<1> USE DEF IInv
<1>0. J!Files = Files /\ J!NoVerdict = NoVerdict
  BY Zenon DEF J!Files, Files, J!Order, Order, J!NoVerdict, NoVerdict
<1>1. CASE Verify
  <2>1. /\ at \in 0 .. 5 /\ at' = at + 1
        /\ UNCHANGED <<disk, verdict, stable>>
    BY <1>1 DEF Verify, TypeOK
  <2>2. CASE at = 0
    <3>1. J!Start
      BY <2>1, <2>2 DEF J!Start
    <3> QED BY <3>1 DEF J!Next
  <2>3. CASE at # 0
    <3>1. (at > 0) = TRUE /\ (at' > 0) = TRUE
      BY <2>1, <2>3
    <3> QED BY <2>1, <3>1 DEF J!vars
  <2> QED BY <2>2, <2>3
<1>2. CASE Load
  <2>1. /\ (at > 0) = TRUE /\ (at' > 0) = TRUE
        /\ UNCHANGED <<disk, verdict, stable>>
    BY <1>2 DEF Load, TypeOK
  <2> QED BY <2>1 DEF J!vars
<1>3. ASSUME NEW strict \in BOOLEAN, NEW rules \in BOOLEAN, PlanNext(strict, rules)
      PROVE  J!Next
  <2>1. /\ at = 12 /\ verdict = NoVerdict
        /\ verdict' = J!PlanVerdict(strict, rules, first, second)
        /\ UNCHANGED <<disk, at, stable>>
    BY <1>3, SameVerdicts DEF PlanNext
  <2>2. first \in J!Views /\ second \in J!Views
    BY <2>1, PassesAreViews
  <2>3. J!PlanVerdict(strict, rules, first, second).tool = "plan-next"
        /\ J!PlanVerdict(strict, rules, first, second).strict = strict
    BY DEF J!PlanVerdict
  <2>4. J!Judge("plan-next", strict)
    BY <1>0, <2>1, <2>2, <2>3 DEF J!Judge
  <2> QED BY <2>4 DEF J!Next
<1>4. ASSUME NEW strict \in BOOLEAN, CheckpointPreflight(strict)
      PROVE  J!Next
  <2>1. /\ at = 12 /\ verdict = NoVerdict
        /\ verdict' = J!PreflightVerdict(strict, first, second)
        /\ UNCHANGED <<disk, at, stable>>
    BY <1>4, SameVerdicts DEF CheckpointPreflight
  <2>2. first \in J!Views /\ second \in J!Views
    BY <2>1, PassesAreViews
  <2>3. J!PreflightVerdict(strict, first, second).tool = "checkpoint-preflight"
        /\ J!PreflightVerdict(strict, first, second).strict = strict
    BY DEF J!PreflightVerdict
  <2>4. J!Judge("checkpoint-preflight", strict)
    BY <1>0, <2>1, <2>2, <2>3 DEF J!Judge
  <2> QED BY <2>4 DEF J!Next
<1>5. CASE Exit
  <2>1. (at' > 0) = FALSE
    BY <1>5 DEF Exit
  <2>2. J!Exit
    BY <1>0, <1>5, <2>1 DEF Exit, J!Exit
  <2> QED BY <2>2 DEF J!Next
<1>6. ASSUME NEW f \in Files, NEW s \in Versions[f], Write(f, s)
      PROVE  J!Next
  <2>1. /\ at \in 0 .. 11 /\ at' = at /\ verdict' = verdict
        /\ disk' = [disk EXCEPT ![f] = s]
        /\ stable' = IF at > 0 THEN stable \ {f} ELSE stable
    BY <1>6 DEF Write, TypeOK
  <2>2. verdict = NoVerdict
    BY <2>1, SilentBefore
  <2>3. J!Write(f, s)
    BY <1>0, <2>1, <2>2 DEF J!Write
  <2> QED BY <1>0, <2>3 DEF J!Next
<1>7. CASE UNCHANGED vars
  BY <1>7 DEF vars, J!vars
<1> QED BY <1>1, <1>2, <1>3, <1>4, <1>5, <1>6, <1>7 DEF Next

\* A command that reads the files one by one, twice, while others write them,
\* implements a single judgement on two views of the workspace.
THEOREM Implementation == Spec => ImplementsJudgement
<1>1. Init => J!Init
  <2>1. J!Files = Files /\ J!NoVerdict = NoVerdict
    BY Zenon DEF J!Files, Files, J!Order, Order, J!NoVerdict, NoVerdict
  <2>2. J!Workspaces = Workspaces
    BY SameCombinations DEF J!Workspaces, Workspaces
  <2> QED BY <2>1, <2>2 DEF Init, Idle, J!Init
<1>2. Spec => [](IInv /\ Complete)
  BY InitIInv, NextIInv, InitComplete, NextComplete, PTL DEF Spec
<1> QED BY <1>1, <1>2, NextJudges, PTL DEF Spec, ImplementsJudgement, J!Spec
==============================================================================
