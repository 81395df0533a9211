---------------------------- MODULE ReportsProofs ----------------------------
(***************************************************************************)
(* What the two reporting commands guarantee of their documents, exit      *)
(* codes and panels, for all sidecars, incidents and outputs, and any      *)
(* number of writes and runs.                                              *)
(*                                                                         *)
(* The argument: what is on disk of the documents follows from how far the *)
(* command is (DashboardInv, FixtureInv).  A file that nobody wrote reads  *)
(* the same in all passes (SeenInv), so what a panel says follows from the *)
(* file as it is (ReadyInv, PanelInv).  And in a task list without         *)
(* findings the satisfied tasks are closed under dependencies              *)
(* (ActiveAncestors).                                                      *)
(***************************************************************************)
EXTENDS Reports, FiniteSetTheorems, TLAPS

Kinds == {"json", "text"}

\* How far each document is, at every step of the command at work.
DashboardInv ==
  step = "off" =>
    /\ at < 29 \/ (at = 30 /\ exit = "none") => exit = "none" /\ emitted = NothingEmitted
    /\ at = 29 =>
         /\ exit = "none" /\ emitted.text = "no"
         /\ request.json # NONE => emitted.json = "whole"
    /\ at = 30 => exit \in {"none", "ok", "io_error"}

FixtureInv ==
  step # "off" =>
    /\ step \in {"build", "judge", "json"} => emitted = NothingEmitted
    /\ step \in {"json", "text"} =>
         /\ exit = "ok"
         /\ FixtureMayWrite(request.json) /\ FixtureMayWrite(request.text)
    /\ step = "text" =>
         /\ emitted.text = "no"
         /\ request.json # NONE => emitted.json = "whole"

WritingInv ==
  PairTypeOK /\ FixtureTypeOK /\ at \in 0 .. 30 /\ DashboardInv /\ FixtureInv
    /\ ExitCodesAreTrue

------------------------------------------------------------------------------
\* What a request and its documents are.
LEMMA Requested ==
  ASSUME PairTypeOK
  PROVE  /\ request.json \in Outputs \cup {NONE} /\ request.text \in Outputs \cup {NONE}
         /\ request.same \in BOOLEAN
         /\ request.same => request.json = request.text /\ request.json # NONE
         /\ \A k \in Kinds : emitted[k] \in {"no", "torn", "whole"}
BY DEF PairTypeOK, Requests, Kinds

LEMMA NoRequestType == NoRequest \in Requests /\ NothingEmitted \in
  [json : {"no", "torn", "whole"}, text : {"no", "torn", "whole"}]
BY DEF NoRequest, Requests, NothingEmitted

\* Writing one document leaves the other alone or replaces it.
LEMMA Emitted ==
  ASSUME PairTypeOK, NEW kind \in Kinds, NEW outcome \in {"no", "torn", "whole"},
         Emit(kind, outcome)
  PROVE  /\ emitted' \in [json : {"no", "torn", "whole"}, text : {"no", "torn", "whole"}]
         /\ emitted'[kind] = outcome
         /\ \A k \in Kinds : k # kind =>
              \/ emitted'[k] = emitted[k]
              \/ request.same /\ outcome # "no" /\ emitted'[k] = "no"
<1>1. emitted' = [k \in Kinds |->
                IF k = kind THEN outcome
                ELSE IF request.same /\ outcome # "no" THEN "no" ELSE emitted[k]]
  BY DEF Emit, Kinds
<1>2. \A k \in Kinds : emitted'[k] \in {"no", "torn", "whole"}
  BY <1>1, Requested
<1>3. emitted' = [json |-> emitted'.json, text |-> emitted'.text]
  BY <1>1 DEF Kinds
<1>4. emitted' \in [json : {"no", "torn", "whole"}, text : {"no", "torn", "whole"}]
  BY <1>2, <1>3 DEF Kinds
<1> QED BY <1>1, <1>4

LEMMA WritingInit == Init => WritingInv
<1> SUFFICES ASSUME Init PROVE WritingInv
  OBVIOUS
<1>1. PairTypeOK /\ emitted = NothingEmitted /\ exit = "none"
  BY NoRequestType DEF Init, PairInit, PairTypeOK
<1>2. FixtureTypeOK /\ at \in {0, 30} /\ (step = "off" \/ step = "build")
  BY DEF Init, FixtureTypeOK, FixtureOff, FixtureInit, DashInit, DashOff
<1>3. ExitCodesAreTrue
  BY <1>1 DEF ExitCodesAreTrue, NothingEmitted
<1> QED BY <1>1, <1>2, <1>3 DEF WritingInv, DashboardInv, FixtureInv

------------------------------------------------------------------------------
(* The steps that write *)

\* A document of the dashboard.
LEMMA DocumentKeeps ==
  ASSUME WritingInv, step = "off", UNCHANGED fixtureVars, NEW kind \in Kinds,
         NEW outcome \in {"no", "torn", "whole"}, WriteDocument(kind, outcome)
  PROVE  WritingInv'
<1>1. /\ PairTypeOK /\ FixtureTypeOK /\ at \in 0 .. 30 /\ DashboardInv /\ ExitCodesAreTrue
      /\ step' = "off" /\ request' = request
      /\ kind = "json" => at = 28
      /\ kind = "text" => at = 29
      /\ exit = "none"
  BY DEF WritingInv, WriteDocument, fixtureVars, Kinds
<1>2. /\ emitted' \in [json : {"no", "torn", "whole"}, text : {"no", "torn", "whole"}]
      /\ request[kind] = NONE => outcome = "whole" /\ emitted' = emitted
      /\ request[kind] # NONE =>
           /\ emitted'[kind] = outcome
           /\ outcome = "no" \/ MayWrite(request[kind], {"dashboard"})
           /\ \A k \in Kinds : k # kind =>
                \/ emitted'[k] = emitted[k]
                \/ request.same /\ emitted'[k] = "no"
  <2>1. CASE request[kind] = NONE /\ outcome = "whole" /\ UNCHANGED emitted
    BY <1>1, <2>1 DEF PairTypeOK
  <2>2. CASE /\ request[kind] # NONE
             /\ outcome = "no" \/ MayWrite(request[kind], {"dashboard"})
             /\ Emit(kind, outcome)
    BY <1>1, <2>2, Emitted
  <2> QED BY <2>1, <2>2 DEF WriteDocument
<1>3. /\ outcome # "whole" => exit' = "io_error" /\ at' = 30
      /\ outcome = "whole" /\ kind = "text" => exit' = "ok" /\ at' = 30
      /\ outcome = "whole" /\ kind = "json" => exit' = "none" /\ at' = 29
  BY <1>1 DEF WriteDocument, Kinds
<1>4. exit' \in {"none", "ok", "io_error"} /\ at' \in {29, 30}
  BY <1>3 DEF Kinds
<1>5. PairTypeOK' /\ FixtureTypeOK'
  BY <1>1, <1>2, <1>4 DEF PairTypeOK, FixtureTypeOK, fixtureVars
<1>6. /\ emitted.text = "no"
      /\ kind = "json" => emitted.json = "no"
      /\ kind = "text" /\ request.json # NONE => emitted.json = "whole"
  BY <1>1 DEF DashboardInv, NothingEmitted, Kinds
<1>7. DashboardInv'
  BY <1>1, <1>2, <1>3, <1>6 DEF DashboardInv, Kinds
<1>8. ExitCodesAreTrue'
  <2>1. OwnDirs = {"dashboard"} /\ OwnDirs' = {"dashboard"}
    BY <1>1 DEF OwnDirs
  <2>2. ASSUME NEW k \in Kinds, emitted'[k] # "no"
        PROVE  MayWrite(request'[k], OwnDirs')
    <3>1. CASE emitted[k] # "no"
      BY <1>1, <2>1, <3>1 DEF ExitCodesAreTrue, Kinds
    <3>2. CASE emitted[k] = "no"
      BY <1>1, <1>2, <2>1, <2>2, <3>2
    <3> QED BY <3>1, <3>2
  <2>3. ASSUME exit' = "ok", NEW k \in Kinds, request[k] # NONE, ~request.same
        PROVE  emitted'[k] = "whole"
    BY <1>2, <1>3, <1>6, <2>3 DEF Kinds
  <2>4. ASSUME emitted'.text # "no", request.json # NONE, ~request.same
        PROVE  emitted'.json = "whole"
    BY <1>2, <1>6, <2>4 DEF Kinds
  <2> QED BY <1>1, <1>4, <2>2, <2>3, <2>4 DEF ExitCodesAreTrue, Kinds
<1> QED BY <1>1, <1>4, <1>5, <1>7, <1>8 DEF WritingInv, FixtureInv

\* A document of the proposal.
LEMMA ProposalKeeps ==
  ASSUME WritingInv, step # "off", UNCHANGED dashVars, NEW kind \in Kinds,
         NEW outcome \in {"no", "torn", "whole"}, WriteProposal(kind, outcome)
  PROVE  WritingInv'
<1>1. /\ PairTypeOK /\ FixtureTypeOK /\ at \in 0 .. 30 /\ FixtureInv /\ ExitCodesAreTrue
      /\ step = kind /\ request' = request /\ at' = at
      /\ exit = "ok"
      /\ FixtureMayWrite(request[kind])
      /\ UNCHANGED <<incident, proposal>>
  BY DEF WritingInv, WriteProposal, FixtureInv, Kinds, dashVars
<1>2. /\ emitted' \in [json : {"no", "torn", "whole"}, text : {"no", "torn", "whole"}]
      /\ request[kind] = NONE => outcome = "whole" /\ emitted' = emitted /\ exit' = "ok"
      /\ request[kind] # NONE =>
           /\ emitted'[kind] = outcome
           /\ exit' = IF outcome = "whole" THEN "ok" ELSE "exception"
           /\ \A k \in Kinds : k # kind =>
                \/ emitted'[k] = emitted[k]
                \/ request.same /\ emitted'[k] = "no"
  <2>1. CASE request[kind] = NONE
    BY <1>1, <2>1 DEF WriteProposal, PairTypeOK
  <2>2. CASE request[kind] # NONE
    BY <1>1, <2>2, Emitted DEF WriteProposal
  <2> QED BY <2>1, <2>2
<1>3. /\ outcome = "whole" /\ kind = "json" => step' = "text"
      /\ ~(outcome = "whole" /\ kind = "json") => step' = "end"
      /\ outcome = "whole" => exit' = "ok"
      /\ outcome # "whole" => exit' = "exception"
  BY <1>1, <1>2 DEF WriteProposal
<1>4. PairTypeOK' /\ FixtureTypeOK'
  BY <1>1, <1>2, <1>3 DEF PairTypeOK, FixtureTypeOK
<1>5. /\ emitted.text = "no"
      /\ kind = "json" => emitted.json = "no"
      /\ kind = "text" /\ request.json # NONE => emitted.json = "whole"
  BY <1>1 DEF FixtureInv, NothingEmitted, Kinds
<1>6. FixtureInv'
  <2>1. FixtureMayWrite(request.json) /\ FixtureMayWrite(request.text)
    BY <1>1 DEF FixtureInv, Kinds
  <2>2. FixtureMayWrite(request.json)' /\ FixtureMayWrite(request.text)'
    BY <1>1, <2>1 DEF FixtureMayWrite, MayWrite
  <2> QED BY <1>1, <1>2, <1>3, <1>5, <2>2 DEF FixtureInv, Kinds
<1>7. ExitCodesAreTrue'
  <2>1. OwnDirs = {"proposals", "reports"} /\ OwnDirs' = {"proposals", "reports"}
    BY <1>1, <1>3 DEF OwnDirs, Kinds
  <2>2. ASSUME NEW k \in Kinds, emitted'[k] # "no"
        PROVE  MayWrite(request'[k], OwnDirs')
    <3>1. CASE emitted[k] # "no"
      BY <1>1, <2>1, <3>1 DEF ExitCodesAreTrue, Kinds
    <3>2. CASE emitted[k] = "no"
      BY <1>1, <1>2, <2>1, <2>2, <3>2 DEF FixtureMayWrite
    <3> QED BY <3>1, <3>2
  <2>3. ASSUME exit' = "ok", step' = "end", NEW k \in Kinds, request[k] # NONE,
               ~request.same
        PROVE  emitted'[k] = "whole"
    BY <1>2, <1>3, <1>5, <2>3 DEF Kinds
  <2>4. ASSUME emitted'.text # "no", request.json # NONE, ~request.same
        PROVE  emitted'.json = "whole"
    BY <1>2, <1>5, <2>4 DEF Kinds
  <2> QED BY <1>1, <1>3, <2>2, <2>3, <2>4 DEF ExitCodesAreTrue, Kinds
<1> QED BY <1>1, <1>3, <1>4, <1>6, <1>7 DEF WritingInv, DashboardInv, Kinds

------------------------------------------------------------------------------
(* The other steps *)

\* Reading and judging leave the documents alone.
LEMMA ReadingKeeps ==
  ASSUME WritingInv, step = "off", UNCHANGED <<fixtureVars, pairVars>>,
         at < 28, at' \in 0 .. 28
  PROVE  WritingInv'
BY DEF WritingInv, PairTypeOK, FixtureTypeOK, DashboardInv, FixtureInv,
       ExitCodesAreTrue, OwnDirs, MayWrite, fixtureVars, pairVars

LEMMA DashboardKeeps ==
  ASSUME WritingInv, step = "off", UNCHANGED fixtureVars, DashNext
  PROVE  WritingInv'
<1>1. CASE /\ Read \/ (\E rules, marked \in BOOLEAN : Plan(rules, marked)) \/ SummarizeDag \/ ReadAgain
              \/ Preflight
           /\ UNCHANGED pairVars
  <2>1. at < 28 /\ at' \in 0 .. 28
    <3>1. CASE Read
      BY <3>1 DEF Read, ReadIn
    <3>2. CASE \E rules, marked \in BOOLEAN : Plan(rules, marked)
      BY <3>2 DEF Plan
    <3>3. CASE SummarizeDag
      BY <3>3 DEF SummarizeDag
    <3>4. CASE ReadAgain
      BY <3>4 DEF ReadAgain, ReadIn
    <3>5. CASE Preflight
      BY <3>5 DEF Preflight
    <3> QED BY <1>1, <3>1, <3>2, <3>3, <3>4, <3>5
  <2> QED BY <1>1, <2>1, ReadingKeeps
<1>2. CASE Arguments
  <2>1. /\ at = 27 /\ at' = 28 /\ request' \in Requests
        /\ exit = "none" /\ exit' = "none"
        /\ emitted = NothingEmitted /\ emitted' = NothingEmitted
    BY <1>2 DEF Arguments, ReadArguments, WritingInv, DashboardInv
  <2>2. PairTypeOK' /\ ExitCodesAreTrue'
    BY <2>1, NoRequestType DEF PairTypeOK, ExitCodesAreTrue, NothingEmitted
  <2> QED BY <2>1, <2>2 DEF WritingInv, FixtureTypeOK, fixtureVars, DashboardInv, FixtureInv
<1>3. CASE \E kind \in Kinds, outcome \in {"no", "torn", "whole"} :
             WriteDocument(kind, outcome)
  BY <1>3, DocumentKeeps
<1>4. CASE RunDashboard
  <2>1. at' = 0 /\ exit' = "none" /\ emitted' = NothingEmitted /\ request' = NoRequest
    BY <1>4 DEF RunDashboard, PairReset
  <2>2. PairTypeOK' /\ ExitCodesAreTrue'
    BY <2>1, NoRequestType DEF PairTypeOK, ExitCodesAreTrue, NothingEmitted
  <2> QED BY <2>1, <2>2 DEF WritingInv, FixtureTypeOK, fixtureVars, DashboardInv, FixtureInv
<1>5. CASE \E f \in Files : \E s \in Versions[f] : WriteSidecar(f, s)
  <2>1. UNCHANGED pairVars /\ at < 28 /\ at' \in 0 .. 28
    BY <1>5 DEF WritingInv, WriteSidecar, pairVars
  <2> QED BY <2>1, ReadingKeeps
<1> QED BY <1>1, <1>2, <1>3, <1>4, <1>5 DEF DashNext, Kinds

LEMMA FixtureKeeps ==
  ASSUME WritingInv, step # "off", UNCHANGED dashVars, FixtureNext
  PROVE  WritingInv'
<1>0. at' = at
  BY DEF dashVars
<1>1. CASE \E strict \in BOOLEAN : BuildProposal(strict)
  <2>1. /\ step = "build" /\ step' \in {"judge", "end"} /\ incident' = incident
        /\ proposal' \in {proposal, "ready", "rejected"} /\ request' \in Requests
        /\ exit' \in {"io_error", "findings", "ok", "exception"}
        /\ exit' = "ok" => step' = "judge"
        /\ emitted = NothingEmitted /\ emitted' = NothingEmitted
    BY <1>1 DEF BuildProposal, ReadArguments, WritingInv, FixtureInv
  <2>2. PairTypeOK' /\ FixtureTypeOK' /\ ExitCodesAreTrue'
    BY <2>1, NoRequestType DEF WritingInv, PairTypeOK, FixtureTypeOK, ExitCodesAreTrue,
       NothingEmitted
  <2> QED BY <1>0, <2>1, <2>2 DEF WritingInv, DashboardInv, FixtureInv
<1>2. CASE JudgeOutputs
  <2>1. /\ step = "judge" /\ step' \in {"json", "end"} /\ incident' = incident
        /\ proposal' \in {proposal, "rejected"} /\ request' = request
        /\ exit' \in {exit, "findings"}
        /\ emitted = NothingEmitted /\ emitted' = NothingEmitted
    BY <1>2 DEF JudgeOutputs, WritingInv, FixtureInv
  <2>2. step' = "json" => exit' = "ok" /\ FixtureMayWrite(request.json)
                                      /\ FixtureMayWrite(request.text)
    BY <1>2 DEF JudgeOutputs
  <2>3. step' = "end" => exit' # "ok"
    BY <1>2 DEF JudgeOutputs
  <2>4. PairTypeOK' /\ FixtureTypeOK' /\ ExitCodesAreTrue'
    BY <2>1, <2>2, <2>3, NoRequestType DEF WritingInv, PairTypeOK, FixtureTypeOK, ExitCodesAreTrue,
       NothingEmitted
  <2>5. FixtureInv'
    BY <2>1, <2>2 DEF FixtureInv, FixtureMayWrite, MayWrite
  <2> QED BY <1>0, <2>1, <2>4, <2>5 DEF WritingInv, DashboardInv
<1>3. CASE \E kind \in Kinds, outcome \in {"no", "torn", "whole"} :
             WriteProposal(kind, outcome)
  BY <1>3, ProposalKeeps
<1>4. CASE RunFixture
  <2>1. /\ step' = "build" /\ incident' \in Incidents /\ proposal' = "none"
        /\ exit' = "none" /\ emitted' = NothingEmitted /\ request' = NoRequest
    BY <1>4 DEF RunFixture, PairReset
  <2>2. PairTypeOK' /\ FixtureTypeOK' /\ ExitCodesAreTrue'
    BY <2>1, NoRequestType DEF PairTypeOK, FixtureTypeOK, ExitCodesAreTrue, NothingEmitted
  <2> QED BY <1>0, <2>1, <2>2 DEF WritingInv, DashboardInv, FixtureInv
<1> QED BY <1>1, <1>2, <1>3, <1>4 DEF FixtureNext, Kinds

LEMMA WritingStep == WritingInv /\ [Next]_vars => WritingInv'
<1> SUFFICES ASSUME WritingInv, [Next]_vars PROVE WritingInv'
  OBVIOUS
<1>1. CASE step = "off" /\ DashNext /\ UNCHANGED fixtureVars
  BY <1>1, DashboardKeeps
<1>2. CASE step # "off" /\ FixtureNext /\ UNCHANGED dashVars
  BY <1>2, FixtureKeeps
<1>3. CASE UNCHANGED vars
  BY <1>3 DEF vars, dashVars, fixtureVars, pairVars, WritingInv, PairTypeOK, FixtureTypeOK,
     DashboardInv, FixtureInv, ExitCodesAreTrue, OwnDirs, MayWrite, FixtureMayWrite
<1> QED BY <1>1, <1>2, <1>3 DEF Next

\* Every end of a command is what its exit code says it is.
THEOREM ExitCodesHold == Spec => []ExitCodesAreTrue
<1>1. WritingInv => ExitCodesAreTrue
  BY DEF WritingInv
<1> QED BY <1>1, WritingInit, WritingStep, PTL DEF Spec

------------------------------------------------------------------------------
(* What a dashboard has read *)

Filed(v) ==
  DOMAIN v = Files /\ \A f \in Files : v[f] \in Versions[f] \cup {[health |-> "unread"]}

\* A file that nobody wrote since the command started reads as it did.
SeenInv ==
  \A i \in 1 .. 6 :
    /\ at \in i .. 12 \/ at \in i + 14 .. 26 =>
         /\ first[Order[i]] \in Versions[Order[i]]
         /\ Order[i] \in stable => first[Order[i]] = disk[Order[i]]
    /\ at \in i + 6 .. 13 \/ at \in i + 20 .. 26 =>
         /\ second[Order[i]] \in Versions[Order[i]]
         /\ Order[i] \in stable => second[Order[i]] = disk[Order[i]]

ReadingInv == DashTypeOK /\ SeenInv

LEMMA Orders ==
  /\ Files = {"PROJECT_STATE", "CURRENT_GATE", "NEXT_ACTION", "TASK_REGISTRY",
              "ACCEPTED_ARTIFACTS", "WORKSPACE_IDENTITY"}
  /\ \A i \in 1 .. 6 : Order[i] \in Files
  /\ \A f \in Files : \E i \in 1 .. 6 : f = Order[i]
  /\ \A i, j \in 1 .. 6 : Order[i] = Order[j] => i = j
<1>1. /\ Order[1] = "PROJECT_STATE" /\ Order[2] = "CURRENT_GATE"
      /\ Order[3] = "NEXT_ACTION" /\ Order[4] = "TASK_REGISTRY"
      /\ Order[5] = "ACCEPTED_ARTIFACTS" /\ Order[6] = "WORKSPACE_IDENTITY"
  BY DEF Order, Gate!Order
<1>2. \A i : i \in 1 .. 6 <=> i \in {1, 2, 3, 4, 5, 6}
  OBVIOUS
<1>3. Files = {Order[i] : i \in 1 .. 6}
  BY DEF Files, Gate!Files, Order
<1>4. Files = {"PROJECT_STATE", "CURRENT_GATE", "NEXT_ACTION", "TASK_REGISTRY",
               "ACCEPTED_ARTIFACTS", "WORKSPACE_IDENTITY"}
  BY <1>1, <1>2, <1>3
<1>5. \A i, j \in 1 .. 6 : Order[i] = Order[j] => i = j
  BY <1>1, <1>2
<1> QED BY <1>3, <1>4, <1>5

LEMMA WorkspaceType ==
  /\ Gate!Workspaces # {}
  /\ \A d \in Gate!Workspaces : DOMAIN d = Files /\ \A f \in Files : d[f] \in Versions[f]
<1>1. ASSUME NEW d \in Gate!Workspaces
      PROVE  DOMAIN d = Files /\ \A f \in Files : d[f] \in Versions[f]
  <2>1. PICK p \in Versions["PROJECT_STATE"], g \in Versions["CURRENT_GATE"],
             n \in Versions["NEXT_ACTION"], t \in Versions["TASK_REGISTRY"],
             r \in Versions["ACCEPTED_ARTIFACTS"],
             w \in Versions["WORKSPACE_IDENTITY"] :
          d = [PROJECT_STATE |-> p, CURRENT_GATE |-> g, NEXT_ACTION |-> n,
               TASK_REGISTRY |-> t, ACCEPTED_ARTIFACTS |-> r,
               WORKSPACE_IDENTITY |-> w]
    BY DEF Gate!Workspaces, Gate!Combinations
  <2> QED BY <2>1, Orders
<1>2. PICK p \in Versions["PROJECT_STATE"], g \in Versions["CURRENT_GATE"],
           n \in Versions["NEXT_ACTION"], t \in Versions["TASK_REGISTRY"],
           r \in Versions["ACCEPTED_ARTIFACTS"],
           w \in Versions["WORKSPACE_IDENTITY"] : TRUE
  BY Orders, FilesAssumption
<1>3. [PROJECT_STATE |-> p, CURRENT_GATE |-> g, NEXT_ACTION |-> n, TASK_REGISTRY |-> t,
       ACCEPTED_ARTIFACTS |-> r, WORKSPACE_IDENTITY |-> w] \in Gate!Workspaces
  BY <1>2 DEF Gate!Workspaces, Gate!Combinations
<1> QED BY <1>1, <1>3

LEMMA UnreadType == Filed(Unread)
BY DEF Filed, Unread

\* The task registry's content is a list of tasks, whatever its health.
LEMMA RegistryType ==
  ASSUME NEW s \in Versions["TASK_REGISTRY"]
  PROVE  /\ s \in [health : Gate!Healths, content : Seq(Rows)]
         /\ s.health \in {"fallback", "lost"} => s.content = << >>
BY Orders, FilesAssumption DEF IsSidecar

LEMMA RecommendedType ==
  ASSUME NEW v, NEW w
  PROVE  Gate!Recommended(FALSE, v, w) \in Gate!Recommendations
<1>1. \A n : Gate!RecommendedForActionType(n) \in Gate!Recommendations
  BY DEF Gate!RecommendedForActionType, Gate!Recommendations
<1>2. Gate!Route(FALSE, v, w) \in {"incident", "owner", "checkpoint", "unaudited",
                                   "unverified", "wait", "act"}
  BY DEF Gate!Route
<1> HIDE DEF Gate!Route, Gate!RecommendedForActionType
<1> QED BY <1>1, <1>2 DEF Gate!Recommended, Gate!Recommendations

ReportType ==
  [recommended : Gate!Recommendations, open : BOOLEAN, counted : Nat,
   incident_health : {"not_available", "active_signal_detected", "no_active_signal"},
   dag : {"not_available", "passed", "failed"},
   eligible : {"not_available", "yes", "no"},
   status : {"none", "blocked", "ready"}]

LEMMA DashTypes ==
  DashTypeOK <=>
    /\ DOMAIN disk = Files /\ (\A f \in Files : disk[f] \in Versions[f])
    /\ Filed(first) /\ Filed(second)
    /\ at \in 0 .. 30 /\ report \in ReportType
    /\ stable \subseteq Files /\ writes \in 0 .. MaxWrites
BY DEF DashTypeOK, ReportType, Filed

LEMMA NoReportType == NoReport \in ReportType
BY DEF NoReport, ReportType, Gate!Recommendations

LEMMA ReadingInit == Init => ReadingInv
<1> SUFFICES ASSUME Init PROVE ReadingInv
  OBVIOUS
<1>1. disk \in Gate!Workspaces /\ Fresh /\ at \in {0, 30}
  BY WorkspaceType DEF Init, DashInit, DashOff
<1>2. DashTypeOK
  BY <1>1, WorkspaceType, UnreadType, NoReportType, DashTypes, WritesAssumption DEF Fresh
<1>3. SeenInv
  BY <1>1 DEF SeenInv
<1> QED BY <1>2, <1>3 DEF ReadingInv

\* One of the readings.
LEMMA ReadInKeeps ==
  ASSUME ReadingInv, NEW from \in {0, 14}, ReadIn(from)
  PROVE  ReadingInv'
<1>1. at \in from .. from + 11 /\ at' = at + 1 /\ at \in Nat
      /\ UNCHANGED <<disk, report, stable, writes>>
  BY DEF ReadIn
<1>2. DashTypeOK /\ SeenInv
  BY DEF ReadingInv
<1>3. CASE at < from + 6
  <2> DEFINE k == at - from + 1
  <2>1. k \in 1 .. 6 /\ first' = [first EXCEPT ![Order[k]] = disk[Order[k]]] /\ second' = second
    BY <1>1, <1>3 DEF ReadIn
  <2>2. Order[k] \in Files /\ disk[Order[k]] \in Versions[Order[k]]
    BY <1>2, <2>1, Orders, DashTypes
  <2> HIDE DEF k
  <2>3. Filed(first') /\ first'[Order[k]] = disk[Order[k]]
        /\ \A i \in 1 .. 6 : i # k => first'[Order[i]] = first[Order[i]]
    BY <1>2, <2>1, <2>2, Orders, DashTypes DEF Filed
  <2>4. DashTypeOK'
    BY <1>1, <1>2, <2>1, <2>3, DashTypes DEF DashTypeOK, Filed
  <2>5. SeenInv'
    <3> SUFFICES ASSUME NEW i \in 1 .. 6
                 PROVE  /\ at' \in i .. 12 \/ at' \in i + 14 .. 26 =>
                             /\ first'[Order[i]] \in Versions[Order[i]]
                             /\ Order[i] \in stable => first'[Order[i]] = disk[Order[i]]
                        /\ at' \in i + 6 .. 13 \/ at' \in i + 20 .. 26 =>
                             /\ second[Order[i]] \in Versions[Order[i]]
                             /\ Order[i] \in stable => second[Order[i]] = disk[Order[i]]
      BY <1>1, <2>1 DEF SeenInv
    <3>1. CASE i = k
      <4>1. ~(at' \in i + 6 .. 13 \/ at' \in i + 20 .. 26)
        BY <1>1, <1>3, <3>1 DEF k
      <4> QED BY <2>2, <2>3, <3>1, <4>1
    <3>2. CASE i # k
      <4>1. (at' \in i .. 12 \/ at' \in i + 14 .. 26) => (at \in i .. 12 \/ at \in i + 14 .. 26)
        BY <1>1, <1>3, <3>2 DEF k
      <4>2. ~(at' \in i + 6 .. 13 \/ at' \in i + 20 .. 26)
        BY <1>1, <1>3
      <4> QED BY <1>2, <2>3, <3>2, <4>1, <4>2 DEF SeenInv
    <3> QED BY <3>1, <3>2
  <2> QED BY <2>4, <2>5 DEF ReadingInv
<1>4. CASE ~(at < from + 6)
  <2> DEFINE k == at - from - 5
  <2>1. k \in 1 .. 6 /\ second' = [second EXCEPT ![Order[k]] = disk[Order[k]]] /\ first' = first
    BY <1>1, <1>4 DEF ReadIn
  <2>2. Order[k] \in Files /\ disk[Order[k]] \in Versions[Order[k]]
    BY <1>2, <2>1, Orders, DashTypes
  <2> HIDE DEF k
  <2>3. Filed(second') /\ second'[Order[k]] = disk[Order[k]]
        /\ \A i \in 1 .. 6 : i # k => second'[Order[i]] = second[Order[i]]
    BY <1>2, <2>1, <2>2, Orders, DashTypes DEF Filed
  <2>4. DashTypeOK'
    BY <1>1, <1>2, <2>1, <2>3, DashTypes DEF DashTypeOK, Filed
  <2>5. SeenInv'
    <3> SUFFICES ASSUME NEW i \in 1 .. 6
                 PROVE  /\ at' \in i .. 12 \/ at' \in i + 14 .. 26 =>
                             /\ first[Order[i]] \in Versions[Order[i]]
                             /\ Order[i] \in stable => first[Order[i]] = disk[Order[i]]
                        /\ at' \in i + 6 .. 13 \/ at' \in i + 20 .. 26 =>
                             /\ second'[Order[i]] \in Versions[Order[i]]
                             /\ Order[i] \in stable => second'[Order[i]] = disk[Order[i]]
      BY <1>1, <2>1 DEF SeenInv
    <3>1. (at' \in i .. 12 \/ at' \in i + 14 .. 26) => (at \in i .. 12 \/ at \in i + 14 .. 26)
      BY <1>1, <1>4
    <3>2. CASE i = k
      BY <1>2, <2>2, <2>3, <3>1, <3>2 DEF SeenInv
    <3>3. CASE i # k
      <4>1. (at' \in i + 6 .. 13 \/ at' \in i + 20 .. 26) =>
              (at \in i + 6 .. 13 \/ at \in i + 20 .. 26)
        BY <1>1, <1>4, <3>3 DEF k
      <4> QED BY <1>2, <2>3, <3>1, <3>3, <4>1 DEF SeenInv
    <3> QED BY <3>2, <3>3
  <2> QED BY <2>4, <2>5 DEF ReadingInv
<1> QED BY <1>3, <1>4

\* What one of the steps makes of the report.
LEMMA ReportTypes ==
  ASSUME ReadingInv
  PROVE  /\ \A rules, marked \in BOOLEAN : Plan(rules, marked) => report' \in ReportType
         /\ SummarizeDag => report' \in ReportType
         /\ Preflight => report' \in ReportType
<1>1. report \in ReportType
  BY DashTypes DEF ReadingInv
<1>2. ASSUME NEW rules \in BOOLEAN, NEW marked \in BOOLEAN, Plan(rules, marked)
      PROVE  report' \in ReportType
  <2> DEFINE recommended == Gate!Recommended(FALSE, View(first), View(second))
             open == OpenBlockers(second, Gate!Ready(FALSE, View(first), View(second), rules))
             counted == Cardinality(
               ReadyBlockedByUncheckpointedDependency(Content(second, "TASK_REGISTRY")))
             health == IncidentHealth(second, recommended, marked)
  <2>1. report' = [report EXCEPT !.recommended = recommended, !.open = open,
                                 !.counted = counted, !.incident_health = health]
    BY <1>2 DEF Plan
  <2>2. recommended \in Gate!Recommendations
    BY RecommendedType
  <2>3. open \in BOOLEAN
    BY DEF OpenBlockers
  <2>4. counted \in Nat
    <3>1. second["TASK_REGISTRY"] \in Versions["TASK_REGISTRY"]
      <4>1. Order[4] = "TASK_REGISTRY" /\ 4 \in 1 .. 6 /\ at = 12
        BY <1>2 DEF Order, Gate!Order, Plan
      <4> QED BY <4>1 DEF ReadingInv, SeenInv
    <3>2. Content(second, "TASK_REGISTRY") \in Seq(Rows)
      BY <3>1, RegistryType DEF Content
    <3> DEFINE tasks == Content(second, "TASK_REGISTRY")
    <3>3. IsFiniteSet(DOMAIN tasks)
      <4>1. DOMAIN tasks = 1 .. Len(tasks) /\ Len(tasks) \in Nat
        BY <3>2
      <4> QED BY <4>1, FS_Interval
    <3>4. ReadyBlockedByUncheckpointedDependency(tasks) \subseteq DOMAIN tasks
      BY DEF ReadyBlockedByUncheckpointedDependency
    <3> QED BY <3>3, <3>4, FS_Subset, FS_CardinalityType
  <2>5. health \in {"not_available", "active_signal_detected", "no_active_signal"}
    BY DEF IncidentHealth
  <2> HIDE DEF recommended, open, counted, health
  <2> QED BY <1>1, <2>1, <2>2, <2>3, <2>4, <2>5 DEF ReportType
<1>3. SummarizeDag => report' \in ReportType
  BY <1>1 DEF SummarizeDag, ReportType
<1>4. Preflight => report' \in ReportType
  BY <1>1 DEF Preflight, ReportType
<1> QED BY <1>2, <1>3, <1>4

LEMMA DashboardReads ==
  ASSUME ReadingInv, DashNext
  PROVE  ReadingInv'
<1>0. DashTypeOK /\ SeenInv /\ at \in 0 .. 30
  BY DashTypes DEF ReadingInv
<1>1. CASE Read
  BY <1>1, ReadInKeeps DEF Read
<1>2. ASSUME NEW rules \in BOOLEAN, NEW marked \in BOOLEAN, Plan(rules, marked) PROVE ReadingInv'
  <2>1. DashTypeOK'
    <3>1. at' = 13 /\ first' = Unread /\ UNCHANGED <<disk, second, stable, writes>>
      BY <1>2 DEF Plan
    <3>2. report' \in ReportType
      BY <1>2, ReportTypes
    <3> QED BY <1>0, <3>1, <3>2, UnreadType DEF DashTypeOK, ReportType, Filed
  <2>2. SeenInv'
    BY <1>0, <1>2 DEF Plan, SeenInv
  <2> QED BY <2>1, <2>2 DEF ReadingInv
<1>3. CASE SummarizeDag
  <2>0. at' \in {14, 27}
    BY <1>3 DEF SummarizeDag
  <2>1. DashTypeOK'
    BY <1>0, <1>3, <2>0, UnreadType, ReportTypes DEF SummarizeDag, DashTypeOK, ReportType, Filed
  <2>2. SeenInv'
    BY <1>3, <2>0 DEF SeenInv
  <2> QED BY <2>1, <2>2 DEF ReadingInv
<1>4. CASE ReadAgain
  BY <1>4, ReadInKeeps DEF ReadAgain
<1>5. CASE Preflight
  <2>1. DashTypeOK'
    BY <1>0, <1>5, UnreadType, ReportTypes DEF Preflight, DashTypeOK, ReportType, Filed
  <2>2. SeenInv'
    BY <1>5 DEF Preflight, SeenInv
  <2> QED BY <2>1, <2>2 DEF ReadingInv
<1>6. CASE \/ Arguments
           \/ \E kind \in {"json", "text"}, outcome \in {"no", "torn", "whole"} :
                WriteDocument(kind, outcome)
  <2>1. at' \in 27 .. 30 /\ UNCHANGED <<disk, first, second, report, stable, writes>>
    BY <1>6 DEF Arguments, WriteDocument
  <2>2. DashTypeOK'
    BY <1>0, <2>1 DEF DashTypeOK
  <2>3. SeenInv'
    BY <2>1 DEF SeenInv
  <2> QED BY <2>2, <2>3 DEF ReadingInv
<1>7. CASE RunDashboard
  <2>1. DashTypeOK'
    BY <1>0, <1>7, UnreadType, NoReportType, WritesAssumption
    DEF RunDashboard, DashTypeOK, ReportType, Filed
  <2>2. SeenInv'
    BY <1>7 DEF RunDashboard, SeenInv
  <2> QED BY <2>1, <2>2 DEF ReadingInv
<1>8. ASSUME NEW f \in Files, NEW s \in Versions[f], WriteSidecar(f, s) PROVE ReadingInv'
  <2>1. /\ DOMAIN disk' = Files /\ \A g \in Files : disk'[g] \in Versions[g]
        /\ \A g \in Files : g # f => disk'[g] = disk[g]
        /\ f \notin stable' /\ stable' \subseteq stable
        /\ UNCHANGED <<at, first, second, report>>
        /\ writes' \in 0 .. MaxWrites
    BY <1>0, <1>8, WritesAssumption DEF WriteSidecar, DashTypeOK
  <2>2. DashTypeOK'
    BY <1>0, <2>1 DEF DashTypeOK
  <2>3. SeenInv'
    <3>1. \A i \in 1 .. 6 : Order[i] \in stable' => Order[i] \in stable /\ disk'[Order[i]] = disk[Order[i]]
      BY <2>1, Orders
    <3> QED BY <1>0, <2>1, <3>1 DEF SeenInv
  <2> QED BY <2>2, <2>3 DEF ReadingInv
<1> QED BY <1>1, <1>2, <1>3, <1>4, <1>5, <1>6, <1>7, <1>8 DEF DashNext

LEMMA ReadingStep == ReadingInv /\ [Next]_vars => ReadingInv'
<1> SUFFICES ASSUME ReadingInv, [Next]_vars PROVE ReadingInv'
  OBVIOUS
<1>1. CASE UNCHANGED dashVars
  BY <1>1 DEF ReadingInv, DashTypeOK, SeenInv, dashVars
<1>2. CASE DashNext
  BY <1>2, DashboardReads
<1> QED BY <1>1, <1>2 DEF Next, vars

\* Requests, documents, files and reports stay what they are.
THEOREM TypesAreKept == Spec => []TypeOK
<1>1. ReadingInv /\ WritingInv => TypeOK
  BY DEF ReadingInv, WritingInv, TypeOK
<1> QED BY <1>1, ReadingInit, ReadingStep, WritingInit, WritingStep, PTL DEF Spec

------------------------------------------------------------------------------
(* Task lists without findings *)

\* In a list with no findings, the dependencies of an entry are known, and
\* those of an active entry satisfied.
LEMMA ActiveDependencies ==
  ASSUME NEW tasks \in Seq(Rows), Dag!NoFindings(tasks), NEW i \in DOMAIN tasks
  PROVE  /\ tasks[i].dependencies \subseteq Dag!Known(tasks)
         /\ tasks[i].status \in Dag!DEPENDENCY_ACTIVE_STATUSES =>
              \A d \in tasks[i].dependencies : Dag!Satisfied(Dag!ById(tasks, d))
<1>1. tasks[i].dependencies \subseteq Ids
  <2>1. tasks[i] \in Rows
    OBVIOUS
  <2> QED BY <2>1 DEF Rows
<1>2. tasks[i].dependencies \subseteq Dag!Known(tasks)
  <2> SUFFICES ASSUME NEW d \in tasks[i].dependencies, d \notin Dag!Known(tasks)
               PROVE  FALSE
    OBVIOUS
  <2> DEFINE f == <<i, d>>
  <2>1. f \in (DOMAIN tasks) \X Ids /\ f[1] = i /\ f[2] = d
    BY <1>1
  <2>2. f \in Dag!MissingDependencyFindings(tasks)
    BY <2>1 DEF Dag!MissingDependencyFindings
  <2> QED BY <2>2 DEF Dag!NoFindings
<1>3. ASSUME tasks[i].status \in Dag!DEPENDENCY_ACTIVE_STATUSES,
             NEW d \in tasks[i].dependencies, ~Dag!Satisfied(Dag!ById(tasks, d))
      PROVE  FALSE
  <2> DEFINE f == <<i, d>>
  <2>1. f \in (DOMAIN tasks) \X Dag!Known(tasks) /\ f[1] = i /\ f[2] = d
    BY <1>2
  <2>2. f \in Dag!StatusDependencyFindings(tasks)
    BY <1>3, <2>1 DEF Dag!StatusDependencyFindings
  <2> QED BY <2>2 DEF Dag!NoFindings
<1> QED BY <1>2, <1>3

\* The entry of a known id is one of the list.
LEMMA KnownEntry ==
  ASSUME NEW tasks \in Seq(Rows), Dag!DuplicateFindings(tasks) = {}, NEW n \in Dag!Known(tasks)
  PROVE  \E i \in DOMAIN tasks : Dag!ById(tasks, n) = tasks[i] /\ tasks[i].id = n
<1>1. PICK i \in DOMAIN tasks : tasks[i].id = n /\ n # None
  BY DEF Dag!Known
<1>2. DOMAIN tasks = 1 .. Len(tasks) /\ Len(tasks) \in Nat
  OBVIOUS
<1>3. ASSUME NEW j \in DOMAIN tasks, tasks[j].id = n
      PROVE  j <= i
  <2>1. CASE i < j
    BY <1>1, <1>2, <1>3, <2>1 DEF Dag!DuplicateFindings
  <2> QED BY <1>2, <2>1
<1>4. \E k \in DOMAIN tasks :
        /\ tasks[k].id = n
        /\ \A j \in DOMAIN tasks : tasks[j].id = n => j <= k
  BY <1>1, <1>3
<1> QED BY <1>4 DEF Dag!ById

\* Everything an active task transitively depends on is satisfied: the
\* satisfied tasks are closed under dependencies.
LEMMA ActiveAncestors ==
  ASSUME NEW tasks \in Seq(Rows), Dag!NoFindings(tasks),
         NEW i \in DOMAIN tasks,
         tasks[i].status \in Dag!DEPENDENCY_ACTIVE_STATUSES,
         NEW x \in Dag!AncestorsOf(tasks, i)
  PROVE  Dag!Satisfied(Dag!ById(tasks, x))
<1> DEFINE done == {n \in Dag!Known(tasks) : Dag!Satisfied(Dag!ById(tasks, n))}
<1>1. \A d \in tasks[i].dependencies : d \in done
  BY ActiveDependencies
<1>2. Dag!Closed(done, Dag!GraphOf(tasks))
  <2> SUFFICES ASSUME NEW e \in Dag!GraphOf(tasks), e[1] \in done
               PROVE  e[2] \in done
    BY DEF Dag!Closed
  <2>1. /\ e[1] \in Dag!Known(tasks)
        /\ e[2] \in Dag!Known(tasks)
        /\ e[2] \in Dag!ById(tasks, e[1]).dependencies
    BY DEF Dag!GraphOf
  <2>2. PICK k \in DOMAIN tasks : Dag!ById(tasks, e[1]) = tasks[k]
    BY <2>1, KnownEntry DEF Dag!NoFindings
  <2>3. tasks[k].status \in Dag!DEPENDENCY_ACTIVE_STATUSES
    BY <2>2 DEF Dag!Satisfied, Dag!DEPENDENCY_ACTIVE_STATUSES,
       Dag!DEPENDENCY_SATISFIED_STATUSES
  <2> QED BY <2>1, <2>2, <2>3, ActiveDependencies
<1>3. ASSUME NEW d \in tasks[i].dependencies
      PROVE  Dag!Ancestors(d, Dag!Known(tasks), Dag!GraphOf(tasks)) \subseteq done
  <2>1. \A y \in Dag!Known(tasks) : <<d, y>> \in Dag!GraphOf(tasks) => y \in done
    <3> SUFFICES ASSUME NEW y \in Dag!Known(tasks), <<d, y>> \in Dag!GraphOf(tasks)
                 PROVE  y \in done
      OBVIOUS
    <3> HIDE DEF done
    <3>1. <<d, y>>[1] \in done
      BY <1>1
    <3>2. <<d, y>>[2] \in done
      BY <1>2, <3>1 DEF Dag!Closed
    <3> QED BY <3>2
  <2>2. done \in SUBSET Dag!Known(tasks)
    OBVIOUS
  <2> HIDE DEF done
  <2> QED BY <1>2, <2>1, <2>2 DEF Dag!Ancestors
<1> QED BY <1>1, <1>3 DEF Dag!AncestorsOf

------------------------------------------------------------------------------
(* What the panels say of the files *)

KnownAction(d) ==
  LET tasks == Content(d, "TASK_REGISTRY")
      n == Content(d, "NEXT_ACTION").task_id IN
  n \in Dag!Known(tasks) \cup Gate!Nobody \/ Dag!Known(tasks) = {}

Unblocked(d) ==
  \A i \in DOMAIN Content(d, "TASK_REGISTRY") : ~Content(d, "TASK_REGISTRY")[i].blocked_by

\* What a plan without open blockers says, before the graph is looked at.
ReadyInv ==
  /\ at \in 0 .. 13 => report.status = "none" /\ report.eligible = "not_available"
  /\ at = 13 /\ ~report.open /\ {"NEXT_ACTION", "TASK_REGISTRY"} \subseteq stable =>
       KnownAction(disk) /\ Unblocked(disk)
  /\ ReadyDashboardIsExecutable

\* What each panel says follows from the files it is made of, as far as
\* nobody wrote these.
PanelInv ==
  at = 13 \/ report.status # "none" =>
    /\ report.recommended = "FREEZE" =>
         /\ report.open
         /\ {"PROJECT_STATE", "NEXT_ACTION"} \subseteq stable => Gate!HasIncident(View(disk))
         /\ "PROJECT_STATE" \in stable /\ ~Content(disk, "PROJECT_STATE").empty =>
              report.incident_health = "active_signal_detected"
    /\ ~report.open /\ "NEXT_ACTION" \in stable /\ Gate!IsCheckpointAttempt(View(disk)) =>
         report.recommended = "CHECKPOINT_PREFLIGHT"
    /\ report.counted > 0 /\ "TASK_REGISTRY" \in stable =>
         /\ IsLoaded(disk, "TASK_REGISTRY")
         /\ ~Dag!NoFindings(Content(disk, "TASK_REGISTRY"))
    /\ report.eligible = "yes" /\ {"PROJECT_STATE", "NEXT_ACTION"} \subseteq stable =>
         ~Gate!HasIncident(View(disk))
    /\ report.status # "none" =>
         /\ report.counted > 0 /\ "TASK_REGISTRY" \in stable => report.dag = "failed"
         /\ report.status = (IF report.open \/ report.dag = "failed" THEN "blocked" ELSE "ready")

PanelsInv == ReadyInv /\ PanelInv

\* Files as the planner looks at them.
LEMMA Viewed ==
  ASSUME NEW v, DOMAIN v = Files, NEW s \in Versions["TASK_REGISTRY"], v["TASK_REGISTRY"] = s
  PROVE  /\ Gate!Tasks(View(v)) = Dag!Known(Content(v, "TASK_REGISTRY"))
         /\ View(v)["TASK_REGISTRY"].health = v["TASK_REGISTRY"].health
         /\ \A f \in Files : f # "TASK_REGISTRY" => View(v)[f] = v[f]
<1>1. s \in [health : Gate!Healths, content : Seq(Rows)]
  BY RegistryType
<1>2. "TASK_REGISTRY" \in DOMAIN v
  BY Orders
<1>3. View(v)["TASK_REGISTRY"].health = v["TASK_REGISTRY"].health
  BY <1>1, <1>2 DEF View
<1>4. \A f \in Files : f # "TASK_REGISTRY" => View(v)[f] = v[f]
  BY <1>2 DEF View
<1>5. DOMAIN View(v)["TASK_REGISTRY"].content = Dag!Known(Content(v, "TASK_REGISTRY"))
  BY <1>1, <1>2 DEF View, Content
<1> QED BY <1>3, <1>4, <1>5 DEF Gate!Tasks, Gate!Of

\* A plan without blockers concerns a known task.
LEMMA ReadyIsKnown ==
  ASSUME NEW v, DOMAIN v = Files, NEW s \in Versions["TASK_REGISTRY"], v["TASK_REGISTRY"] = s,
         NEW w, NEW rules, Gate!Ready(FALSE, View(v), View(w), rules)
  PROVE  KnownAction(v)
<1>1. Gate!ReferenceFindings(View(v)) = {}
  BY DEF Gate!Ready, Gate!Errors
<1>2. Gate!Of(View(v), "NEXT_ACTION").task_id = Content(v, "NEXT_ACTION").task_id
  BY Viewed, Orders DEF Gate!Of, Content
<1>3. Content(v, "NEXT_ACTION").task_id \in Gate!References(View(v))
  BY <1>2 DEF Gate!References
<1>4. CASE Gate!Tasks(View(v)) = {}
  BY <1>4, Viewed DEF KnownAction
<1>5. CASE Gate!Tasks(View(v)) # {}
  <2>1. Content(v, "NEXT_ACTION").task_id \in Gate!Tasks(View(v)) \cup Gate!Nobody
    BY <1>1, <1>3, <1>5 DEF Gate!ReferenceFindings
  <2> QED BY <2>1, Viewed DEF KnownAction
<1> QED BY <1>4, <1>5

\* Only an incident is recommended a freeze, and then no plan is ready and
\* no checkpoint eligible.
LEMMA Frozen ==
  ASSUME NEW v, NEW w, Gate!Recommended(FALSE, v, w) = "FREEZE"
  PROVE  Gate!HasIncident(w) /\ \A rules : ~Gate!Ready(FALSE, v, w, rules)
<1>1. \A n : Gate!RecommendedForActionType(n) # "FREEZE"
  BY DEF Gate!RecommendedForActionType
<1>2. Gate!Route(FALSE, v, w) \in {"incident", "owner", "checkpoint", "unaudited",
                                   "unverified", "wait", "act"}
  BY DEF Gate!Route
<1>3. Gate!Route(FALSE, v, w) = "incident"
  <2> HIDE DEF Gate!Route, Gate!RecommendedForActionType
  <2> QED BY <1>1, <1>2 DEF Gate!Recommended
<1>4. Gate!HasIncident(w)
  BY <1>3 DEF Gate!Route
<1> QED BY <1>3, <1>4 DEF Gate!Ready

\* A plan without blockers and with a checkpoint asked for recommends it.
LEMMA ReadyToCheckpoint ==
  ASSUME NEW v, NEW w, NEW rules, Gate!Ready(FALSE, v, w, rules), Gate!IsCheckpointAttempt(w)
  PROVE  Gate!Recommended(FALSE, v, w) = "CHECKPOINT_PREFLIGHT"
<1>1. Gate!Route(FALSE, v, w) \in {"incident", "owner", "checkpoint", "unaudited"}
  BY DEF Gate!Route
<1>2. Gate!Route(FALSE, v, w) = "checkpoint"
  BY <1>1 DEF Gate!Ready
<1> QED BY <1>2 DEF Gate!Recommended

\* Whether there is an incident follows from two files, whether a checkpoint
\* is asked for from one.
LEMMA SameSignals ==
  ASSUME NEW v, NEW w, DOMAIN v = Files, DOMAIN w = Files,
         v["TASK_REGISTRY"] \in Versions["TASK_REGISTRY"],
         w["TASK_REGISTRY"] \in Versions["TASK_REGISTRY"],
         v["NEXT_ACTION"] = w["NEXT_ACTION"]
  PROVE  /\ Gate!IsCheckpointAttempt(View(v)) <=> Gate!IsCheckpointAttempt(View(w))
         /\ v["PROJECT_STATE"] = w["PROJECT_STATE"] =>
              (Gate!HasIncident(View(v)) <=> Gate!HasIncident(View(w)))
<1>1. \A f \in Files : f # "TASK_REGISTRY" => View(v)[f] = v[f] /\ View(w)[f] = w[f]
  BY Viewed
<1>2. View(v)["NEXT_ACTION"] = View(w)["NEXT_ACTION"]
  BY <1>1, Orders
<1>3. v["PROJECT_STATE"] = w["PROJECT_STATE"] => View(v)["PROJECT_STATE"] = View(w)["PROJECT_STATE"]
  BY <1>1, Orders
<1> QED BY <1>2, <1>3 DEF Gate!IsCheckpointAttempt, Gate!HasIncident, Gate!ActiveBlockers, Gate!Of

\* No checkpoint is eligible beside an incident that both readings show.
LEMMA EligibleWithoutIncident ==
  ASSUME NEW v, NEW w, DOMAIN v = Files, DOMAIN w = Files,
         \A f \in Files : v[f] \in Versions[f] /\ w[f] \in Versions[f],
         v["PROJECT_STATE"] = w["PROJECT_STATE"],
         Gate!Eligible(FALSE, View(v), View(w))
  PROVE  ~Gate!HasIncident(View(w))
<1>1. \A f \in Files : f # "TASK_REGISTRY" => View(v)[f] = v[f] /\ View(w)[f] = w[f]
  BY Viewed, Orders
<1>2. View(v)["PROJECT_STATE"] = w["PROJECT_STATE"] /\ View(w)["PROJECT_STATE"] = w["PROJECT_STATE"]
  BY <1>1, Orders
<1>3. ASSUME w["PROJECT_STATE"].content.incident_phase
      PROVE  FALSE
  <2> DEFINE s == w["PROJECT_STATE"]
             told == [blockers |-> s.content.blockers,
                      incident_phase |-> s.content.incident_phase,
                      checkpoint_eligibility |-> s.content.checkpoint_eligibility,
                      checkpoint_eligibility_status |-> s.content.checkpoint_eligibility_status,
                      active_branches |-> s.content.active_branches]
             cut == [s EXCEPT !.content = told]
  <2>1. IsSidecar("PROJECT_STATE", s)
    BY Orders, FilesAssumption
  <2>2. cut \in Gate!Sidecar("PROJECT_STATE")
    BY <2>1 DEF IsSidecar
  <2>3. /\ cut \in [health : Gate!Healths, content : Gate!Contents["PROJECT_STATE"]]
        /\ cut.content.incident_phase => cut.health = "flawed"
    <3> HIDE DEF cut
    <3> QED BY <2>2 DEF Gate!Sidecar
  <2>4. DOMAIN s = {"health", "content"}
    <3>1. DOMAIN cut = {"health", "content"}
      <4> HIDE DEF cut
      <4> QED BY <2>3
    <3> QED BY <3>1
  <2>5. cut.content = told /\ cut.health = s.health
    BY <2>4
  <2>6. s.health = "flawed"
    BY <1>3, <2>3, <2>5
  <2>7. "PROJECT_STATE" \in Gate!FileErrors(View(v))
    BY <1>2, <2>6, Orders DEF Gate!FileErrors, Files
  <2> QED BY <2>7 DEF Gate!Eligible, Gate!Errors
<1> QED BY <1>2, <1>3 DEF Gate!HasIncident, Gate!Eligible, Gate!Of

\* Tasks counted as blocked are findings of the graph.
LEMMA CountedFindings ==
  ASSUME NEW s \in Versions["TASK_REGISTRY"],
         Cardinality(ReadyBlockedByUncheckpointedDependency(s.content)) > 0
  PROVE  s.health \notin {"fallback", "lost", "unread"} /\ ~Dag!NoFindings(s.content)
<1> DEFINE tasks == s.content
<1>1. s \in [health : Gate!Healths, content : Seq(Rows)]
  BY RegistryType
<1>2. PICK i \in DOMAIN tasks : i \in ReadyBlockedByUncheckpointedDependency(tasks)
  <2>1. ReadyBlockedByUncheckpointedDependency(tasks) # {}
    BY FS_EmptySet
  <2> QED BY <2>1 DEF ReadyBlockedByUncheckpointedDependency
<1>3. PICK d \in tasks[i].dependencies \cap Dag!Known(tasks) :
        /\ tasks[i].status = "ready"
        /\ \/ Dag!ById(tasks, d).status = "audit_passed"
           \/ /\ Dag!ById(tasks, d).status = "checkpoint_done"
              /\ ~Dag!HasCheckpointEvidence(Dag!ById(tasks, d))
  BY <1>2 DEF ReadyBlockedByUncheckpointedDependency
<1>4. ~Dag!Satisfied(Dag!ById(tasks, d))
  BY <1>3 DEF Dag!Satisfied
<1>5. "ready" \in Dag!DEPENDENCY_ACTIVE_STATUSES
  BY DEF Dag!DEPENDENCY_ACTIVE_STATUSES
<1>6. ~Dag!NoFindings(tasks)
  <2> SUFFICES ASSUME Dag!NoFindings(tasks) PROVE FALSE
    OBVIOUS
  <2>1. tasks \in Seq(Rows)
    BY <1>1
  <2> HIDE DEF tasks
  <2> QED BY <1>3, <1>4, <1>5, <2>1, ActiveDependencies
<1>7. tasks # << >>
  BY <1>2
<1>8. s.health \notin {"fallback", "lost"}
  BY <1>7, RegistryType
<1>9. s.health # "unread"
  BY <1>1 DEF Gate!Healths
<1> QED BY <1>6, <1>8, <1>9

------------------------------------------------------------------------------
(* The steps that make the report *)

\* Whatever is kept of the files is a function on them.
AreFiles(v) == v = [f \in Files |-> v[f]]

FilesInv == AreFiles(disk) /\ AreFiles(first) /\ AreFiles(second)

LEMMA FilesInit == Init => FilesInv
<1> SUFFICES ASSUME Init PROVE FilesInv
  OBVIOUS
<1>1. disk \in Gate!Workspaces /\ first = Unread /\ second = Unread
  BY WorkspaceType DEF Init, DashInit, DashOff, Fresh
<1>2. PICK p \in Versions["PROJECT_STATE"], g \in Versions["CURRENT_GATE"],
           n \in Versions["NEXT_ACTION"], t \in Versions["TASK_REGISTRY"],
           r \in Versions["ACCEPTED_ARTIFACTS"],
           w \in Versions["WORKSPACE_IDENTITY"] :
        disk = [PROJECT_STATE |-> p, CURRENT_GATE |-> g, NEXT_ACTION |-> n,
                TASK_REGISTRY |-> t, ACCEPTED_ARTIFACTS |-> r, WORKSPACE_IDENTITY |-> w]
  BY <1>1 DEF Gate!Workspaces, Gate!Combinations
<1>3. AreFiles(disk)
  BY <1>2, Orders DEF AreFiles
<1>4. AreFiles(Unread)
  BY DEF AreFiles, Unread
<1> QED BY <1>1, <1>3, <1>4 DEF FilesInv

LEMMA FilesStep == FilesInv /\ [Next]_vars => FilesInv'
<1> SUFFICES ASSUME FilesInv, [Next]_vars PROVE FilesInv'
  OBVIOUS
<1>1. AreFiles(Unread)
  BY DEF AreFiles, Unread
<1>2. ASSUME NEW v, NEW k, NEW x, AreFiles(v)
      PROVE  AreFiles([v EXCEPT ![k] = x])
  BY <1>2 DEF AreFiles
<1>3. ASSUME NEW from, ReadIn(from) PROVE FilesInv'
  <2>1. disk' = disk
    BY <1>3 DEF ReadIn
  <2>2. \/ second' = second /\ \E k, x : first' = [first EXCEPT ![k] = x]
        \/ first' = first /\ \E k, x : second' = [second EXCEPT ![k] = x]
    BY <1>3, Zenon DEF ReadIn
  <2>3. AreFiles(disk')
    BY <2>1 DEF FilesInv
  <2>4. AreFiles(first')
    <3>1. CASE first' = first
      BY <3>1 DEF FilesInv
    <3>2. ASSUME NEW k, NEW x, first' = [first EXCEPT ![k] = x] PROVE AreFiles(first')
      BY <1>2, <3>2 DEF FilesInv
    <3> QED BY <2>2, <3>1, <3>2
  <2>5. AreFiles(second')
    <3>1. CASE second' = second
      BY <3>1 DEF FilesInv
    <3>2. ASSUME NEW k, NEW x, second' = [second EXCEPT ![k] = x] PROVE AreFiles(second')
      BY <1>2, <3>2 DEF FilesInv
    <3> QED BY <2>2, <3>1, <3>2
  <2>6. AreFiles(disk)' /\ AreFiles(first)' /\ AreFiles(second)'
    BY <2>3, <2>4, <2>5 DEF AreFiles
  <2> QED BY <2>6 DEF FilesInv
<1>4. CASE UNCHANGED dashVars
  BY <1>4 DEF dashVars, FilesInv, AreFiles
<1>5. CASE DashNext
  <2>1. CASE Read \/ ReadAgain
    BY <1>3, <2>1 DEF Read, ReadAgain
  <2>2. ASSUME NEW rules \in BOOLEAN, NEW marked \in BOOLEAN, Plan(rules, marked) PROVE FilesInv'
    BY <1>1, <2>2 DEF Plan, FilesInv
  <2>3. CASE SummarizeDag
    BY <1>1, <2>3 DEF SummarizeDag, FilesInv
  <2>4. CASE Preflight
    BY <1>1, <2>4 DEF Preflight, FilesInv
  <2>5. CASE Arguments
    BY <2>5 DEF Arguments, FilesInv
  <2>6. ASSUME NEW kind, NEW outcome, WriteDocument(kind, outcome) PROVE FilesInv'
    BY <2>6 DEF WriteDocument, FilesInv
  <2>7. CASE RunDashboard
    BY <1>1, <2>7 DEF RunDashboard, FilesInv
  <2>8. ASSUME NEW f, NEW s, WriteSidecar(f, s) PROVE FilesInv'
    BY <1>2, <2>8 DEF WriteSidecar, FilesInv
  <2> QED BY <1>5, <2>1, <2>2, <2>3, <2>4, <2>5, <2>6, <2>7, <2>8 DEF DashNext
<1> QED BY <1>4, <1>5 DEF Next, vars

\* The files as the decisions find them.
LEMMA AllRead ==
  ASSUME ReadingInv, FilesInv
  PROVE  /\ DOMAIN first = Files /\ DOMAIN second = Files /\ DOMAIN disk = Files
         /\ \A f \in Files : disk[f] \in Versions[f]
         /\ at \in {12, 26} => \A f \in Files :
              first[f] \in Versions[f] /\ (f \in stable => first[f] = disk[f])
         /\ at \in {12, 13, 26} => \A f \in Files :
              second[f] \in Versions[f] /\ (f \in stable => second[f] = disk[f])
         /\ at \in {12, 26} /\ stable = Files => first = disk
         /\ at \in {12, 13, 26} /\ stable = Files => second = disk
<1>1. DashTypeOK /\ SeenInv
  BY DEF ReadingInv
<1>2. DOMAIN first = Files /\ DOMAIN second = Files /\ DOMAIN disk = Files
      /\ \A f \in Files : disk[f] \in Versions[f]
  BY <1>1 DEF DashTypeOK
<1>3. at \in {12, 26} => \A f \in Files :
        first[f] \in Versions[f] /\ (f \in stable => first[f] = disk[f])
  BY <1>1, Orders DEF SeenInv
<1>4. at \in {12, 13, 26} => \A f \in Files :
        second[f] \in Versions[f] /\ (f \in stable => second[f] = disk[f])
  BY <1>1, Orders DEF SeenInv
<1>5. ASSUME NEW v, AreFiles(v), \A f \in Files : v[f] = disk[f]
      PROVE  v = disk
  BY <1>5 DEF AreFiles, FilesInv
<1> QED BY <1>2, <1>3, <1>4, <1>5 DEF FilesInv
\* ReadyInv and PanelInv are about the report, the files and how far the
\* command is.
LEMMA PanelsStand ==
  ASSUME PanelsInv, UNCHANGED <<disk, report, stable>>,
         at \in 0 .. 13 <=> at' \in 0 .. 13, at = 13 <=> at' = 13
  PROVE  PanelsInv'
BY DEF PanelsInv, ReadyInv, PanelInv, ReadyDashboardIsExecutable, KnownAction, Unblocked,
       View, Content, IsLoaded

LEMMA PlanPanels ==
  ASSUME ReadingInv, FilesInv, PanelsInv, NEW rules \in BOOLEAN, NEW marked \in BOOLEAN, Plan(rules, marked)
  PROVE  PanelsInv'
<1> DEFINE recommended == Gate!Recommended(FALSE, View(first), View(second))
           ready == Gate!Ready(FALSE, View(first), View(second), rules)
           open == OpenBlockers(second, ready)
           counted == Cardinality(
             ReadyBlockedByUncheckpointedDependency(Content(second, "TASK_REGISTRY")))
           health == IncidentHealth(second, recommended, marked)
<1>1. /\ report' = [report EXCEPT !.recommended = recommended, !.open = open,
                                  !.counted = counted, !.incident_health = health]
      /\ at = 12 /\ at' = 13 /\ UNCHANGED <<disk, stable>>
  BY DEF Plan
<1> HIDE DEF recommended, ready, open, counted, health
<1>2. report \in ReportType /\ report.status = "none" /\ report.eligible = "not_available"
  BY <1>1, DashTypes DEF ReadingInv, PanelsInv, ReadyInv
<1>3. /\ report'.status = "none" /\ report'.open = open /\ report'.recommended = recommended
      /\ report'.counted = counted /\ report'.incident_health = health
      /\ report'.eligible = report.eligible
  BY <1>1, <1>2 DEF ReportType
<1>4. ~open => ready /\ Unblocked(second)
  BY DEF open, OpenBlockers, Unblocked
<1>5. /\ DOMAIN first = Files /\ DOMAIN second = Files
      /\ \A f \in Files : /\ first[f] \in Versions[f] /\ second[f] \in Versions[f]
                          /\ f \in stable => first[f] = disk[f] /\ second[f] = disk[f]
  BY <1>1, AllRead
<1>6. ASSUME ~open, {"NEXT_ACTION", "TASK_REGISTRY"} \subseteq stable
      PROVE  KnownAction(disk) /\ Unblocked(disk)
  <2>1. /\ first["TASK_REGISTRY"] = disk["TASK_REGISTRY"]
        /\ first["NEXT_ACTION"] = disk["NEXT_ACTION"]
        /\ second["TASK_REGISTRY"] = disk["TASK_REGISTRY"]
        /\ first["TASK_REGISTRY"] \in Versions["TASK_REGISTRY"]
    BY <1>5, <1>6, Orders
  <2>2. KnownAction(first)
    BY <1>4, <1>5, <1>6, <2>1, ReadyIsKnown DEF ready
  <2> QED BY <1>4, <1>6, <2>1, <2>2 DEF KnownAction, Unblocked, Content
<1>7. ReadyInv'
  <2>1. KnownAction(disk)' = KnownAction(disk) /\ Unblocked(disk)' = Unblocked(disk)
    BY <1>1 DEF KnownAction, Unblocked, Content
  <2> QED BY <1>1, <1>2, <1>3, <1>6, <2>1 DEF ReadyInv, ReadyDashboardIsExecutable
<1>8. /\ second["TASK_REGISTRY"] \in Versions["TASK_REGISTRY"]
      /\ disk["TASK_REGISTRY"] \in Versions["TASK_REGISTRY"] /\ DOMAIN disk = Files
  BY <1>5, AllRead, Orders
<1>9. ASSUME recommended = "FREEZE"
      PROVE  /\ open
             /\ {"PROJECT_STATE", "NEXT_ACTION"} \subseteq stable => Gate!HasIncident(View(disk))
             /\ "PROJECT_STATE" \in stable /\ ~Content(disk, "PROJECT_STATE").empty =>
                  health = "active_signal_detected"
  <2>1. ~ready /\ Gate!HasIncident(View(second))
    BY <1>9, Frozen DEF ready, recommended
  <2>2. {"PROJECT_STATE", "NEXT_ACTION"} \subseteq stable => Gate!HasIncident(View(disk))
    BY <1>5, <1>8, <2>1, SameSignals, Orders
  <2>3. "PROJECT_STATE" \in stable /\ ~Content(disk, "PROJECT_STATE").empty =>
          health = "active_signal_detected"
    BY <1>5, <1>9, Orders DEF health, IncidentHealth, Content
  <2> QED BY <1>4, <2>1, <2>2, <2>3
<1>10. ASSUME ~open, "NEXT_ACTION" \in stable, Gate!IsCheckpointAttempt(View(disk))
       PROVE  recommended = "CHECKPOINT_PREFLIGHT"
  <2>1. Gate!IsCheckpointAttempt(View(second))
    BY <1>5, <1>8, <1>10, SameSignals, Orders
  <2> QED BY <1>4, <1>10, <2>1, ReadyToCheckpoint DEF ready, recommended
<1>11. ASSUME counted > 0, "TASK_REGISTRY" \in stable
       PROVE  /\ IsLoaded(disk, "TASK_REGISTRY")
              /\ ~Dag!NoFindings(Content(disk, "TASK_REGISTRY"))
  BY <1>5, <1>8, <1>11, CountedFindings, Orders DEF counted, IsLoaded, Content
<1>12. PanelInv'
  <2>1. /\ View(disk)' = View(disk) /\ stable' = stable
        /\ Content(disk, "TASK_REGISTRY")' = Content(disk, "TASK_REGISTRY")
        /\ Content(disk, "PROJECT_STATE")' = Content(disk, "PROJECT_STATE")
        /\ IsLoaded(disk, "TASK_REGISTRY")' = IsLoaded(disk, "TASK_REGISTRY")
    BY <1>1 DEF View, Content, IsLoaded
  <2> QED BY <1>2, <1>3, <1>9, <1>10, <1>11, <2>1 DEF PanelInv
<1> QED BY <1>7, <1>12 DEF PanelsInv

LEMMA DagPanels ==
  ASSUME ReadingInv, FilesInv, PanelsInv, SummarizeDag
  PROVE  PanelsInv'
<1> DEFINE dag == IF ~IsLoaded(second, "TASK_REGISTRY") THEN "not_available"
                  ELSE IF DagPasses(disk["TASK_REGISTRY"]) THEN "passed"
                  ELSE "failed"
           status == IF report.open \/ dag = "failed" THEN "blocked" ELSE "ready"
<1>1. /\ report' = [report EXCEPT !.dag = dag, !.status = status]
      /\ at = 13 /\ at' \in {14, 27} /\ UNCHANGED <<disk, stable>>
  BY DEF SummarizeDag
<1>2. report \in ReportType
  BY DashTypes DEF ReadingInv
<1>3. /\ report'.dag = dag /\ report'.status = status
      /\ report'.open = report.open /\ report'.recommended = report.recommended
      /\ report'.counted = report.counted /\ report'.incident_health = report.incident_health
      /\ report'.eligible = report.eligible /\ report.eligible = "not_available"
  <2> HIDE DEF dag, status
  <2> QED BY <1>1, <1>2 DEF ReportType, PanelsInv, ReadyInv
<1>4. /\ disk["TASK_REGISTRY"] \in Versions["TASK_REGISTRY"]
      /\ second["TASK_REGISTRY"] \in Versions["TASK_REGISTRY"]
      /\ "TASK_REGISTRY" \in stable => second["TASK_REGISTRY"] = disk["TASK_REGISTRY"]
  BY <1>1, AllRead, Orders
<1> DEFINE tasks == Content(disk, "TASK_REGISTRY")
           n == Content(disk, "NEXT_ACTION").task_id
<1>5. ASSUME status = "ready", {"NEXT_ACTION", "TASK_REGISTRY"} \subseteq stable
      PROVE  /\ n \in Dag!Known(tasks) \cup Gate!Nobody \/ Dag!Known(tasks) = {}
             /\ \A i \in DOMAIN tasks :
                  /\ ~tasks[i].blocked_by
                  /\ tasks[i].id = n /\ tasks[i].status \in Dag!DEPENDENCY_ACTIVE_STATUSES =>
                       \A x \in Dag!AncestorsOf(tasks, i) : Dag!Satisfied(Dag!ById(tasks, x))
  <2>1. KnownAction(disk) /\ Unblocked(disk) /\ dag # "failed"
    BY <1>1, <1>5 DEF PanelsInv, ReadyInv
  <2>2. ASSUME NEW i \in DOMAIN tasks,
               tasks[i].status \in Dag!DEPENDENCY_ACTIVE_STATUSES,
               NEW x \in Dag!AncestorsOf(tasks, i)
        PROVE  Dag!Satisfied(Dag!ById(tasks, x))
    <3>1. tasks \in Seq(Rows)
      BY <1>4, RegistryType DEF Content
    <3>2. CASE ~IsLoaded(second, "TASK_REGISTRY")
      <4>1. disk["TASK_REGISTRY"].health \in {"fallback", "lost", "unread"}
        BY <1>4, <1>5, <3>2 DEF IsLoaded
      <4>2. disk["TASK_REGISTRY"].health # "unread"
        BY <1>4, RegistryType DEF Gate!Healths
      <4>3. tasks = << >>
        BY <1>4, <4>1, <4>2, RegistryType DEF Content
      <4> QED BY <2>2, <4>3
    <3>3. CASE IsLoaded(second, "TASK_REGISTRY")
      <4>1. Dag!NoFindings(tasks)
        BY <2>1, <3>3 DEF DagPasses, Content
      <4> HIDE DEF tasks
      <4> QED BY <2>2, <3>1, <4>1, ActiveAncestors
    <3> QED BY <3>2, <3>3
  <2> QED BY <2>1, <2>2 DEF KnownAction, Unblocked
<1>6. ReadyInv'
  <2> HIDE DEF dag, status
  <2> SUFFICES ASSUME status = "ready", {"NEXT_ACTION", "TASK_REGISTRY"} \subseteq stable
               PROVE  /\ n \in Dag!Known(tasks) \cup Gate!Nobody \/ Dag!Known(tasks) = {}
                      /\ \A i \in DOMAIN tasks :
                           /\ ~tasks[i].blocked_by
                           /\ /\ tasks[i].id = n
                              /\ tasks[i].status \in Dag!DEPENDENCY_ACTIVE_STATUSES
                              => \A x \in Dag!AncestorsOf(tasks, i) :
                                   Dag!Satisfied(Dag!ById(tasks, x))
    BY <1>1, <1>3 DEF ReadyInv, ReadyDashboardIsExecutable, Content
  <2> QED BY <1>5
<1>7. ASSUME report.counted > 0, "TASK_REGISTRY" \in stable
      PROVE  dag = "failed"
  BY <1>1, <1>4, <1>7 DEF PanelsInv, PanelInv, DagPasses, Content, IsLoaded
<1>8. PanelInv'
  <2> HIDE DEF dag
  <2>1. status = (IF report.open \/ dag = "failed" THEN "blocked" ELSE "ready")
    OBVIOUS
  <2> HIDE DEF status
  <2>2. /\ View(disk)' = View(disk) /\ stable' = stable
        /\ Content(disk, "TASK_REGISTRY")' = Content(disk, "TASK_REGISTRY")
        /\ Content(disk, "PROJECT_STATE")' = Content(disk, "PROJECT_STATE")
        /\ IsLoaded(disk, "TASK_REGISTRY")' = IsLoaded(disk, "TASK_REGISTRY")
    BY <1>1 DEF View, Content, IsLoaded
  <2> QED BY <1>1, <1>3, <1>7, <2>1, <2>2 DEF PanelsInv, PanelInv
<1> QED BY <1>6, <1>8 DEF PanelsInv

LEMMA PreflightPanels ==
  ASSUME ReadingInv, FilesInv, PanelsInv, Preflight
  PROVE  PanelsInv'
<1> DEFINE eligible == IF Gate!Eligible(FALSE, View(first), View(second)) THEN "yes" ELSE "no"
<1>1. /\ report' = [report EXCEPT !.eligible = eligible]
      /\ at = 26 /\ at' = 27 /\ UNCHANGED <<disk, stable>>
  BY DEF Preflight
<1>2. report \in ReportType
  BY DashTypes DEF ReadingInv
<1>3. /\ report'.dag = report.dag /\ report'.status = report.status
      /\ report'.open = report.open /\ report'.recommended = report.recommended
      /\ report'.counted = report.counted /\ report'.incident_health = report.incident_health
      /\ report'.eligible = eligible
  <2> HIDE DEF eligible
  <2> QED BY <1>1, <1>2 DEF ReportType
<1>4. ASSUME eligible = "yes", {"PROJECT_STATE", "NEXT_ACTION"} \subseteq stable
      PROVE  ~Gate!HasIncident(View(disk))
  <2>1. /\ DOMAIN first = Files /\ DOMAIN second = Files /\ DOMAIN disk = Files
        /\ \A f \in Files :
             /\ first[f] \in Versions[f] /\ second[f] \in Versions[f] /\ disk[f] \in Versions[f]
             /\ f \in stable => first[f] = disk[f] /\ second[f] = disk[f]
    BY <1>1, AllRead
  <2>2. first["PROJECT_STATE"] = second["PROJECT_STATE"]
    BY <1>4, <2>1, Orders
  <2>3. Gate!Eligible(FALSE, View(first), View(second))
    BY <1>4
  <2>4. ~Gate!HasIncident(View(second))
    <3> HIDE DEF eligible
    <3> QED BY <2>1, <2>2, <2>3, EligibleWithoutIncident, Zenon
  <2> QED BY <1>4, <2>1, <2>4, SameSignals, Orders
<1>5. ReadyInv'
  BY <1>1, <1>3 DEF PanelsInv, ReadyInv, ReadyDashboardIsExecutable, Content
<1>6. PanelInv'
  <2> HIDE DEF eligible
  <2>1. /\ View(disk)' = View(disk) /\ at' # 13
        /\ Content(disk, "TASK_REGISTRY")' = Content(disk, "TASK_REGISTRY")
        /\ Content(disk, "PROJECT_STATE")' = Content(disk, "PROJECT_STATE")
        /\ IsLoaded(disk, "TASK_REGISTRY")' = IsLoaded(disk, "TASK_REGISTRY")
    BY <1>1 DEF View, Content, IsLoaded
  <2> SUFFICES ASSUME report.status # "none"
               PROVE  PanelInv'
    BY <1>1, <1>3, <2>1 DEF PanelInv
  <2> QED BY <1>1, <1>3, <1>4, <2>1 DEF PanelsInv, PanelInv
<1> QED BY <1>5, <1>6 DEF PanelsInv

LEMMA WritePanels ==
  ASSUME ReadingInv, PanelsInv, NEW f \in Files, NEW s \in Versions[f], WriteSidecar(f, s)
  PROVE  PanelsInv'
<1>1. /\ \A g \in Files : g # f => disk'[g] = disk[g]
      /\ f \notin stable' /\ stable' \subseteq stable
      /\ UNCHANGED <<at, report>>
  BY DEF WriteSidecar, ReadingInv, DashTypeOK
<1>2. {"NEXT_ACTION", "TASK_REGISTRY"} \subseteq stable' =>
        /\ {"NEXT_ACTION", "TASK_REGISTRY"} \subseteq stable
        /\ disk'["NEXT_ACTION"] = disk["NEXT_ACTION"]
        /\ disk'["TASK_REGISTRY"] = disk["TASK_REGISTRY"]
  BY <1>1, Orders
<1>3. ReadyInv'
  BY <1>1, <1>2 DEF PanelsInv, ReadyInv, ReadyDashboardIsExecutable, KnownAction, Unblocked, Content
<1>4. /\ DOMAIN disk = Files /\ DOMAIN disk' = Files
      /\ disk["TASK_REGISTRY"] \in Versions["TASK_REGISTRY"]
      /\ disk'["TASK_REGISTRY"] \in Versions["TASK_REGISTRY"]
  BY Orders DEF WriteSidecar, ReadingInv, DashTypeOK
<1>5. ASSUME "NEXT_ACTION" \in stable'
      PROVE  /\ "NEXT_ACTION" \in stable
             /\ Gate!IsCheckpointAttempt(View(disk')) <=> Gate!IsCheckpointAttempt(View(disk))
             /\ "PROJECT_STATE" \in stable' =>
                  (Gate!HasIncident(View(disk')) <=> Gate!HasIncident(View(disk)))
  BY <1>1, <1>4, <1>5, SameSignals, Orders
<1>6. /\ "PROJECT_STATE" \in stable' =>
           "PROJECT_STATE" \in stable /\ disk'["PROJECT_STATE"] = disk["PROJECT_STATE"]
      /\ "TASK_REGISTRY" \in stable' =>
           "TASK_REGISTRY" \in stable /\ disk'["TASK_REGISTRY"] = disk["TASK_REGISTRY"]
  BY <1>1, Orders
<1>7. PanelInv'
  BY <1>1, <1>5, <1>6 DEF PanelsInv, PanelInv, Content, IsLoaded
<1> QED BY <1>3, <1>7 DEF PanelsInv

LEMMA PanelsInit == Init => PanelsInv
<1> SUFFICES ASSUME Init PROVE PanelsInv
  OBVIOUS
<1>1. report = NoReport /\ at # 13
  BY DEF Init, DashInit, DashOff, Fresh
<1>2. report.status = "none" /\ report.eligible = "not_available"
  BY <1>1 DEF NoReport
<1>3. ReadyInv
  BY <1>1, <1>2 DEF ReadyInv, ReadyDashboardIsExecutable
<1>4. PanelInv
  BY <1>1, <1>2 DEF PanelInv
<1> QED BY <1>3, <1>4 DEF PanelsInv

LEMMA PanelsStep ==
  ReadingInv /\ FilesInv /\ PanelsInv /\ [Next]_vars => PanelsInv'
<1> SUFFICES ASSUME ReadingInv, FilesInv, PanelsInv, [Next]_vars PROVE PanelsInv'
  OBVIOUS
<1>0. at \in 0 .. 30
  BY DashTypes DEF ReadingInv
<1>1. CASE UNCHANGED dashVars
  BY <1>1, PanelsStand DEF dashVars
<1>2. CASE DashNext
  <2>1. CASE Read
    <3>1. at \in 0 .. 11 /\ at' = at + 1 /\ UNCHANGED <<disk, report, stable>>
      BY <2>1 DEF Read, ReadIn
    <3> QED BY <3>1, PanelsStand
  <2>2. ASSUME NEW rules \in BOOLEAN, NEW marked \in BOOLEAN, Plan(rules, marked) PROVE PanelsInv'
    BY <2>2, PlanPanels
  <2>3. CASE SummarizeDag
    BY <2>3, DagPanels
  <2>4. CASE ReadAgain
    <3>1. at \in 14 .. 25 /\ at' = at + 1 /\ UNCHANGED <<disk, report, stable>>
      BY <2>4 DEF ReadAgain, ReadIn
    <3> QED BY <3>1, PanelsStand
  <2>5. CASE Preflight
    BY <2>5, PreflightPanels
  <2>6. CASE \/ Arguments
             \/ \E kind \in {"json", "text"}, outcome \in {"no", "torn", "whole"} :
                  WriteDocument(kind, outcome)
    <3>1. at \in 27 .. 29 /\ at' \in 28 .. 30 /\ UNCHANGED <<disk, report, stable>>
      BY <2>6 DEF Arguments, WriteDocument
    <3> QED BY <3>1, PanelsStand
  <2>7. CASE RunDashboard
    <3>1. at' = 0 /\ report' = NoReport
      BY <2>7 DEF RunDashboard
    <3>2. report'.status = "none" /\ report'.eligible = "not_available"
      BY <3>1 DEF NoReport
    <3> QED BY <3>1, <3>2 DEF PanelsInv, ReadyInv, PanelInv, ReadyDashboardIsExecutable
  <2>8. ASSUME NEW f \in Files, NEW s \in Versions[f], WriteSidecar(f, s) PROVE PanelsInv'
    BY <2>8, WritePanels
  <2> QED BY <1>2, <2>1, <2>2, <2>3, <2>4, <2>5, <2>6, <2>7, <2>8 DEF DashNext
<1> QED BY <1>1, <1>2 DEF Next, vars

\* A dashboard that says ready can be acted on, as long as nobody writes
\* NEXT_ACTION and TASK_REGISTRY while it is made.
THEOREM ReadyIsExecutable == Spec => []ReadyDashboardIsExecutable
<1>1. PanelsInv => ReadyDashboardIsExecutable
  BY DEF PanelsInv, ReadyInv
<1> QED BY <1>1, ReadingInit, ReadingStep, FilesInit, FilesStep, PanelsInit, PanelsStep, PTL
        DEF Spec

\* No panel contradicts another because of a file that nobody wrote.
THEOREM PanelsAgree == Spec => []PanelsDoNotContradict
<1>1. PanelsInv => PanelsDoNotContradict
  BY DEF PanelsInv, PanelInv, PanelsDoNotContradict
<1> QED BY <1>1, ReadingInit, ReadingStep, FilesInit, FilesStep, PanelsInit, PanelsStep, PTL
        DEF Spec
==============================================================================
