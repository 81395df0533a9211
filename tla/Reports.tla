------------------------------- MODULE Reports -------------------------------
(***************************************************************************)
(* The two commands that write their report as a pair of documents, one of *)
(* them at a time, each run again and again.                               *)
(***************************************************************************)
EXTENDS Dashboard, IncidentFixture

vars == <<dashVars, fixtureVars, pairVars>>

TypeOK == DashTypeOK /\ FixtureTypeOK /\ PairTypeOK

Init ==
  /\ PairInit
  /\ \/ DashInit /\ FixtureOff
     \/ DashOff /\ FixtureInit

Next ==
  \/ step = "off" /\ DashNext /\ UNCHANGED fixtureVars
  \/ step # "off" /\ FixtureNext /\ UNCHANGED dashVars

Spec == Init /\ [][Next]_vars

\* The directories of the command at work.
OwnDirs == IF step = "off" THEN {"dashboard"} ELSE {"proposals", "reports"}

\* An exit code can be relied on: success means that every document asked
\* for is there in whole (unless both have one name, when the second takes
\* the place of the first); findings mean that none was even touched; and
\* whatever the end, documents lie only where the command may put them, and
\* never a text without the whole JSON document asked for beside it (a JSON
\* document without its text is what an error between the two leaves).
ExitCodesAreTrue ==
  /\ exit = "ok" /\ (step = "off" \/ step = "end") =>
       \A kind \in {"json", "text"} :
         request[kind] # NONE /\ ~request.same => emitted[kind] = "whole"
  /\ exit = "findings" => emitted = NothingEmitted
  /\ \A kind \in {"json", "text"} :
       emitted[kind] # "no" => MayWrite(request[kind], OwnDirs)
  /\ emitted.text # "no" /\ request.json # NONE /\ ~request.same =>
       emitted.json = "whole"
==============================================================================
