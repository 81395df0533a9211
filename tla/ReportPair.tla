----------------------------- MODULE ReportPair -----------------------------
(***************************************************************************)
(* What `aso dashboard' (commands/dashboard.py) and `aso incident fixture' *)
(* (commands/incident_fixture.py) have in common: a report that goes into  *)
(* two documents, JSON and HTML or Markdown, each where the command line   *)
(* says, as far as the output policy lets it.                              *)
(***************************************************************************)
EXTENDS OutputPolicy

CONSTANTS
  Outputs,   \* where --json-out and --out may point
  NONE,      \* no document is asked for
  InTmp      \* whether the workspace itself lies under /tmp

ASSUME OutputsAssumption == Outputs \subseteq Locations /\ NONE \notin Locations

VARIABLES
  request,   \* the documents asked for; whether both are one path
  emitted,   \* what has become of each
  exit       \* the exit code: none yet, success, findings, an I/O error,
             \* or that of an exception that nobody catches

pairVars == <<request, emitted, exit>>

Requests ==
  {r \in [json : Outputs \cup {NONE}, text : Outputs \cup {NONE}, same : BOOLEAN] :
     r.same => r.json = r.text /\ r.json # NONE}

PairTypeOK ==
  /\ request \in Requests
  /\ emitted \in [json : {"no", "torn", "whole"}, text : {"no", "torn", "whole"}]
  /\ exit \in {"none", "ok", "findings", "io_error", "exception"}

NothingEmitted == [json |-> "no", text |-> "no"]

NoRequest == [json |-> NONE, text |-> NONE, same |-> FALSE]

PairInit ==
  /\ request = NoRequest
  /\ emitted = NothingEmitted
  /\ exit = "none"

PairReset ==
  /\ request' = NoRequest
  /\ emitted' = NothingEmitted
  /\ exit' = "none"

\* The arguments of the command line, which matter from here on.
ReadArguments == request' \in Requests

\* No link leads out of the directories (ContextPack has those).
MayWrite(place, subdirs) == Allowed(place, [l \in Locations |-> l], subdirs, InTmp)

\* mkdir and write_text, which end well, break off, or do not even start; a
\* second document in the same place replaces the first.
Emit(kind, outcome) ==
  emitted' = [k \in {"json", "text"} |->
                IF k = kind THEN outcome
                ELSE IF request.same /\ outcome # "no" THEN "no" ELSE emitted[k]]
=============================================================================
