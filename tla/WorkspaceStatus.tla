--------------------------- MODULE WorkspaceStatus ---------------------------
(***************************************************************************)
(* `aso status --mode workspace' (commands/status.py): what it finds wrong *)
(* with the runtime files, each taken as it is when read.  It goes on when *)
(* files are missing, and an unknown value never counts against anything.  *)
(***************************************************************************)
CONSTANTS NONE, Missing, Unreadable

Value(content, key) == IF content \in {Missing, Unreadable} THEN NONE ELSE content[key]

PushAllowedValues(fs) ==
  {Value(fs[f], "push") : f \in {"PROJECT_STATE", "REPOSITORY_LOCK", "WORKSPACE_IDENTITY"}}

GateLeftOpen(fs) ==
  /\ Value(fs["PROJECT_STATE"], "checkpoint") = "passed"
  /\ Value(fs["CURRENT_GATE"], "status") \notin
       {"passed", "skipped", "closed", "completed", "inactive", NONE}

\* The task it shows as the next one, if it shows one.
TaskShown(fs) ==
  IF Value(fs["NEXT_ACTION"], "type") = NONE THEN NONE ELSE Value(fs["NEXT_ACTION"], "task")

StatusFails(fs) ==
  \/ \E f \in DOMAIN fs : fs[f] = Unreadable
  \/ \E v, w \in PushAllowedValues(fs) \ {NONE} : v # w
  \/ GateLeftOpen(fs)

Status(fs) ==
  IF StatusFails(fs) THEN "failed"
  ELSE IF \E f \in DOMAIN fs : fs[f] = Missing THEN "warning" ELSE "passed"
=============================================================================
