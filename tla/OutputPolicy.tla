---------------------------- MODULE OutputPolicy ----------------------------
(***************************************************************************)
(* commands/output_policy.py: where a command that calls itself read-only  *)
(* may write its report.  A path is reduced to the part of the file system *)
(* it lies in; `leads' says where the directories lead in the end, which   *)
(* is themselves unless somebody has put a symbolic link there.            *)
(***************************************************************************)

\* Directories below project-runtime/ that commands may write generated
\* documents to, each command to its own.
GeneratedDirs == {"proposals", "reports", "dashboard"}

\* WORKSPACE_FORBIDDEN_ROOTS
WORKSPACE_FORBIDDEN_ROOTS == {"project-input", "project-archive", "workspace-tmp"}

InWorkspace ==
  GeneratedDirs \cup WORKSPACE_FORBIDDEN_ROOTS \cup {"runtime", "agent-system"}

Locations == InWorkspace \cup {"tmp", "elsewhere"}

\* is_relative_to
Below(place, root) ==
  place = root \/ (root = "runtime" /\ place \in GeneratedDirs)

Allowed_TmpFirst(place, leads, subdirs, in_tmp) ==
  \/ place = "tmp" \/ (in_tmp /\ place \in InWorkspace)
  \/ \E d \in subdirs : leads[d] = place

\* validate_generated_output_path, for a path that resolves to place: in the
\* directories the command may use; else not in a forbidden root or anywhere
\* in project-runtime/; else under /tmp, as the workspace itself may be.
Allowed(place, leads, subdirs, in_tmp) ==
  \/ \E d \in subdirs : leads[d] = place
  \/ /\ \A f \in WORKSPACE_FORBIDDEN_ROOTS : ~Below(place, leads[f])
     /\ ~Below(place, leads["runtime"])
     /\ place = "tmp" \/ (in_tmp /\ place \in InWorkspace)
=============================================================================
