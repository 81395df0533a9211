----------------------------- MODULE CycleVerdict -----------------------------
(***************************************************************************)
(* What the cycle check of `aso dag verify' promises: one verdict about    *)
(* the dependency graph it was given, right whenever it is given, and a    *)
(* failure without a verdict only on a chain of tasks that is as long as   *)
(* the interpreter's stack.                                                *)
(***************************************************************************)
EXTENDS DependencyGraph

CONSTANTS
  Nodes,       \* the task ids of the registry
  FrameLimits  \* how deep the interpreter's stack may be

VARIABLES
  edges,       \* the dependency graph
  frames,      \* nested calls the interpreter allows this run
  verdict      \* "none", then "clean", "cyclic" or "crashed"

vars == <<edges, frames, verdict>>

Init ==
  /\ edges \in SUBSET (Nodes \X Nodes)
  /\ frames \in FrameLimits
  /\ verdict = "none"

Decide ==
  /\ verdict = "none"
  /\ verdict' = IF Acyclic(Nodes, edges) THEN "clean" ELSE "cyclic"
  /\ UNCHANGED <<edges, frames>>

Crash ==
  /\ verdict = "none"
  /\ HasChain(Nodes, edges, frames)
  /\ verdict' = "crashed"
  /\ UNCHANGED <<edges, frames>>

Next == Decide \/ Crash

Spec == Init /\ [][Next]_vars
==============================================================================
