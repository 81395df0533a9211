-------------------------- MODULE MCInitWorkspace --------------------------
(* Instances of InitWorkspace for TLC. *)
EXTENDS InitWorkspace

CONSTANTS ours, theirs, main

\* A command line with nothing wrong, that accepts the lock and allows push.
Sound ==
  [complete |-> TRUE, target |-> "usable", source |-> TRUE,
   type |-> "project_workspace",
   remote |-> [host |-> "github.com", repo |-> ours], branch |-> main,
   alias |-> TRUE, accept |-> TRUE, push |-> TRUE]

MCOptions ==
  {Sound,
   [Sound EXCEPT !.accept = FALSE, !.push = FALSE, !.type = "test_fixture"],
   [Sound EXCEPT !.remote.repo = theirs, !.alias = FALSE, !.push = FALSE],
   [Sound EXCEPT !.source = FALSE],
   [Sound EXCEPT !.target = "in_package"]}
=============================================================================
