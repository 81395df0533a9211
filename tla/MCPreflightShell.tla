-------------------------- MODULE MCPreflightShell --------------------------
(* Instances of PreflightShell for TLC. *)
EXTENDS PreflightShell

CONSTANTS product, agents, tz, key, ours, theirs, main

MCPaths == {product, agents, tz, key}

MCKind ==
  [p \in MCPaths |-> CASE p \in {product, key} -> "product"
                       [] p = agents -> "agent-system"
                       [] p = tz -> "TZ"]

Packet ==
  [readable |-> TRUE, packet |-> TRUE, proposal |-> FALSE, complete |-> TRUE,
   wellformed |-> TRUE, status |-> "active", kind |-> "normal",
   correction_of |-> FALSE, task_type |-> "designer",
   target_role |-> "solution_architect", deprecated_docs |-> FALSE,
   non_dispatchable |-> FALSE, place |-> "project-docs"]

Task(d, allowed) ==
  [document |-> d, allowed |-> allowed, forbidden |-> {tz}, governance |-> FALSE]

MCPackets ==
  {Task(Packet, {product, key}),
   Task([Packet EXCEPT !.status = "completed", !.place = "elsewhere"], {product, agents}),
   [Task([Packet EXCEPT !.place = "patch", !.kind = "correction",
                        !.correction_of = TRUE], MCPaths) EXCEPT
      !.governance = TRUE, !.forbidden = {product}],
   Task([Packet EXCEPT !.place = "patch"], {product}),
   Task([Packet EXCEPT !.packet = FALSE, !.proposal = TRUE,
                       !.non_dispatchable = TRUE], {product})}

State ==
  [complete |-> TRUE, audit |-> "passed", manual |-> FALSE, identity |-> TRUE,
   lock |-> TRUE, push_allowed |-> TRUE, eligibility |-> "push_allowed",
   tz_policy |-> TRUE, type |-> "project_workspace", remote |-> ours,
   branch |-> main]

MCStates ==
  {State,
   [State EXCEPT !.audit = "failed"],
   [State EXCEPT !.lock = FALSE, !.eligibility = "local_only", !.tz_policy = FALSE],
   [State EXCEPT !.type = "test_fixture", !.manual = TRUE]}

MCGits ==
  {[inside |-> TRUE, at_root |-> TRUE, remote |-> ours, branch |-> main],
   [inside |-> TRUE, at_root |-> TRUE, remote |-> theirs, branch |-> NONE],
   [inside |-> FALSE, at_root |-> FALSE, remote |-> NONE, branch |-> NONE]}

File(head, index, work) == [head |-> head, index |-> index, work |-> work]

Tracked == File("old", "old", "old")
NewFile == File("none", "none", "new")

Staged == File("old", "new", "new")

\* One part of the worktree is changed, and the product perhaps, too.
MCTrees ==
  LET With(p, f, g) ==
        [q \in MCPaths |-> IF q = p THEN f ELSE IF q = product THEN g ELSE Tracked] IN
  {With(product, f, Tracked) :
     f \in {Tracked, Staged, File("old", "secret", "secret"),
            File("old", "buried", "buried"), File("none", "none", "secret")}}
  \cup {With(key, f, Tracked) :
          f \in {File("none", "new", "new"), File("none", "secret", "none")}}
  \cup {With(agents, f, g) : f \in {Staged, NewFile}, g \in {Tracked, Staged}}
  \cup {With(tz, f, g) : f \in {NewFile, File("old", "none", "old"),
                               File("none", "new", "new")}, g \in {Tracked, Staged}}

Line ==
  [docs |-> {"template", "validator", "schema", "matrix", "secret_rules"},
   type |-> NONE, role |-> NONE, remote |-> NONE, branch |-> NONE,
   push |-> "auto", untracked |-> FALSE, write |-> TRUE, path |-> "checkpoints"]

MCOptions ==
  {Line,
   [Line EXCEPT !.untracked = TRUE, !.push = "no", !.role = "orchestrator"],
   [Line EXCEPT !.type = "package_repo", !.remote = theirs, !.path = "outside"],
   [Line EXCEPT !.docs = @ \ {"matrix"}]}
=============================================================================
