---------------------------- MODULE MCDagVerify ----------------------------
(* Instances of DagVerify for TLC. *)
EXTENDS DagVerify, TLC

CONSTANTS a, b, c

MCSymmetry == Permutations({a, b, c})

\* A task without requester, by what the status check tells apart.
Plain(n, s, deps, push) ==
  [id |-> n, status |-> s, dependencies |-> deps, push_status |-> push,
   refs |-> TRUE, requested_by_role |-> FALSE, requested_by_task |-> None,
   returns |-> FALSE, return_role |-> FALSE, return_task |-> None]

\* Pending, in flight, completed, checkpointed and pushed, checkpointed only
\* locally; any dependencies on other tasks (a task that depends on itself
\* is a cycle for CycleSearch).
MCEntries ==
  UNION {{Plain(n, s[1], deps, s[2]) :
            deps \in SUBSET ({a, b, c} \ {n}),
            s \in {<<"pending", "not_attempted">>,
                   <<"audit_passed", "not_attempted">>,
                   <<"completed", "not_attempted">>,
                   <<"checkpoint_done", "pushed">>,
                   <<"checkpoint_done", "not_required">>}} : n \in {a, b, c}}

\* A pending task requested by any task, itself included, or returning to one.
Requested(n, by, to) ==
  [Plain(n, "pending", {}, "not_attempted") EXCEPT
     !.requested_by_role = TRUE, !.requested_by_task = by,
     !.returns = TRUE, !.return_role = TRUE, !.return_task = to]

MCRequestedEntries ==
  {Requested(n, r[1], r[2]) :
     n \in {a, b, c}, r \in UNION {{<<t, t>>, <<t, None>>, <<None, t>>} : t \in {a, b, c}}}

MCAllEntries == MCEntries \cup MCRequestedEntries
============================================================================
