--------------------------- MODULE DependencyGraph ---------------------------
(***************************************************************************)
(* Vocabulary for the task dependency graph of TASK_REGISTRY.json.  A      *)
(* graph is a set of edges <<t, d>>: task t lists d in its dependencies.   *)
(* Everything here is first order, so that both TLC and TLAPS can use it.  *)
(***************************************************************************)
EXTENDS Integers, Sequences

\* No dependency cycle runs through the tasks of S: every nonempty set of
\* them has a member that depends on no member.
Acyclic(S, edges) ==
  \A T \in SUBSET S :
    T # {} => \E n \in T : \A d \in T : <<n, d>> \notin edges

\* Consecutive elements of s are joined by an edge.
IsWalk(s, edges) ==
  \A i \in 1 .. Len(s) - 1 : <<s[i], s[i + 1]>> \in edges

\* c spells out a cycle: it starts and ends at one task, follows edges, and
\* passes through no other task twice.
IsCycle(c, edges) ==
  /\ Len(c) >= 2
  /\ c[1] = c[Len(c)]
  /\ IsWalk(c, edges)
  /\ \A i, j \in 1 .. Len(c) - 1 : c[i] = c[j] => i = j

\* A chain of k different tasks, each depending on the next one.
HasChain(S, edges, k) ==
  \E s \in [1 .. k -> S] :
    /\ \A i, j \in 1 .. k : s[i] = s[j] => i = j
    /\ \A i \in 1 .. k - 1 : <<s[i], s[i + 1]>> \in edges

\* S holds the dependencies of its own members.
Closed(S, edges) ==
  \A e \in edges : e[1] \in S => e[2] \in S

\* The tasks n transitively depends on: those in every closed set that
\* holds the direct dependencies of n.
Ancestors(n, S, edges) ==
  {a \in S : \A T \in SUBSET S :
     (Closed(T, edges) /\ \A d \in S : <<n, d>> \in edges => d \in T)
       => a \in T}
==============================================================================
