----------------------------- MODULE CycleSearch -----------------------------
(***************************************************************************)
(* The depth-first cycle search of `aso dag verify', one action per way a  *)
(* call of visit() can go (commands/dag.py, _cycle_findings).              *)
(*                                                                         *)
(* Task ids are integers in the order sorted() gives them.  The graph is   *)
(* the code's dict `graph': for each task, how often each known id is      *)
(* mentioned in its dependencies list (a list may repeat an id).           *)
(***************************************************************************)
EXTENDS DependencyGraph

CONSTANTS
  Nodes,         \* the task ids of the registry
  MaxMentions,   \* bound: repeats of one id in one dependencies list
  FrameLimits    \* calls of visit() the interpreter's stack has room for:
                 \* it depends on the command that runs the check

ASSUME NodesAssumption == Nodes \subseteq Nat
ASSUME BoundsAssumption == /\ MaxMentions \in Nat \ {0}
                           /\ FrameLimits \subseteq Nat \ {0}

VARIABLES
  graph,         \* graph[n][d]: how often task n mentions dependency d
  frames,        \* nested calls of visit() that do not overflow the stack
  roots,         \* ids the outer loop has not called visit() for yet
  stack,         \* the ids being visited, outermost first
  todo,          \* todo[n][d]: mentions of d the loop of visit(n) has left
  visiting, visited,
  cycles,        \* the cycles to report, in the order they were found
  seen_cycles,
  pc             \* "search", then "done", or "crashed" on a RecursionError

vars == <<graph, frames, roots, stack, todo, visiting, visited,
          cycles, seen_cycles, pc>>

Mentions == [Nodes -> [Nodes -> 0 .. MaxMentions]]
NoMention == [n \in Nodes |-> [d \in Nodes |-> 0]]

Edges == {e \in Nodes \X Nodes : graph[e[1]][e[2]] > 0}

TypeOK ==
  /\ graph \in Mentions
  /\ frames \in FrameLimits
  /\ roots \subseteq Nodes
  /\ stack \in Seq(Nodes)
  /\ Len(stack) <= frames
  /\ todo \in Mentions
  /\ visiting \subseteq Nodes
  /\ visited \subseteq Nodes
  /\ cycles \in Seq(Seq(Nodes))
  /\ seen_cycles \subseteq Seq(Nodes)
  /\ pc \in {"search", "done", "crashed"}

Init ==
  /\ graph \in Mentions
  /\ frames \in FrameLimits
  /\ roots = Nodes
  /\ stack = << >>
  /\ todo = NoMention
  /\ visiting = {}
  /\ visited = {}
  /\ cycles = << >>
  /\ seen_cycles = {}
  /\ pc = "search"

------------------------------------------------------------------------------
\* The loop that makes the next call: the outer one over sorted(graph), or
\* the one of the innermost visit() over its sorted dependencies.
Top == stack[Len(stack)]

Waiting ==
  IF stack = << >> THEN roots ELSE {d \in Nodes : todo[Top][d] > 0}

\* That loop calls visit(t).
Calls(t) ==
  /\ pc = "search"
  /\ t \in Waiting
  /\ \A u \in Waiting : t <= u

FrameLeft_OneMore == Len(stack) <= frames

FrameLeft_OneLess == Len(stack) < frames - 1

\* A call needs a frame, whatever it then does.
FrameLeft == Len(stack) < frames

AfterCall_Forgotten(t) == UNCHANGED <<roots, todo>>

\* The loop moves past t.
AfterCall(t) ==
  IF stack = << >>
    THEN roots' = roots \ {t} /\ UNCHANGED todo
    ELSE todo' = [todo EXCEPT ![Top][t] = @ - 1] /\ UNCHANGED roots

------------------------------------------------------------------------------
\* visit(t) returns at once: t is finished.
SkipVisited(t) ==
  /\ Calls(t) /\ FrameLeft
  /\ t \in visited
  /\ AfterCall(t)
  /\ UNCHANGED <<graph, frames, stack, visiting, visited, cycles, seen_cycles,
                 pc>>

\* stack.index(t)
IndexOf(t) ==
  CHOOSE i \in DOMAIN stack :
    stack[i] = t /\ \A j \in 1 .. i - 1 : stack[j] # t

\* stack[start:] + [t]
CycleTo(t) == Append(SubSeq(stack, IndexOf(t), Len(stack)), t)

ReportCycle_Again(t) ==
  /\ Calls(t) /\ FrameLeft
  /\ t \notin visited
  /\ t \in visiting
  /\ cycles' = Append(cycles, CycleTo(t))
  /\ seen_cycles' = seen_cycles \cup {CycleTo(t)}
  /\ AfterCall(t)
  /\ UNCHANGED <<graph, frames, stack, visiting, visited, pc>>

\* visit(t) finds t on the stack: the cycle is reported, once.
ReportCycle(t) ==
  /\ Calls(t) /\ FrameLeft
  /\ t \notin visited
  /\ t \in visiting
  /\ IF CycleTo(t) \in seen_cycles
       THEN UNCHANGED <<cycles, seen_cycles>>
       ELSE /\ cycles' = Append(cycles, CycleTo(t))
            /\ seen_cycles' = seen_cycles \cup {CycleTo(t)}
  /\ AfterCall(t)
  /\ UNCHANGED <<graph, frames, stack, visiting, visited, pc>>

Opens_OnEntry(t) ==
  /\ visiting' = visiting \cup {t}
  /\ visited' = visited \cup {t}

\* The marks visit(t) makes before its loop.
Opens(t) ==
  /\ visiting' = visiting \cup {t}
  /\ UNCHANGED visited

Unseen_NotVisiting(t) == t \notin visiting

\* Neither early return of visit(t) applies.
Unseen(t) == t \notin visited /\ t \notin visiting

\* visit(t) opens t and starts the loop over its dependencies.
Enter(t) ==
  /\ Calls(t) /\ FrameLeft
  /\ Unseen(t)
  /\ Opens(t)
  /\ stack' = Append(stack, t)
  /\ IF stack = << >>
       THEN /\ roots' = roots \ {t}
            /\ todo' = [todo EXCEPT ![t] = graph[t]]
       ELSE /\ todo' = [todo EXCEPT ![Top][t] = @ - 1, ![t] = graph[t]]
            /\ UNCHANGED roots
  /\ UNCHANGED <<graph, frames, cycles, seen_cycles, pc>>

\* The loop of the innermost visit() is over: its task is finished.
Leave ==
  /\ pc = "search"
  /\ stack # << >>
  /\ Waiting = {}
  /\ stack' = SubSeq(stack, 1, Len(stack) - 1)
  /\ visiting' = visiting \ {Top}
  /\ visited' = visited \cup {Top}
  /\ UNCHANGED <<graph, frames, roots, todo, cycles, seen_cycles, pc>>

\* No frame is left for visit(t): RecursionError, which nothing catches.
Overflow(t) ==
  /\ Calls(t) /\ ~FrameLeft
  /\ pc' = "crashed"
  /\ UNCHANGED <<graph, frames, roots, stack, todo, visiting, visited,
                 cycles, seen_cycles>>

\* The outer loop is over and the findings are built from cycles.
Finish ==
  /\ pc = "search"
  /\ stack = << >>
  /\ roots = {}
  /\ pc' = "done"
  /\ UNCHANGED <<graph, frames, roots, stack, todo, visiting, visited,
                 cycles, seen_cycles>>

Next ==
  \/ \E t \in Nodes : \/ SkipVisited(t)
                      \/ ReportCycle(t)
                      \/ Enter(t)
                      \/ Overflow(t)
  \/ Leave
  \/ Finish

Spec == Init /\ [][Next]_vars

\* One interpreter runs the search to its end.
FairSpec == Spec /\ WF_vars(Next)

------------------------------------------------------------------------------
(* Properties *)

\* The edge that closes a reported cycle: its last step, back to its start.
ClosingEdge(c) == <<c[Len(c) - 1], c[Len(c)]>>
ClosingEdges == {ClosingEdge(cycles[i]) : i \in DOMAIN cycles}

\* Every reported cycle starts and ends at one task, follows dependencies that
\* are in the registry, and passes through no other task twice.
CyclesAreReal ==
  \A k \in DOMAIN cycles : IsCycle(cycles[k], Edges)

StepsOf(c) == {<<c[i], c[i + 1]>> : i \in 1 .. Len(c) - 1}

\* No cycle is reported twice, not even written from another of its tasks
\* on, although a list may repeat a dependency and a cycle may be reached
\* along several ways.
OneReportPerCycle ==
  \A k, m \in DOMAIN cycles :
    StepsOf(cycles[k]) = StepsOf(cycles[m]) => k = m

\* Every DAG_DEPENDENCY_CYCLE finding spells out a real cycle of the registry,
\* and no two of them the same one.
ReportsAreTrue == CyclesAreReal /\ OneReportPerCycle

\* The report is complete in the sense its recommendation needs ("break the
\* cycle by removing one dependency edge"): once the closing edge of each
\* reported cycle is removed, no cycle is left.
ReportsCoverAllCycles ==
  pc = "done" => Acyclic(Nodes, Edges \ ClosingEdges)

\* The search fails only on a registry with a chain of `frames' tasks.
CrashNeedsDeepChain ==
  pc = "crashed" => HasChain(Nodes, Edges, frames)

\* A loop moves on by one call.
LoopAdvances ==
  \/ \E t \in roots : roots' = roots \ {t} /\ todo' = todo
  \/ /\ roots' = roots
     /\ \E n, d \in Nodes :
          todo[n][d] > 0 /\ todo' = [todo EXCEPT ![n][d] = @ - 1]

\* A step of visit() or of the outer loop leads on.
Advances ==
  /\ pc = "search"
  /\ \/ pc' # "search"
     \/ \E t \in Nodes \ visited : visited' = visited \cup {t}
     \/ /\ visited' = visited
        /\ \E t \in Nodes \ (visiting \cup visited) : visiting' = visiting \cup {t}
     \/ visited' = visited /\ visiting' = visiting /\ LoopAdvances

\* What makes the search end and expand a task once, however many tasks depend
\* on it: a step finishes a task, or opens one that was neither open nor
\* finished, or takes a call off a loop, or ends the search, and in that order
\* of precedence nothing that was done is undone.
StepsAdvance == [][Advances]_vars

\* The search comes to an end on every graph.
Termination == <>(pc # "search")

\* The search implements the promise of CycleVerdict.
Verdict ==
  CASE pc = "search" -> "none"
    [] pc = "crashed" -> "crashed"
    [] pc = "done" -> IF cycles = << >> THEN "clean" ELSE "cyclic"

CV == INSTANCE CycleVerdict WITH edges <- Edges, verdict <- Verdict

ImplementsVerdict == CV!Spec
==============================================================================
