-------------------------- MODULE CycleSearchProofs --------------------------
(***************************************************************************)
(* Proofs about CycleSearch for every finite or infinite set of task ids,  *)
(* every number of repeats and every stack depth.                          *)
(***************************************************************************)
EXTENDS CycleSearch, SequenceTheorems, WellFoundedInduction, TLAPS

------------------------------------------------------------------------------
(***************************************************************************)
(* The inductive invariant.                                                *)
(***************************************************************************)

\* The open tasks are the ones on the stack,
OnStack == visiting = {stack[i] : i \in 1 .. Len(stack)}

\* each of them there once.
StackInjective ==
  \A i, j \in 1 .. Len(stack) : stack[i] = stack[j] => i = j

\* The stack is a chain of dependencies and no open task is finished.
StackInv ==
  /\ OnStack
  /\ StackInjective
  /\ IsWalk(stack, Edges)
  /\ visiting \cap visited = {}
  /\ \A n, d \in Nodes : todo[n][d] > 0 => graph[n][d] > 0

\* seen_cycles holds the reported cycles.
SeenInv == seen_cycles = {cycles[i] : i \in DOMAIN cycles}

\* Every dependency of an open task is still to be called, finished, the
\* closing edge of a report, or the task opened from this one.
Explained ==
  \A n \in visiting, d \in Nodes :
    <<n, d>> \in Edges =>
      \/ todo[n][d] > 0
      \/ d \in visited
      \/ <<n, d>> \in ClosingEdges
      \/ \E i \in 1 .. Len(stack) - 1 : stack[i] = n /\ stack[i + 1] = d

\* Reported edges aside, finished tasks depend on finished tasks, and on no
\* cycle of them.
FinishedInv ==
  /\ \A n \in visited, d \in Nodes :
       <<n, d>> \in Edges \ ClosingEdges => d \in visited
  /\ Acyclic(visited, Edges \ ClosingEdges)

\* No task is lost on the way, and the two ways to stop.
ControlInv ==
  /\ \A n \in Nodes : n \in roots \/ n \in visited \/ n \in visiting
  /\ pc = "done" => stack = << >> /\ roots = {}
  /\ pc = "crashed" => Len(stack) = frames

\* The task that closed a reported cycle.
Closer(c) == c[Len(c) - 1]

\* c is a piece of the sequence st, and back.
PieceOf(c, st) ==
  \E i, p \in 1 .. Len(st) :
    /\ i <= p
    /\ st[p] = Closer(c)
    /\ st[i] = c[Len(c)]
    /\ c = Append(SubSeq(st, i, p), c[Len(c)])

\* The task that closed a reported cycle is open or finished; as long as it
\* is open, that cycle is a piece of the stack.
SegmentInv ==
  \A k \in DOMAIN cycles :
    /\ Closer(cycles[k]) \in visiting \cup visited
    /\ Closer(cycles[k]) \in visiting => PieceOf(cycles[k], stack)

ReportInv == CyclesAreReal /\ SegmentInv /\ OneReportPerCycle

IInv ==
  TypeOK /\ StackInv /\ SeenInv /\ Explained /\ FinishedInv /\ ControlInv
    /\ ReportInv

------------------------------------------------------------------------------
\* Sequences that grow and shrink at their end.
LEMMA Push ==
  ASSUME NEW S, NEW s \in Seq(S), NEW x \in S
  PROVE  LET p == Append(s, x) IN
         /\ p \in Seq(S)
         /\ Len(s) \in Nat
         /\ Len(p) = Len(s) + 1
         /\ \A i \in 1 .. Len(s) : p[i] = s[i]
         /\ p[Len(s) + 1] = x
BY AppendProperties, LenProperties

\* Taking the last element off a sequence.
LEMMA Pop ==
  ASSUME NEW S, NEW s \in Seq(S), s # << >>
  PROVE  LET p == SubSeq(s, 1, Len(s) - 1) IN
         /\ Len(s) \in Nat \ {0}
         /\ s[Len(s)] \in S
         /\ p \in Seq(S)
         /\ Len(p) = Len(s) - 1
         /\ \A i \in 1 .. Len(s) - 1 : p[i] = s[i]
<1>1. Len(s) \in Nat \ {0} /\ s[Len(s)] \in S
  BY LenProperties, EmptySeq
<1>2. /\ SubSeq(s, 1, Len(s) - 1) \in Seq(S)
      /\ Len(SubSeq(s, 1, Len(s) - 1)) = Len(s) - 1
      /\ \A i \in 1 .. Len(s) - 1 : SubSeq(s, 1, Len(s) - 1)[i] = s[i]
  BY <1>1, SubSeqProperties
<1>. QED  BY <1>1, <1>2

\* How often one task mentions another is a natural number.
LEMMA MentionIsNat ==
  ASSUME NEW f \in Mentions, NEW n \in Nodes, NEW d \in Nodes
  PROVE  f[n][d] \in Nat
BY BoundsAssumption DEF Mentions

\* One mention less is still a table of mentions.
LEMMA OneLess ==
  ASSUME NEW f \in Mentions, NEW n \in Nodes, NEW d \in Nodes, f[n][d] > 0
  PROVE  [f EXCEPT ![n][d] = @ - 1] \in Mentions
<1>1. f[n] \in [Nodes -> 0 .. MaxMentions]
  BY DEF Mentions
<1>2. f[n][d] - 1 \in 0 .. MaxMentions
  BY <1>1, BoundsAssumption
<1>3. [f[n] EXCEPT ![d] = @ - 1] \in [Nodes -> 0 .. MaxMentions]
  BY <1>1, <1>2
<1>. QED  BY <1>3 DEF Mentions

\* What the loop's state looks like after a call, entry by entry.
LEMMA AfterCallTodo ==
  ASSUME TypeOK, NEW t \in Nodes, Calls(t), AfterCall(t)
  PROVE  /\ roots' \subseteq roots
         /\ roots \subseteq roots' \cup {t}
         /\ stack # << >> => roots' = roots
         /\ todo' \in Mentions
         /\ \A n, d \in Nodes : todo'[n][d] > 0 => todo[n][d] > 0
         /\ \A n, d \in Nodes :
              todo'[n][d] = IF stack # << >> /\ n = Top /\ d = t
                              THEN todo[n][d] - 1 ELSE todo[n][d]
<1>. \A n, d \in Nodes : todo[n][d] \in Nat
  BY MentionIsNat DEF TypeOK
<1>1. CASE stack = << >>
  <2>1. roots' = roots \ {t} /\ todo' = todo
    BY <1>1 DEF AfterCall
  <2>2. todo' \in Mentions
    BY <2>1 DEF TypeOK
  <2>. QED  BY <1>1, <2>1, <2>2
<1>2. CASE stack # << >>
  <2>1. Top \in Nodes /\ todo[Top][t] > 0
    BY <1>2 DEF TypeOK, Calls, Waiting, Top
  <2>2. todo' = [todo EXCEPT ![Top][t] = @ - 1] /\ roots' = roots
    BY <1>2 DEF AfterCall
  <2>3. \A n, d \in Nodes :
          todo'[n][d] = IF n = Top /\ d = t
                          THEN todo[n][d] - 1 ELSE todo[n][d]
    BY <2>1, <2>2 DEF TypeOK, Mentions
  <2>4. todo' \in Mentions
    BY <2>1, <2>2, OneLess DEF TypeOK
  <2>. QED  BY <1>2, <2>2, <2>3, <2>4
<1>. QED  BY <1>1, <1>2

\* The same for the call that opens t.
LEMMA EnterTodo ==
  ASSUME TypeOK, NEW t \in Nodes, Enter(t)
  PROVE  /\ roots' \subseteq roots
         /\ roots \subseteq roots' \cup {t}
         /\ stack # << >> => roots' = roots
         /\ todo' \in Mentions
         /\ \A n, d \in Nodes :
              n # t => (todo'[n][d] > 0 => todo[n][d] > 0)
         /\ \A d \in Nodes : todo'[t][d] = graph[t][d]
         /\ \A n, d \in Nodes :
              n # t => todo'[n][d] = IF stack # << >> /\ n = Top /\ d = t
                                       THEN todo[n][d] - 1 ELSE todo[n][d]
<1>. \A n, d \in Nodes : todo[n][d] \in Nat
  BY MentionIsNat DEF TypeOK
<1>. graph[t] \in [Nodes -> 0 .. MaxMentions]
  BY DEF TypeOK, Mentions
<1>1. CASE stack = << >>
  <2>1. todo' = [todo EXCEPT ![t] = graph[t]] /\ roots' = roots \ {t}
    BY <1>1 DEF Enter
  <2>2. todo' \in Mentions /\ \A n \in Nodes :
          todo'[n] = IF n = t THEN graph[t] ELSE todo[n]
    BY <2>1 DEF TypeOK, Mentions
  <2>. QED  BY <1>1, <2>1, <2>2
<1>2. CASE stack # << >>
  <2>. DEFINE less == [todo EXCEPT ![Top][t] = @ - 1]
  <2>1. Top \in Nodes /\ todo[Top][t] > 0
    BY <1>2 DEF TypeOK, Enter, Calls, Waiting, Top
  <2>2. todo' = [less EXCEPT ![t] = graph[t]] /\ roots' = roots
    BY <1>2 DEF Enter
  <2>3. less \in Mentions
    BY <2>1, OneLess DEF TypeOK
  <2>4. \A n, d \in Nodes :
          less[n][d] = IF n = Top /\ d = t
                         THEN todo[n][d] - 1 ELSE todo[n][d]
    BY <2>1 DEF TypeOK, Mentions
  <2>. HIDE DEF less
  <2>5. todo' \in Mentions /\ \A n \in Nodes :
          todo'[n] = IF n = t THEN graph[t] ELSE less[n]
    BY <2>2, <2>3 DEF Mentions
  <2>. QED  BY <1>2, <2>2, <2>4, <2>5
<1>. QED  BY <1>1, <1>2

\* stack.index finds t when t is on the stack.
LEMMA IndexOfStack ==
  ASSUME TypeOK, NEW t, NEW k \in 1 .. Len(stack), stack[k] = t,
         \A i, j \in 1 .. Len(stack) : stack[i] = stack[j] => i = j
  PROVE  IndexOf(t) = k
<1>1. /\ k \in DOMAIN stack
      /\ stack[k] = t /\ \A j \in 1 .. k - 1 : stack[j] # t
  BY DEF TypeOK
<1>2. \A i \in DOMAIN stack : stack[i] = t => i = k
  BY DEF TypeOK
<1>. QED  BY <1>1, <1>2 DEF IndexOf

\* The cycle reported for t, when t is the k-th task on the stack.
LEMMA CycleToShape ==
  ASSUME TypeOK, NEW t \in Nodes, NEW k \in 1 .. Len(stack), stack[k] = t,
         \A i, j \in 1 .. Len(stack) : stack[i] = stack[j] => i = j
  PROVE  LET c == CycleTo(t) IN
         /\ c \in Seq(Nodes)
         /\ Len(c) = Len(stack) - k + 2
         /\ \A i \in 1 .. Len(c) - 1 : c[i] = stack[k + i - 1]
         /\ c[Len(c)] = t
         /\ c = Append(SubSeq(stack, k, Len(stack)), t)
<1>. DEFINE s == SubSeq(stack, k, Len(stack))
<1>1. CycleTo(t) = Append(s, t)
  BY IndexOfStack DEF CycleTo
<1>2. /\ s \in Seq(Nodes)
      /\ Len(s) = Len(stack) - k + 1
      /\ \A i \in 1 .. Len(s) : s[i] = stack[k + i - 1]
  BY DEF TypeOK
<1>. HIDE DEF s
<1>3. /\ Append(s, t) \in Seq(Nodes)
      /\ Len(Append(s, t)) = Len(s) + 1
      /\ \A i \in 1 .. Len(s) : Append(s, t)[i] = s[i]
      /\ Append(s, t)[Len(s) + 1] = t
  BY <1>2, AppendProperties
<1>. QED  BY <1>1, <1>2, <1>3 DEF s, TypeOK

------------------------------------------------------------------------------
(* Type correctness *)

\* The path reported for an open task is a sequence of task ids.
LEMMA CycleToType ==
  ASSUME TypeOK, StackInv, NEW t \in Nodes, t \in visiting
  PROVE  CycleTo(t) \in Seq(Nodes)
<1>1. PICK k \in 1 .. Len(stack) : stack[k] = t
  BY DEF StackInv, OnStack
<1>. QED  BY <1>1, CycleToShape DEF StackInv, StackInjective

\* The search starts well typed, with nothing open.
LEMMA TypeInit == Init => TypeOK /\ StackInv
<1>. SUFFICES ASSUME Init PROVE TypeOK /\ StackInv
  OBVIOUS
<1>1. TypeOK
  BY BoundsAssumption DEF Init, TypeOK, Mentions, NoMention
<1>2. stack = << >> /\ visiting = {} /\ visited = {}
  BY DEF Init
<1>3. OnStack /\ StackInjective /\ IsWalk(stack, Edges)
  BY <1>2 DEF OnStack, StackInjective, IsWalk
<1>4. \A n, d \in Nodes : todo[n][d] = 0
  BY DEF Init, NoMention
<1>. QED  BY <1>1, <1>2, <1>3, <1>4 DEF StackInv

\* Every way a call of visit() can go keeps the types, the bound on the
\* nesting of calls included.
LEMMA TypeStep == TypeOK /\ StackInv /\ [Next]_vars => TypeOK'
<1>. SUFFICES ASSUME TypeOK, StackInv, [Next]_vars PROVE TypeOK'
  OBVIOUS
<1>1. ASSUME NEW t \in Nodes, SkipVisited(t) PROVE TypeOK'
  BY <1>1, AfterCallTodo DEF SkipVisited, TypeOK
<1>2. ASSUME NEW t \in Nodes, ReportCycle(t) PROVE TypeOK'
  <2>1. CycleTo(t) \in Seq(Nodes)
    BY <1>2, CycleToType DEF ReportCycle
  <2>2. cycles' \in Seq(Seq(Nodes)) /\ seen_cycles' \subseteq Seq(Nodes)
    <3>. DEFINE c == CycleTo(t)
    <3>1. c \in Seq(Nodes)
      BY <2>1
    <3>2. \/ UNCHANGED <<cycles, seen_cycles>>
          \/ cycles' = Append(cycles, c) /\ seen_cycles' = seen_cycles \cup {c}
      BY <1>2 DEF ReportCycle
    <3>. HIDE DEF c
    <3>3. Append(cycles, c) \in Seq(Seq(Nodes))
      BY <3>1, Push DEF TypeOK
    <3>4. seen_cycles \cup {c} \subseteq Seq(Nodes)
      BY <3>1 DEF TypeOK
    <3>. QED  BY <3>2, <3>3, <3>4 DEF TypeOK
  <2>. QED  BY <1>2, <2>2, AfterCallTodo DEF ReportCycle, TypeOK
<1>3. ASSUME NEW t \in Nodes, Enter(t) PROVE TypeOK'
  <2>1. stack' \in Seq(Nodes) /\ Len(stack') = Len(stack) + 1
    BY <1>3, Push DEF Enter, TypeOK
  <2>2. Len(stack') <= frames
    BY <1>3, <2>1, BoundsAssumption DEF Enter, FrameLeft, TypeOK
  <2>. QED  BY <1>3, <2>1, <2>2, EnterTodo DEF Enter, Opens, TypeOK
<1>4. CASE Leave
  <2>1. /\ Top \in Nodes
        /\ stack' \in Seq(Nodes) /\ Len(stack') = Len(stack) - 1
    BY <1>4, Pop DEF Leave, TypeOK, Top
  <2>2. Len(stack') <= frames
    BY <1>4, <2>1, Pop, BoundsAssumption DEF Leave, TypeOK
  <2>. QED  BY <1>4, <2>1, <2>2 DEF Leave, TypeOK
<1>5. ASSUME NEW t \in Nodes, Overflow(t) PROVE TypeOK'
  BY <1>5 DEF Overflow, TypeOK
<1>6. CASE Finish
  BY <1>6 DEF Finish, TypeOK
<1>7. CASE UNCHANGED vars
  BY <1>7 DEF vars, TypeOK
<1>. QED  BY <1>1, <1>2, <1>3, <1>4, <1>5, <1>6, <1>7 DEF Next

------------------------------------------------------------------------------
(* The stack *)

\* Every step keeps the stack a chain of different dependencies that holds
\* exactly the open tasks.
LEMMA StackStep == TypeOK /\ StackInv /\ [Next]_vars => StackInv'
<1>. SUFFICES ASSUME TypeOK, StackInv, [Next]_vars PROVE StackInv'
  OBVIOUS
<1>. USE DEF StackInv
<1>1. ASSUME NEW t \in Nodes, AfterCall(t), Calls(t),
             UNCHANGED <<graph, stack, visiting, visited>>
      PROVE  StackInv'
  <2>1. \A n, d \in Nodes : todo'[n][d] > 0 => todo[n][d] > 0
    BY <1>1, AfterCallTodo
  <2>2. OnStack' /\ StackInjective' /\ (visiting \cap visited = {})'
    BY <1>1 DEF OnStack, StackInjective
  <2>3. IsWalk(stack, Edges)'
    BY <1>1 DEF IsWalk, Edges
  <2>. QED  BY <1>1, <2>1, <2>2, <2>3
<1>2. ASSUME NEW t \in Nodes, Enter(t) PROVE StackInv'
  <2>1. /\ stack' \in Seq(Nodes)
        /\ Len(stack) \in Nat
        /\ Len(stack') = Len(stack) + 1
        /\ \A i \in 1 .. Len(stack) : stack'[i] = stack[i]
        /\ stack'[Len(stack) + 1] = t
    BY <1>2, Push DEF Enter, TypeOK
  <2>2. t \notin visiting /\ visiting' = visiting \cup {t}
        /\ t \notin visited /\ visited' = visited /\ Edges' = Edges
    BY <1>2 DEF Enter, Unseen, Opens, Edges
  <2>3. OnStack'
    <3>1. 1 .. Len(stack') = (1 .. Len(stack)) \cup {Len(stack) + 1}
      BY <2>1
    <3>. QED  BY <2>1, <2>2, <3>1 DEF OnStack
  <2>4. StackInjective'
    <3>1. \A i \in 1 .. Len(stack) : stack[i] # t
      BY <2>2 DEF OnStack
    <3>2. ASSUME NEW i \in 1 .. Len(stack) + 1, NEW j \in 1 .. Len(stack) + 1,
                 stack'[i] = stack'[j]
          PROVE  i = j
      <4>1. CASE i = Len(stack) + 1 \/ j = Len(stack) + 1
        BY <2>1, <3>1, <3>2, <4>1
      <4>2. CASE i \in 1 .. Len(stack) /\ j \in 1 .. Len(stack)
        BY <2>1, <3>2, <4>2 DEF StackInjective
      <4>. QED  BY <2>1, <4>1, <4>2
    <3>. QED  BY <2>1, <3>2 DEF StackInjective
  <2>5. IsWalk(stack', Edges)
    <3>1. ASSUME stack # << >> PROVE <<Top, t>> \in Edges
      BY <1>2, <3>1 DEF Enter, Calls, Waiting, Top, TypeOK, Edges
    <3>2. ASSUME NEW i \in 1 .. Len(stack') - 1
          PROVE  <<stack'[i], stack'[i + 1]>> \in Edges
      <4>1. CASE i < Len(stack)
        <5>1. i \in 1 .. Len(stack) - 1 /\ i + 1 \in 1 .. Len(stack)
          BY <2>1, <4>1
        <5>. QED  BY <2>1, <5>1 DEF IsWalk
      <4>2. CASE i = Len(stack)
        <5>1. i \in 1 .. Len(stack) /\ stack # << >>
          BY <2>1, <4>2
        <5>. QED  BY <2>1, <3>1, <4>2, <5>1 DEF Top
      <4>. QED  BY <2>1, <4>1, <4>2
    <3>. QED  BY <3>2 DEF IsWalk
  <2>6. \A n, d \in Nodes : todo'[n][d] > 0 => graph'[n][d] > 0
    <3>1. graph' = graph
      BY <1>2 DEF Enter
    <3>2. ASSUME NEW n \in Nodes, NEW d \in Nodes, n # t, todo'[n][d] > 0
          PROVE  todo[n][d] > 0
      BY <1>2, <3>2, EnterTodo
    <3>. QED  BY <1>2, <3>1, <3>2, EnterTodo
  <2>. QED  BY <2>2, <2>3, <2>4, <2>5, <2>6
<1>3. CASE Leave
  <2>. DEFINE n == Len(stack)
  <2>1. /\ n \in Nat \ {0}
        /\ stack' \in Seq(Nodes)
        /\ Len(stack') = n - 1
        /\ \A i \in 1 .. n - 1 : stack'[i] = stack[i]
    BY <1>3, Pop DEF Leave, TypeOK
  <2>2. /\ visiting' = visiting \ {stack[n]}
        /\ visited' = visited \cup {stack[n]}
        /\ UNCHANGED <<graph, todo>>
    BY <1>3 DEF Leave, Top
  <2>3. Edges' = Edges
    BY <2>2 DEF Edges
  <2>4. OnStack'
    BY <2>1, <2>2 DEF OnStack, StackInjective
  <2>5. StackInjective'
    BY <2>1 DEF StackInjective
  <2>6. IsWalk(stack', Edges)
    BY <2>1 DEF IsWalk
  <2>. QED  BY <2>2, <2>3, <2>4, <2>5, <2>6
<1>4. ASSUME UNCHANGED <<graph, stack, todo, visiting, visited>>
      PROVE  StackInv'
  BY <1>4 DEF OnStack, StackInjective, IsWalk, Edges
<1>. QED
  BY <1>1, <1>2, <1>3, <1>4
     DEF Next, SkipVisited, ReportCycle, Overflow, Finish, vars

------------------------------------------------------------------------------
(* Reports *)

\* A report is made with t below or at the top of the stack, and adds the
\* edge from the top to t to the closing edges.
LEMMA ReportFacts ==
  ASSUME TypeOK, StackInv, SeenInv, NEW t \in Nodes, ReportCycle(t)
  PROVE  /\ stack # << >>
         /\ <<Top, t>> \in Edges
         /\ ClosingEdges' = ClosingEdges \cup {<<Top, t>>}
         /\ SeenInv'
<1>1. PICK k \in 1 .. Len(stack) : stack[k] = t
  BY DEF StackInv, OnStack, ReportCycle
<1>2. stack # << >> /\ Len(stack) \in Nat \ {0}
  BY <1>1, LenProperties, EmptySeq DEF TypeOK
<1>3. <<Top, t>> \in Edges
  BY <1>2 DEF ReportCycle, Calls, Waiting, Top, TypeOK, StackInv, Edges
<1>. DEFINE c == CycleTo(t)
<1>4. ClosingEdge(c) = <<Top, t>>
  <2>1. /\ Len(c) = Len(stack) - k + 2
        /\ \A i \in 1 .. Len(c) - 1 : c[i] = stack[k + i - 1]
        /\ c[Len(c)] = t
    BY <1>1, CycleToShape DEF StackInv, StackInjective
  <2>. HIDE DEF c
  <2>2. Len(c) - 1 \in 1 .. Len(c) - 1 /\ k + (Len(c) - 1) - 1 = Len(stack)
    BY <1>2, <2>1
  <2>3. c[Len(c) - 1] = stack[Len(stack)]
    BY <2>1, <2>2
  <2>. QED  BY <2>1, <2>3 DEF ClosingEdge, Top
<1>. HIDE DEF c
<1>5. CASE c \in seen_cycles
  <2>1. UNCHANGED <<cycles, seen_cycles>>
    BY <1>5 DEF ReportCycle, c
  <2>2. \E i \in DOMAIN cycles : cycles[i] = c
    BY <1>5 DEF SeenInv
  <2>. QED  BY <1>2, <1>3, <1>4, <2>1, <2>2 DEF ClosingEdges, SeenInv
<1>6. CASE c \notin seen_cycles
  <2>1. cycles' = Append(cycles, c) /\ seen_cycles' = seen_cycles \cup {c}
    BY <1>6 DEF ReportCycle, c
  <2>2. c \in Seq(Nodes)
    BY CycleToType DEF c, ReportCycle
  <2>3. /\ DOMAIN cycles = 1 .. Len(cycles)
        /\ DOMAIN cycles' = 1 .. Len(cycles')
        /\ Len(cycles) \in Nat /\ Len(cycles') = Len(cycles) + 1
        /\ \A i \in 1 .. Len(cycles) : cycles'[i] = cycles[i]
        /\ cycles'[Len(cycles) + 1] = c
    BY <2>1, <2>2, Push, LenProperties DEF TypeOK
  <2>4. DOMAIN cycles' = DOMAIN cycles \cup {Len(cycles) + 1}
    BY <2>3
  <2>5. ClosingEdges' = ClosingEdges \cup {ClosingEdge(c)}
    BY <2>3, <2>4 DEF ClosingEdges
  <2>6. SeenInv'
    BY <2>1, <2>3, <2>4 DEF SeenInv
  <2>. QED  BY <1>2, <1>3, <1>4, <2>5, <2>6
<1>. QED  BY <1>5, <1>6

\* Removing more edges keeps a graph acyclic.
LEMMA AcyclicMonotone ==
  ASSUME NEW S, NEW E, NEW F, E \subseteq F, Acyclic(S, F)
  PROVE  Acyclic(S, E)
BY DEF Acyclic

\* An acyclic, closed set stays acyclic with one more task that depends only
\* on its members.
LEMMA AcyclicExtend ==
  ASSUME NEW S, NEW E, NEW n, n \notin S, Acyclic(S, E),
         \A m \in S : <<m, n>> \notin E,
         <<n, n>> \notin E
  PROVE  Acyclic(S \cup {n}, E)
<1>. SUFFICES ASSUME NEW T \in SUBSET (S \cup {n}), T # {}
              PROVE  \E m \in T : \A d \in T : <<m, d>> \notin E
  BY DEF Acyclic
<1>1. CASE T \subseteq {n}
  BY <1>1
<1>2. CASE ~(T \subseteq {n})
  <2>1. T \ {n} \in SUBSET S /\ T \ {n} # {}
    BY <1>2
  <2>2. PICK m \in T \ {n} : \A d \in T \ {n} : <<m, d>> \notin E
    BY <2>1 DEF Acyclic
  <2>. QED  BY <2>1, <2>2
<1>. QED  BY <1>1, <1>2

------------------------------------------------------------------------------
(* The search covers the graph *)

\* A step that changes neither the stack nor the marks keeps Explained, if
\* what it takes from the loop of the top task is finished or reported.
LEMMA ExplainedAfterCall ==
  ASSUME TypeOK, Explained, NEW t \in Nodes, Calls(t), AfterCall(t),
         UNCHANGED <<graph, stack, visiting, visited>>,
         ClosingEdges \subseteq ClosingEdges',
         t \in visited \/ (stack # << >> => <<Top, t>> \in ClosingEdges')
  PROVE  Explained'
<1>1. Edges' = Edges
  BY DEF Edges
<1>2. ASSUME NEW n \in visiting, NEW d \in Nodes, <<n, d>> \in Edges
      PROVE  \/ todo'[n][d] > 0
             \/ d \in visited
             \/ <<n, d>> \in ClosingEdges'
             \/ \E i \in 1 .. Len(stack) - 1 :
                  stack[i] = n /\ stack[i + 1] = d
  <2>1. n \in Nodes
    BY DEF TypeOK
  <2>2. CASE stack # << >> /\ n = Top /\ d = t
    BY <2>2
  <2>3. CASE ~(stack # << >> /\ n = Top /\ d = t)
    <3>1. todo'[n][d] = todo[n][d]
      BY <2>1, <2>3, AfterCallTodo
    <3>. QED  BY <1>2, <3>1 DEF Explained
  <2>. QED  BY <2>2, <2>3
<1>. QED  BY <1>1, <1>2 DEF Explained

\* Every step keeps each dependency of an open task accounted for.
LEMMA ExplainedStep ==
  TypeOK /\ StackInv /\ SeenInv /\ Explained /\ [Next]_vars => Explained'
<1>. SUFFICES ASSUME TypeOK, StackInv, SeenInv, Explained, [Next]_vars
              PROVE  Explained'
  OBVIOUS
<1>1. ASSUME NEW t \in Nodes, SkipVisited(t) PROVE Explained'
  <2>1. ClosingEdges' = ClosingEdges
    BY <1>1 DEF SkipVisited, ClosingEdges
  <2>. QED  BY <1>1, <2>1, ExplainedAfterCall DEF SkipVisited
<1>2. ASSUME NEW t \in Nodes, ReportCycle(t) PROVE Explained'
  BY <1>2, ReportFacts, ExplainedAfterCall DEF ReportCycle
<1>3. ASSUME NEW t \in Nodes, Enter(t) PROVE Explained'
  <2>1. /\ Edges' = Edges /\ ClosingEdges' = ClosingEdges
        /\ visiting' = visiting \cup {t} /\ visited' = visited
        /\ t \notin visiting
    BY <1>3 DEF Enter, Opens, Unseen, Edges, ClosingEdges
  <2>2. /\ Len(stack) \in Nat
        /\ Len(stack') = Len(stack) + 1
        /\ \A i \in 1 .. Len(stack) : stack'[i] = stack[i]
        /\ stack'[Len(stack) + 1] = t
    BY <1>3, Push DEF Enter, TypeOK
  <2>3. ASSUME NEW n \in visiting', NEW d \in Nodes, <<n, d>> \in Edges
        PROVE  \/ todo'[n][d] > 0
               \/ d \in visited
               \/ <<n, d>> \in ClosingEdges
               \/ \E i \in 1 .. Len(stack') - 1 :
                    stack'[i] = n /\ stack'[i + 1] = d
    <3>1. CASE n = t
      BY <1>3, <2>3, <3>1, EnterTodo DEF Edges
    <3>2. CASE n # t /\ stack # << >> /\ n = Top /\ d = t
      <4>1. Len(stack) \in 1 .. Len(stack') - 1
        BY <2>2, <3>2, EmptySeq DEF TypeOK
      <4>. QED  BY <2>2, <3>2, <4>1 DEF Top
    <3>3. CASE n # t /\ ~(stack # << >> /\ n = Top /\ d = t)
      <4>1. n \in visiting /\ n \in Nodes
        BY <2>1, <3>3 DEF TypeOK
      <4>2. todo'[n][d] = todo[n][d]
        BY <1>3, <3>3, <4>1, EnterTodo
      <4>3. ASSUME NEW i \in 1 .. Len(stack) - 1
            PROVE  /\ i \in 1 .. Len(stack') - 1
                   /\ stack'[i] = stack[i] /\ stack'[i + 1] = stack[i + 1]
        BY <2>2
      <4>. QED  BY <2>3, <4>1, <4>2, <4>3 DEF Explained
    <3>. QED  BY <3>1, <3>2, <3>3
  <2>. QED  BY <2>1, <2>3 DEF Explained
<1>4. CASE Leave
  <2>1. /\ Len(stack) \in Nat \ {0}
        /\ Len(stack') = Len(stack) - 1
        /\ \A i \in 1 .. Len(stack) - 1 : stack'[i] = stack[i]
    BY <1>4, Pop DEF Leave, TypeOK
  <2>2. /\ Edges' = Edges /\ ClosingEdges' = ClosingEdges /\ todo' = todo
        /\ visiting' = visiting \ {stack[Len(stack)]}
        /\ visited' = visited \cup {stack[Len(stack)]}
    BY <1>4 DEF Leave, Top, Edges, ClosingEdges
  <2>3. ASSUME NEW n \in visiting', NEW d \in Nodes, <<n, d>> \in Edges
        PROVE  \/ todo[n][d] > 0
               \/ d \in visited'
               \/ <<n, d>> \in ClosingEdges
               \/ \E i \in 1 .. Len(stack') - 1 :
                    stack'[i] = n /\ stack'[i + 1] = d
    <3>1. ASSUME NEW i \in 1 .. Len(stack) - 1, stack[i] = n, stack[i + 1] = d
          PROVE  \/ d \in visited'
                 \/ \E j \in 1 .. Len(stack') - 1 :
                      stack'[j] = n /\ stack'[j + 1] = d
      <4>1. CASE i + 1 = Len(stack)
        BY <2>2, <3>1, <4>1
      <4>2. CASE i + 1 # Len(stack)
        <5>1. i \in 1 .. Len(stack') - 1 /\ i + 1 \in 1 .. Len(stack) - 1
          BY <2>1, <4>2
        <5>. QED  BY <2>1, <3>1, <5>1
      <4>. QED  BY <4>1, <4>2
    <3>. QED  BY <2>2, <2>3, <3>1 DEF Explained
  <2>. QED  BY <2>2, <2>3 DEF Explained
<1>5. ASSUME UNCHANGED <<graph, stack, todo, visiting, visited, cycles>>
      PROVE  Explained'
  BY <1>5 DEF Explained, Edges, ClosingEdges
<1>. QED
  BY <1>1, <1>2, <1>3, <1>4, <1>5 DEF Next, Overflow, Finish, vars

\* Every step keeps the finished tasks closed and free of cycles, the
\* reported edges aside.
LEMMA FinishedStep ==
  TypeOK /\ StackInv /\ SeenInv /\ Explained /\ FinishedInv /\ [Next]_vars
    => FinishedInv'
<1>. SUFFICES ASSUME TypeOK, StackInv, SeenInv, Explained, FinishedInv,
                     [Next]_vars
              PROVE  FinishedInv'
  OBVIOUS
<1>1. CASE Leave
  <2>1. /\ Edges' = Edges /\ ClosingEdges' = ClosingEdges
        /\ visited' = visited \cup {Top}
    BY <1>1 DEF Leave, Edges, ClosingEdges
  <2>2. /\ Len(stack) \in Nat \ {0} /\ Top \in Nodes
        /\ Top \in visiting /\ Top \notin visited
    BY <1>1, Pop DEF Leave, TypeOK, StackInv, OnStack, Top
  <2>3. ASSUME NEW d \in Nodes, <<Top, d>> \in Edges \ ClosingEdges
        PROVE  d \in visited
    <3>1. ~(todo[Top][d] > 0)
      BY <1>1 DEF Leave, Waiting
    <3>2. ~ \E i \in 1 .. Len(stack) - 1 :
              stack[i] = Top /\ stack[i + 1] = d
      BY <2>2 DEF StackInv, StackInjective, Top
    <3>. QED  BY <2>2, <2>3, <3>1, <3>2 DEF Explained
  <2>4. Acyclic(visited \cup {Top}, Edges \ ClosingEdges)
    BY <2>2, <2>3, AcyclicExtend DEF FinishedInv
  <2>. QED  BY <2>1, <2>3, <2>4 DEF FinishedInv
<1>2. ASSUME NEW t \in Nodes, ReportCycle(t) PROVE FinishedInv'
  <2>1. /\ Edges' = Edges /\ visited' = visited
        /\ ClosingEdges \subseteq ClosingEdges'
    BY <1>2, ReportFacts DEF ReportCycle, Edges
  <2>2. Acyclic(visited, Edges \ ClosingEdges')
    BY <2>1, AcyclicMonotone DEF FinishedInv
  <2>. QED  BY <2>1, <2>2 DEF FinishedInv
<1>3. ASSUME UNCHANGED <<graph, visited, cycles>> PROVE FinishedInv'
  BY <1>3 DEF FinishedInv, Edges, ClosingEdges
<1>. QED
  BY <1>1, <1>2, <1>3
     DEF Next, SkipVisited, Enter, Opens, Overflow, Finish, vars

\* Every step keeps each task in the outer loop, open or finished.
LEMMA ControlStep ==
  TypeOK /\ StackInv /\ ControlInv /\ [Next]_vars => ControlInv'
<1>. SUFFICES ASSUME TypeOK, StackInv, ControlInv, [Next]_vars
              PROVE  ControlInv'
  OBVIOUS
<1>1. ASSUME NEW t \in Nodes, SkipVisited(t) \/ ReportCycle(t)
      PROVE  ControlInv'
  <2>1. t \in visited \/ t \in visiting
    BY <1>1 DEF SkipVisited, ReportCycle
  <2>2. roots \subseteq roots' \cup {t}
    BY <1>1, AfterCallTodo DEF SkipVisited, ReportCycle
  <2>3. pc' = "search" /\ visited' = visited /\ visiting' = visiting
    BY <1>1 DEF SkipVisited, ReportCycle, Calls
  <2>. QED  BY <2>1, <2>2, <2>3 DEF ControlInv
<1>2. ASSUME NEW t \in Nodes, Enter(t) PROVE ControlInv'
  <2>1. roots \subseteq roots' \cup {t}
    BY <1>2, EnterTodo
  <2>2. pc' = "search" /\ visited' = visited /\ visiting' = visiting \cup {t}
    BY <1>2 DEF Enter, Opens, Calls
  <2>. QED  BY <2>1, <2>2 DEF ControlInv
<1>3. CASE Leave
  BY <1>3 DEF Leave, ControlInv
<1>4. ASSUME NEW t \in Nodes, Overflow(t) PROVE ControlInv'
  <2>1. Len(stack) = frames
    BY <1>4, LenProperties, BoundsAssumption DEF Overflow, FrameLeft, TypeOK
  <2>. QED  BY <1>4, <2>1 DEF Overflow, ControlInv
<1>5. CASE Finish
  BY <1>5 DEF Finish, ControlInv
<1>6. CASE UNCHANGED vars
  BY <1>6 DEF vars, ControlInv
<1>. QED  BY <1>1, <1>2, <1>3, <1>4, <1>5, <1>6 DEF Next

------------------------------------------------------------------------------
(* What is reported *)

\* Two sequences that agree from i to p have the same piece there.
LEMMA SamePiece ==
  ASSUME NEW S, NEW r \in Seq(S), NEW s \in Seq(S),
         NEW i \in Nat \ {0}, NEW p \in Nat, i <= p,
         p <= Len(r), p <= Len(s),
         \A j \in i .. p : r[j] = s[j]
  PROVE  SubSeq(r, i, p) = SubSeq(s, i, p)
<1>1. /\ SubSeq(r, i, p) \in Seq(S)
      /\ Len(SubSeq(r, i, p)) = p - i + 1
      /\ \A j \in 1 .. p - i + 1 : SubSeq(r, i, p)[j] = r[i + j - 1]
  BY SubSeqProperties
<1>2. /\ SubSeq(s, i, p) \in Seq(S)
      /\ Len(SubSeq(s, i, p)) = p - i + 1
      /\ \A j \in 1 .. p - i + 1 : SubSeq(s, i, p)[j] = s[i + j - 1]
  BY SubSeqProperties
<1>3. ASSUME NEW j \in 1 .. p - i + 1
      PROVE  SubSeq(r, i, p)[j] = SubSeq(s, i, p)[j]
  <2>1. i + j - 1 \in i .. p
    OBVIOUS
  <2>. QED  BY <1>1, <1>2, <2>1
<1>. QED  BY <1>1, <1>2, <1>3, SeqEqual

\* A new report is a real cycle and the topmost piece of the stack.
LEMMA NewReport ==
  ASSUME TypeOK, StackInv, SeenInv, NEW t \in Nodes, ReportCycle(t),
         NEW k \in 1 .. Len(stack), stack[k] = t
  PROVE  LET c == CycleTo(t) IN
         /\ c \in Seq(Nodes)
         /\ Len(c) = Len(stack) - k + 2
         /\ \A i \in 1 .. Len(c) - 1 : c[i] = stack[k + i - 1]
         /\ c[Len(c)] = t /\ c[1] = t
         /\ c[Len(c) - 1] = Top
         /\ c = Append(SubSeq(stack, k, Len(stack)), t)
         /\ IsCycle(c, Edges)
         /\ PieceOf(c, stack)
<1>. DEFINE c == CycleTo(t)
<1>1. /\ c \in Seq(Nodes)
      /\ Len(c) = Len(stack) - k + 2
      /\ \A i \in 1 .. Len(c) - 1 : c[i] = stack[k + i - 1]
      /\ c[Len(c)] = t
      /\ c = Append(SubSeq(stack, k, Len(stack)), t)
  BY CycleToShape DEF StackInv, StackInjective
<1>. HIDE DEF c
<1>2. Len(stack) \in Nat
  BY LenProperties DEF TypeOK
<1>3. c[1] = t
  BY <1>1, <1>2
<1>4. c[Len(c) - 1] = Top
  <2>1. Len(c) - 1 \in 1 .. Len(c) - 1 /\ k + (Len(c) - 1) - 1 = Len(stack)
    BY <1>1, <1>2
  <2>. QED  BY <1>1, <2>1 DEF Top
<1>5. ASSUME NEW i \in 1 .. Len(c) - 1 PROVE <<c[i], c[i + 1]>> \in Edges
  <2>1. CASE i = Len(c) - 1
    <3>1. i + 1 = Len(c)
      BY <1>1, <1>2, <2>1
    <3>. QED  BY <1>1, <1>4, <2>1, <3>1, ReportFacts
  <2>2. CASE i # Len(c) - 1
    <3>1. /\ i + 1 \in 1 .. Len(c) - 1
          /\ k + i - 1 \in 1 .. Len(stack) - 1
          /\ k + (i + 1) - 1 = (k + i - 1) + 1
      BY <1>1, <1>2, <2>2
    <3>2. c[i] = stack[k + i - 1] /\ c[i + 1] = stack[(k + i - 1) + 1]
      BY <1>1, <3>1
    <3>. QED  BY <3>1, <3>2 DEF StackInv, IsWalk
  <2>. QED  BY <2>1, <2>2
<1>6. ASSUME NEW i \in 1 .. Len(c) - 1, NEW j \in 1 .. Len(c) - 1, c[i] = c[j]
      PROVE  i = j
  <2>1. k + i - 1 \in 1 .. Len(stack) /\ k + j - 1 \in 1 .. Len(stack)
    BY <1>1, <1>2
  <2>2. stack[k + i - 1] = stack[k + j - 1]
    BY <1>1, <1>6
  <2>3. k + i - 1 = k + j - 1
    BY <2>1, <2>2 DEF StackInv, StackInjective
  <2>. QED  BY <1>1, <1>2, <2>3
<1>7. IsCycle(c, Edges)
  <2>1. Len(c) >= 2
    BY <1>1, <1>2
  <2>2. IsWalk(c, Edges)
    BY <1>5 DEF IsWalk
  <2>. QED  BY <1>1, <1>3, <1>6, <2>1, <2>2 DEF IsCycle
<1>8. PieceOf(c, stack)
  <2>1. Len(stack) \in 1 .. Len(stack) /\ k <= Len(stack)
    BY <1>2
  <2>. QED  BY <1>1, <1>4, <2>1 DEF PieceOf, Closer, Top
<1>. QED  BY <1>1, <1>3, <1>4, <1>7, <1>8 DEF c

\* A report has the steps of an earlier one only if it is that one.
LEMMA SameStepsSameReport ==
  ASSUME TypeOK, StackInv, SeenInv, ReportInv, NEW t \in Nodes, ReportCycle(t),
         NEW m \in DOMAIN cycles,
         StepsOf(cycles[m]) = StepsOf(CycleTo(t))
  PROVE  CycleTo(t) \in seen_cycles
<1>. DEFINE c == CycleTo(t)
            d == cycles[m]
<1>1. PICK k \in 1 .. Len(stack) : stack[k] = t
  BY DEF StackInv, OnStack, ReportCycle
<1>2. /\ Len(c) = Len(stack) - k + 2
      /\ \A i \in 1 .. Len(c) - 1 : c[i] = stack[k + i - 1]
      /\ c[Len(c)] = t
      /\ c = Append(SubSeq(stack, k, Len(stack)), t)
  BY <1>1, NewReport
<1>3. Len(stack) \in Nat
  BY LenProperties DEF TypeOK
<1>4. d \in Seq(Nodes) /\ Len(d) \in Nat /\ Len(d) >= 2
  BY LenProperties, ElementOfSeq DEF TypeOK, ReportInv, CyclesAreReal, IsCycle
<1>5. StepsOf(d) = StepsOf(c) /\ d \in seen_cycles
  BY DEF SeenInv
<1>6. d[Len(d) - 1] \in visiting =>
        \E i, p \in 1 .. Len(stack) :
          /\ i <= p
          /\ stack[p] = d[Len(d) - 1]
          /\ stack[i] = d[Len(d)]
          /\ d = Append(SubSeq(stack, i, p), d[Len(d)])
  BY DEF ReportInv, SegmentInv, PieceOf, Closer
<1>. HIDE DEF c, d
<1>7. <<d[Len(d) - 1], d[Len(d)]>> \in StepsOf(d)
  <2>1. Len(d) - 1 \in 1 .. Len(d) - 1 /\ (Len(d) - 1) + 1 = Len(d)
    BY <1>4
  <2>. QED  BY <2>1 DEF StepsOf
<1>8. PICK i \in 1 .. Len(c) - 1 :
        c[i] = d[Len(d) - 1] /\ c[i + 1] = d[Len(d)]
  <2>1. <<d[Len(d) - 1], d[Len(d)]>> \in StepsOf(c)
    BY <1>5, <1>7
  <2>2. \E i \in 1 .. Len(c) - 1 :
          <<d[Len(d) - 1], d[Len(d)]>> = <<c[i], c[i + 1]>>
    BY <2>1, Zenon DEF StepsOf
  <2>. QED  BY <2>2
<1>9. k + i - 1 \in 1 .. Len(stack) /\ stack[k + i - 1] = d[Len(d) - 1]
  BY <1>2, <1>3, <1>8
<1>10. PICK j, p \in 1 .. Len(stack) :
         /\ j <= p
         /\ stack[p] = d[Len(d) - 1]
         /\ stack[j] = d[Len(d)]
         /\ d = Append(SubSeq(stack, j, p), d[Len(d)])
  BY <1>6, <1>9 DEF StackInv, OnStack
<1>11. p = k + i - 1
  BY <1>9, <1>10 DEF StackInv, StackInjective
<1>12. i = Len(c) - 1
  <2>. SUFFICES ASSUME i # Len(c) - 1 PROVE FALSE
    OBVIOUS
  <2>1. i + 1 \in 1 .. Len(c) - 1 /\ k + i \in 1 .. Len(stack)
        /\ k + (i + 1) - 1 = k + i
    BY <1>2, <1>3
  <2>2. stack[k + i] = stack[j]
    BY <1>2, <1>8, <1>10, <2>1
  <2>3. k + i = j
    BY <2>1, <2>2 DEF StackInv, StackInjective
  <2>. QED  BY <1>3, <1>10, <1>11, <2>3
<1>13. p = Len(stack)
  BY <1>2, <1>3, <1>11, <1>12
<1>14. d[Len(d)] = t
  BY <1>2, <1>3, <1>8, <1>12
<1>15. j = k
  BY <1>1, <1>10, <1>14 DEF StackInv, StackInjective
<1>16. d = c
  BY <1>2, <1>10, <1>13, <1>14, <1>15
<1>. QED  BY <1>5, <1>16 DEF c

\* Every step keeps the reports real, different, and on the stack as long
\* as the task that closed them is open.
LEMMA ReportStep ==
  TypeOK /\ StackInv /\ SeenInv /\ ReportInv /\ [Next]_vars => ReportInv'
<1>. SUFFICES ASSUME TypeOK, StackInv, SeenInv, ReportInv, [Next]_vars
              PROVE  ReportInv'
  OBVIOUS
<1>. USE DEF ReportInv
<1>1. ASSUME UNCHANGED <<graph, cycles>>
      PROVE  CyclesAreReal' /\ OneReportPerCycle'
  <2>1. Edges' = Edges
    BY <1>1 DEF Edges
  <2>. QED  BY <1>1, <2>1 DEF CyclesAreReal, OneReportPerCycle
<1>2. ASSUME UNCHANGED <<stack, visiting, visited, cycles>>
      PROVE  SegmentInv'
  BY <1>2 DEF SegmentInv
<1>3. ASSUME NEW t \in Nodes, Enter(t) PROVE ReportInv'
  <2>1. /\ graph' = graph /\ cycles' = cycles
        /\ visiting' = visiting \cup {t} /\ visited' = visited
        /\ t \notin visiting /\ t \notin visited
    BY <1>3 DEF Enter, Opens, Unseen
  <2>2. /\ stack' \in Seq(Nodes)
        /\ Len(stack) \in Nat
        /\ Len(stack') = Len(stack) + 1
        /\ \A i \in 1 .. Len(stack) : stack'[i] = stack[i]
    BY <1>3, Push DEF Enter, TypeOK
  <2>3. ASSUME NEW c, PieceOf(c, stack) PROVE PieceOf(c, stack')
    <3>1. PICK i, p \in 1 .. Len(stack) :
            /\ i <= p
            /\ stack[p] = Closer(c)
            /\ stack[i] = c[Len(c)]
            /\ c = Append(SubSeq(stack, i, p), c[Len(c)])
      BY <2>3 DEF PieceOf
    <3>2. \A j \in i .. p : j \in 1 .. Len(stack)
      BY <2>2, <3>1
    <3>3. SubSeq(stack', i, p) = SubSeq(stack, i, p)
      BY <2>2, <3>1, <3>2, SamePiece DEF TypeOK
    <3>4. i \in 1 .. Len(stack') /\ p \in 1 .. Len(stack')
      BY <2>2
    <3>. QED  BY <2>2, <3>1, <3>3, <3>4 DEF PieceOf
  <2>4. SegmentInv'
    BY <2>1, <2>3 DEF SegmentInv
  <2>. QED  BY <1>1, <2>1, <2>4
<1>4. CASE Leave
  <2>1. /\ graph' = graph /\ cycles' = cycles
        /\ visiting' = visiting \ {stack[Len(stack)]}
        /\ visited' = visited \cup {stack[Len(stack)]}
    BY <1>4 DEF Leave, Top
  <2>2. /\ stack' \in Seq(Nodes)
        /\ Len(stack) \in Nat \ {0}
        /\ Len(stack') = Len(stack) - 1
        /\ \A i \in 1 .. Len(stack) - 1 : stack'[i] = stack[i]
    BY <1>4, Pop DEF Leave, TypeOK
  <2>3. ASSUME NEW c, PieceOf(c, stack), Closer(c) # stack[Len(stack)]
        PROVE  PieceOf(c, stack')
    <3>1. PICK i, p \in 1 .. Len(stack) :
            /\ i <= p
            /\ stack[p] = Closer(c)
            /\ stack[i] = c[Len(c)]
            /\ c = Append(SubSeq(stack, i, p), c[Len(c)])
      BY <2>3 DEF PieceOf
    <3>2. p # Len(stack)
      BY <2>3, <3>1
    <3>3. \A j \in i .. p : j \in 1 .. Len(stack) - 1
      BY <2>2, <3>1, <3>2
    <3>4. /\ i \in 1 .. Len(stack') /\ p \in 1 .. Len(stack')
          /\ stack'[i] = stack[i] /\ stack'[p] = stack[p]
      BY <2>2, <3>1, <3>2
    <3>5. SubSeq(stack', i, p) = SubSeq(stack, i, p)
      <4>1. \A j \in i .. p : stack'[j] = stack[j]
        BY <2>2, <3>3
      <4>2. /\ i \in Nat \ {0} /\ p \in Nat
            /\ p <= Len(stack) /\ p <= Len(stack')
        BY <2>2, <3>4
      <4>. QED  BY <2>2, <3>1, <4>1, <4>2, SamePiece DEF TypeOK
    <3>. QED  BY <3>1, <3>4, <3>5 DEF PieceOf
  <2>4. SegmentInv'
    BY <2>1, <2>3 DEF SegmentInv
  <2>. QED  BY <1>1, <2>1, <2>4
<1>5. ASSUME NEW t \in Nodes, ReportCycle(t), CycleTo(t) \notin seen_cycles
      PROVE  ReportInv'
  <2>. DEFINE c == CycleTo(t)
              n == Len(cycles)
  <2>1. PICK k \in 1 .. Len(stack) : stack[k] = t
    BY <1>5 DEF StackInv, OnStack, ReportCycle
  <2>2. /\ c \in Seq(Nodes)
        /\ c[Len(c) - 1] = Top
        /\ IsCycle(c, Edges)
        /\ PieceOf(c, stack)
    BY <1>5, <2>1, NewReport
  <2>3. cycles' = Append(cycles, c)
    BY <1>5 DEF ReportCycle
  <2>4. \A m \in DOMAIN cycles : StepsOf(cycles[m]) # StepsOf(c)
    BY <1>5, SameStepsSameReport
  <2>. HIDE DEF c
  <2>5. /\ DOMAIN cycles' = 1 .. n + 1
        /\ DOMAIN cycles = 1 .. n
        /\ n \in Nat
        /\ \A i \in 1 .. n : cycles'[i] = cycles[i]
        /\ cycles'[n + 1] = c
    BY <2>2, <2>3, Push, LenProperties DEF TypeOK
  <2>. HIDE DEF n
  <2>6. Edges' = Edges
    BY <1>5 DEF ReportCycle, Edges
  <2>7. stack' = stack /\ visiting' = visiting /\ visited' = visited
    BY <1>5 DEF ReportCycle
  <2>8. Closer(c) \in visiting
    BY <1>5, <2>2, ReportFacts, Pop
       DEF StackInv, OnStack, Top, TypeOK, Closer
  <2>9. ASSUME NEW m \in DOMAIN cycles'
        PROVE  \/ cycles'[m] = c /\ m = n + 1
               \/ m \in DOMAIN cycles /\ cycles'[m] = cycles[m]
    BY <2>5
  <2>10. CyclesAreReal'
    BY <2>2, <2>6, <2>9 DEF CyclesAreReal
  <2>11. SegmentInv'
    BY <2>2, <2>7, <2>8, <2>9 DEF SegmentInv
  <2>12. OneReportPerCycle'
    <3>1. ASSUME NEW a \in DOMAIN cycles', NEW b \in DOMAIN cycles',
                 StepsOf(cycles'[a]) = StepsOf(cycles'[b])
          PROVE  a = b
      BY <2>4, <2>9, <3>1 DEF OneReportPerCycle
    <3>. QED  BY <3>1 DEF OneReportPerCycle
  <2>. QED  BY <2>10, <2>11, <2>12
<1>6. ASSUME NEW t \in Nodes, ReportCycle(t), CycleTo(t) \in seen_cycles
      PROVE  ReportInv'
  BY <1>1, <1>2, <1>6 DEF ReportCycle
<1>. QED
  BY <1>1, <1>2, <1>3, <1>4, <1>5, <1>6
     DEF Next, SkipVisited, Overflow, Finish, vars

------------------------------------------------------------------------------
(* Theorems *)

\* seen_cycles stays the set of the reported cycles.
LEMMA SeenStep == TypeOK /\ StackInv /\ SeenInv /\ [Next]_vars => SeenInv'
<1>. SUFFICES ASSUME TypeOK, StackInv, SeenInv, [Next]_vars PROVE SeenInv'
  OBVIOUS
<1>1. ASSUME NEW t \in Nodes, ReportCycle(t) PROVE SeenInv'
  BY <1>1, ReportFacts
<1>2. ASSUME UNCHANGED <<cycles, seen_cycles>> PROVE SeenInv'
  BY <1>2 DEF SeenInv
<1>. QED
  BY <1>1, <1>2
     DEF Next, SkipVisited, Enter, Leave, Overflow, Finish, vars

\* The inductive invariant holds when the search starts.
LEMMA InductiveInit == Init => IInv
<1>. SUFFICES ASSUME Init PROVE IInv
  OBVIOUS
<1>1. TypeOK /\ StackInv
  BY TypeInit
<1>2. visiting = {} /\ visited = {} /\ cycles = << >> /\ seen_cycles = {}
      /\ roots = Nodes /\ pc = "search" /\ DOMAIN cycles = {}
  BY DEF Init
<1>3. SeenInv /\ Explained /\ ControlInv
  BY <1>2 DEF SeenInv, Explained, ControlInv
<1>4. FinishedInv
  BY <1>2 DEF FinishedInv, Acyclic
<1>5. ReportInv
  BY <1>2 DEF ReportInv, CyclesAreReal, SegmentInv, OneReportPerCycle
<1>. QED  BY <1>1, <1>3, <1>4, <1>5 DEF IInv

\* Every step of the search keeps the inductive invariant.
LEMMA InductiveStep == IInv /\ [Next]_vars => IInv'
BY TypeStep, StackStep, SeenStep, ExplainedStep, FinishedStep, ControlStep,
   ReportStep
   DEF IInv

\* IInv is an invariant of the search.
THEOREM Inductive == Spec => []IInv
BY InductiveInit, InductiveStep, PTL DEF Spec

\* The variables of the search keep their types, and visit() never nests
\* deeper than the interpreter allows.
THEOREM TypeCorrect == Spec => []TypeOK
<1>1. IInv => TypeOK
  BY DEF IInv
<1>. QED  BY <1>1, Inductive, PTL

\* Whatever the registry, each DAG_DEPENDENCY_CYCLE finding spells out a
\* cycle of the graph, and no two findings the same one, from whichever of its
\* tasks it is written.
THEOREM ReportsAreSound == Spec => []ReportsAreTrue
<1>1. IInv => ReportsAreTrue
  BY DEF IInv, ReportInv, ReportsAreTrue
<1>. QED  BY <1>1, Inductive, PTL

\* When both loops are over, every task is finished.
LEMMA EndCovers ==
  ASSUME IInv, stack = << >>, roots = {}
  PROVE  Acyclic(Nodes, Edges \ ClosingEdges)
<1>1. visiting = {}
  BY DEF IInv, StackInv, OnStack
<1>2. visited = Nodes
  BY <1>1 DEF IInv, ControlInv, TypeOK
<1>. QED  BY <1>2 DEF IInv, FinishedInv

\* At the end the reports cover all cycles.
LEMMA DoneCovers == IInv => ReportsCoverAllCycles
BY EndCovers DEF ReportsCoverAllCycles, IInv, ControlInv

\* Breaking the last edge of every reported cycle leaves no cycle.
THEOREM ReportsAreComplete == Spec => []ReportsCoverAllCycles
BY DoneCovers, Inductive, PTL

\* A stack of `frames' tasks is a chain of that many tasks.
LEMMA FullStackIsChain ==
  ASSUME IInv, Len(stack) = frames
  PROVE  HasChain(Nodes, Edges, frames)
<1>1. stack \in [1 .. frames -> Nodes]
  BY LenProperties DEF IInv, TypeOK
<1>. QED
  BY <1>1 DEF IInv, HasChain, StackInv, StackInjective, IsWalk

\* A crashed search has a full stack, hence a chain of that many tasks.
LEMMA CrashedIsDeep == IInv => CrashNeedsDeepChain
BY FullStackIsChain DEF CrashNeedsDeepChain, IInv, ControlInv

\* The search fails only on a chain of as many tasks as it may nest calls.
THEOREM CrashesAreDeep == Spec => []CrashNeedsDeepChain
BY CrashedIsDeep, Inductive, PTL

------------------------------------------------------------------------------
(* What Termination rests on: every step leads on, and the search never waits. *)

\* Skipping a task or reporting a cycle takes one call off a loop.
LEMMA CallAdvances ==
  ASSUME TypeOK, NEW t \in Nodes, Calls(t), AfterCall(t)
  PROVE  LoopAdvances
<1>1. CASE stack = << >>
  BY <1>1 DEF AfterCall, Calls, Waiting, LoopAdvances
<1>2. CASE stack # << >>
  <2>1. Top \in Nodes /\ todo[Top][t] > 0
    BY <1>2 DEF TypeOK, Calls, Waiting, Top
  <2>2. todo' = [todo EXCEPT ![Top][t] = @ - 1] /\ roots' = roots
    BY <1>2 DEF AfterCall
  <2>. QED  BY <2>1, <2>2 DEF LoopAdvances
<1>. QED  BY <1>1, <1>2

\* Every step of the search leads on: on a registry with finitely many tasks
\* there are only finitely many.
THEOREM EveryStepAdvances == Spec => StepsAdvance
<1>1. IInv /\ [Next]_vars => [Advances]_vars
  <2>. SUFFICES ASSUME IInv, Next PROVE Advances
    BY DEF Advances
  <2>1. ASSUME NEW t \in Nodes, SkipVisited(t) PROVE Advances
    BY <2>1, CallAdvances DEF SkipVisited, Calls, Advances, IInv
  <2>2. ASSUME NEW t \in Nodes, ReportCycle(t) PROVE Advances
    BY <2>2, CallAdvances DEF ReportCycle, Calls, Advances, IInv
  <2>3. ASSUME NEW t \in Nodes, Enter(t) PROVE Advances
    BY <2>3 DEF Enter, Unseen, Opens, Calls, Advances
  <2>4. ASSUME NEW t \in Nodes, Overflow(t) PROVE Advances
    BY <2>4 DEF Overflow, Calls, Advances
  <2>5. CASE Leave
    <3>1. Top \in Nodes /\ Top \in visiting
      BY <2>5, Pop DEF Leave, Top, IInv, TypeOK, StackInv, OnStack
    <3>2. Top \notin visited
      BY <3>1 DEF IInv, StackInv
    <3>. QED  BY <2>5, <3>1, <3>2 DEF Leave, Advances
  <2>6. CASE Finish
    BY <2>6 DEF Finish, Advances
  <2>. QED  BY <2>1, <2>2, <2>3, <2>4, <2>5, <2>6 DEF Next
<1>. QED  BY <1>1, Inductive, PTL DEF Spec, StepsAdvance

\* Of the calls a loop has left, one is the next in sorted order.
LEMMA SomeCallIsNext ==
  ASSUME TypeOK, pc = "search", Waiting # {}
  PROVE  \E t \in Nodes : Calls(t)
<1>. DEFINE below == OpToRel(<, Nat)
<1>1. IsWellFoundedOn(below, Nat)
  BY NatLessThanWellFounded
<1>2. Waiting \subseteq Nodes /\ Waiting \subseteq Nat
  BY NodesAssumption DEF Waiting, TypeOK
<1>3. PICK t \in Waiting : \A u \in Waiting : <<u, t>> \notin below
  <2>. HIDE DEF below
  <2>. QED  BY <1>1, <1>2, WFMin
<1>4. \A u \in Waiting : ~(u < t)
  BY <1>2, <1>3 DEF OpToRel
<1>5. \A u \in Waiting : t <= u
  BY <1>2, <1>4
<1>. QED  BY <1>2, <1>5 DEF Calls

\* As long as the search is on, its loop has a call to make, which visit()
\* takes in one way or another, or a task to finish, or is over: the guard of
\* some action holds.
NeverWaits ==
  pc = "search" =>
    \/ \E t \in Nodes : Calls(t)
    \/ stack # << >> /\ Waiting = {}
    \/ stack = << >> /\ roots = {}

\* The search never waits, on any registry and at any depth.
THEOREM SearchNeverWaits == Spec => []NeverWaits
<1>1. IInv => NeverWaits
  BY SomeCallIsNext DEF IInv, NeverWaits, Waiting
<1>. QED  BY <1>1, Inductive, PTL

------------------------------------------------------------------------------
(* The verdict *)

\* A reported cycle is one: the graph is not acyclic.
LEMMA CycleNotAcyclic ==
  ASSUME NEW S, NEW E, NEW c \in Seq(S), IsCycle(c, E)
  PROVE  ~Acyclic(S, E)
<1>. DEFINE T == {c[i] : i \in 1 .. Len(c) - 1}
<1>1. Len(c) \in Nat /\ Len(c) >= 2 /\ \A i \in 1 .. Len(c) : c[i] \in S
  BY LenProperties, ElementOfSeq DEF IsCycle
<1>2. T \in SUBSET S /\ T # {}
  <2>1. 1 \in 1 .. Len(c) - 1
    BY <1>1
  <2>2. \A i \in 1 .. Len(c) - 1 : c[i] \in S
    BY <1>1
  <2>. QED  BY <2>1, <2>2
<1>3. ASSUME NEW m \in T PROVE \E d \in T : <<m, d>> \in E
  <2>1. PICK i \in 1 .. Len(c) - 1 : m = c[i]
    BY <1>3
  <2>2. <<c[i], c[i + 1]>> \in E
    BY DEF IsCycle, IsWalk
  <2>3. c[i + 1] \in T
    <3>1. CASE i + 1 = Len(c)
      <4>1. c[i + 1] = c[1] /\ 1 \in 1 .. Len(c) - 1
        BY <1>1, <3>1 DEF IsCycle
      <4>. QED  BY <4>1
    <3>2. CASE i + 1 # Len(c)
      <4>1. i + 1 \in 1 .. Len(c) - 1
        BY <1>1, <3>2
      <4>. QED  BY <4>1
    <3>. QED  BY <3>1, <3>2
  <2>. QED  BY <2>1, <2>2, <2>3
<1>. HIDE DEF T
<1>. QED  BY <1>2, <1>3 DEF Acyclic

\* At the end the list of reports is empty exactly on an acyclic graph.
LEMMA EndVerdict ==
  ASSUME IInv, stack = << >>, roots = {}
  PROVE  Acyclic(Nodes, Edges) <=> cycles = << >>
<1>1. CASE cycles = << >>
  <2>1. ClosingEdges = {}
    BY <1>1 DEF ClosingEdges
  <2>. QED  BY <1>1, <2>1, EndCovers
<1>2. CASE cycles # << >>
  <2>1. 1 \in DOMAIN cycles /\ cycles[1] \in Seq(Nodes)
    <3>1. cycles \in Seq(Seq(Nodes))
      BY DEF IInv, TypeOK
    <3>2. 1 \in 1 .. Len(cycles)
      BY <1>2, <3>1, EmptySeq, LenProperties
    <3>. QED  BY <3>1, <3>2, ElementOfSeq, LenProperties
  <2>2. IsCycle(cycles[1], Edges)
    BY <2>1 DEF IInv, ReportInv, CyclesAreReal
  <2>. QED  BY <1>2, <2>1, <2>2, CycleNotAcyclic
<1>. QED  BY <1>1, <1>2

\* The search implements CycleVerdict: it decides once, rightly, and fails
\* only where CycleVerdict may.
THEOREM Implementation == Spec => ImplementsVerdict
<1>1. Init => CV!Init
  BY DEF Init, CV!Init, Verdict, Edges
<1>2. IInv /\ [Next]_vars => [CV!Next]_CV!vars
  <2>. SUFFICES ASSUME IInv, [Next]_vars
                PROVE  [CV!Next]_CV!vars
    OBVIOUS
  <2>1. Edges' = Edges /\ frames' = frames
    BY DEF Next, SkipVisited, ReportCycle, Enter, Leave, Overflow, Finish,
           vars, Edges
  <2>2. ASSUME pc' = pc, pc # "done" \/ cycles' = cycles
        PROVE  UNCHANGED CV!vars
    BY <2>1, <2>2 DEF IInv, TypeOK, CV!vars, Verdict
  <2>3. ASSUME NEW t \in Nodes, Overflow(t) PROVE CV!Crash
    <3>1. pc = "search" /\ pc' = "crashed"
      BY <2>3 DEF Overflow, Calls
    <3>2. Len(stack) = frames
      BY <2>3, LenProperties, BoundsAssumption
         DEF Overflow, FrameLeft, IInv, TypeOK
    <3>3. HasChain(Nodes, Edges, frames)
      BY <3>2, FullStackIsChain
    <3>. QED
      BY <2>1, <3>1, <3>3 DEF CV!Crash, Verdict, CV!HasChain, HasChain
  <2>4. CASE Finish
    <3>1. pc = "search" /\ pc' = "done"
      BY <2>4 DEF Finish
    <3>2. Acyclic(Nodes, Edges) <=> cycles = << >>
      BY <2>4, EndVerdict DEF Finish
    <3>3. cycles' = cycles
      BY <2>4 DEF Finish
    <3>4. CV!Decide
      BY <2>1, <3>1, <3>2, <3>3
         DEF CV!Decide, Verdict, CV!Acyclic, Acyclic
    <3>. QED  BY <3>4 DEF CV!Next
  <2>. QED
    BY <2>2, <2>3, <2>4
       DEF Next, SkipVisited, ReportCycle, Enter, Leave, Calls, vars,
           CV!Next, CV!vars
<1>. QED  BY <1>1, <1>2, Inductive, PTL DEF Spec, ImplementsVerdict, CV!Spec
==============================================================================
