--------------------------- MODULE DagVerifyProofs ---------------------------
(***************************************************************************)
(* Proofs about DagVerify for every set of task ids, every choice of task  *)
(* entries and registries of every length.                                 *)
(***************************************************************************)
EXTENDS DagVerify, SequenceTheorems, TLAPS

------------------------------------------------------------------------------
(* The inductive invariant *)

\* What the command knows of a file that has not been written since.
VerdictInv ==
  same => /\ pc = "passed" => Passes(file)
          /\ pc = "rendered" => Passes(file) /\ drawn = Loaded(file)

IInv == TypeOK /\ VerdictInv

\* The tasks of a well-typed file are a list of entries.
LEMMA LoadedType ==
  ASSUME TypeOK
  PROVE  Loaded(file) \in Seq(Entries) /\ Len(Loaded(file)) <= MaxTasks
<1>1. << >> \in Seq(Entries) /\ Len(<< >>) = 0
  OBVIOUS
<1>2. Len(file.tasks) \in Nat
  BY LenProperties DEF TypeOK
<1>. QED  BY <1>1, <1>2, MaxTasksAssumption DEF TypeOK, Loaded

\* The command and the orchestrator start well typed.
LEMMA TypeInit == Init => TypeOK
BY MaxTasksAssumption DEF Init, TypeOK, FileStates

\* Every step keeps the types and the bound on the registry.
LEMMA TypeStep == TypeOK /\ [Next]_vars => TypeOK'
<1>. SUFFICES ASSUME TypeOK, [Next]_vars PROVE TypeOK'
  OBVIOUS
<1>1. CASE Verify
  BY <1>1 DEF Verify, TypeOK
<1>2. CASE Render
  BY <1>2, LoadedType DEF Render, TypeOK
<1>3. CASE Exit
  BY <1>3, MaxTasksAssumption DEF Exit, TypeOK
<1>4. ASSUME NEW t \in Entries, AddTask(t) PROVE TypeOK'
  <2>1. /\ Append(file.tasks, t) \in Seq(Entries)
        /\ Len(Append(file.tasks, t)) = Len(file.tasks) + 1
        /\ Len(file.tasks) \in Nat
    BY AppendProperties, LenProperties DEF TypeOK
  <2>2. Len(Append(file.tasks, t)) <= MaxTasks
    BY <1>4, <2>1, MaxTasksAssumption DEF AddTask, TypeOK
  <2>. QED  BY <1>4, <2>1, <2>2 DEF AddTask, Write, TypeOK
<1>5. ASSUME NEW i \in DOMAIN file.tasks, NEW t \in Entries, EditTask(i, t)
      PROVE  TypeOK'
  <2>1. /\ [file.tasks EXCEPT ![i] = t] \in Seq(Entries)
        /\ Len([file.tasks EXCEPT ![i] = t]) = Len(file.tasks)
    BY ExceptSeq, LenProperties DEF TypeOK
  <2>. QED  BY <1>5, <2>1 DEF EditTask, Write, TypeOK
<1>6. ASSUME NEW s \in FileStates, Flaw(s) \/ Lose(s) PROVE TypeOK'
  <2>1. CASE Flaw(s)
    BY <2>1 DEF Flaw, Write, TypeOK
  <2>2. CASE Lose(s)
    <3>1. << >> \in Seq(Entries) /\ Len(<< >>) = 0
      OBVIOUS
    <3>. QED  BY <2>2, <3>1, MaxTasksAssumption DEF Lose, Write, TypeOK
  <2>. QED  BY <1>6, <2>1, <2>2
<1>7. CASE Recreate
  BY <1>7, MaxTasksAssumption DEF Recreate, Write, FileStates, TypeOK
<1>8. CASE UNCHANGED vars
  BY <1>8 DEF vars, TypeOK
<1>. QED  BY <1>1, <1>2, <1>3, <1>4, <1>5, <1>6, <1>7, <1>8 DEF Next

\* Every step keeps what the command knows of the file.
LEMMA VerdictStep == TypeOK /\ VerdictInv /\ [Next]_vars => VerdictInv'
<1>. SUFFICES ASSUME TypeOK, VerdictInv, [Next]_vars PROVE VerdictInv'
  OBVIOUS
<1>. USE DEF VerdictInv
<1>1. CASE Verify
  BY <1>1 DEF Verify, TypeOK
<1>2. CASE Render
  BY <1>2 DEF Render
<1>3. CASE Exit
  BY <1>3 DEF Exit
<1>4. ASSUME NEW f, Write(f) PROVE VerdictInv'
  BY <1>4 DEF Write
<1>5. CASE UNCHANGED vars
  BY <1>5 DEF vars
<1>. QED
  BY <1>1, <1>2, <1>3, <1>4, <1>5
     DEF Next, AddTask, EditTask, Flaw, Lose, Recreate

\* IInv is an invariant of the command beside the orchestrator.
THEOREM Inductive == Spec => []IInv
<1>1. Init => IInv
  BY TypeInit DEF Init, IInv, VerdictInv
<1>2. IInv /\ [Next]_vars => IInv'
  BY TypeStep, VerdictStep DEF IInv
<1>. QED  BY <1>1, <1>2, PTL DEF Spec

\* Whatever the orchestrator writes and whenever, the command sees and shows
\* lists of task entries.
THEOREM TypeCorrect == Spec => []TypeOK
<1>1. IInv => TypeOK
  BY DEF IInv
<1>. QED  BY <1>1, Inductive, PTL

\* They are tasks.
LEMMA LoadedTasks ==
  ASSUME TypeOK
  PROVE  Loaded(file) \in Seq(Task)
BY LoadedType, EntriesAssumption

------------------------------------------------------------------------------
(* Looking tasks up *)

\* The entries of a list of tasks.
LEMMA EntryType ==
  ASSUME NEW tasks \in Seq(Task), NEW i \in DOMAIN tasks
  PROVE  /\ tasks[i] \in Task
         /\ DOMAIN tasks = 1 .. Len(tasks)
         /\ Len(tasks) \in Nat
BY LenProperties, ElementOfSeq

\* Without duplicates an id has one entry, the one by_id has.
LEMMA OneEntry ==
  ASSUME NEW tasks \in Seq(Task), DuplicateFindings(tasks) = {},
         NEW i \in DOMAIN tasks, tasks[i].id # None
  PROVE  /\ \A j \in DOMAIN tasks : tasks[j].id = tasks[i].id => j = i
         /\ ById(tasks, tasks[i].id) = tasks[i]
<1>1. DOMAIN tasks = 1 .. Len(tasks) /\ Len(tasks) \in Nat
  BY LenProperties
<1>2. ASSUME NEW j \in DOMAIN tasks, tasks[j].id = tasks[i].id
      PROVE  j = i
  <2>1. CASE j < i
    BY <1>1, <1>2, <2>1 DEF DuplicateFindings
  <2>2. CASE i < j
    BY <1>1, <1>2, <2>2 DEF DuplicateFindings
  <2>. QED  BY <1>1, <2>1, <2>2
<1>3. \A k \in DOMAIN tasks :
        (/\ tasks[k].id = tasks[i].id
         /\ \A j \in DOMAIN tasks : tasks[j].id = tasks[i].id => j <= k)
        <=> k = i
  BY <1>1, <1>2
<1>4. (CHOOSE k \in DOMAIN tasks :
         /\ tasks[k].id = tasks[i].id
         /\ \A j \in DOMAIN tasks : tasks[j].id = tasks[i].id => j <= k) = i
  BY <1>3
<1>. QED  BY <1>2, <1>4 DEF ById

\* Every known id belongs to an entry.
LEMMA KnownEntry ==
  ASSUME NEW tasks \in Seq(Task), DuplicateFindings(tasks) = {},
         NEW n \in Known(tasks)
  PROVE  /\ n # None
         /\ \E i \in DOMAIN tasks : tasks[i].id = n /\ ById(tasks, n) = tasks[i]
<1>1. PICK i \in DOMAIN tasks : tasks[i].id = n /\ n # None
  BY DEF Known
<1>. QED  BY <1>1, OneEntry

\* In a passing registry the dependencies of an entry are known, and those of
\* an active entry satisfied.
LEMMA ActiveDependencies ==
  ASSUME NEW tasks \in Seq(Task), NoFindings(tasks), NEW i \in DOMAIN tasks
  PROVE  /\ tasks[i].dependencies \subseteq Known(tasks)
         /\ tasks[i].status \in DEPENDENCY_ACTIVE_STATUSES =>
              \A d \in tasks[i].dependencies : Satisfied(ById(tasks, d))
<1>1. tasks[i].dependencies \subseteq Ids
  BY EntryType DEF Task
<1>2. tasks[i].dependencies \subseteq Known(tasks)
  <2>. SUFFICES ASSUME NEW d \in tasks[i].dependencies, d \notin Known(tasks)
                PROVE  FALSE
    OBVIOUS
  <2>. DEFINE f == <<i, d>>
  <2>1. f \in (DOMAIN tasks) \X Ids /\ f[1] = i /\ f[2] = d
    BY <1>1
  <2>2. f \in MissingDependencyFindings(tasks)
    BY <2>1 DEF MissingDependencyFindings
  <2>. QED  BY <2>2 DEF NoFindings
<1>3. ASSUME tasks[i].status \in DEPENDENCY_ACTIVE_STATUSES,
             NEW d \in tasks[i].dependencies, ~Satisfied(ById(tasks, d))
      PROVE  FALSE
  <2>. DEFINE f == <<i, d>>
  <2>1. f \in (DOMAIN tasks) \X Known(tasks) /\ f[1] = i /\ f[2] = d
    BY <1>2
  <2>2. f \in StatusDependencyFindings(tasks)
    BY <1>3, <2>1 DEF StatusDependencyFindings
  <2>. QED  BY <2>2 DEF NoFindings
<1>. QED  BY <1>2, <1>3

------------------------------------------------------------------------------
(* Transitive dependencies *)

\* In a passing registry the satisfied tasks are closed under dependencies: a
\* satisfied task is itself active, so its dependencies were checked too.
LEMMA SatisfiedClosed ==
  ASSUME NEW tasks \in Seq(Task), NoFindings(tasks)
  PROVE  Closed({n \in Known(tasks) : Satisfied(ById(tasks, n))},
                GraphOf(tasks))
<1>. DEFINE done == {n \in Known(tasks) : Satisfied(ById(tasks, n))}
<1>. SUFFICES ASSUME NEW e \in GraphOf(tasks), e[1] \in done
              PROVE  e[2] \in done
  BY DEF Closed
<1>1. /\ e[1] \in Known(tasks)
      /\ e[2] \in Known(tasks)
      /\ e[2] \in ById(tasks, e[1]).dependencies
  BY DEF GraphOf
<1>2. PICK i \in DOMAIN tasks : ById(tasks, e[1]) = tasks[i]
  BY <1>1, KnownEntry DEF NoFindings
<1>3. tasks[i].status \in DEPENDENCY_ACTIVE_STATUSES
  BY <1>2 DEF Satisfied, DEPENDENCY_ACTIVE_STATUSES,
     DEPENDENCY_SATISFIED_STATUSES
<1>. QED  BY <1>1, <1>2, <1>3, ActiveDependencies

\* A closed set that holds the dependencies of n holds its ancestors.
LEMMA AncestorsIn ==
  ASSUME NEW S, NEW edges, NEW n, NEW T \in SUBSET S, Closed(T, edges),
         \A d \in S : <<n, d>> \in edges => d \in T
  PROVE  Ancestors(n, S, edges) \subseteq T
BY DEF Ancestors

\* In a passing registry everything an active task transitively depends on is
\* satisfied.
LEMMA ActiveAncestors ==
  ASSUME NEW tasks \in Seq(Task), NoFindings(tasks),
         NEW i \in DOMAIN tasks,
         tasks[i].status \in DEPENDENCY_ACTIVE_STATUSES,
         NEW a \in AncestorsOf(tasks, i)
  PROVE  Satisfied(ById(tasks, a))
<1>. DEFINE done == {n \in Known(tasks) : Satisfied(ById(tasks, n))}
<1>1. \A d \in tasks[i].dependencies : d \in done
  BY ActiveDependencies
<1>2. Closed(done, GraphOf(tasks))
  BY SatisfiedClosed
<1>3. ASSUME NEW d \in tasks[i].dependencies
      PROVE  Ancestors(d, Known(tasks), GraphOf(tasks)) \subseteq done
  <2>1. \A x \in Known(tasks) : <<d, x>> \in GraphOf(tasks) => x \in done
    <3>. SUFFICES ASSUME NEW x \in Known(tasks), <<d, x>> \in GraphOf(tasks)
                  PROVE  x \in done
      OBVIOUS
    <3>. HIDE DEF done
    <3>1. <<d, x>>[1] \in done
      BY <1>1
    <3>2. <<d, x>>[2] \in done
      BY <1>2, <3>1 DEF Closed
    <3>. QED  BY <3>2
  <2>2. done \in SUBSET Known(tasks)
    OBVIOUS
  <2>. HIDE DEF done
  <2>. QED  BY <1>2, <2>1, <2>2, AncestorsIn
<1>. QED  BY <1>1, <1>3 DEF AncestorsOf

\* A pass of `dag verify' speaks for all ancestors of an active task.
THEOREM ActiveTasksAreGrounded == Spec => []ActiveTasksRestOnDoneTasks
<1>1. IInv => ActiveTasksRestOnDoneTasks
  <2>. SUFFICES ASSUME IInv, Reported("passed"),
                       NEW i \in DOMAIN Loaded(file),
                       Loaded(file)[i].status \in DEPENDENCY_ACTIVE_STATUSES,
                       NEW a \in AncestorsOf(Loaded(file), i)
                PROVE  Satisfied(ById(Loaded(file), a))
    BY DEF ActiveTasksRestOnDoneTasks
  <2>1. Loaded(file) \in Seq(Task) /\ NoFindings(Loaded(file))
    BY LoadedTasks DEF IInv, VerdictInv, Reported, Passes
  <2>. QED  BY <2>1, ActiveAncestors
<1>. QED  BY <1>1, Inductive, PTL

\* A view rendered from a file nobody wrote meanwhile shows a registry that
\* passes.
THEOREM ViewsPass == Spec => []UndisturbedViewPasses
<1>1. IInv => UndisturbedViewPasses
  BY DEF IInv, VerdictInv, UndisturbedViewPasses, Reported, Passes
<1>. QED  BY <1>1, Inductive, PTL
------------------------------------------------------------------------------
(* There is always a way on *)

\* Making a pending entry ready keeps the ids and the dependencies, hence the
\* known tasks and the graph.
LEMMA MadeReadyEntries ==
  ASSUME NEW tasks \in Seq(Task), NEW i \in DOMAIN tasks
  PROVE  LET ready == MadeReady(tasks, i) IN
         /\ ready \in Seq(Task)
         /\ DOMAIN ready = DOMAIN tasks
         /\ \A j \in DOMAIN tasks : j # i => ready[j] = tasks[j]
         /\ ready[i].status = "ready"
         /\ \A j \in DOMAIN tasks :
              /\ ready[j].id = tasks[j].id
              /\ ready[j].dependencies = tasks[j].dependencies
              /\ ready[j].requested_by_role = tasks[j].requested_by_role
              /\ ready[j].requested_by_task = tasks[j].requested_by_task
              /\ ready[j].returns = tasks[j].returns
              /\ ready[j].return_role = tasks[j].return_role
              /\ ready[j].return_task = tasks[j].return_task
<1>. DEFINE t == tasks[i]
<1>1. t \in Task
  BY EntryType
<1>2. tasks = [j \in DOMAIN tasks |-> tasks[j]]
  BY LenProperties
<1>. DEFINE r == [t EXCEPT !.status = "ready"]
<1>3. MadeReady(tasks, i) = [tasks EXCEPT ![i] = r]
  BY DEF MadeReady
<1>4. /\ r \in Task
      /\ r.status = "ready"
      /\ r.id = t.id
      /\ r.dependencies = t.dependencies
      /\ r.requested_by_role = t.requested_by_role
      /\ r.requested_by_task = t.requested_by_task
      /\ r.returns = t.returns
      /\ r.return_role = t.return_role
      /\ r.return_task = t.return_task
  BY <1>1 DEF Task, Statuses
<1>. HIDE DEF r
<1>6. [tasks EXCEPT ![i] = r] \in Seq(Task)
  BY <1>4, EntryType, ExceptSeq
<1>5. /\ DOMAIN [tasks EXCEPT ![i] = r] = DOMAIN tasks
      /\ [tasks EXCEPT ![i] = r][i] = r
      /\ \A j \in DOMAIN tasks : j # i => [tasks EXCEPT ![i] = r][j] = tasks[j]
  BY <1>2
<1>. QED  BY <1>3, <1>4, <1>5, <1>6

\* The known tasks and where by_id finds them stay the same.
LEMMA MadeReadyLookup ==
  ASSUME NEW tasks \in Seq(Task), NEW i \in DOMAIN tasks,
         DuplicateFindings(tasks) = {}
  PROVE  LET ready == MadeReady(tasks, i) IN
         /\ DuplicateFindings(ready) = {}
         /\ Known(ready) = Known(tasks)
         /\ \A n \in Known(tasks) : \E k \in DOMAIN tasks :
              /\ tasks[k].id = n
              /\ ById(tasks, n) = tasks[k]
              /\ ById(ready, n) = ready[k]
<1>. DEFINE ready == MadeReady(tasks, i)
<1>0. DOMAIN tasks = 1 .. Len(tasks) /\ Len(tasks) \in Nat
  BY LenProperties
<1>1. /\ ready \in Seq(Task)
      /\ DOMAIN ready = DOMAIN tasks
      /\ \A j \in DOMAIN tasks : ready[j].id = tasks[j].id
  BY MadeReadyEntries
<1>. HIDE DEF ready
<1>2. DuplicateFindings(ready) = {}
  BY <1>0, <1>1 DEF DuplicateFindings
<1>3. Known(ready) = Known(tasks)
  BY <1>1 DEF Known
<1>4. ASSUME NEW n \in Known(tasks)
      PROVE  \E k \in DOMAIN tasks : /\ tasks[k].id = n
                                     /\ ById(tasks, n) = tasks[k]
                                     /\ ById(ready, n) = ready[k]
  <2>1. PICK k \in DOMAIN tasks : tasks[k].id = n /\ n # None
    BY <1>4 DEF Known
  <2>2. ById(tasks, n) = tasks[k]
    BY <2>1, OneEntry
  <2>3. ById(ready, n) = ready[k]
    BY <1>1, <1>2, <2>1, OneEntry
  <2>. QED  BY <2>1, <2>2, <2>3
<1>. QED  BY <1>2, <1>3, <1>4 DEF ready

\* A pending entry all of whose dependencies are satisfied may be made ready.
LEMMA MadeReadyPasses ==
  ASSUME NEW tasks \in Seq(Task), NoFindings(tasks), NEW i \in Pending(tasks),
         \A d \in tasks[i].dependencies : Satisfied(ById(tasks, d))
  PROVE  NoFindings(MadeReady(tasks, i))
<1>. DEFINE ready == MadeReady(tasks, i)
<1>0. i \in DOMAIN tasks /\ tasks[i].status = "pending"
  BY DEF Pending
<1>1. /\ ready \in Seq(Task)
      /\ DOMAIN ready = DOMAIN tasks
      /\ \A j \in DOMAIN tasks : j # i => ready[j] = tasks[j]
      /\ \A j \in DOMAIN tasks :
           /\ ready[j].id = tasks[j].id
           /\ ready[j].dependencies = tasks[j].dependencies
           /\ ready[j].requested_by_role = tasks[j].requested_by_role
           /\ ready[j].requested_by_task = tasks[j].requested_by_task
           /\ ready[j].returns = tasks[j].returns
           /\ ready[j].return_role = tasks[j].return_role
           /\ ready[j].return_task = tasks[j].return_task
  BY <1>0, MadeReadyEntries
<1>2. /\ DuplicateFindings(ready) = {}
      /\ Known(ready) = Known(tasks)
      /\ \A n \in Known(tasks) : \E k \in DOMAIN tasks :
           /\ tasks[k].id = n
           /\ ById(tasks, n) = tasks[k]
           /\ ById(ready, n) = ready[k]
  BY <1>0, MadeReadyLookup DEF NoFindings
<1>. HIDE DEF ready
<1>3. MissingDependencyFindings(ready) = MissingDependencyFindings(tasks)
  BY <1>1, <1>2 DEF MissingDependencyFindings
<1>4. GraphOf(ready) = GraphOf(tasks)
  <2>1. \A n \in Known(tasks) :
          ById(ready, n).dependencies = ById(tasks, n).dependencies
    BY <1>1, <1>2
  <2>. QED  BY <1>2, <2>1 DEF GraphOf
<1>5. StatusDependencyFindings(ready) = {}
  <2>. SUFFICES ASSUME NEW j \in DOMAIN tasks, NEW d \in Known(tasks),
                       ready[j].status \in DEPENDENCY_ACTIVE_STATUSES,
                       d \in tasks[j].dependencies,
                       ~Satisfied(ById(ready, d))
                PROVE  FALSE
    BY <1>1, <1>2 DEF StatusDependencyFindings
  <2>1. Satisfied(ById(tasks, d))
    <3>1. CASE j = i
      BY <3>1
    <3>2. CASE j # i
      BY <1>1, <3>2, ActiveDependencies
    <3>. QED  BY <3>1, <3>2
  <2>2. PICK k \in DOMAIN tasks :
          ById(tasks, d) = tasks[k] /\ ById(ready, d) = ready[k]
    BY <1>2
  <2>3. k # i
    BY <1>0, <2>1, <2>2 DEF Satisfied
  <2>. QED  BY <1>1, <2>1, <2>2, <2>3
<1>6. RequesterReturnFindings(ready) = RequesterReturnFindings(tasks)
  BY <1>1, <1>2 DEF RequesterReturnFindings
<1>7. CycleFound(ready) = CycleFound(tasks)
  BY <1>2, <1>4 DEF CycleFound
<1>. QED
  BY <1>2, <1>3, <1>5, <1>6, <1>7 DEF NoFindings, ready

\* If all other work is done, some pending entry has only satisfied
\* dependencies: the pending tasks are on no cycle, so one of them depends on
\* none of them.
LEMMA SomePendingIsFree ==
  ASSUME NEW tasks \in Seq(Task), NoFindings(tasks), Pending(tasks) # {},
         \A i \in (DOMAIN tasks) \ Pending(tasks) : Satisfied(tasks[i])
  PROVE  \E i \in Pending(tasks) :
           \A d \in tasks[i].dependencies : Satisfied(ById(tasks, d))
<1>. DEFINE T == {tasks[j].id : j \in Pending(tasks)} \ {None}
<1>0. Pending(tasks) \subseteq DOMAIN tasks /\ DuplicateFindings(tasks) = {}
  BY DEF Pending, NoFindings
<1>1. ASSUME NEW d \in Known(tasks), d \notin T
      PROVE  Satisfied(ById(tasks, d))
  <2>1. PICK k \in DOMAIN tasks : tasks[k].id = d /\ ById(tasks, d) = tasks[k]
    BY <1>0, KnownEntry
  <2>2. d # None
    BY DEF Known
  <2>3. k \notin Pending(tasks)
    BY <1>1, <2>1, <2>2
  <2>. QED  BY <2>1, <2>3
<1>2. CASE T = {}
  <2>1. PICK i \in Pending(tasks) : TRUE
    OBVIOUS
  <2>. QED  BY <1>0, <1>1, <1>2, <2>1, ActiveDependencies
<1>3. CASE T # {}
  <2>1. T \in SUBSET Known(tasks)
    BY <1>0 DEF Known
  <2>2. Acyclic(Known(tasks), GraphOf(tasks))
    BY DEF NoFindings, CycleFound
  <2>. HIDE DEF T
  <2>3. PICK n \in T : \A d \in T : <<n, d>> \notin GraphOf(tasks)
    BY <1>3, <2>1, <2>2 DEF Acyclic
  <2>4. PICK i \in Pending(tasks) : tasks[i].id = n /\ n # None
    BY <2>3 DEF T
  <2>5. ById(tasks, n) = tasks[i]
    BY <1>0, <2>4, OneEntry
  <2>6. ASSUME NEW d \in tasks[i].dependencies PROVE d \in Known(tasks) \ T
    <3>1. d \in Known(tasks)
      BY <1>0, <2>6, ActiveDependencies
    <3>2. <<n, d>> \in GraphOf(tasks)
      <4>. DEFINE e == <<n, d>>
      <4>1. e \in Known(tasks) \X Known(tasks) /\ e[1] = n /\ e[2] = d
        BY <2>1, <3>1
      <4>. QED  BY <2>5, <2>6, <4>1 DEF GraphOf
    <3>. QED  BY <2>3, <3>1, <3>2
  <2>. QED  BY <1>1, <2>6
<1>. QED  BY <1>2, <1>3

\* A passing registry whose work handed out is done, and that has pending
\* work, has a pending task that may be made ready.
THEOREM NeverWedged == Spec => []AlwaysAWayOn
<1>1. IInv => AlwaysAWayOn
  <2>. SUFFICES ASSUME IInv, Reported("passed"), Pending(Loaded(file)) # {},
                       \A i \in (DOMAIN Loaded(file)) \ Pending(Loaded(file)) :
                         Satisfied(Loaded(file)[i])
                PROVE  \E i \in Pending(Loaded(file)) :
                         NoFindings(MadeReady(Loaded(file), i))
    BY DEF AlwaysAWayOn
  <2>1. Loaded(file) \in Seq(Task) /\ NoFindings(Loaded(file))
    BY LoadedTasks DEF IInv, VerdictInv, Reported, Passes
  <2>. QED  BY <2>1, SomePendingIsFree, MadeReadyPasses
<1>. QED  BY <1>1, Inductive, PTL

------------------------------------------------------------------------------
\* In a passing registry every reference of an entry is a known id, and no
\* entry depends on itself or is requested by itself.
LEMMA ReferencesKnown ==
  ASSUME NEW tasks \in Seq(Task), NoFindings(tasks), NEW i \in DOMAIN tasks
  PROVE  /\ ReferencesOf(tasks[i]) \subseteq Known(tasks)
         /\ tasks[i].id \notin
              tasks[i].dependencies \cup ({tasks[i].requested_by_task} \ {None})
<1>. DEFINE t == tasks[i]
<1>1. i \notin RequesterReturnFindings(tasks) /\ DuplicateFindings(tasks) = {}
  BY DEF NoFindings
<1>2. t.dependencies \subseteq Known(tasks)
  BY ActiveDependencies
<1>3. /\ t.requested_by_task \in Known(tasks) \cup {None}
      /\ t.return_task \in Known(tasks) \cup {None}
      /\ t.requested_by_task = t.id => t.id = None
  BY <1>1 DEF RequesterReturnFindings
<1>4. ASSUME t.id \in t.dependencies PROVE FALSE
  <2>. DEFINE n == t.id
              e == <<n, n>>
  <2>1. n \in Known(tasks)
    BY <1>2, <1>4
  <2>2. ById(tasks, n) = t
    BY <1>1, <2>1, OneEntry DEF Known
  <2>3. e \in Known(tasks) \X Known(tasks) /\ e[1] = n /\ e[2] = n
    BY <2>1
  <2>4. e \in GraphOf(tasks)
    BY <1>4, <2>2, <2>3 DEF GraphOf
  <2>5. ~Acyclic(Known(tasks), GraphOf(tasks))
    <3>1. {n} \in SUBSET Known(tasks) /\ {n} # {}
      BY <2>1
    <3>2. \A m \in {n} : \E d \in {n} : <<m, d>> \in GraphOf(tasks)
      BY <2>4
    <3>. HIDE DEF n
    <3>. QED  BY <3>1, <3>2 DEF Acyclic
  <2>. QED  BY <2>5 DEF NoFindings, CycleFound
<1>. QED  BY <1>2, <1>3, <1>4 DEF ReferencesOf

\* Every reference in a passing registry names exactly one entry.
THEOREM ReferencesName == Spec => []ReferencesAreUnambiguous
<1>1. IInv => ReferencesAreUnambiguous
  <2>. SUFFICES ASSUME IInv, Reported("passed"),
                       NEW i \in DOMAIN Loaded(file)
                PROVE  LET tasks == Loaded(file) IN
                       /\ \A n \in ReferencesOf(tasks[i]) :
                            \E k \in DOMAIN tasks : \A j \in DOMAIN tasks :
                              tasks[j].id = n <=> j = k
                       /\ tasks[i].id \notin tasks[i].dependencies
                            \cup ({tasks[i].requested_by_task} \ {None})
    BY DEF ReferencesAreUnambiguous
  <2>. DEFINE tasks == Loaded(file)
  <2>1. tasks \in Seq(Task) /\ NoFindings(tasks)
    BY LoadedTasks DEF IInv, VerdictInv, Reported, Passes
  <2>. HIDE DEF tasks
  <2>2. ASSUME NEW n \in Known(tasks)
        PROVE  \E k \in DOMAIN tasks : \A j \in DOMAIN tasks :
                 tasks[j].id = n <=> j = k
    <3>1. PICK k \in DOMAIN tasks : tasks[k].id = n /\ n # None
      BY DEF Known
    <3>2. \A j \in DOMAIN tasks : tasks[j].id = n => j = k
      BY <2>1, <3>1, OneEntry DEF NoFindings
    <3>. QED  BY <3>1, <3>2
  <2>3. i \in DOMAIN tasks
    BY DEF tasks
  <2>. QED  BY <2>1, <2>2, <2>3, ReferencesKnown DEF tasks
<1>. QED  BY <1>1, Inductive, PTL
==============================================================================
