------------------------------ MODULE MCRecords ------------------------------
(* Instances of Records for TLC. *)
EXTENDS Records

CONSTANTS task1, task2, agent1, agent2, result1, audit1, misnamed1, packet1

Ref(x) == <<"src", x>>

State(checkpoint, project, receipt, push, commit, marks) ==
  [checkpoint |-> checkpoint, project |-> project, receipt |-> receipt,
   push |-> push, commit |-> commit, marks |-> marks]

Gate(status, task) == [status |-> status, task |-> task, marks |-> {}]

Action(type, task, policy, receipt) ==
  [type |-> type, task |-> task, policy |-> policy, receipt |-> receipt, marks |-> {}]

Entry(task, status, refs, commit, marks) ==
  [task |-> task, status |-> status, results |-> refs, commit |-> commit, marks |-> marks]

Registry(entries) == [entries |-> entries, marks |-> {}]

Artifact(ref, commit, marks) ==
  [status |-> "accepted", ref |-> ref, commit |-> commit, marks |-> marks]

Pushing(push) == [push |-> push, marks |-> {}]

Running == Entry(task1, "running", {}, NONE, {})
Done    == Entry(task2, "checkpoint_done", {result1}, "c1", {"audits", "checkpoint"})
Audited == Entry(task2, "completed", {result1}, NONE, {"audits", "covered", "reason"})
Waived  == Entry(task2, "completed", {result1}, NONE, {"waived", "reason"})

Open == State("open", "active", NONE, "true", NONE, {})

Base == [
  PROJECT_STATE      |-> Open,
  CURRENT_GATE       |-> Gate("running", task1),
  NEXT_ACTION        |-> Action("create_agent", task1, "no_checkpoint", NONE),
  TASK_REGISTRY      |-> Registry(<<Running, Done>>),
  ACCEPTED_ARTIFACTS |-> Registry(<<Artifact(Ref("x"), "c1", {})>>),
  REPOSITORY_LOCK    |-> Pushing("true"),
  WORKSPACE_IDENTITY |-> Pushing(NONE)]

MCVersions == [
  PROJECT_STATE |->
    {Open, State("passed", "active", "c1", "true", "c1", {}),
     State("open", "active", NONE, "null", NONE, {}),
     State("open", "completed", NONE, "null", NONE, {"other_version"})},
  CURRENT_GATE |-> {Gate("running", task1), Gate("closed", NONE), Gate(NONE, task2)},
  NEXT_ACTION |->
    {Base["NEXT_ACTION"], Action("checkpoint", task1, "local_only", "c1"),
     Action("create_agent", task2, "no_checkpoint", NONE),
     Action("finalize", NONE, "no_checkpoint", NONE)},
  TASK_REGISTRY |->
    {Registry(<<Running, Done>>), Registry(<<Running, Audited>>), Registry(<<Waived>>)},
  ACCEPTED_ARTIFACTS |->
    {Registry(<<Artifact(Ref("x"), "c1", {})>>),
     Registry(<<Artifact(Ref("x"), NONE, {}), Artifact(Ref("y"), NONE, {"archived", "reason"})>>)},
  REPOSITORY_LOCK    |-> {Pushing("true"), Pushing("false")},
  WORKSPACE_IDENTITY |-> {Pushing(NONE), [push |-> "true", marks |-> {"conflict"}]}]

Doc(task, agent, role, refs) ==
  [STATUS |-> "pass", TASK_ID |-> task, AGENT_INSTANCE_ID |-> agent, ROLE |-> role,
   SUMMARY |-> "text", EVIDENCE |-> refs, NEXT_RECOMMENDED_ACTION |-> "next",
   REUSE_ALLOWED |-> "false", AGENT_TERMINATION_REQUIRED |-> "true",
   form |-> "line", marks |-> {}]

Work  == Doc(task1, agent1, "developer", {})
Audit == Doc(task1, agent2, "auditor", {result1})

MCResultFiles == <<audit1, result1, misnamed1>>

MCCuts == {0, 4, 8, 9}

MCDrafts == {Work, Doc(task2, agent1, "developer", {})}

MCDocuments == MCDrafts \cup {Audit} \cup
  {[Work EXCEPT !.marks = {"historical"}, !.TASK_ID = NONE],
   [Work EXCEPT !.NEXT_RECOMMENDED_ACTION = "bypass"],
   [Work EXCEPT !.STATUS = "gap", !.form = "lines"],
   [Work EXCEPT !.STATUS = "fail", !.marks = {"audit_heading"}],
   [Work EXCEPT !.SUMMARY = Missing, !.REUSE_ALLOWED = "true"],
   [Audit EXCEPT !.EVIDENCE = {}],
   [Audit EXCEPT !.ROLE = "developer"],
   [Audit EXCEPT !.STATUS = "blocked"],
   [Audit EXCEPT !.ROLE = "nobody", !.marks = {"no_heading"}]}

Line(agent, event, task, reuse) ==
  [agent |-> agent, event |-> event, task |-> task, reuse_allowed |-> reuse]

MCEvents ==
  {Line(agent1, "agent_result_received", task1, "false"), Line(agent1, "agent_instance_terminated", task1, "false"),
   Line(agent2, "agent_instance_terminated", task2, "false"), Line(agent2, "agent_result_received", task1, "true")}

Packet(level, floors, kind, role, marks) ==
  [task |-> task1, level |-> level, floors |-> floors, gate |-> NONE, kind |-> kind,
   role |-> role, marks |-> marks]

MCPacketVersions ==
  [x \in {packet1} |->
     {Packet("high", {}, "setup", "developer", {}), Packet("high", {"medium", "xhigh"}, "task", "designer", {}),
      Packet("low", {}, "audit", "auditor", {}), Packet("deprecated", {}, "task", "developer", {"skeleton_product"})}]

Code == {Ref("x"), Ref("y"), <<"src">>}

MCTrees == {Code, {Ref("x")}, Code \cup {<<"project-input">>}}

Whole(d) == [doc |-> d, upto |-> Len(Template)]

ResultsOf(d, e) == [x \in {result1, audit1, misnamed1} |-> IF x = result1 THEN d ELSE IF x = audit1 THEN e ELSE Missing]

W(fs, rs, es, t) ==
  [files |-> fs, results |-> rs, events |-> es, tree |-> t,
   packets |-> [x \in {packet1} |-> Packet("high", {}, "setup", "developer", {})]]

AllEnded == {e \in MCEvents : e.event = "agent_instance_terminated"}

\* States of the runtime files, and states of the RESULTs and events.
MCLintWorlds ==
  {W([Base EXCEPT !.PROJECT_STATE = ps, !.NEXT_ACTION = na, !.TASK_REGISTRY = tr],
     ResultsOf(Whole(Work), Missing), AllEnded, Code) :
     ps \in MCVersions["PROJECT_STATE"], na \in MCVersions["NEXT_ACTION"],
     tr \in MCVersions["TASK_REGISTRY"]} \cup
  {W([Base EXCEPT !.PROJECT_STATE = ps, !.CURRENT_GATE = cg], ResultsOf(Missing, Missing), {}, Code) :
     ps \in MCVersions["PROJECT_STATE"], cg \in MCVersions["CURRENT_GATE"]} \cup
  {W(Base, ResultsOf(x, y), es, Code) :
     x \in {Missing, Whole(Work), [doc |-> Work, upto |-> 4]},
     y \in {Missing, Whole(Audit)},
     es \in {AllEnded, MCEvents}} \cup
  {W(Base, [ResultsOf(Missing, Missing) EXCEPT ![misnamed1] = Whole(Work)], AllEnded, Code),
   W(Base, ResultsOf(Unreadable, Missing), AllEnded, Code),
   W(Base, ResultsOf(Whole(Work), Missing), {}, Code),
   W(Base, ResultsOf(Whole(Work), Missing), Unreadable, Code)}

MCRecordWorlds ==
  {W(Base, ResultsOf(x, Missing), {}, Code) : x \in {Missing, Unreadable}} \cup
  {W(Base, ResultsOf([doc |-> d, upto |-> k], Missing), {}, Code) : d \in MCDocuments, k \in MCCuts} \cup
  {W(Base, ResultsOf(Missing, [doc |-> d, upto |-> k]), {}, Code) : d \in MCDocuments, k \in MCCuts}

MCArchiveWorlds ==
  {W([Base EXCEPT !.ACCEPTED_ARTIFACTS = x, !.PROJECT_STATE = ps], ResultsOf(Missing, Missing), {}, t) :
     x \in MCVersions["ACCEPTED_ARTIFACTS"] \cup {Missing},
     ps \in MCVersions["PROJECT_STATE"] \cup {Missing}, t \in MCTrees}

Left(path, reason) == [path |-> path, reason |-> reason]

Json(commit, excluded) == [commit |-> commit, excluded |-> excluded]

Members(manifest, paths) ==
  [m \in {<<"manifest.json">>, <<"project-runtime", "log">>, <<"project-docs", "log">>} \cup paths |->
     IF m = <<"manifest.json">> THEN manifest
     ELSE IF m = RuntimeCopies["ACCEPTED_ARTIFACTS"] THEN Base["ACCEPTED_ARTIFACTS"]
     ELSE "data"]

Wrapped(members) == [m \in {<<"w">> \o n : n \in DOMAIN members} |-> members[Tail(m)]]

Zipped(members) == [kind |-> "zip", members |-> members]

MCArchives ==
  {Zipped(Members(Json("c1", << >>), {Ref("x"), <<".", "src", "y">>})),
   Zipped(Members(Json("c2", << >>), {Ref("x"), <<"project-input", "z">>})),
   Zipped(Members(Json(NONE, <<Left(Ref("y"), "large")>>), {Ref("x"), RuntimeCopies["ACCEPTED_ARTIFACTS"]})),
   Zipped(Members(Json("c1", <<Left(<<"src">>, "large"), Left(<<"src">>, NONE)>>), {<<"..", "src", "x">>})),
   Zipped(Members(Json("c1", <<Left(<<"src">>, "large")>>), {})),
   Zipped(Members(Unreadable, {Ref("x"), Ref("y")})),
   Zipped(Wrapped(Members(Json("c1", << >>), {Ref("x"), Ref("y")}))),
   [kind |-> "unsupported", members |-> << >>]}

------------------------------------------------------------------------------
(* The package. *)

\* Every mark that a part is looked through for.
Full(p) ==
  CASE p = "PACKAGE_VERSIONING.md" -> [marks |-> {"tuple"}, version |-> "v1"]
    [] p = "pyproject.toml" -> [marks |-> PyprojectMarks \cup {"markers"}, version |-> "v1"]
    [] p = "__init__.py" -> [marks |-> {}, version |-> NONE]
    [] p = ".gitignore" -> [marks |-> {}, ignored |-> GeneratedRoots, literal |-> {}, reopened |-> {}]
    [] OTHER -> [marks |-> {"delegates", "runs", "trigger", "terms", "doctor", "tests", "targets"}]

\* Other contents of some of them.
Flawed == [p \in Parts |->
  CASE p = "PACKAGE_VERSIONING.md" -> {[marks |-> {}, version |-> NONE]}
    [] p = "pyproject.toml" -> {[Full(p) EXCEPT !.version = "v2"], [Full(p) EXCEPT !.marks = {"toml"}]}
    [] p = "__init__.py" -> {[Full(p) EXCEPT !.version = "v2"]}
    [] p = ".gitignore" -> {[Full(p) EXCEPT !.ignored = {"project-runtime"}],
                            [Full(p) EXCEPT !.ignored = {"project-runtime"},
                                            !.literal = {"project-input", "project-archive"}],
                            [Full(p) EXCEPT !.reopened = {"project-input"}]}
    [] p = "README.md" -> {[marks |-> {"terms", "denies"}]}
    [] p \in {"aso.py", "Makefile"} -> {[marks |-> {}]}
    [] OTHER -> {}]

MCPartVersions == [p \in Parts |-> {Full(p)} \cup Flawed[p]]

TrackedFile(root, name, cache) == [root |-> root, name |-> name, cache |-> cache]

Runtime == TrackedFile("project-runtime", "plain", "no")
Input   == TrackedFile("project-input", "plain", "no")

MCTrackedFiles ==
  {Runtime, Input, TrackedFile("project-archive", "quoted", "no"),
   TrackedFile("project-input", "itself", "no"), TrackedFile("src", "plain", "ending"),
   TrackedFile("agent_system_orchestrator_aso", "plain", "no")}

MCIndexes == {{}, {Runtime}}

Sound == [p \in Parts |-> IF p = "agent_system_orchestrator_aso" THEN Missing ELSE Full(p)]

P(ps, repo, index) ==
  [parts |-> ps, repository |-> repo, tracked |-> index] @@ W(Base, ResultsOf(Missing, Missing), {}, Code)

MCPackageWorlds ==
  {P(Sound, "worktree", index) : index \in {{}, {Runtime}, {Input}}} \cup
  {P(Sound, repo, {}) : repo \in {"outside", "corrupt"}} \cup
  {P([Sound EXCEPT ![p] = Missing], "worktree", {}) : p \in {".", "agent-system/tools/aso"}} \cup
  {P([Sound EXCEPT ![".gitignore"] = c], "worktree", {}) : c \in Flawed[".gitignore"]} \cup
  {P([Sound EXCEPT !["__init__.py"] = c], "worktree", {}) : c \in Flawed["__init__.py"]}
==============================================================================
