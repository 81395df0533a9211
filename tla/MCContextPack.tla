--------------------------- MODULE MCContextPack ---------------------------
(* An instance of ContextPack for TLC. *)
EXTENDS ContextPack

CONSTANTS brief, folder, old, dotted

MCPaths == {brief, folder, old, dotted}

Plain == [whole |-> FALSE, archived |-> FALSE, unsafe |-> FALSE,
          broad |-> FALSE, slash |-> FALSE]

MCLexical ==
  [p \in MCPaths |->
     CASE p = brief -> Plain
       [] p = folder -> [Plain EXCEPT !.slash = TRUE]
       [] p = old -> [Plain EXCEPT !.archived = TRUE]
       [] p = dotted -> [Plain EXCEPT !.unsafe = TRUE, !.broad = TRUE]]

\* brief lies in folder; dotted is another name of folder.
MCUnder == [p \in MCPaths |-> IF p = folder THEN {folder, brief} ELSE {p}]

File(v) == [Missing EXCEPT !.kind = "file", !.version = v]
Directory == [Missing EXCEPT !.kind = "dir", !.version = 1]

MCNodes ==
  {Missing, File(1), File(2), Directory,
   [Directory EXCEPT !.size = "many_files"], [Directory EXCEPT !.leaks = TRUE],
   [Missing EXCEPT !.kind = "outside", !.version = 1]}

Usual == [p \in MCPaths |-> IF p \in {folder, dotted} THEN Directory ELSE File(1)]

MCTrees ==
  {Usual, [Usual EXCEPT ![brief] = Missing],
   [Usual EXCEPT ![folder].size = "many_files"]}

Packet(required, forbidden, source) ==
  [readable |-> TRUE, task_id |-> TRUE, required |-> required,
   forbidden |-> forbidden, source |-> source]

MCPackets ==
  {Packet(<<brief, folder>>, {}, {brief}),
   Packet(<<folder, folder, brief>>, {dotted}, {}),
   Packet(<<brief>>, {}, {folder, old}),
   Packet(<<brief, old>>, {folder}, {}),
   Packet(<<dotted>>, {}, {}),
   [Packet(<<>>, {}, {}) EXCEPT !.readable = FALSE]}

Doc(p, slash) == [path |-> p, slash |-> slash, sha256 |-> 1, estimated_chars |-> 1]
Named(p, slash) == [path |-> p, slash |-> slash]

MCPacks ==
  {[by |-> "hand", fields |-> TRUE, fits |-> TRUE, docs |-> <<Doc(brief, FALSE)>>,
    forbidden |-> {old}, source |-> {Named(brief, FALSE)}],
   [by |-> "hand", fields |-> TRUE, fits |-> TRUE, docs |-> <<Doc(folder, TRUE)>>,
    forbidden |-> {}, source |-> {Named(brief, FALSE), Named(folder, TRUE)}],
   [by |-> "hand", fields |-> TRUE, fits |-> FALSE, docs |-> <<Doc(dotted, FALSE), Doc(old, FALSE)>>,
    forbidden |-> {folder, dotted}, source |-> {}]}

Straight == [l \in Locations |-> l]

MCLinks ==
  {Straight, [Straight EXCEPT !["tmp"] = "runtime"],
   [Straight EXCEPT !["proposals"] = "project-input"],
   [Straight EXCEPT !["elsewhere"] = "agent-system"]}

MCOutputs == {NONE, "proposals", "tmp", "runtime", "elsewhere", "reports"}
=============================================================================
