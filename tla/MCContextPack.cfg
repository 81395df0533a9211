\* One build and its validation, or a validation alone, with one change of a
\* document or of links between any two steps; the workspace is under /tmp.
CONSTANTS
  brief = brief
  folder = folder
  old = old
  dotted = dotted
  NONE = NONE
  Paths <- MCPaths
  Lexical <- MCLexical
  Under <- MCUnder
  Defaults = {old}
  Nodes <- MCNodes
  Trees <- MCTrees
  Packets <- MCPackets
  Packs <- MCPacks
  Links <- MCLinks
  Outputs <- MCOutputs
  InTmp = TRUE
  MaxWrites = 1
SPECIFICATION Spec
CHECK_DEADLOCK FALSE
INVARIANTS
  TypeOK
  BuiltPacksAreAccepted
  StrictPassIsUsable
  PacksLandInTheirPlace
