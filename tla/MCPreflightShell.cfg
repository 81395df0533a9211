\* One run, with one write by somebody else between any two checks.
CONSTANTS
  product = product
  agents = agents
  tz = tz
  key = key
  ours = ours
  theirs = theirs
  main = main
  NONE = NONE
  Paths <- MCPaths
  Kind <- MCKind
  Sensitive = {key}
  Packets <- MCPackets
  States <- MCStates
  Gits <- MCGits
  Trees <- MCTrees
  Options <- MCOptions
  MaxWrites = 1
SPECIFICATION Spec
CHECK_DEADLOCK FALSE
INVARIANTS
  TypeOK
  PassedFilesAreInBounds
  EligibleReceiptMatchesState
  SavedVerdictIsTheResult
  PassedPacketCouldBeDispatched
