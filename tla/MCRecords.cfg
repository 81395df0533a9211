\* One of the commands at work on the records of two tasks and two agents, or on a
\* package, one of the records or one thing in the package written while it is.
CONSTANTS
  task1 = task1
  task2 = task2
  agent1 = agent1
  agent2 = agent2
  result1 = result1
  audit1 = audit1
  misnamed1 = misnamed1
  packet1 = packet1
  NONE = NONE
  Missing = Missing
  Unreadable = Unreadable
  Versions <- MCVersions
  ResultFiles <- MCResultFiles
  AuditFiles = {audit1}
  Misnamed = {misnamed1}
  Documents <- MCDocuments
  Drafts <- MCDrafts
  Cuts <- MCCuts
  PacketVersions <- MCPacketVersions
  Events <- MCEvents
  Trees <- MCTrees
  Archives <- MCArchives
  LintWorlds <- MCLintWorlds
  ArchiveWorlds <- MCArchiveWorlds
  RecordWorlds <- MCRecordWorlds
  PackageWorlds <- MCPackageWorlds
  PartVersions <- MCPartVersions
  TrackedFiles <- MCTrackedFiles
  Indexes <- MCIndexes
  Garbled = Garbled
  MaxWrites = 1
SPECIFICATION Spec
CHECK_DEADLOCK FALSE
INVARIANTS
  TypeOK
  PassedLintHolds
  StrictProposalsStand
  NoAcceptedArtifactIsLost
  PassedPackageHolds
