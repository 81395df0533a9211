\* Two runs, killed anywhere; one change of the repository.
CONSTANTS
  ours = ours
  theirs = theirs
  main = main
  NONE = NONE
  Runs = {r1, r2}
  Repos = {ours, theirs}
  Branches = {main}
  Options <- MCOptions
  SourceGit = TRUE
  MaxChanges = 1
SPECIFICATION Spec
CHECK_DEADLOCK FALSE
INVARIANTS
  TypeOK
  LockVouchesForWorkspace
  RefusalsLeaveNothing
  AcceptedLockMatchesRepository
  SomeRunSucceeds
