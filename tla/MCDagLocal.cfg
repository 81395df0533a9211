\* A task and its dependency, checkpointed locally or with a push.
CONSTANTS
  a = a
  b = b
  c = c
  Ids = {a, b, c}
  None = None
  Entries <- MCEntries
  MaxTasks = 2
SPECIFICATION Spec
INVARIANTS
  LocalCheckpointUnblocks
CHECK_DEADLOCK FALSE
