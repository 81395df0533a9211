\* Every registry of up to three tasks, written entry by entry.
CONSTANTS
  a = a
  b = b
  c = c
  Ids = {a, b, c}
  None = None
  Entries <- MCAllEntries
  MaxTasks = 3
SPECIFICATION Spec
SYMMETRY MCSymmetry
INVARIANTS
  TypeOK
  ActiveTasksRestOnDoneTasks
  AlwaysAWayOn
  UndisturbedViewPasses
  ReferencesAreUnambiguous
CHECK_DEADLOCK FALSE
