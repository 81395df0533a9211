\* Nothing wrong with the files, and nobody writes them.
CONSTANTS
  a = a
  b = b
  Ids = {a, b}
  None = None
  Absent = Absent
  Versions <- MCDivergentVersions
  MaxWrites = 0
SPECIFICATION Spec
INVARIANTS
  NoCheckpointUnlessEligible
