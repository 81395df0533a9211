\* A sidecar may be missing beside its view, and nobody writes them.
CONSTANTS
  a = a
  b = b
  Ids = {a, b}
  None = None
  Absent = Absent
  Versions <- MCFallbackVersions
  MaxWrites = 0
SPECIFICATION Spec
INVARIANTS
  StrictPlansRefuseWarnings
