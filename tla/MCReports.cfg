\* One dashboard at a time on up to three tasks, one of the files written while it is
\* made; and incident fixtures of nine incidents.
CONSTANTS
  a = a
  b = b
  c = c
  Ids = {a, b, c}
  None = None
  Absent = Absent
  NONE = NONE
  Versions <- MCVersions
  Incidents <- MCIncidents
  Outputs = {"dashboard", "proposals", "reports", "tmp", "runtime"}
  InTmp = TRUE
  MaxWrites = 1
SPECIFICATION Spec
INVARIANTS
  TypeOK
  ReadyDashboardIsExecutable
  
  ExitCodesAreTrue
