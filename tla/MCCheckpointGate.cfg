\* Six files in several states each, one of them written during a command.
CONSTANTS
  a = a
  b = b
  Ids = {a, b}
  None = None
  Absent = Absent
  Versions <- MCVersions
  MaxWrites = 1
SPECIFICATION Spec
INVARIANTS
  TypeOK
  StandingIncidentFreezes
  VerdictsConcernKnownTasks
  CheckpointsRestOnTheTasksAudit
  PreflightAgreesWithPlan
PROPERTIES
  ImplementsJudgement
