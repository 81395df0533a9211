\* Every graph on three tasks, dependencies mentioned up to twice, with
\* room on the stack for every search and with two frames only.
CONSTANTS
  Nodes <- MCThree
  MaxMentions = 2
  FrameLimits <- MCFrames
SPECIFICATION FairSpec
INVARIANTS
  TypeOK
  ReportsAreTrue
  ReportsCoverAllCycles
PROPERTIES
  StepsAdvance
  Termination
  ImplementsVerdict
CHECK_DEADLOCK FALSE
