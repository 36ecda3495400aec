SPECIFICATION Spec
CONSTANTS
  r1 = r1
  r2 = r2
  s1 = s1
  s2 = s2
  p1 = p1
  Runs <- MCRuns
  Watch = Watch
  Job <- MCJob
  Scenarios <- MCScenarios
  Source <- MCSource
  Lines <- MCLines
  Patterns <- MCPatterns
  Severe <- MCSevere
  MaxOccurred = 2
  Enough = 2
  Buffer = 2
  MaxCrashes = 1
INVARIANTS
  TypeOK
  RunsAsAlone
  CrashCostsOneMore
  NotifiedIsStored
PROPERTY
  EventuallyStored
CHECK_DEADLOCK FALSE
