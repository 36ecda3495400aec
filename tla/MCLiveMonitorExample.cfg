SPECIFICATION Spec
CONSTANTS
  auth = auth
  web = web
  ip1 = ip1
  Tails <- MCTails
  Carries <- MCCarries
  ZoneChoices <- MCMixed
  UndatedLogs <- MCAllDated
  Ips <- MCIps
  None = None
  MaxTime = 6
  MaxEvents = 3
  Threshold = 2
  Timeframe = 2
  Timespan = 2
  BehavioralSpan = 1
  DedupWindow = 2
  MaxBuffer = 3
  Suppressed <- MCNoneSuppressed
INVARIANT
  RunsContinuously
CHECK_DEADLOCK FALSE
