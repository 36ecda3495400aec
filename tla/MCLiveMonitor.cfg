SPECIFICATION Spec
CONSTANTS
  auth = auth
  web = web
  ip1 = ip1
  Tails <- MCTails
  Carries <- MCCarries
  ZoneChoices <- MCNaiveOrMixed
  UndatedLogs <- MCUndated
  Ips <- MCIps
  None = None
  MaxTime = 5
  MaxEvents = 4
  Threshold = 2
  Timeframe = 2
  Timespan = 2
  BehavioralSpan = 1
  DedupWindow = 2
  MaxBuffer = 3
  Suppressed <- MCNoneSuppressed
INVARIANTS
  TypeOK
  SpacedRepeats
  SurvivesOneClock
  LiveMatchesReplay
  NoBlindSpot
CHECK_DEADLOCK FALSE
