SPECIFICATION Calls
CONSTANTS
  Time <- MCTime
  Undated = Undated
  MaxEvents = 4
  Aggs <- MCAggs
  k1 = k1
  k2 = k2
  Keys <- MCKeys
  Stamps <- MCStamps
  None = None
  MaxAlerts = 4
  Window = 2
  RuleIds <- MCRules
  FiringTimes <- MCFiringTimes
  Absent = Absent
  Group = Group
  Firings <- MCFirings
  MaxFirings = 4
  Correlations <- MCCorrelations
INVARIANTS
  SweepTypeOK
  FiresIffCrossing
  EvidenceIsFirstWindow
  KeptExactly
  BurstsSummed
  ChainTypeOK
  OrderedFires
  UnorderedFires
  EarliestChain
PROPERTY
  Terminates
CHECK_DEADLOCK FALSE
