SPECIFICATION Spec
CONSTANTS
  None = None
  Bad = Bad
  Globs <- MCGlobs
  Matching <- MCMatching
  Prefixed <- MCPrefixed
  Modifiers <- MCModifiers
  FieldMap <- MCFieldMap
  CategoryMap <- MCCategoryMap
  DefaultWindow = 2
  Addresses <- MCAddresses
  Private <- MCPrivate
  TravelId = 70
  TravelSpan = 2
  SeverityScores <- MCScores
  RiskObjects <- MCRiskObjects
  IpValues <- MCAddresses
  NotableId = 80
  Now = 40
  Inputs <- Replays
INVARIANTS
  CombinedFilesDeduplicate
CHECK_DEADLOCK FALSE
