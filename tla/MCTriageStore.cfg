SPECIFICATION Spec
CONSTANTS
  u1 = u1
  u2 = u2
  r1 = r1
  r2 = r2
  Uids <- MCUids
  Requests <- MCRequests
  Asked <- MCAsked
  None = None
  MaxRecords = 2
  MaxTime = 1
  MaxRequests = 3
SYMMETRY Symmetry
INVARIANTS
  TypeOK
  SyncComplete
  LatestWins
PROPERTY
  KeepsBoard
CHECK_DEADLOCK FALSE
