SPECIFICATION Spec
CONSTANTS
  u1 = u1
  u2 = u2
  r1 = r1
  r2 = r2
  Uids <- MCUids
  Requests <- MCRequests
  Asked <- MCClosing
  None = None
  MaxRecords = 2
  MaxTime = 2
  MaxRequests = 3
SYMMETRY Symmetry
INVARIANT
  UpdatedWhenClosed
CHECK_DEADLOCK FALSE
