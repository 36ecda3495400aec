SPECIFICATION Spec
CONSTANTS
  MaxLines = 3
  MaxFaults = 2
  i1 = i1
  i2 = i2
  i3 = i3
  Inodes <- MCInodes
  NoFile = NoFile
  MultiByte <- MCMultiByte
  Starts <- MCFromEnd
  Faults <- MCMidLine
INVARIANT
  NoHalfLine
CHECK_DEADLOCK FALSE
