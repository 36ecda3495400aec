SPECIFICATION Spec
CONSTANTS
  MaxLines = 3
  MaxFaults = 2
  i1 = i1
  i2 = i2
  i3 = i3
  Inodes <- MCInodes
  NoFile = NoFile
  MultiByte <- MCMultiByte
  Starts <- MCStarts
  Faults <- AllFaults
INVARIANTS
  TypeOK
  WholeLines
  InOrderOnce
  NoneSkipped
  DiesOnlyMidCall
CHECK_DEADLOCK FALSE
PROPERTY
  EventuallyHanded
