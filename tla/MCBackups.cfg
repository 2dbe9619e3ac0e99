SPECIFICATION Spec
CONSTANTS
  d1 = d1
  None = None
  Documents <- MCDocuments
  MaxSaves = 2
  MaxFaults = 1
INVARIANT ArchivesAreWhole
INVARIANT NoWriteIsLost
PROPERTY CutoverIsBackedUp
CHECK_DEADLOCK FALSE
