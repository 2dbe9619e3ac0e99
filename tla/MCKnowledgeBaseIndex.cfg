SPECIFICATION Spec
CONSTANTS
  Names = {n1, n2, n3, n4, n5}
  None = None
  MaxFaults = 2
SYMMETRY Symmetry
INVARIANT ActiveIsComplete
INVARIANT NoOrphans
INVARIANT PinsAreRespected
INVARIANT LifecyclesAgree
