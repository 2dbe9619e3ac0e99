SPECIFICATION Spec
CONSTANTS
  Runs = {r1, r2}
  Settings = {s1, s2}
  Chunks = {c1, c2}
  Nobody = Nobody
  Rebuild = Rebuild
  MaxFaults = 3
SYMMETRY Symmetry
INVARIANT ReadyIsComplete
INVARIANT AllOrNothing
INVARIANT NothingLeftBehind
PROPERTY PinnedIsStable
