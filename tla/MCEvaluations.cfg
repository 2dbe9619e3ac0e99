CONSTANTS
  r1 = r1
  r2 = r2
  r3 = r3
  q1 = q1
  q2 = q2
  c1 = c1
  c2 = c2
  Runs = {r1, r2}
  Requests = {q1, q2}
  Contents = {c1, c2}
  Plain = plain
  Modes = {"retrieval", "rag"}
  Cases = 2
  Extras <- MCExtras
  MaxFaults = 1
  Nothing = nothing
SYMMETRY MCSymmetry
SPECIFICATION Spec
CHECK_DEADLOCK FALSE
INVARIANT RegistrationsAreTrue
INVARIANT BudgetIsRespected
INVARIANT ReportIsLostOnlyToARetry
