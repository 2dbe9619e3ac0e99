CONSTANTS
  boot = boot
  ann = ann
  a = a
  b = b
  r1 = r1
  r2 = r2
  Users = {boot, ann}
  Bootstrap = boot
  Names = {a, b}
  Identities <- MCIdentities
  Wishes <- MCWishes
  Placeholder = a
  Requests = {r1, r2}
  Environment <- MCEnvironment
  Payloads <- MCPayloads
  MaxEvents = 3
  Nothing = Nothing
SYMMETRY MCSymmetry
CONSTRAINT MCBound
SPECIFICATION Spec
INVARIANT AdminRemains
INVARIANT TrailExplainsAccounts
INVARIANT NamesLeadToTheirUser
INVARIANT MemoryFollowsRow
