CONSTANTS
  t1 = t1
  t2 = t2
  Threads = {t1, t2}
  Logins <- MCLogins
  Registrations <- MCRegistrations
  Bootstraps = {}
  Rules <- MCRules
  BackoffBase = 2
  BackoffMax = 3
  TTL = 2
  MaxKeys = 3
  MaxTime = 3
  Anybody = "*"
SYMMETRY MCSymmetry
SPECIFICATION LimiterSpec
INVARIANT BlocksAreKept
INVARIANT CountsAreExact
