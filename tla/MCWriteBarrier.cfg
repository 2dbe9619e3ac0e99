SPECIFICATION FairSpec
CONSTANTS
  t1 = t1
  t2 = t2
  t3 = t3
  Threads <- MCThreads
  Operations <- MCOperations
  Plan <- MCPlan
PROPERTY BackupIsServed
PROPERTY ImplementsExclusion
