SPECIFICATION FairSpec
CONSTANTS
  j1 = j1
  j2 = j2
  f1 = f1
  kb1 = kb1
  Nobody = Nobody
  Jobs <- MCJobs2
  Files <- MCFiles
  KnowledgeBases <- MCKnowledgeBases
  home <- MCHome
  Kinds = {"FILE_PROCESS", "KB_REBUILD", "KB_CLEANUP_RETIRED", "RAG_EVALUATION", "BACKUP"}
  MaxFaults = 2
  Overlap = FALSE
CHECK_DEADLOCK FALSE
INVARIANT NoConflictingJobs
INVARIANT NoStrandedResource
INVARIANT CancelledHasNoEffect
PROPERTY EveryJobEnds
