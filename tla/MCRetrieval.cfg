SPECIFICATION RetrievalSpec
CONSTANTS
  Urls <- MCUrls
  Domain <- MCDomain
  Allowed = {1, 2, 3}
  LowQuality = {}
  Trusted = {"e"}
  Questions <- MCQuestions
  Texts <- MCTexts
  Safe <- MCSafe
  Nothing = Nothing
  HitLists <- MCHitLists
  Cached <- MCCached
  Caching = TRUE
  Results <- MCResults
  TopK = 2
  MinEvidence = 2
  Threshold = 1
  DefaultMode = "knowledge_first"
  MaxPages = 2
  MaxPerDomain = 1
  MaxRedirects = 1
  Workers = 1
CHECK_DEADLOCK FALSE
INVARIANT NothingLeavesWithoutLeave
INVARIANT AuditIsTrue
INVARIANT EvidenceIsDistinctAndClean
INVARIANT SessionIsSharedOnlyWhenLate
PROPERTY HybridEnds
