SPECIFICATION FairSpec
CONSTANTS
  r1 = r1
  r2 = r2
  r3 = r3
  a1 = a1
  a2 = a2
  None = None
  Requests <- MCRequests
  Answers <- MCAnswers
  MaxRestarts = 1
INVARIANT OneAnswerAtATime
INVARIANT StopIsExact
INVARIANT StreamingIsExplained
PROPERTY SessionIsFreed
