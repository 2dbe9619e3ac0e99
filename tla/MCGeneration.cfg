SPECIFICATION GenerationSpec
CONSTANTS
  Cases <- MCCases
  Deltas <- MCDeltas
  Overhead = 3
  MaxDeltas = 3
  MaxAttempts = 2
CHECK_DEADLOCK FALSE
INVARIANT ShownIsTheAnswer
INVARIANT CitationsAreValid
INVARIANT ContextFits
