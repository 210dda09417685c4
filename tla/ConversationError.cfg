SPECIFICATION MCSpec
CONSTANTS
  Null = Null
  Absent = Absent
  Said <- MCSaid
  MaxMessages = 3
  MaxReplies = 1
  MaxBlocks = 2
  MaxParts = 2
  Counts = {3}
  MaxTokens = {0, 2}
  PartSize = 3
  Whole = 2
  Outcomes <- MCOutcomes
  Steps = {9, 3661}
  Skew = 1
  MaxRows = 3
  MaxSteps = 2
  Limit = 2
CHECK_DEADLOCK FALSE
INVARIANT ErrorLogged
