CONSTANTS
  c1 = c1 c2 = c2 c3 = c3 s1 = s1 h1 = h1 h2 = h2
  NoCall = NoCall
  Candidate <- OneCandidate
  Slot <- OneSlot
  Handler <- OneHandler
  MaxAttempts = 2
  MaxConcurrent = 1
  MaxDials = 2
  MaxInbound = 0
  Faults <- NoAnswer
SPECIFICATION FairSpec
PROPERTIES NoAnswerRetries
CHECK_DEADLOCK FALSE
