CONSTANTS
  c1 = c1 c2 = c2 c3 = c3 s1 = s1 h1 = h1 h2 = h2
  NoCall = NoCall
  Candidate <- ThreeCandidates
  Slot <- OneSlot
  Handler <- TwoHandlers
  MaxAttempts = 2
  MaxConcurrent = 2
  MaxDials = 2
  MaxInbound = 0
  Faults <- NoAnswer
SPECIFICATION FairSpec
INVARIANTS LiveCallsBounded ResolvedReachesCrm NobodyForgotten
PROPERTIES EveryoneResolved
CHECK_DEADLOCK FALSE
