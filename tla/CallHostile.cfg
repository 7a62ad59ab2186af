CONSTANTS
  c1 = c1 c2 = c2 c3 = c3 s1 = s1 h1 = h1 h2 = h2
  NoCall = NoCall
  Candidate <- OneCandidate
  Slot <- OneSlot
  Handler <- TwoHandlers
  MaxAttempts = 1
  MaxConcurrent = 1
  MaxDials = 1
  MaxInbound = 1
  Faults <- EveryFault
SYMMETRY Symmetry
SPECIFICATION Spec
INVARIANTS TypeOK LeadAfterConversation StoredLeadExists InboundJudgedOnce
CHECK_DEADLOCK FALSE
