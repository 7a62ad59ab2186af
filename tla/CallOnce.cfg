CONSTANTS
  c1 = c1 c2 = c2 c3 = c3 s1 = s1 h1 = h1 h2 = h2
  NoCall = NoCall
  Candidate <- TwoCandidates
  Slot <- OneSlot
  Handler <- TwoHandlers
  MaxAttempts = 3
  MaxConcurrent = 2
  MaxDials = 4
  MaxInbound = 0
  Faults <- OnceDelivered
SPECIFICATION Spec
INVARIANTS DialLimit OneLiveCall SingleLead ReviewHasSuccess
PROPERTIES FunnelSpec
CHECK_DEADLOCK FALSE
