SPECIFICATION FairSpec
CONSTANTS
  MaxId = 4
  PageSize = 3
INVARIANTS TypeOK PassedByOnlyIfFailed
PROPERTIES IngestedOnce ApplicantReached
