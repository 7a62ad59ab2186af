CONSTANTS p1 = p1 p2 = p2 NoPhone = NoPhone Everywhere = Everywhere Phone <- BothPhones
CONSTANTS Vacancy <- TwoVacancies Allowed <- NoFilter Response <- SentResponses OtherLabel <- Manual PageSize = 2 MaxPosts = 4 Faults <- Transient
SPECIFICATION FairSpec
INVARIANTS TypeOK CursorBehindIngested
PROPERTY SenderReached
