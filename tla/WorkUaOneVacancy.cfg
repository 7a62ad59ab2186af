CONSTANTS p1 = p1 p2 = p2 NoPhone = NoPhone Everywhere = Everywhere Phone <- BothPhones
CONSTANTS Vacancy <- TwoVacancies Allowed <- OneVacancy Response <- MixedResponses OtherLabel <- OtherLabels PageSize = 3 MaxPosts = 3 Faults <- EveryFault
SPECIFICATION Spec
INVARIANT CursorBehindIngested
CHECK_DEADLOCK FALSE
