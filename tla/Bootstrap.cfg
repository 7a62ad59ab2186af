CONSTANTS s1 = s1 s2 = s2 f1 = f1 Funnel = Funnel Deleted = Deleted
CONSTANTS Stage <- TwoStages Field <- OneField MaxFailures = 2
SPECIFICATION FairSpec
INVARIANTS TypeOK MappingTrue
PROPERTIES DuplicatesOnlyBlind MappingKept Converges
CHECK_DEADLOCK FALSE
