SPECIFICATION FairSpec
CONSTANTS
    TargetMayVanish = TRUE
    LostReplies = TRUE
    MaxUid = 2
    MaxEditRv = 2
    MaxJobs = 2
    MaxFaults = 1
INVARIANT TypeOK
INVARIANT PublishedEndIsTrue
PROPERTY JobIdIsStable
PROPERTY EndIsPublished
PROPERTY TerminatingGoes
CHECK_DEADLOCK FALSE
