SPECIFICATION FairSpec
CONSTANTS
    Db = {"a"}
    DbNames = {"a"}
    DbName <- OwnNames
    ServerMayVanish = FALSE
    LostReplies = TRUE
    CascadeSupported = FALSE
    Cascades = {TRUE, FALSE}
    OtherFinalizers = {TRUE, FALSE}
    MaxUid = 2
    MaxEditRv = 4
    MaxFaults = 1
INVARIANT TypeOK
INVARIANT ClaimedDbExists
INVARIANT ReleasedDbIsGone
PROPERTY DropsOnlyTerminating
PROPERTY NeverRecreated
PROPERTY TerminatingGoesOrRefused
PROPERTY StayingIsProvided
CHECK_DEADLOCK FALSE
