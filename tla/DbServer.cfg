SPECIFICATION FairSpec
CONSTANTS
    DbNames = {"a"}
    LostReplies = TRUE
    Unreported = FALSE
    MaxUid = 2
    MaxChangeRv = 5
    MaxFaults = 3
PROPERTY StatusConverges
PROPERTY DeletedServerGoes
CHECK_DEADLOCK FALSE
