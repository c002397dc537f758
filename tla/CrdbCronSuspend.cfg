SPECIFICATION FairSpec
CONSTANTS
    TargetMayVanish = FALSE
    LostReplies = FALSE
    MaxUid = 1
    MaxEditRv = 5
    MaxStmt = 1
    MaxFaults = 0
PROPERTY SuspendedKeepsSchedule
CHECK_DEADLOCK FALSE
