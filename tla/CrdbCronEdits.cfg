SPECIFICATION FairSpec
CONSTANTS
    TargetMayVanish = TRUE
    LostReplies = TRUE
    MaxUid = 1
    MaxEditRv = 5
    MaxStmt = 1
    MaxFaults = 1
PROPERTY SuspendTakesEffect
PROPERTY ScheduleIsRecorded
PROPERTY CalmDeletionCompletes
CHECK_DEADLOCK FALSE
