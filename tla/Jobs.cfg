SPECIFICATION FairSpec
CONSTANTS
    Kind = {"BackupCronJob"}
    TargetMayVanish = TRUE
    LostReplies = TRUE
    MaxUid = 2
    MaxEditRv = 2
    MaxStaleRv = 9
    MaxFaults = 1
PROPERTY StartedOnce
PROPERTY RemovedWhenAsked
PROPERTY TerminatingGoes
PROPERTY StayingRuns
CHECK_DEADLOCK FALSE
