SPECIFICATION Spec
CONSTANTS
    TargetMayVanish = FALSE
    LostReplies = FALSE
    MaxUid = 1
    MaxEditRv = 3
    MaxJobs = 2
    MaxFaults = 0
INVARIANT AtMostOneBackup
CHECK_DEADLOCK FALSE
