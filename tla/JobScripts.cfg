SPECIFICATION FairSpec
CONSTANTS
    Kind = {"RestoreJob", "DbCopyCronJob"}
    TargetMayVanish = FALSE
    LostReplies = FALSE
    MaxUid = 1
    MaxEditRv = 0
    MaxStaleRv = 0
    MaxFaults = 0
PROPERTY ScriptsInPlace
CHECK_DEADLOCK FALSE
