SPECIFICATION FairSpec
CONSTANTS
    TargetMayVanish = TRUE
    LostReplies = TRUE
    MaxUid = 2
    MaxEditRv = 3
    MaxStmt = 1
    MaxFaults = 1
INVARIANT TypeOK
INVARIANT ReleasedScheduleIsGone
PROPERTY DropsAnswerRequests
PROPERTY TerminatingGoesOrWedges
CHECK_DEADLOCK FALSE
