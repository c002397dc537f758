SPECIFICATION FairSpec
CONSTANTS
    Db = {"a"}
    DbNames = {"a"}
    DbName <- OwnNames
    LostReplies = FALSE
    CascadeSupported = TRUE
    Cascades = {FALSE}
    OtherFinalizers = {FALSE}
    MaxUid = 1
    MaxSrvUid = 2
    MaxEditRv = 0
    MaxChangeRv = 50
    MaxFaults = 1
PROPERTY RefinesDbServerController
PROPERTY OperatorDropsAnswerDeletions
PROPERTY OperatorStatusConverges
CHECK_DEADLOCK FALSE
