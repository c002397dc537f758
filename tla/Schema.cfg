SPECIFICATION FairSpec
CONSTANTS
    Products = {"PostgreSQL", "CockroachDB", "MySQL"}
    CrName = "app1"
    Specs <- SpecsMC
    LostReplies = TRUE
    MaxUid = 1
    MaxEditRv = 3
    MaxFaults = 1
INVARIANT TypeOK
INVARIANT ReleasedSchemaIsGone
 
PROPERTY TerminatingGoesOrHeldUp
CHECK_DEADLOCK FALSE
