SPECIFICATION FairSpec
CONSTANTS
    Products = {"PostgreSQL", "CockroachDB", "MySQL"}
    SpecNames <- SpecNamesMC
    Specs <- SpecsMC
    Database = "d"
    Schemas <- SchemasMC
    PublicPrivs <- PublicMC
    PrivOrder <- PrivOrderMC
    Tables <- TablesMC
    NewTables <- NewTablesMC
    Drift <- DriftMC
    LostReplies = TRUE
    MaxUid = 1
    MaxEditRv = 3
    MaxFaults = 1
INVARIANT TypeOK
INVARIANT PasswordAgrees
INVARIANT ClaimedRoleExists
INVARIANT ReleasedRoleIsGone
PROPERTY PrivsNotInterrupted
PROPERTY PrivsSettle
PROPERTY TerminatingGoesOrHeldUp
CHECK_DEADLOCK FALSE
