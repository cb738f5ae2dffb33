SPECIFICATION FairSpec
CONSTANTS
    Issues <- Two
    Questions <- One
    SyncId <- One
    HolderId <- One
    NoIssue = 0
    MaxDispatches = 2
    MaxTimers = 2
    MaxEvents = 6
INVARIANTS
    TypeOK
    RecordsAgree
    PendingHasTimer
PROPERTIES
    CompletedWorkMovesOn
    OnlyStaleSyncRevives
    BlockedIsReleased
CHECK_DEADLOCK FALSE
