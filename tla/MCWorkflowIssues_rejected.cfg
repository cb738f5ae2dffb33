SPECIFICATION FairSpec
CONSTANTS
    Issues <- One
    Questions <- One
    SyncId <- One
    HolderId <- One
    NoIssue = 0
    MaxDispatches = 1
    MaxTimers = 1
    MaxEvents = 4
PROPERTIES
    RejectedIsTerminal
CHECK_DEADLOCK FALSE
