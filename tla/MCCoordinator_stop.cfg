SPECIFICATION Spec
CONSTANTS
    StartId <- ThreeStarts
    CallId <- TwoCalls
    MaxSession = 4
    MaxOut = 2
    MaxEvents = 3
INVARIANTS
    StopHolds
CHECK_DEADLOCK FALSE
