SPECIFICATION FairSpec
CONSTANTS
    StartId <- ThreeStarts
    CallId <- TwoCalls
    MaxSession = 4
    MaxOut = 2
    MaxEvents = 3
PROPERTIES
    StartingResolves
CHECK_DEADLOCK FALSE
