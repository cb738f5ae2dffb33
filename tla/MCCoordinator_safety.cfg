SPECIFICATION FairSpec
CONSTANTS
    StartId <- ThreeStarts
    CallId <- TwoCalls
    MaxSession = 6
    MaxOut = 2
    MaxEvents = 4
INVARIANTS
    TypeOK
    SessionsExist
    QuietAgreement
    CrashIsRetried
    StateIsBacked
PROPERTIES
    CrashRecovers
CHECK_DEADLOCK FALSE
