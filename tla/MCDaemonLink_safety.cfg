SPECIFICATION Spec
CONSTANTS
    d1 = d1  d2 = d2  p1 = p1  c1 = c1  c2 = c2  c3 = c3
    Proc <- TwoProc
    Project <- OneProject
    ProjOf <- SameProjOf
    Conn <- ThreeConn
    NoConn = NoConn
    ValidToken <- TwoProc
    LookupMayThrow = TRUE
    MaxFaults = 2
SYMMETRY ConnSymmetry
INVARIANTS
    TypeOK
    HandshakeInv
    OneLiveSocket
    EntryUsable
    AuthTimerExactlyPending
    RegistrationNotIgnored
    NeverStranded
    NoOrphanSocket
PROPERTIES
    PresenceSpec
CHECK_DEADLOCK FALSE
