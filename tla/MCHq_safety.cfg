SPECIFICATION Spec
CONSTANTS
    q1 = q1  f1 = f1
    d1 = d1  d2 = d2  d3 = d3  d4 = d4
    t1 = t1  t2 = t2  t3 = t3
    r1 = r1  r2 = r2
    Modes = {"git", "local"}
    Request <- OneRequest
    Flush <- OneFlush
    None = None
    Cut = Cut
    MaxChange = 1
    MaxWrites = 2
    MaxFaults = 1
    MaxClose = 1
    DaemonChild <- FourDaemons
    NoDaemonChild = NoDaemonChild
    MaxDaemonRestarts = 2
    MaxDaemonRequests = 4
    TunnelChild <- ThreeTunnels
    NoTunnelChild = NoTunnelChild
    MaxTunnelRequests = 5
    Get <- TwoGets
    MaxRetries = 1
    MaxConns = 2
    MaxProcesses = 1
    Repos = {"own"}
    OwnRepo = "own"
    Models = {"opus"}
    DefaultModel = "opus"
    MaxPuts = 2
    MaxPutsAtOnce = 2
    MaxSettingFaults = 1
    MaxClicks = 2
    MaxMoves = 1
    MaxCallFailures = 1
    Screens <- PageScreens
    PageSize = 1
    Capacity = 2
    MaxChanges = 1
    MaxRequests = 1
    MaxFailures = 1
INVARIANTS
    HqTypeOK
    SequentialSavesAreExact
    OneSupervisedDaemon
    TunnelUnderControl
    NoRequestIsLost
    SettingsSurviveRestart
    SequentialPushesAreExact
    OwnChangesAreShown
PROPERTIES
    SavesAreAnswered
    ViewsCatchUp
CHECK_DEADLOCK FALSE
