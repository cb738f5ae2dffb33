SPECIFICATION Spec
CONSTANTS
    s1 = s1  e1 = e1
    k1 = k1  k2 = k2  v1 = v1
    a = a  b = b  c1 = c1  h1 = h1
    Session <- OneSession
    Elicit <- OneElicit
    Unknown = Unknown
    None = None
    MaxCommands = 3
    MaxQueue = 1
    MaxEvents = 3
    FlushThreshold = 2
    MaxLog = 2
    MaxRemovals = 1
    MaxHqEnds = 1
    Conn <- TwoConns
    Page <- Two
    Screen <- OneScreen
    MaxQueueSize = 2
    MaxWire = 1
    MaxHqStarts = 2
    Tab <- Two
    Cli <- OneCli
    Shell <- OneShell
    Nothing = Nothing
    Waiting = Waiting
    MaxOutput = 2
    MaxRing = 1
    MaxClicks = 2
    MaxLoss = 1
    MaxLogged = 4
    MaxPrompts = 1
    MaxTime = 2
    PageSize = 2
    MaxSelections = 2
SYMMETRY Symmetry
INVARIANTS
    SessionsTypeOK
    OneListener
    ShownWorkIsReal
    WaitingIsAnswerable
    NothingShownIsUnsaved
    EveryViewIsServed
    ScreenIsComplete
    TimelineIsFaithful
CHECK_DEADLOCK FALSE
