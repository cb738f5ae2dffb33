SPECIFICATION StateSpec
CONSTANTS
    Modes = {"git"}
    Request = {}
    Flush = {f1}
    None = None
    Cut = Cut
    MaxChange = 1
    MaxWrites = 2
    MaxFaults = 0
    MaxClose = 1
INVARIANTS
    ShutdownSavesStore
CHECK_DEADLOCK FALSE
