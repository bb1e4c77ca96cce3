SPECIFICATION UnceasingSpec
CONSTANTS
    MaxWorkers = 3
    MaxPackets = 2
    Faults = TRUE
    Args <- ControlArgs
    Kinds <- BothFamilies
INVARIANTS
    TypeOK
    LoadSpread
    Replicated
    CleanExit
PROPERTIES
    ThreadsOwnWorkers
    Terminates
CHECK_DEADLOCK FALSE
