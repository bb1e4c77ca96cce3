SPECIFICATION FairSpec
CONSTANTS
    MaxWorkers = 2
    MaxPackets = 4
    Faults = FALSE
    Args <- DataArgs
    Kinds <- IPv4
INVARIANTS
    SteadyExactlyOnce
    TakeTurns
PROPERTIES
    Processed
CHECK_DEADLOCK FALSE
