SPECIFICATION Spec
CONSTANTS
    MaxWorkers = 2
    MaxPackets = 1
    Faults = FALSE
    Args <- TwoWorkers
    Kinds <- IPv4
INVARIANTS
    OneDestination
CHECK_DEADLOCK FALSE
