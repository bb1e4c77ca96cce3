SPECIFICATION Spec
CONSTANTS
    MaxWorkers = 1
    MaxPackets = 1
    Faults = FALSE
    Args <- OneWorker
    Kinds <- Lengths
INVARIANTS
    NoDatagramIgnored
CHECK_DEADLOCK FALSE
