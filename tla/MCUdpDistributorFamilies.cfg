SPECIFICATION Spec
CONSTANTS
    MaxWorkers = 2
    MaxPackets = 1
    Faults = FALSE
    Args <- MixedArgs
    Kinds <- BothFamilies
INVARIANTS
    NeverCrashes
CHECK_DEADLOCK FALSE
