CONSTANTS
    MaxWorkers = 2
    Width = 32
    Base = 3
    Units <- UnitsOfSizes
    Limits <- AllLimits
    PortBase = 2
    MaxPort = 2
    a = a
    b = b
    Names = {a, b}
    Texts <- Destinations
    MaxIndex = 2
    MaxInterfaces = 1
    MaxOptions = 4
    MaxCharacters = 4
    MaxChanges = 1
    SizeLimits <- Sizes
    WorkerLimits <- WorkerNumbers

SPECIFICATION Spec

CHECK_DEADLOCK FALSE

INVARIANTS
    TypeOK
    HandsOver
    AddsOnlyParsed
    NumberExact
    PortsExact
