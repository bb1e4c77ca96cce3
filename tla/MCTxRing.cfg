SPECIFICATION FairSpec
CONSTANTS
    NFrames = 3
    Packets = {p1, bad, jumbo}
    NoPacket = NoPacket
    Refused = {bad, jumbo}
    Jumbo = {jumbo}
    Extent <- Reaches
    Versions = {"V1", "V2", "V3"}
    Errnos = {"ENETDOWN"}
    MaxBatch = 4
    Calls <- AllCalls
INVARIANTS
    TypeOK
    Window
    TrueMeansFlushed
PROPERTIES
    ImplementsTxQueue
    SendReturns
    FlushedUnlessWedged
