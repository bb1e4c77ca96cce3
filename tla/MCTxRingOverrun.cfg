SPECIFICATION Spec
CONSTANTS
    NFrames = 3
    Packets = {p1, jumbo}
    NoPacket = NoPacket
    Refused = {jumbo}
    Jumbo = {jumbo}
    Extent <- Reaches
    Versions = {"V2"}
    Errnos = {"ENETDOWN"}
    MaxBatch = 0
    Calls <- Sends
PROPERTIES
    WritesOnlyFree
