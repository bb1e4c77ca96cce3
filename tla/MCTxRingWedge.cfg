SPECIFICATION FairSpec
CONSTANTS
    NFrames = 2
    Packets = {p1}
    NoPacket = NoPacket
    Refused = {}
    Jumbo = {}
    Extent <- Reaches
    Versions = {"V2"}
    Errnos = {"ENETDOWN"}
    MaxBatch = 0
    Calls <- Sends
PROPERTIES
    Flushed
