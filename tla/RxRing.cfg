SPECIFICATION FairSpec
CONSTANTS
    NBlocks = 2
    BlockCap = 4
    MaxPkts = 2
    Packets = {p1, p2}
INVARIANTS
    TypeOK
    InStep
    ReadsOwnBlock
PROPERTIES
    ImplementsPacketStream
    BlocksReturn
    Thaws
