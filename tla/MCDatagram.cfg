\* Bytes of five values.
CONSTANTS
    Byte = 5
    Dests <- MCDests
    Packets <- MCPackets

SPECIFICATION FairSpec

\* A killed process stops.
CHECK_DEADLOCK FALSE

INVARIANTS
    TypeOK
    Completes
    Verifies
    InsideFrame

PROPERTY CallEnds
