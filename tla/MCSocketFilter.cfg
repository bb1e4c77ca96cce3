\* Every sequence of port_range() over nine ports and three places, then
\* compile(), with ipv4() called or not.
CONSTANTS
    MaxPort = 9
    MaxPortRanges = 3
    MaxFilters = 255
    Enables <- JustIPv4
    Packets <- PlainPackets

SPECIFICATION Spec

INVARIANTS
    TypeOK
    Canonical
    Exact
    RefusesOnlyWhenFull
    FilterExact

\* Nothing is left to call after compile().
CHECK_DEADLOCK FALSE
