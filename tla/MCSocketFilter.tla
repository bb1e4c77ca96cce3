--------------------------- MODULE MCSocketFilter ---------------------------
(***************************************************************************)
(* Packets for the filter of SocketFilter: good ones, and for each test    *)
(* ones that fail it by the least that is possible.                        *)
(***************************************************************************)
EXTENDS SocketFilter

Packet(type, len, proto, frag, port, fixed) ==
    [type |-> type, len |-> len, proto |-> proto, frag |-> frag,
     port |-> port, fixed |-> fixed]

ProtoTCP == 6
EtherTypeARP == 2054
MoreFragments == 8192

\* The header is followed by the UDP header: the port is where it is expected.
Plain(type, len, proto, frag) ==
    {Packet(type, len, proto, frag, port, port) : port \in 0 .. MaxPort}

PlainPackets ==
    UNION {Plain(EtherTypeIPv4, MinLenIPv4, ProtoUDP, 0),
           Plain(EtherTypeIPv4, MinLenIPv4 - 1, ProtoUDP, 0),
           Plain(EtherTypeIPv4, MinLenIPv6, ProtoTCP, 0),
           Plain(EtherTypeIPv4, MinLenIPv6, ProtoUDP, DontFragment),
           Plain(EtherTypeIPv4, MinLenIPv6, ProtoUDP, MoreFragments),
           Plain(EtherTypeIPv4, MinLenIPv6, ProtoUDP, 1),
           Plain(EtherTypeIPv6, MinLenIPv6, ProtoUDP, 0),
           Plain(EtherTypeIPv6, MinLenIPv6 - 1, ProtoUDP, 0),
           Plain(EtherTypeIPv6, MinLenIPv6, ProtoTCP, 0),
           Plain(EtherTypeARP, MinLenIPv6, ProtoUDP, 0)}

JustIPv4 == {"ipv4"}
=============================================================================
