----------------------------- MODULE MCDatagram -----------------------------
(***************************************************************************)
(* Datagram for TLC: bytes of five values, with the extremes of words and  *)
(* bytes, and a UDP length that fits the frame or does not.                *)
(***************************************************************************)
EXTENDS Datagram, SequencesExt

Dst(af, addr, src, port) ==
    [af |-> af, addr |-> addr, port |-> port, addr4 |-> src, addr6 |-> src]

Long(word) == <<word, 0, 0, 24, 1, 0, 24, word>>

MCDests ==
    {Dst("ipv4", <<a, 24>>, <<b, 3>>, port) :
        a \in {0, 24}, b \in {7, 24}, port \in {1, 24}}
    \cup {Dst("ipv6", Long(a), Long(b), port) :
             a \in {0, 24}, b \in {5, 24}, port \in {1, 24}}

\* A well-formed frame with everything that is in it; "missing" bytes of it were
\* cut off.
Frame(af, head, options, dport, udplen, data, missing) ==
    [type |-> af, af |-> af,
     ihl |-> 5 + Len(options) \div 2,
     len |-> MinLen(af) + 2 * Len(options) + Len(data) - missing,
     head |-> head, options |-> options, dport |-> dport, udplen |-> udplen,
     data |-> data]

SomeData == SeqOf({0, 1, 4}, 3)

FitIPv4 ==
    {Frame("ipv4", <<9, 24, x, 0, 17>>, options, 2, 8 + Len(data), data, 0) :
        x \in {0, 24}, options \in {<<>>, <<24, 1>>},
        data \in SomeData}

FitIPv6 ==
    {Frame("ipv6", <<>>, <<>>, dport, 8 + Len(data), data, 0) :
        dport \in {2, 24}, data \in SomeData}

\* The UDP length is another, or the frame was padded.
Unfit ==
    {Frame(af, <<9, 24>>, <<>>, 2, udplen, data, 0) :
        af \in {"ipv4", "ipv6"}, udplen \in {0, 7, 8, 9, 13, 24},
        data \in {<<>>, <<1>>, <<0, 4, 1>>}}

\* The frame ends within the UDP header, with a length that fits it.
Cut ==
    {Frame("ipv4", <<9, 24>>, <<24, 1>>, 2, 8 - missing, <<>>, missing) :
        missing \in {1, 4}}

\* The IPv4 header says that it is shorter than its fixed part, and what lies
\* behind that length is taken for the UDP header and the data.
ShortHeader ==
    {[type |-> "ipv4", af |-> "ipv4", ihl |-> ihl, len |-> MinLen("ipv4"),
      head |-> <<9, 24>>, options |-> <<>>, dport |-> 2,
      udplen |-> MinLen("ipv4") - EtherLen - 4 * ihl,
      data |-> [n \in 1 .. 20 - 4 * ihl |-> 1]] :
        ihl \in {3, 4}}

\* The version is not the one of the EtherType, and the frame may be too short
\* for an IPv6 header and a UDP header.
Disguised ==
    {[type |-> "ipv4", af |-> "ipv6", ihl |-> 5, len |-> len,
      head |-> <<>>, options |-> <<>>, dport |-> 2,
      udplen |-> len - EtherLen - 40, data |-> <<>>] :
        len \in {54, 61, 62}}

MCPackets == FitIPv4 \cup FitIPv6 \cup Unfit \cup Cut \cup ShortHeader \cup Disguised
=============================================================================
