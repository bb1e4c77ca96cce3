------------------------------ MODULE Datagram ------------------------------
(***************************************************************************)
(* The composition of the datagram that a worker sends to a destination:   *)
(* destinations::send_ipv4() and send_ipv6() (worker.cpp).  The captured   *)
(* frame is checked for its length, the checksums of the IPv4 header and   *)
(* of the datagram are computed for the new addresses and ports, and the   *)
(* pieces are handed to the TX ring.                                       *)
(*                                                                         *)
(* A byte is a number below Byte, 256 in the code, and a word of 16 bits   *)
(* one below Byte * Byte, so that small instances carry as often as large  *)
(* ones.  The loops over the words of a header or of the data are one:     *)
(* "todo" is what they still have to add, in their order.                  *)
(***************************************************************************)
EXTENDS Integers, Sequences

CONSTANTS
    Byte,      \* the number of values of a byte
    Dests,     \* the destinations: [af, addr, port, addr4, addr6], the last
               \* two of the destination's interface
    Packets    \* the captured frames: [type, af, ihl, len, head, options,
               \* dport, udplen, data]

Word == Byte * Byte

Words == 0 .. Word - 1

Bytes == 0 .. Byte - 1

ASSUME ByteAssumption == Byte \in Nat /\ Byte > 1

ASSUME DestsAssumption ==
    \A d \in Dests : /\ d.af \in {"ipv4", "ipv6"}
                     /\ d.addr \in Seq(Words)
                     /\ d.addr4 \in Seq(Words)
                     /\ d.addr6 \in Seq(Words)
                     /\ d.port \in Words

\* "type" is the family by the EtherType, which the filter looks at, and "af"
\* the one by the version nibble, which fnpacket() looks at; "ihl" is the other
\* nibble, the length of an IPv4 header.  "len" is the length of the frame,
\* "head" the IPv4 header before its checksum, "dport" and "udplen" what is
\* found behind a header of that length, and "data" what is left of the frame.
ASSUME PacketsAssumption ==
    \A p \in Packets : /\ p.type \in {"ipv4", "ipv6"}
                       /\ p.af \in {"ipv4", "ipv6"}
                       /\ p.ihl \in 0 .. 15
                       /\ p.len \in Nat
                       /\ p.head \in Seq(Words)
                       /\ p.options \in Seq(Words)
                       /\ p.dport \in Words
                       /\ p.udplen \in Words
                       /\ p.data \in Seq(Bytes)

VARIABLES
    pc,        \* where the worker is; "killed" ends the process
    call,      \* <<the destination, the frame>> of the call in execution
    sum,       \* uint32_t sum
    todo,      \* the words that its loops have not added yet
    check,     \* ipv4_checksum
    udpcheck,  \* udp_checksum
    exact      \* history: what sum would be without width and without folding

vars == <<pc, call, sum, todo, check, udpcheck, exact>>

dest == call[1]

pkt == call[2]

Init ==
    /\ pc = "idle"
    /\ call = <<>>
    /\ sum = 0
    /\ todo = <<>>
    /\ check = 0
    /\ udpcheck = 0
    /\ exact = 0

-----------------------------------------------------------------------------
(* The captured frame.                                                     *)

EtherLen == 14
UdpHeaderLen == 8
ProtoUDP == 17

HeaderLen(p) == IF p.af = "ipv4" THEN 4 * p.ihl ELSE 40

MinLen(af) == EtherLen + UdpHeaderLen + IF af = "ipv4" THEN 20 ELSE 40

\* What the filter sees to: a frame is long enough for the headers that its
\* EtherType promises, without options (SocketFilter, FilterExact).  It looks
\* at neither nibble.
ASSUME FilterAssumption == \A p \in Packets : p.len >= MinLen(p.type)

\* The options are what an IPv4 header has beyond its fixed part.
ASSUME OptionsAssumption ==
    \A p \in Packets :
        p.af = "ipv4" =>
            2 * Len(p.options) = IF HeaderLen(p) > 20 THEN HeaderLen(p) - 20
                                                      ELSE 0

\* A frame that is what it says: the version is the one of the EtherType, and
\* an IPv4 header has at least its fixed part.
WellFormed(p) ==
    /\ p.type = p.af
    /\ p.af = "ipv4" => HeaderLen(p) >= 20

\* Mutant: the frame may be shorter than its datagram.
SanityCheckLower(p) ==
    /\ p.af = "ipv4" => EtherLen + HeaderLen(p) + UdpHeaderLen <= p.len
    /\ EtherLen + HeaderLen(p) + p.udplen >= p.len

\* The sanity checks.  Only send_ipv4() looks whether there is a UDP header.
SanityCheck(p) ==
    /\ p.af = "ipv4" => EtherLen + HeaderLen(p) + UdpHeaderLen <= p.len
    /\ EtherLen + HeaderLen(p) + p.udplen = p.len

\* udpdatalen, a size_t: below the length of a UDP header it wraps.
SizeMax == 2147483647

DataLen(p) ==
    IF p.udplen >= UdpHeaderLen THEN p.udplen - UdpHeaderLen
                                ELSE SizeMax - (UdpHeaderLen - p.udplen) + 1

DataLenWraps(p) == p.udplen < UdpHeaderLen

\* iphdrlen - sizeof(struct iphdr), the length of the options, wraps too.
OptionsLenWraps(p) == p.af = "ipv4" /\ HeaderLen(p) < 20

\* As much of the data as lies in the frame.
Data(p) ==
    [n \in 1 .. IF DataLen(p) < Len(p.data) THEN DataLen(p) ELSE Len(p.data) |->
        p.data[n]]

-----------------------------------------------------------------------------
(* What the checksums cover.                                               *)

\* Mutant: ntohs() of the last byte is taken for a copy of it.
LastByteUnswapped(byte) == byte

\* ntohs() of a single byte, on a little-endian machine.
LastByte(byte) == byte * Byte

\* The words of the data, and its last byte if their number is odd.
DataWords(p) ==
    LET d == Data(p)
    IN  [n \in 1 .. (Len(d) + 1) \div 2 |->
            IF 2 * n <= Len(d) THEN d[2 * n - 1] * Byte + d[2 * n]
                               ELSE LastByte(d[2 * n - 1])]

\* The IPv4 header: the received one, with the addresses of the interface and
\* of the destination, and without its checksum.
HeaderWords(d, p) == p.head \o d.addr4 \o d.addr \o p.options

\* The pseudo header, the UDP header without its checksum, and the data.  The
\* received packet's destination port becomes the source port.
UdpWords(d, p) ==
    (IF p.af = "ipv4" THEN d.addr4 ELSE d.addr6)
        \o d.addr
        \o <<ProtoUDP, p.udplen, p.dport, d.port, p.udplen>>
        \o DataWords(p)

ASSUME ProtoAssumption == ProtoUDP \in Words

\* What fits in a datagram: there are less than 32800 words in one whose
\* length is a word of 16 bits.
ASSUME LengthAssumption ==
    \A d \in Dests, p \in Packets :
        Len(HeaderWords(d, p)) <= Word /\ Len(UdpWords(d, p)) <= Word

-----------------------------------------------------------------------------
(* One call.                                                               *)

\* forward() and broadcast() call the function of the packet's family with a
\* destination of that family.
Call(d, p) ==
    /\ pc = "idle"
    /\ d.af = p.af
    /\ call' = <<d, p>>
    /\ pc' = "sanity"
    /\ UNCHANGED <<sum, todo, check, udpcheck, exact>>

Return ==
    /\ pc' = "idle"
    /\ call' = <<>>
    /\ sum' = 0
    /\ todo' = <<>>
    /\ check' = 0
    /\ udpcheck' = 0
    /\ exact' = 0

Ignore == pc = "sanity" /\ ~SanityCheck(pkt) /\ Return

BeginSum(part, words) ==
    /\ pc' = part
    /\ sum' = 0
    /\ todo' = words
    /\ exact' = 0

\* An IPv4 header has a checksum.
BeginHeader ==
    /\ pc = "sanity"
    /\ SanityCheck(pkt)
    /\ pkt.af = "ipv4"
    /\ BeginSum("header", HeaderWords(dest, pkt))
    /\ UNCHANGED <<call, check, udpcheck>>

BeginUdp ==
    /\ pc = "sanity"
    /\ SanityCheck(pkt)
    /\ pkt.af = "ipv6"
    /\ BeginSum("udp", UdpWords(dest, pkt))
    /\ UNCHANGED <<call, check, udpcheck>>

\* Mutant: a sum of 16 bits.
AddNarrow ==
    /\ todo # <<>>
    /\ sum' = (sum + Head(todo)) % Word
    /\ exact' = exact + Head(todo)
    /\ todo' = Tail(todo)
    /\ UNCHANGED <<pc, call, check, udpcheck>>

\* A turn of one of the loops: the sum has 32 bits.
Add ==
    /\ todo # <<>>
    /\ sum' = (sum + Head(todo)) % (Word * Word)
    /\ exact' = exact + Head(todo)
    /\ todo' = Tail(todo)
    /\ UNCHANGED <<pc, call, check, udpcheck>>

\* Mutant: while (sum >= USHRT_MAX).
CarryAtMax == sum >= Word - 1

\* The loops have added everything.  The one over the data of a length that
\* wrapped never has.
Added == todo = <<>> /\ ~(pc = "udp" /\ DataLenWraps(pkt))

\* sum > USHRT_MAX
Carry == sum > Word - 1

\* while (sum > USHRT_MAX) sum = (sum >> 16) + (sum & 0xffff)
Fold ==
    /\ pc \in {"header", "udp"}
    /\ Added
    /\ Carry
    /\ sum' = (sum \div Word) + (sum % Word)
    /\ UNCHANGED <<pc, call, todo, check, udpcheck, exact>>

\* Mutant: ~sum keeps its 32 bits.
ComplementWide == Word * Word - 1 - sum

\* static_cast<uint16_t>(~sum)
Complement == Word - 1 - (sum % Word)

EndHeader ==
    /\ pc = "header"
    /\ Added
    /\ ~Carry
    /\ check' = Complement
    /\ BeginSum("udp", UdpWords(dest, pkt))
    /\ UNCHANGED <<call, udpcheck>>

EndUdp ==
    /\ pc = "udp"
    /\ Added
    /\ ~Carry
    /\ udpcheck' = Complement
    /\ pc' = "send"
    /\ UNCHANGED <<call, sum, todo, check, exact>>

Kill ==
    /\ pc' = "killed"
    /\ UNCHANGED <<call, sum, todo, check, udpcheck, exact>>

\* The loop goes on behind the frame, up to the first address that cannot be
\* read (the words on the way there are left out).
RunAway ==
    /\ pc = "udp"
    /\ todo = <<>>
    /\ DataLenWraps(pkt)
    /\ Kill

\* tx.send(): the function ends, whatever it returns.
Send == pc = "send" /\ Return

\* tx.send() copies a piece whose length has wrapped, unless the ring is full.
CopyTooMuch ==
    /\ pc = "send"
    /\ OptionsLenWraps(pkt)
    /\ Kill

\* What the vector of pieces makes up, from the IP header on.
Sent ==
    [head |-> pkt.head, check |-> check,
     src |-> IF pkt.af = "ipv4" THEN dest.addr4 ELSE dest.addr6,
     dst |-> dest.addr,
     options |-> pkt.options,
     sport |-> pkt.dport, dport |-> dest.port,
     len |-> pkt.udplen, udpcheck |-> udpcheck,
     data |-> Data(pkt)]

-----------------------------------------------------------------------------
Step ==
    \/ Ignore
    \/ BeginHeader
    \/ BeginUdp
    \/ Add
    \/ Fold
    \/ EndHeader
    \/ EndUdp
    \/ RunAway
    \/ Send
    \/ CopyTooMuch

Next ==
    \/ \E d \in Dests, p \in Packets : Call(d, p)
    \/ Step

Spec == Init /\ [][Next]_vars

\* The worker's thread runs.
FairSpec == Spec /\ WF_vars(Step)

-----------------------------------------------------------------------------
(* Properties.                                                             *)

\* The variables have their types: the sum has 32 bits, and the checksums 16.
TypeOK ==
    /\ pc \in {"idle", "sanity", "header", "udp", "send", "killed"}
    /\ pc # "idle" => /\ dest \in Dests
                      /\ pkt \in Packets
    /\ sum \in 0 .. Word * Word - 1
    /\ todo \in Seq(Words)
    /\ check \in Words
    /\ udpcheck \in Words
    /\ exact \in Nat

\* However many words are added and whatever they carry, the complement of the
\* folded sum completes the sum of the words to a multiple of 0xffff, which is
\* what a receiver looks for: nothing is lost at 32 bits, while folding, or in
\* the narrowing to 16 bits.
Completes ==
    pc \in {"header", "udp"} /\ todo = <<>> /\ sum < Word =>
        (exact + Complement) % (Word - 1) = 0

\* The receiver's view of the data: bytes in pairs, with a zero behind the last
\* if their number is odd.
Padded(data) == IF Len(data) % 2 = 0 THEN data ELSE Append(data, 0)

Pairs(data) ==
    [n \in 1 .. Len(Padded(data)) \div 2 |->
        Padded(data)[2 * n - 1] * Byte + Padded(data)[2 * n]]

\* The sum of the words.
Total(words) ==
    LET upTo[n \in 0 .. Len(words)] ==
            IF n = 0 THEN 0 ELSE upTo[n - 1] + words[n]
    IN  upTo[Len(words)]

\* All ones, in ones' complement arithmetic.
AllOnes(words) == Total(words) > 0 /\ Total(words) % (Word - 1) = 0

\* The words over which the receiver of the datagram computes its checksum.
ReceivedWords ==
    Sent.src \o Sent.dst \o <<ProtoUDP, Sent.len>>
        \o <<Sent.sport, Sent.dport, Sent.len, Sent.udpcheck>>
        \o Pairs(Sent.data)

\* What a receiver does: a zero says that there is no checksum, which is
\* allowed over IPv4 and not over IPv6.
ReceiverAccepts ==
    IF Sent.udpcheck = 0 THEN pkt.af = "ipv4" ELSE AllOnes(ReceivedWords)

\* The checksums that are sent are those of what is sent (the addresses, ports
\* and length that were put together, and the data), and the receiver accepts
\* the datagram, but for one: the checksum of a datagram over IPv6 may come out
\* as zero, which the code does not turn into 0xffff (worker.cpp:392), and that
\* datagram is discarded.
Verifies ==
    pc = "send" =>
        /\ pkt.af = "ipv4" =>
               AllOnes(Sent.head \o <<Sent.check>> \o Sent.src \o Sent.dst
                           \o Sent.options)
        /\ AllOnes(ReceivedWords)
        /\ ReceiverAccepts \/ (pkt.af = "ipv6" /\ Sent.udpcheck = 0)

\* A well-formed frame does not make the worker read outside it: neither the
\* sum nor the pieces reach past its end, no length wraps, and the process is
\* not killed.  For IPv6 the filter alone sees to it that there is a UDP header.
\* Frames that are not well-formed can (RunAway, CopyTooMuch).
InsideFrame ==
    pc # "idle" /\ WellFormed(pkt) =>
        /\ pc \in {"header", "udp", "send"} =>
               EtherLen + HeaderLen(pkt) + UdpHeaderLen + DataLen(pkt) <= pkt.len
        /\ pc # "killed"

\* A call ends: the folding comes to an end, or a loop that does not has the
\* process killed.
CallEnds == pc # "idle" ~> pc \in {"idle", "killed"}
=============================================================================
