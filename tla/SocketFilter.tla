---------------------------- MODULE SocketFilter ----------------------------
(***************************************************************************)
(* net::socket_filter: the list of port ranges that --ports fills, and the *)
(* packet filter that is compiled from it and attached to the RX sockets.  *)
(* port_range() keeps the ranges sorted and merges those that overlap or   *)
(* touch; compile() writes a program whose jumps forward, to the two       *)
(* returns at its end, are patched when it is complete.                    *)
(*                                                                         *)
(* Packets are what the program loads from them.  The machine that runs    *)
(* the program is the kernel's: it is external, and modelled as far as the *)
(* instructions that compile() uses go.                                    *)
(***************************************************************************)
EXTENDS Integers, Sequences, FiniteSets, FiniteSetsExt

CONSTANTS
    MaxPort,         \* the last port
    MaxPortRanges,   \* max_port_ranges
    MaxFilters,      \* max_filters
    Enables,         \* the families that calls of ipv4() and ipv6() enable
    Packets          \* the packets that the filter is asked about

ASSUME LimitsAssumption ==
    /\ MaxPort \in Nat \ {0}
    /\ MaxPortRanges \in Nat \ {0}
    /\ MaxFilters \in Nat

ASSUME EnablesAssumption == Enables \subseteq {"ipv4", "ipv6"}

ASSUME PacketsAssumption ==
    \A packet \in Packets :
        DOMAIN packet = {"len", "type", "proto", "frag", "port", "fixed"}

VARIABLES
    families,  \* _M_ipv4 and _M_ipv6: those that are true
    ranges,    \* _M_portranges, the first _M_nportranges
    filters,   \* the program that compile() has handed out, if it has
    result,    \* what the last call of port_range() or compile() returned
    asked,     \* history: the ports of the last call of port_range()
    ports      \* history: the ports of the calls that returned true

vars == <<families, ranges, filters, result, asked, ports>>

Ports == 1 .. MaxPort

Init ==
    /\ families = {}
    /\ ranges = <<>>
    /\ filters = <<>>
    /\ result = TRUE
    /\ asked = {}
    /\ ports = {}

-----------------------------------------------------------------------------
(* The families and the port ranges.                                       *)

\* ipv4() and ipv6().
Enable(family) ==
    /\ filters = <<>>
    /\ families' = families \cup {family}
    /\ UNCHANGED <<ranges, filters, result, asked, ports>>

\* Mutant: a range that ends just before the new one counts as beyond it.
FirstTouching(from) ==
    Min({n \in 1 .. Len(ranges) : from <= ranges[n].to}
            \cup {Len(ranges) + 1})

\* The first range that the new one does not lie beyond; one past the end if
\* there is none.  A range that ends just before the new one is not beyond.
First(from) ==
    Min({n \in 1 .. Len(ranges) : from <= ranges[n].to + 1}
            \cup {Len(ranges) + 1})

\* The last of the ranges from the n-th on that the new one reaches, one after
\* the other; the n-th itself is not looked at.
Last(n, to) ==
    Max({m \in n .. Len(ranges) :
            \A next \in n + 1 .. m : to + 1 >= ranges[next].from})

\* The ranges m to n give way to one.
Replace(m, n, range) ==
    SubSeq(ranges, 1, m - 1) \o <<range>> \o SubSeq(ranges, n + 1, Len(ranges))

\* The new range lies alone: it is beyond the last range, or ends before the
\* n-th begins without touching it.
Alone(n, to) ==
    n <= Len(ranges) => Last(n, to) = n /\ to + 1 < ranges[n].from

Accepted(from, to) ==
    /\ from > 0
    /\ from <= to
    /\ result' = TRUE
    /\ asked' = from .. to
    /\ ports' = ports \cup from .. to
    /\ UNCHANGED <<families, filters>>

\* Mutant: no check for a free place.
InsertUnchecked(from, to) ==
    /\ Accepted(from, to)
    /\ Alone(First(from), to)
    /\ ranges' = Replace(First(from), First(from) - 1,
                         [from |-> from, to |-> to])

Insert(from, to) ==
    /\ Accepted(from, to)
    /\ LET n == First(from)
       IN  /\ Alone(n, to)
           /\ Len(ranges) < MaxPortRanges
           /\ ranges' = Replace(n, n - 1, [from |-> from, to |-> to])

\* Mutant: the end of the new range replaces that of the last one it reaches.
MergeCut(from, to) ==
    /\ Accepted(from, to)
    /\ LET m == First(from)
           n == Last(m, to)
       IN  /\ ~Alone(m, to)
           /\ ranges' = Replace(m, n, [from |-> Min({from, ranges[m].from}),
                                       to |-> to])

Merge(from, to) ==
    /\ Accepted(from, to)
    /\ LET m == First(from)
           n == Last(m, to)
       IN  /\ ~Alone(m, to)
           /\ ranges' = Replace(m, n, [from |-> Min({from, ranges[m].from}),
                                       to |-> Max({to, ranges[n].to})])

\* Mutant: a full list refuses also what would be merged.
RefuseFull(from, to) ==
    /\ Len(ranges) = MaxPortRanges
    /\ result' = FALSE
    /\ asked' = IF from = 0 THEN {} ELSE from .. to
    /\ UNCHANGED <<families, ranges, filters, ports>>

Refuse(from, to) ==
    /\ \/ from = 0
       \/ from > to
       \/ Alone(First(from), to) /\ Len(ranges) = MaxPortRanges
    /\ result' = FALSE
    /\ asked' = IF from = 0 THEN {} ELSE from .. to
    /\ UNCHANGED <<families, ranges, filters, ports>>

\* main() calls port_range() for the arguments, and compile() after them.
PortRange(from, to) ==
    filters = <<>> /\ (Insert(from, to) \/ Merge(from, to) \/ Refuse(from, to))

-----------------------------------------------------------------------------
(* compile().  Jumps are relative; Ignore and Accept stand for the two      *)
(* returns at the end of the program until the jumps to them are patched.  *)

EtherTypeIPv4 == 2048
EtherTypeIPv6 == 34525
ProtoUDP == 17
MinLenIPv4 == 14 + 20 + 8
MinLenIPv6 == 14 + 40 + 8

\* More fragments follow, or this is not the first.
FragmentBits == 16383

WholePacket == 262144

Ignore == -1
Accept == -2

Stmt(code, k) == <<[code |-> code, k |-> k, jt |-> 0, jf |-> 0]>>

Load(field) == <<[code |-> "ld", k |-> field, jt |-> 0, jf |-> 0]>>

Jump(code, k, jt, jf) == <<[code |-> code, k |-> k, jt |-> jt, jf |-> jf]>>

\* Mutant: the last port of a range is outside.
PortTestExclusive(range) ==
    IF range.from = range.to
    THEN Jump("jeq", range.from, Accept, 0)
    ELSE Jump("jge", range.from, 0, 1) \o Jump("jge", range.to, 0, Accept)

\* The test of a single port, or of a range.
PortTest(range) ==
    IF range.from = range.to
    THEN Jump("jeq", range.from, Accept, 0)
    ELSE Jump("jge", range.from, 0, 1) \o Jump("jgt", range.to, 0, Accept)

PortTests[n \in 0 .. MaxPortRanges] ==
    IF n = 0 THEN <<>> ELSE PortTests[n - 1] \o PortTest(ranges[n])

\* The tests of the ports, if there are any; a packet that passes none goes on
\* to what follows.
PortPart(field, otherwise) ==
    IF ranges # <<>>
    THEN Load(field) \o PortTests[Len(ranges)] \o otherwise
    ELSE Stmt("ret", WholePacket)

PartIPv6(with4) ==
    (IF with4
     THEN Load("len") \o Jump("jge", MinLenIPv6, 0, Ignore) ELSE <<>>)
        \o Load("ip6_nxt")
        \o Jump("jeq", ProtoUDP, 0, Ignore)
        \o PortPart("ipv6_port", Stmt("ret", 0))

PartIPv4 ==
    Jump("jeq", EtherTypeIPv4, 0, Ignore)
        \o Load("protocol")
        \o Jump("jeq", ProtoUDP, 0, Ignore)
        \o Load("frag_off")
        \o Jump("jset", FragmentBits, Ignore, 0)
        \o PortPart("ipv4_port", <<>>)

\* The test for IPv6 skips its part for the packets of other types, if there
\* is another part; nothing patches its jump if there is none.
TypeTest(with4) ==
    Jump("jeq", EtherTypeIPv6, 0, IF with4 THEN Len(PartIPv6(with4)) ELSE 0)

\* The whole program before its jumps are patched.
Program(with4, with6) ==
    Load("len")
        \o Jump("jge", IF with4 THEN MinLenIPv4 ELSE MinLenIPv6, 0, Ignore)
        \o Load("ether_type")
        \o (IF with6 THEN TypeTest(with4) \o PartIPv6(with4) ELSE <<>>)
        \o (IF with4 THEN PartIPv4 ELSE <<>>)
        \o Stmt("ret", 0)
        \o Stmt("ret", WholePacket)

\* The loops over ignores and accepts: the jumps to the first and the second of
\* the returns at the end.  An offset has eight bits.
Patched(program) ==
    LET end == Len(program)
        Offset(n, jump) ==
            CASE jump = Ignore -> (end - 1 - n - 1) % 256
              [] jump = Accept -> (end - n - 1) % 256
              [] OTHER -> jump
    IN  [n \in 1 .. end |->
            [program[n] EXCEPT !.jt = Offset(n, @), !.jf = Offset(n, @)]]

\* If neither family was enabled, both are.
Compile ==
    /\ filters = <<>>
    /\ families' = IF families = {} THEN {"ipv4", "ipv6"} ELSE families
    /\ LET program == Patched(Program("ipv4" \in families',
                                      "ipv6" \in families'))
       IN  /\ result' = (Len(program) <= MaxFilters)
           /\ filters' = IF result' THEN program ELSE <<>>
    /\ UNCHANGED <<ranges, asked, ports>>

-----------------------------------------------------------------------------
(* The kernel runs the program on a packet: "len" to "port" are what the   *)
(* packet holds, "fixed" the two bytes where the destination port lies if  *)
(* the IP header is not followed by options.                               *)

Loaded(packet, field) ==
    CASE field = "len" -> packet.len
      [] field = "ether_type" -> packet.type
      [] field = "ip6_nxt" -> packet.proto
      [] field = "protocol" -> packet.proto
      [] field = "frag_off" -> packet.frag
      [] field = "ipv6_port" -> packet.fixed
      [] field = "ipv4_port" -> packet.fixed

\* Whether the jump takes its true branch.  The mask of jset is 0x3fff: the
\* low bits.
Taken(jump, a) ==
    CASE jump.code = "jeq" -> a = jump.k
      [] jump.code = "jge" -> a >= jump.k
      [] jump.code = "jgt" -> a > jump.k
      [] jump.code = "jset" -> a % (jump.k + 1) # 0

\* Whether the program, from the pc-th statement on, accepts the packet, for
\* every value of the accumulator.
Run(program, packet) ==
    LET run[pc \in Nat \ {0}] == [a \in Nat |->
            IF pc > Len(program) THEN FALSE
            ELSE LET at == program[pc]
                 IN  CASE at.code = "ret" -> at.k > 0
                       [] at.code = "ld" -> run[pc + 1][Loaded(packet, at.k)]
                       [] OTHER -> run[pc + 1 + IF Taken(at, a) THEN at.jt
                                                               ELSE at.jf][a]]
    IN  run

Accepts(program, packet) == Run(program, packet)[1][0]

-----------------------------------------------------------------------------
Next ==
    \/ \E family \in Enables : Enable(family)
    \/ \E from, to \in 0 .. MaxPort : PortRange(from, to)
    \/ Compile

Spec == Init /\ [][Next]_vars

-----------------------------------------------------------------------------
(* Properties.                                                             *)

PortsOf(range) == range.from .. range.to

\* The members of S that begin a run of consecutive members.
Runs(S) == Cardinality({p \in S : p - 1 \notin S})

\* The variables have their types; there are never more ranges than places
\* for them (port_range(), compile()).
TypeOK ==
    /\ families \subseteq {"ipv4", "ipv6"}
    /\ \A n \in 1 .. Len(ranges) : ranges[n] \in [from : Ports, to : Ports]
    /\ Len(ranges) <= MaxPortRanges
    /\ Len(filters) <= MaxFilters
    /\ result \in BOOLEAN
    /\ asked \subseteq Ports
    /\ ports \subseteq Ports

\* The ranges are sorted and none is empty, and between two of them there is
\* a port that is in neither: whatever the order of the calls of port_range(),
\* overlapping and adjacent ranges have become one, so that no place of
\* _M_portranges is wasted.
Canonical ==
    /\ \A n \in 1 .. Len(ranges) : ranges[n].from <= ranges[n].to
    /\ \A n \in 2 .. Len(ranges) : ranges[n - 1].to + 1 < ranges[n].from

\* The ranges hold the ports of the calls that returned true, no others, after
\* any sequence of calls of port_range().
Exact == ports = UNION {PortsOf(ranges[n]) : n \in 1 .. Len(ranges)}

\* port_range() refuses ports only when the ports so far and they make up more
\* ranges than there are places for: it never wastes the place that a merge
\* would free.
RefusesOnlyWhenFull ==
    ~result => asked = {} \/ Runs(ports \cup asked) > MaxPortRanges

\* The sender forbids to fragment the packet: it is whole.
DontFragment == 16384

\* What the filter is for: the whole UDP datagrams of an enabled family, in
\* packets long enough for their headers, to one of the ports, or to any port
\* if there are none.
Wanted(packet) ==
    /\ packet.proto = ProtoUDP
    /\ \/ /\ "ipv4" \in families
          /\ packet.type = EtherTypeIPv4
          /\ packet.len >= MinLenIPv4
          /\ packet.frag \in {0, DontFragment}
       \/ /\ "ipv6" \in families
          /\ packet.type = EtherTypeIPv6
          /\ packet.len >= MinLenIPv6
    /\ ports = {} \/ packet.port \in ports

\* The program that compile() hands out accepts the packets that are wanted
\* and no others: its jumps, patched when the program is complete, land where
\* they should whatever the number and the form of the port ranges, for one
\* family and for both.
FilterExact ==
    filters # <<>> =>
        \A packet \in Packets : Accepts(filters, packet) <=> Wanted(packet)
=============================================================================
