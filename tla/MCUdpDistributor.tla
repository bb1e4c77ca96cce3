-------------------------- MODULE MCUdpDistributor --------------------------
(***************************************************************************)
(* UdpDistributor for TLC: small command lines and datagrams.              *)
(***************************************************************************)
EXTENDS UdpDistributor

Dst(interface, af) == [interface |-> interface, af |-> af]

CommandLine(type, n, ifs, dests) ==
    [type |-> type, nworkers |-> n, interfaces |-> ifs, dests |-> dests]

\* Three destinations of both families over two interfaces, one of which is
\* defined twice; and fewer destinations than workers.
Mixed == <<Dst("eth1", "ipv4"), Dst("eth2", "ipv6"), Dst("eth1", "ipv4")>>

ControlArgs ==
    {CommandLine(type, n, <<"eth1", "eth2", "eth1">>, Mixed) :
         type \in Types, n \in {2, 3}}
        \cup {CommandLine(type, 2, <<"eth1">>, <<Dst("eth1", "ipv4")>>) :
                  type \in Types}

\* Destinations of one family only.
DataDests == <<Dst("eth1", "ipv4"), Dst("eth1", "ipv4"), Dst("eth1", "ipv4")>>

DataArgs ==
    {CommandLine(type, n, <<"eth1">>, DataDests) :
         type \in Types, n \in {1, 2}}

TwoWorkers == {CommandLine("load_balancer", 2, <<"eth1">>, DataDests)}

MixedArgs == {CommandLine("load_balancer", 2, <<"eth1", "eth2">>, Mixed)}

OneWorker ==
    {CommandLine("broadcaster", 1, <<"eth1">>, <<Dst("eth1", "ipv4")>>)}

IPv4 == {[af |-> "ipv4", padded |-> FALSE]}

BothFamilies == {[af |-> f, padded |-> FALSE] : f \in Families}

Lengths == {[af |-> "ipv4", padded |-> b] : b \in BOOLEAN}
=============================================================================
