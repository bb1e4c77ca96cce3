---------------------------- MODULE PacketStream ----------------------------
(***************************************************************************)
(* What an RX ring promises its worker, without blocks, indexes or polls:  *)
(* the packets that the kernel stored reach the callback in the order in   *)
(* which they were stored, each once, in batches of at most MaxPkts.  What *)
(* the kernel does not store is lost before the stream begins.             *)
(***************************************************************************)
EXTENDS Naturals, Sequences

CONSTANTS
    Packets,    \* the packets
    MaxPkts     \* the longest batch

VARIABLES
    stored,     \* packets stored and not yet handed to the callback
    last        \* the last batch handed to the callback

vars == <<stored, last>>

Init == stored = <<>> /\ last = <<>>

Store(p) ==
    /\ stored' = Append(stored, p)
    /\ UNCHANGED last

Deliver(n) ==
    /\ last' = SubSeq(stored, 1, n)
    /\ stored' = SubSeq(stored, n + 1, Len(stored))

Next ==
    \/ \E p \in Packets : Store(p)
    \/ \E n \in 1 .. MaxPkts : n <= Len(stored) /\ Deliver(n)

Spec == Init /\ [][Next]_vars
=============================================================================
