------------------------------ MODULE MCTxRing ------------------------------
(***************************************************************************)
(* TxRing for TLC: send() of any packet and sendmmsg() of small batches.   *)
(***************************************************************************)
EXTENDS TxRing, SequencesExt

CONSTANTS
    Jumbo,      \* the packets that are longer than a frame
    MaxBatch    \* bound: packets in a batch

\* A jumbo packet reaches into the next frame.
Reaches == [p \in Packets |-> IF p \in Jumbo THEN 2 ELSE 1]

SendsOf(ps) == {<<"send", <<p>>>> : p \in ps}

BatchesOf(ps, n) == {<<"sendmmsg", batch>> : batch \in SeqOf(ps, n)}

\* Just send(), for any version.
Sends == [v \in Versions |-> SendsOf(Packets)]

Fitting == Packets \ Jumbo

\* The versions share the bounds out between them.  V1, which works as V2 does:
\* send() of jumbo packets too.  V2: long batches of packets that fit.  V3, which
\* has many more states: batches of up to two, without the empty one, since a
\* worker that calls sendmmsg() for nothing forever would not come round to a
\* frame in error.
AllCalls ==
    [v \in Versions |->
        CASE v = "V1" -> SendsOf(Packets \ (Refused \ Jumbo))
          [] v = "V2" -> SendsOf(Fitting) \cup BatchesOf(Fitting, MaxBatch)
          [] v = "V3" -> SendsOf(Fitting) \cup
                             (BatchesOf(Fitting, 2) \ {<<"sendmmsg", <<>>>>})]
=============================================================================
