------------------------------- MODULE RxRing -------------------------------
(***************************************************************************)
(* The receive half of net::ring_buffer (ring_buffer.cpp, ring_buffer.h)   *)
(* for TPACKET_V3, the version the program receives with: a ring of blocks *)
(* shared by the kernel, which fills one block at a time and hands it over *)
(* when it is full or its timer fires, and one worker thread, which hands  *)
(* the packets of a block to the callback, in batches, and gives the block *)
(* back.                                                                   *)
(*                                                                         *)
(* recv_v1() and recv_v2() are the instance BlockCap = MaxPkts = 1: a      *)
(* frame is a block of one packet, handed to the callback by itself.       *)
(*                                                                         *)
(* The kernel side is external, and modelled from what recv_v3() relies    *)
(* on: packets are stored in arrival order, a block that is handed over    *)
(* has at least one packet and does not change until it is given back, and *)
(* blocks are used in ring order.  When the next block in that order is    *)
(* still the worker's, the kernel freezes and packets are lost.            *)
(***************************************************************************)
EXTENDS Naturals, Sequences

CONSTANTS
    NBlocks,    \* _M_count
    BlockCap,   \* packets that fit in a block
    MaxPkts,    \* max_pkts, the size of the array that recv_v3() fills
    Packets     \* the packets

ASSUME NBlocksAssumption == NBlocks \in Nat \ {0}

ASSUME BlockCapAssumption == BlockCap \in Nat \ {0}

ASSUME MaxPktsAssumption == MaxPkts \in Nat \ {0}

VARIABLES
    status,     \* block_status of each block: "kernel" or "user"
    block,      \* the packets of each block
    current,    \* the kernel's block, the one it fills
    frozen,     \* ... it has none to fill: the worker has not given it back
    rxIdx,      \* _M_rx_idx, the block the worker looks at
    pc,         \* where the worker is
    polled,     \* ... recv() is in its second attempt
    done,       \* ... packets of the block that are in pkts, or were
    pkts,       \* ... the batch being collected
    last        \* the batch of the last call of the callback

kernel == <<current, frozen>>
local == <<polled, done, pkts>>
vars == <<status, block, kernel, rxIdx, pc, local, last>>

Blocks == 0 .. NBlocks - 1

Succ(b) == (b + 1) % NBlocks

Init ==
    /\ status = [b \in Blocks |-> "kernel"]
    /\ block = [b \in Blocks |-> <<>>]
    /\ current = 0
    /\ frozen = FALSE
    /\ rxIdx = 0
    /\ pc = "idle"
    /\ polled = FALSE
    /\ done = 0
    /\ pkts = <<>>
    /\ last = <<>>

-----------------------------------------------------------------------------
(* The worker.                                                             *)

\* worker::run() calls recv() again and again.
Recv ==
    /\ pc = "idle"
    /\ pc' = "look"
    /\ polled' = FALSE
    /\ UNCHANGED <<status, block, kernel, rxIdx, done, pkts, last>>

\* Mutant: the block is given back before its packets are read.
NewBlockGivenBack ==
    /\ pc = "look"
    /\ status[rxIdx] = "user"
    /\ status' = [status EXCEPT ![rxIdx] = "kernel"]
    /\ pc' = "collect"
    /\ done' = 0
    /\ pkts' = <<>>
    /\ UNCHANGED <<block, kernel, rxIdx, polled, last>>

\* There is a new block.
NewBlock ==
    /\ pc = "look"
    /\ status[rxIdx] = "user"
    /\ pc' = "collect"
    /\ done' = 0
    /\ pkts' = <<>>
    /\ UNCHANGED <<status, block, kernel, rxIdx, polled, last>>

\* There is none: poll(), the first time.
NoBlock ==
    /\ pc = "look"
    /\ status[rxIdx] = "kernel"
    /\ pc' = IF polled THEN "idle" ELSE "poll"
    /\ UNCHANGED <<status, block, kernel, rxIdx, local, last>>

\* poll() may also answer without a block: it reports POLLERR.
PollReady ==
    /\ pc = "poll"
    /\ pc' = "look"
    /\ polled' = TRUE
    /\ UNCHANGED <<status, block, kernel, rxIdx, done, pkts, last>>

PollTimeout ==
    /\ pc = "poll"
    /\ pc' = "idle"
    /\ UNCHANGED <<status, block, kernel, rxIdx, local, last>>

\* Mutant: one packet too many.
FullTooLate == Len(pkts) > MaxPkts

\* The array is full.
Full == Len(pkts) = MaxPkts

\* The next packet of the block goes into the array; if that is full, its
\* packets go to the callback first.
Collect ==
    /\ pc = "collect"
    /\ done < Len(block[rxIdx])
    /\ LET p == block[rxIdx][done + 1]
       IN  IF Full
           THEN pkts' = <<p>> /\ last' = pkts
           ELSE pkts' = Append(pkts, p) /\ UNCHANGED last
    /\ done' = done + 1
    /\ UNCHANGED <<status, block, kernel, rxIdx, pc, polled>>

\* Mutant: what is left in the array is not handed over.
FlushNothing ==
    /\ pc = "collect"
    /\ done = Len(block[rxIdx])
    /\ pc' = "release"
    /\ UNCHANGED <<status, block, kernel, rxIdx, local, last>>

\* After the last packet: what is left goes to the callback, ...
Flush ==
    /\ pc = "collect"
    /\ done = Len(block[rxIdx])
    /\ last' = pkts
    /\ pc' = "release"
    /\ UNCHANGED <<status, block, kernel, rxIdx, local>>

\* Mutant: _M_rx_idx does not move on.
ReleaseWithoutAdvance ==
    /\ pc = "release"
    /\ status' = [status EXCEPT ![rxIdx] = "kernel"]
    /\ pc' = "idle"
    /\ UNCHANGED <<block, kernel, rxIdx, local, last>>

\* Mutant: the block is not given back.
ReleaseWithoutStatus ==
    /\ pc = "release"
    /\ rxIdx' = Succ(rxIdx)
    /\ pc' = "idle"
    /\ UNCHANGED <<status, block, kernel, local, last>>

\* ... and only then the block goes back to the kernel.
Release ==
    /\ pc = "release"
    /\ status' = [status EXCEPT ![rxIdx] = "kernel"]
    /\ rxIdx' = Succ(rxIdx)
    /\ pc' = "idle"
    /\ UNCHANGED <<block, kernel, local, last>>

-----------------------------------------------------------------------------
(* The kernel.                                                             *)

Store(p) ==
    /\ ~frozen
    /\ Len(block[current]) < BlockCap
    /\ block' = [block EXCEPT ![current] = Append(@, p)]
    /\ UNCHANGED <<status, kernel, rxIdx, pc, local, last>>

\* The block is full, or its timer fires: it is handed over and the next one
\* is opened, if it is the kernel's.
Retire ==
    /\ ~frozen
    /\ block[current] # <<>>
    /\ LET then == Succ(current)
       IN  /\ status' = [status EXCEPT ![current] = "user"]
           /\ current' = then
           /\ IF status'[then] = "kernel"
              THEN block' = [block EXCEPT ![then] = <<>>] /\ UNCHANGED frozen
              ELSE frozen' = TRUE /\ UNCHANGED block
    /\ UNCHANGED <<rxIdx, pc, local, last>>

\* The worker has given back the block the kernel is waiting for.
Thaw ==
    /\ frozen
    /\ status[current] = "kernel"
    /\ frozen' = FALSE
    /\ block' = [block EXCEPT ![current] = <<>>]
    /\ UNCHANGED <<status, current, rxIdx, pc, local, last>>

-----------------------------------------------------------------------------
WorkerStep ==
    \/ Recv
    \/ NewBlock
    \/ NoBlock
    \/ PollReady
    \/ PollTimeout
    \/ Collect
    \/ Flush
    \/ Release

Next ==
    \/ WorkerStep
    \/ \E p \in Packets : Store(p)
    \/ Retire
    \/ Thaw

Spec == Init /\ [][Next]_vars

\* The worker's thread runs, and the kernel's timer fires.  Nothing is assumed
\* of the packets.
Fairness == WF_vars(WorkerStep) /\ WF_vars(Retire) /\ WF_vars(Thaw)

FairSpec == Spec /\ Fairness

-----------------------------------------------------------------------------
(* Safety.                                                                 *)

IndexesOK ==
    /\ status \in [Blocks -> {"kernel", "user"}]
    /\ current \in Blocks
    /\ frozen \in BOOLEAN
    /\ rxIdx \in Blocks
    /\ pc \in {"idle", "look", "poll", "collect", "release"}
    /\ polled \in BOOLEAN

BlocksOK ==
    /\ block \in [Blocks -> Seq(Packets)]
    /\ \A b \in Blocks : Len(block[b]) <= BlockCap

BatchOK ==
    /\ done \in Nat
    /\ pkts \in Seq(Packets)
    /\ Len(pkts) <= MaxPkts
    /\ last \in Seq(Packets)

\* Every variable keeps its type; in particular the array of recv_v3() never
\* overflows.
TypeOK == IndexesOK /\ BlocksOK /\ BatchOK

Distance(b) == IF b >= rxIdx THEN b - rxIdx ELSE b - rxIdx + NBlocks

\* The n blocks from _M_rx_idx on are the worker's, no others are, and the
\* kernel's next block is the one behind them.
UserBlocksAre(n) ==
    /\ current = (rxIdx + n) % NBlocks
    /\ \A b \in Blocks : status[b] = "user" <=> Distance(b) < n

\* The worker and the kernel never lose each other, whenever the ring freezes
\* and thaws: the worker looks at the oldest block that was handed over, and
\* the kernel has a block to fill unless it is frozen.
InStep ==
    \E n \in 0 .. NBlocks : UserBlocksAre(n) /\ (n = NBlocks => frozen)

\* A block that is being read is the worker's until its packets have all been
\* handed to the callback.
ReadsOwnBlock ==
    pc \in {"collect", "release"} =>
        /\ status[rxIdx] = "user"
        /\ Len(pkts) <= done
        /\ pkts = SubSeq(block[rxIdx], done - Len(pkts) + 1, done)
        /\ pc = "release" => last = pkts /\ done = Len(block[rxIdx])

-----------------------------------------------------------------------------
(* Refinement: the ring is a stream.                                       *)

\* What is left of a block: packets stored in it and not handed over.
Rest(b) ==
    CASE pc = "collect" /\ b = rxIdx ->
             SubSeq(block[b], done - Len(pkts) + 1, Len(block[b]))
      [] pc = "release" /\ b = rxIdx -> <<>>
      [] OTHER -> block[b]

\* The blocks that hold packets, from the oldest on: the worker's, and the one
\* that the kernel is filling.
Holding ==
    {b \in Blocks : status[b] = "user" \/ (b = current /\ ~frozen)}

Left(b) == IF b \in Holding THEN Rest(b) ELSE <<>>

Stored[n \in 0 .. NBlocks] ==
    IF n = 0 THEN <<>>
    ELSE Stored[n - 1] \o Left((rxIdx + n - 1) % NBlocks)

Abstract == INSTANCE PacketStream WITH stored <- Stored[NBlocks]

\* No packet that was stored is lost, duplicated or overtaken on its way to
\* the callback, over block and batch boundaries and while the ring freezes.
ImplementsPacketStream == Abstract!Spec

-----------------------------------------------------------------------------
(* Liveness.                                                               *)

\* Every block that is handed over comes back to the kernel.
BlocksReturn ==
    \A b \in Blocks : status[b] = "user" ~> status[b] = "kernel"

\* A ring that freezes because it is full does not stay frozen.
Thaws == frozen ~> ~frozen
=============================================================================
