------------------------------- MODULE TxRing -------------------------------
(***************************************************************************)
(* The transmit half of net::ring_buffer (ring_buffer.cpp, ring_buffer.h): *)
(* a ring of frames shared by one worker thread, which fills frames and    *)
(* calls sendto(), and the kernel, which takes them in ring order from its *)
(* own head and hands them back when the device is done with them.         *)
(*                                                                         *)
(* send() and sendv() differ only in how the bytes of the packet are       *)
(* copied, and the V1, V2 and V3 variants only in the frame header and in  *)
(* whether PACKET_LOSS is set on the socket, so one set of actions stands  *)
(* for them: a call is <<op, pkts>> with op "send" (one packet, retried    *)
(* once after a poll) or "sendmmsg" (a batch, polled for every full frame).*)
(*                                                                         *)
(* The kernel side is external.  It is modelled from what the worker may   *)
(* rely on: frames are taken one by one from head while the device is      *)
(* ready, sendto() fails while it is not and leaves the frames as they     *)
(* are, and frames being sent are released in any order.                   *)
(*                                                                         *)
(* The copy into a frame is not bounded by the frame (2048 bytes, while a  *)
(* datagram may fill a 16 KB block of the RX ring).  The bytes of a longer *)
(* packet run into the frames behind, status words included, or past the   *)
(* end of the mapping (Overrun, Fault).  spilt remembers that this has     *)
(* happened: it is no variable of the code.                                *)
(***************************************************************************)
EXTENDS Naturals, Sequences, FiniteSets

CONSTANTS
    NFrames,    \* _M_nframes
    Packets,    \* packets a worker sends
    NoPacket,   \* the contents of a frame that was never filled
    Extent,     \* how many frames the bytes of each packet reach into
    Refused,    \* the packets the kernel will not send (too long, ...)
    Versions,   \* TPACKET_V1, TPACKET_V2, TPACKET_V3: those of the rings
    Errnos,     \* what sendto() sets errno to when it fails
    Calls       \* for each version the calls <<op, pkts>> that a worker makes

ASSUME NFramesAssumption == NFrames \in Nat \ {0}

ASSUME NoPacketAssumption == NoPacket \notin Packets

ASSUME RefusedAssumption == Refused \subseteq Packets

\* A packet that does not fit in a frame is too long for the kernel as well.
ASSUME ExtentAssumption ==
    /\ Extent \in [Packets -> Nat \ {0}]
    /\ \A p \in Packets : Extent[p] > 1 => p \in Refused

ASSUME VersionsAssumption == Versions \subseteq {"V1", "V2", "V3"}

\* A blocking socket with no SO_SNDTIMEO never fails with EAGAIN: the retry of
\* send() is sound only because of this.
ASSUME ErrnosAssumption == "EAGAIN" \notin Errnos

ASSUME CallsAssumption ==
    \A v \in Versions :
        \A c \in Calls[v] : /\ c \in {"send", "sendmmsg"} \X Seq(Packets)
                            /\ c[1] = "send" => Len(c[2]) = 1

VARIABLES
    version,    \* the TPACKET version of the ring
    status,     \* tp_status of each frame
    data,       \* the packet in each frame
    txIdx,      \* _M_tx_idx, the next frame the worker fills
    head,       \* the next frame the kernel looks at
    held,       \* the frames that the device is not done with
    ready,      \* the device is up and takes packets
    pc,         \* where the worker is
    op,         \* the call in progress: "send" or "sendmmsg"
    pkts,       \* ... its packets
    i,          \* ... how many of them are in the ring
    retried,    \* ... send() is in its second attempt
    result,     \* what the last call returned
    spilt       \* some packet has been written beyond its frame

ring == <<status, data, txIdx>>
kernel == <<head, held, ready>>
call == <<op, pkts, i, retried>>
vars == <<version, ring, kernel, pc, call, result, spilt>>

Frames == 0 .. NFrames - 1

Statuses == {"available", "send_request", "sending", "wrong_format"}

Succ(f) == (f + 1) % NFrames

\* Mutant: a frame with an error in its status is not taken back.
FreeIfAvailable(f) == status[f] = "available"

\* A frame the worker may fill: neither waiting for the kernel nor held by it.
Free(f) == status[f] \notin {"send_request", "sending"}

\* Mutant: PACKET_LOSS is never asked for.
DiscardPacketLossNever == FALSE

\* PACKET_LOSS: the kernel skips the packets that it cannot send, where it
\* would otherwise stop at them.  setup_ring() asks for it only before V3.
DiscardPacketLoss == version # "V3"

Init ==
    /\ version \in Versions
    /\ status = [f \in Frames |-> "available"]
    /\ data = [f \in Frames |-> NoPacket]
    /\ txIdx = 0
    /\ head = 0
    /\ held = {}
    /\ ready = TRUE
    /\ pc = "idle"
    /\ op = "send"
    /\ pkts = <<>>
    /\ i = 0
    /\ retried = FALSE
    /\ result = TRUE
    /\ spilt = FALSE

-----------------------------------------------------------------------------
(* The worker.                                                             *)

Return(ok) ==
    /\ pc' = "idle"
    /\ result' = ok

\* Mutant: the loop of sendmmsg() does not start at its first packet.
CallWithoutReset(c) ==
    /\ pc = "idle"
    /\ op' = c[1]
    /\ pkts' = c[2]
    /\ retried' = FALSE
    /\ pc' = IF c[2] = <<>> THEN "sendto" ELSE "place"
    /\ UNCHANGED <<version, ring, kernel, i, result, spilt>>

Call(c) ==
    /\ pc = "idle"
    /\ op' = c[1]
    /\ pkts' = c[2]
    /\ i' = 0
    /\ retried' = FALSE
    /\ pc' = IF c[2] = <<>> THEN "sendto" ELSE "place"
    /\ UNCHANGED <<version, ring, kernel, result, spilt>>

\* The packet to be copied next.
Packet == pkts[i + 1]

\* The frame has been filled: on to the next packet or, after the last one, to
\* sendto().
MoveOn ==
    /\ txIdx' = Succ(txIdx)
    /\ i' = i + 1
    /\ pc' = IF i + 1 = Len(pkts) THEN "sendto" ELSE "place"

\* The frame is free: copy the packet, mark it as ready to be sent, move on.
Place ==
    /\ pc = "place"
    /\ Free(txIdx)
    /\ Extent[Packet] = 1
    /\ data' = [data EXCEPT ![txIdx] = Packet]
    /\ status' = [status EXCEPT ![txIdx] = "send_request"]
    /\ MoveOn
    /\ UNCHANGED <<version, kernel, op, pkts, retried, result, spilt>>

\* The frames of the ring that the packet reaches into besides its own.
Behind == {f \in Frames : txIdx < f /\ f < txIdx + Extent[Packet]}

\* The same for a packet that does not fit: its bytes become the status words
\* and the packets of the frames behind: a word that reads as one of three
\* statuses (to both sides one with an error is as good as an available one),
\* and what the kernel takes for a packet, as long as Packet or short enough to
\* be sent.  What is past the last frame is not part of the ring.
Overrun ==
    /\ pc = "place"
    /\ Free(txIdx)
    /\ Extent[Packet] > 1
    /\ \E words \in [Behind -> Statuses \ {"wrong_format"}],
          bytes \in [Behind -> {NoPacket, Packet}] :
           /\ data' = [f \in Frames |-> IF f = txIdx THEN Packet
                                       ELSE IF f \in Behind THEN bytes[f]
                                       ELSE data[f]]
           /\ status' = [f \in Frames |-> IF f = txIdx THEN "send_request"
                                         ELSE IF f \in Behind THEN words[f]
                                         ELSE status[f]]
    /\ spilt' = TRUE
    /\ MoveOn
    /\ UNCHANGED <<version, kernel, op, pkts, retried, result>>

\* Past the end of the mapping there may also be nothing to write to: the
\* process is killed.
Fault ==
    /\ pc = "place"
    /\ Free(txIdx)
    /\ txIdx + Extent[Packet] > NFrames
    /\ pc' = "killed"
    /\ spilt' = TRUE
    /\ UNCHANGED <<version, ring, kernel, call, result>>

\* Mutant: send() waits as often as poll() lets it.
WaitWritableAgain ==
    /\ pc = "place"
    /\ ~Free(txIdx)
    /\ pc' = "poll"
    /\ UNCHANGED <<version, ring, kernel, call, result, spilt>>

\* The frame is not free (errno = EAGAIN): wait for POLLOUT, but send() waits
\* only once.
WaitWritable ==
    /\ pc = "place"
    /\ ~Free(txIdx)
    /\ op = "send" => ~retried
    /\ pc' = "poll"
    /\ UNCHANGED <<version, ring, kernel, call, result, spilt>>

GiveUp ==
    /\ pc = "place"
    /\ ~Free(txIdx)
    /\ op = "send"
    /\ retried
    /\ Return(FALSE)
    /\ UNCHANGED <<version, ring, kernel, call, spilt>>

\* poll() may report POLLOUT with the ring full: it also reports that the
\* socket itself is writable, and POLLERR.
PollReady ==
    /\ pc = "poll"
    /\ pc' = "place"
    /\ retried' = (op = "send")
    /\ UNCHANGED <<version, ring, kernel, op, pkts, i, result, spilt>>

PollTimeout ==
    /\ pc = "poll"
    /\ Return(FALSE)
    /\ UNCHANGED <<version, ring, kernel, call, spilt>>

\* sendto() returned.
SendtoReturns ==
    /\ pc = "sendto"
    /\ status[head] # "send_request"
    /\ Return(TRUE)
    /\ UNCHANGED <<version, ring, kernel, call, spilt>>

\* Mutant: send() tries again whatever the error.
RetryAfterAny(errno) == op = "send" /\ ~retried

\* Whether send() tries the whole packet again after a sendto() that failed.
RetryAfter(errno) == op = "send" /\ ~retried /\ errno = "EAGAIN"

\* Mutant: what sendto() returned is not looked at.
SendtoFailedIgnored(errno) == Return(TRUE) /\ UNCHANGED call

SendtoFailed(errno) ==
    IF RetryAfter(errno)
    THEN /\ pc' = "poll"
         /\ i' = 0
         /\ UNCHANGED <<op, pkts, retried, result>>
    ELSE /\ Return(FALSE)
         /\ UNCHANGED call

-----------------------------------------------------------------------------
(* The kernel, during sendto() and after it.                               *)

\* The device is down or its queue is full (ENETDOWN, ENOBUFS): nothing moves.
SendtoFails(errno) ==
    /\ pc = "sendto"
    /\ ~ready
    /\ SendtoFailed(errno)
    /\ UNCHANGED <<version, ring, kernel, spilt>>

KernelTransmit ==
    /\ pc = "sendto"
    /\ ready
    /\ status[head] = "send_request"
    /\ data[head] \notin Refused
    /\ status' = [status EXCEPT ![head] = "sending"]
    /\ held' = held \cup {head}
    /\ head' = Succ(head)
    /\ UNCHANGED <<version, data, txIdx, ready, pc, call, result, spilt>>

\* A packet the kernel will not send: skipped with PACKET_LOSS, ...
KernelDiscard ==
    /\ pc = "sendto"
    /\ ready
    /\ status[head] = "send_request"
    /\ data[head] \in Refused
    /\ DiscardPacketLoss
    /\ status' = [status EXCEPT ![head] = "available"]
    /\ head' = Succ(head)
    /\ UNCHANGED <<version, data, txIdx, held, ready, pc, call, result, spilt>>

\* ... and the end of sendto() without it, the head left on the bad frame.
KernelReject(errno) ==
    /\ pc = "sendto"
    /\ ready
    /\ status[head] = "send_request"
    /\ data[head] \in Refused
    /\ ~DiscardPacketLoss
    /\ status' = [status EXCEPT ![head] = "wrong_format"]
    /\ SendtoFailed(errno)
    /\ UNCHANGED <<version, data, txIdx, kernel, spilt>>

\* The device is done with a frame, whatever its status word says by now.
Complete(f) ==
    /\ f \in held
    /\ held' = held \ {f}
    /\ status' = [status EXCEPT ![f] = "available"]
    /\ UNCHANGED <<version, data, txIdx, head, ready, pc, call, result, spilt>>

\* The device goes down, or its queue fills up; it comes back.
DeviceChange ==
    /\ ready' = ~ready
    /\ UNCHANGED <<version, ring, head, held, pc, call, result, spilt>>

-----------------------------------------------------------------------------
WorkerStep ==
    \/ Place \/ Overrun \/ Fault
    \/ WaitWritable \/ GiveUp
    \/ PollReady \/ PollTimeout

KernelStep ==
    \/ SendtoReturns
    \/ \E errno \in Errnos : SendtoFails(errno) \/ KernelReject(errno)
    \/ KernelTransmit
    \/ KernelDiscard

Next ==
    \/ \E c \in Calls[version] : Call(c)
    \/ WorkerStep
    \/ KernelStep
    \/ \E f \in Frames : Complete(f)
    \/ DeviceChange

Spec == Init /\ [][Next]_vars

\* The worker thread runs, a system call in progress ends, the device
\* completes what it was given, and packets keep coming.  Nothing is assumed
\* of DeviceChange.
Fairness ==
    /\ WF_vars(WorkerStep)
    /\ WF_vars(KernelStep)
    /\ \A f \in Frames : WF_vars(Complete(f))
    /\ WF_vars(\E c \in Calls[version] : Call(c))

FairSpec == Spec /\ Fairness

-----------------------------------------------------------------------------
(* Safety.                                                                 *)

\* The rings of which more than types is promised.  The program transmits with
\* TPACKET_V2.
Discards == version # "V3"

Waiting == {f \in Frames : status[f] = "send_request"}

Sending == {f \in Frames : status[f] = "sending"}

\* Every variable keeps its type; in particular a call never sends more than
\* its packets and a sendto() is only made once all of them are in the ring.
\* As long as every packet has stayed in its frame, the status words tell which
\* frames the device has.
TypeOK ==
    /\ version \in Versions
    /\ status \in [Frames -> Statuses]
    /\ data \in [Frames -> Packets \cup {NoPacket}]
    /\ txIdx \in Frames
    /\ head \in Frames
    /\ held \in SUBSET Frames
    /\ ready \in BOOLEAN
    /\ pc \in {"idle", "place", "poll", "sendto", "killed"}
    /\ op \in {"send", "sendmmsg"}
    /\ pkts \in Seq(Packets)
    /\ i \in 0 .. Len(pkts)
    /\ retried \in BOOLEAN
    /\ result \in BOOLEAN
    /\ spilt \in BOOLEAN
    /\ pc \in {"place", "poll"} => i < Len(pkts)
    /\ pc = "sendto" => i = Len(pkts)
    /\ ~spilt => held = Sending

\* How far f is from head, in the order in which the kernel takes frames.
Distance(f) == IF f >= head THEN f - head ELSE f - head + NFrames

\* The n frames from head on wait for the kernel, no others do, and the worker
\* fills next the frame behind them.
WaitingAre(n) ==
    /\ txIdx = (head + n) % NFrames
    /\ \A f \in Frames : status[f] = "send_request" <=> Distance(f) < n

InWindow == \E n \in 0 .. NFrames : WaitingAre(n)

\* The two indexes never lose each other: whatever the calls, the failed
\* sendto()s and the order of the completions, the frames that wait are
\* contiguous, start at the kernel's head and end at _M_tx_idx.  This is what
\* makes the worker's order the kernel's, and a stuck frame impossible to skip.
\* It lasts until a packet is written beyond its frame.
Window == Discards /\ ~spilt => InWindow

\* A call that returned true left no packet behind, of its own or of an
\* earlier call whose sendto() failed: one sendto() flushes them all (again
\* until a packet is written beyond its frame).
TrueMeansFlushed ==
    Discards /\ ~spilt /\ pc = "idle" /\ result => Waiting = {}

\* No frame that waits or is being sent is written to: the copy is behind the
\* test "If there is a packet available..." (ring_buffer.cpp:617).  The code
\* does not keep it for packets that are longer than a frame.
WritesOnlyFree ==
    [][WorkerStep => \A f \in Waiting \cup Sending :
                         UNCHANGED <<status[f], data[f]>>]_vars

-----------------------------------------------------------------------------
(* Refinement: the ring is a bounded FIFO.                                 *)

Batches == UNION {{c[2] : c \in Calls[v]} : v \in Versions}

\* The ring read as a queue.  A V3 ring, which stops at a packet it refuses, is
\* not claimed to be one: it is mapped to a queue where nothing happens.
Queue ==
    IF Discards
    THEN [k \in 1 .. Cardinality(Waiting) |-> data[(head + k - 1) % NFrames]]
    ELSE <<>>

InFlight == IF Discards THEN Cardinality(Sending) ELSE 0

Todo ==
    IF Discards /\ pc # "idle" THEN SubSeq(pkts, i + 1, Len(pkts)) ELSE <<>>

Busy == Discards /\ pc # "idle"

Answer == Discards => result

Abstract == INSTANCE TxQueue WITH
    Capacity <- NFrames, Batches <- Batches,
    queue <- Queue, inflight <- InFlight, todo <- Todo, busy <- Busy,
    result <- Answer

\* Every packet of a call enters the ring at most once and in order, a retry
\* included, leaves it in that order, and no frame is overwritten before:
\* every step is one of the queue's until a packet is written beyond its
\* frame, after which nothing is claimed.
ImplementsTxQueue ==
    Abstract!Init /\ [][Abstract!Next \/ spilt']_(Abstract!vars)

-----------------------------------------------------------------------------
(* Liveness.                                                               *)

\* send() returns, with the ring full and the device down too: it waits once.
\* (sendmmsg() does not promise this: it polls for as long as poll() answers.)
SendReturns == (op = "send" /\ pc # "idle") ~> (pc \in {"idle", "killed"})

\* The worker fills next a frame that waits: no call gets to its sendto().
Wedged == txIdx \in Waiting

\* If the device stays ready, calls keep coming and every packet fits in its
\* frame, a frame marked as ready to be sent is taken by the kernel, unless the
\* ring is wedged.  A V3 ring gets there too, where the kernel stops at a packet
\* that it refuses and calls return true that have sent nothing: the frames
\* behind it wait until the worker has come round to the one in error and fills
\* it again.
FlushedUnlessWedged ==
    <>[]ready /\ []~spilt =>
        \A f \in Frames : f \in Waiting ~> (f \notin Waiting \/ Wedged)

\* The same without the exception, as the comment "Mark packet as ready to be
\* sent" has it (ring_buffer.cpp:637).  The code does not keep it.
Flushed ==
    <>[]ready => \A f \in Frames : f \in Waiting ~> f \notin Waiting
=============================================================================
