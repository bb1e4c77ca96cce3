---------------------------- MODULE TxRingProofs ----------------------------
(***************************************************************************)
(* The type invariant of TxRing and, for the versions that set PACKET_LOSS *)
(* (the ones the program transmits with), Window, TrueMeansFlushed and     *)
(* that the ring implements TxQueue, for every number of frames, set of    *)
(* packets and calls: until a packet is written beyond its frame, and      *)
(* without that exception if every packet fits in a frame.                 *)
(***************************************************************************)
EXTENDS TxRing, SequenceTheorems, FiniteSetTheorems, TLAPS

USE NFramesAssumption

(***************************************************************************)
(* The next frame, without the remainder: it wraps at the end of the ring  *)
(* (the index arithmetic of every send function of ring_buffer.cpp).       *)
(***************************************************************************)
LEMMA SuccIsNext ==
    ASSUME NEW f \in Frames
    PROVE  Succ(f) = IF f + 1 = NFrames THEN 0 ELSE f + 1
  BY DEF Succ, Frames

LEMMA SuccIsFrame ==
    ASSUME NEW f \in Frames
    PROVE  Succ(f) \in Frames
  BY SuccIsNext DEF Frames

\* What a worker sends has the types of a call.
LEMMA CallTyped ==
    ASSUME version \in Versions, NEW c \in Calls[version]
    PROVE  /\ c[1] \in {"send", "sendmmsg"}
           /\ c[2] \in Seq(Packets)
  BY CallsAssumption

\* A ring keeps its version.
LEMMA VersionUnchanged ==
    ASSUME [Next]_vars
    PROVE  version' = version
<1>1. CASE \E c \in Calls[version] : Call(c)
  BY <1>1 DEF Call
<1>2. CASE WorkerStep
  BY <1>2
  DEF WorkerStep, Place, Overrun, Fault, WaitWritable, GiveUp, PollReady,
      PollTimeout
<1>3. CASE KernelStep
  BY <1>3
  DEF KernelStep, SendtoReturns, SendtoFails, KernelReject, KernelTransmit,
      KernelDiscard
<1>4. CASE (\E f \in Frames : Complete(f)) \/ DeviceChange \/ UNCHANGED vars
  BY <1>4 DEF Complete, DeviceChange, vars
<1> QED
  BY <1>1, <1>2, <1>3, <1>4 DEF Next

\* What has been spilt stays so; only a packet that is too long spills.
LEMMA SpiltUnchanged ==
    ASSUME [Next]_vars
    PROVE  Overrun \/ Fault \/ spilt' = spilt
<1>1. CASE \E c \in Calls[version] : Call(c)
  BY <1>1, Zenon DEF Call
<1>2. CASE WorkerStep
  BY <1>2, Zenon
  DEF WorkerStep, Place, WaitWritable, GiveUp, PollReady, PollTimeout
<1>3. CASE KernelStep
  BY <1>3, Zenon
  DEF KernelStep, SendtoReturns, SendtoFails, KernelReject, KernelTransmit,
      KernelDiscard
<1>4. CASE (\E f \in Frames : Complete(f)) \/ DeviceChange \/ UNCHANGED vars
  BY <1>4, Zenon DEF Complete, DeviceChange, vars
<1> QED
  BY <1>1, <1>2, <1>3, <1>4, Zenon DEF Next

LEMMA SpiltStays ==
    ASSUME [Next]_vars, ~spilt'
    PROVE  ~spilt /\ ~Overrun /\ ~Fault
<1>1. ~Overrun
  BY Zenon DEF Overrun
<1>2. ~Fault
  BY Zenon DEF Fault
<1>3. spilt' = spilt
  BY <1>1, <1>2, SpiltUnchanged
<1> QED
  BY <1>1, <1>2, <1>3

\* A failed sendto() ends the call: what sends again is EAGAIN.
LEMMA NoRetry ==
    ASSUME NEW errno \in Errnos
    PROVE  SendtoFailed(errno) => Return(FALSE) /\ UNCHANGED call
  BY ErrnosAssumption DEF SendtoFailed, RetryAfter

-----------------------------------------------------------------------------
\* The status words tell which frames the device has until a packet is written
\* beyond its frame.
LEMMA HeldStaysSending ==
    ASSUME TypeOK, [Next]_vars, ~spilt'
    PROVE  held' = Sending'
<1>0. ~Overrun /\ ~Fault /\ held = Sending
  BY SpiltStays DEF TypeOK
<1> USE DEF TypeOK, Sending, Frames
<1>1. CASE \E c \in Calls[version] : Call(c)
  BY <1>0, <1>1 DEF Call, ring, kernel
<1>2. CASE Place
  BY <1>0, <1>2 DEF Place, Free, kernel
<1>3. CASE WaitWritable \/ GiveUp \/ PollReady \/ PollTimeout
  BY <1>0, <1>3 DEF WaitWritable, GiveUp, PollReady, PollTimeout, ring, kernel
<1>4. CASE SendtoReturns \/ \E errno \in Errnos : SendtoFails(errno)
  BY <1>0, <1>4 DEF SendtoReturns, SendtoFails, ring, kernel
<1>5. CASE KernelDiscard \/ \E errno \in Errnos : KernelReject(errno)
  BY <1>0, <1>5 DEF KernelDiscard, KernelReject, kernel
<1>6. CASE KernelTransmit
  BY <1>0, <1>6 DEF KernelTransmit
<1>7. CASE \E f \in Frames : Complete(f)
  BY <1>0, <1>7 DEF Complete
<1>8. CASE DeviceChange \/ UNCHANGED vars
  BY <1>0, <1>8 DEF DeviceChange, vars, ring, kernel
<1> QED
  BY <1>0, <1>1, <1>2, <1>3, <1>4, <1>5, <1>6, <1>7, <1>8
  DEF Next, WorkerStep, KernelStep

(***************************************************************************)
(* The variables keep their types, and a call never runs past its packets. *)
(***************************************************************************)
THEOREM TypeCorrect == Spec => []TypeOK
<1>1. Init => TypeOK
  <2> SUFFICES ASSUME Init PROVE TypeOK
    OBVIOUS
  <2>1. Sending = {}
    BY DEF Init, Sending
  <2> QED
    BY <2>1 DEF Init, TypeOK, Frames, Statuses
<1>2. TypeOK /\ [Next]_vars => TypeOK'
  <2> SUFFICES ASSUME TypeOK, [Next]_vars
               PROVE  TypeOK'
    OBVIOUS
  <2>0. ~spilt' => held' = Sending'
    BY HeldStaysSending
  <2> USE <2>0 DEF TypeOK
  <2>1. CASE \E c \in Calls[version] : Call(c)
    <3> PICK c \in Calls[version] : Call(c)
      BY <2>1
    <3>1. /\ Len(c[2]) \in Nat
          /\ c[2] # <<>> => 0 < Len(c[2])
          /\ c[2] = <<>> => Len(c[2]) = 0
      BY CallTyped
    <3>2. /\ op' \in {"send", "sendmmsg"}
          /\ pkts' \in Seq(Packets)
      BY CallTyped DEF Call
    <3>3. /\ i' \in 0 .. Len(pkts')
          /\ pc' \in {"place", "poll"} => i' < Len(pkts')
          /\ pc' = "sendto" => i' = Len(pkts')
      BY <3>1 DEF Call
    <3> QED
      BY <3>2, <3>3 DEF Call, ring, kernel
  <2>2. CASE Place \/ Overrun
    <3>1. Packet \in Packets
      BY <2>2 DEF Place, Overrun, Packet
    <3>2. status' \in [Frames -> Statuses]
      BY <2>2 DEF Place, Overrun, Statuses
    <3>3. data' \in [Frames -> Packets \cup {NoPacket}]
      BY <2>2, <3>1 DEF Place, Overrun
    <3>4. /\ held' \in SUBSET Frames
          /\ head' \in Frames
          /\ ready' \in BOOLEAN
          /\ spilt' \in BOOLEAN
      BY <2>2 DEF Place, Overrun, kernel
    <3>5. txIdx' \in Frames
      BY <2>2, SuccIsFrame DEF Place, Overrun, MoveOn
    <3>6. /\ i' \in 0 .. Len(pkts')
          /\ pc' \in {"place", "poll"} => i' < Len(pkts')
          /\ pc' = "sendto" => i' = Len(pkts')
      BY <2>2 DEF Place, Overrun, MoveOn
    <3> QED
      BY <2>2, <3>2, <3>3, <3>4, <3>5, <3>6 DEF Place, Overrun, MoveOn
  <2>3. CASE Fault \/ WaitWritable \/ GiveUp \/ PollReady \/ PollTimeout
    BY <2>3
    DEF Fault, WaitWritable, GiveUp, PollReady, PollTimeout, Return, ring,
        kernel, call
  <2>4. CASE SendtoReturns
    BY <2>4
    DEF SendtoReturns, Return, ring, kernel, call
  <2>5. CASE \E errno \in Errnos : SendtoFails(errno)
    BY <2>5, NoRetry
    DEF SendtoFails, Return, ring, kernel, call
  <2>6. CASE \E errno \in Errnos : KernelReject(errno)
    BY <2>6, NoRetry
    DEF KernelReject, Return, kernel, call, Statuses
  <2>7. CASE KernelTransmit \/ KernelDiscard
    BY <2>7, SuccIsFrame
    DEF KernelTransmit, KernelDiscard, Statuses, call
  <2>8. CASE \E f \in Frames : Complete(f)
    BY <2>8 DEF Complete, Statuses, call
  <2>9. CASE DeviceChange
    BY <2>9 DEF DeviceChange, ring, call
  <2>10. CASE UNCHANGED vars
    BY <2>10 DEF vars, ring, kernel, call
  <2> QED
    BY <2>1, <2>2, <2>3, <2>4, <2>5, <2>6, <2>7, <2>8, <2>9, <2>10
    DEF Next, WorkerStep, KernelStep
<1> QED
  BY <1>1, <1>2, PTL DEF Spec

-----------------------------------------------------------------------------
(***************************************************************************)
(* Frames counted from the kernel's head, without the remainder.           *)
(***************************************************************************)
LEMMA FrameAt ==
    ASSUME NEW h \in Frames, NEW n \in 0 .. NFrames
    PROVE  (h + n) % NFrames = IF h + n < NFrames THEN h + n
                                                  ELSE h + n - NFrames
  BY DEF Frames

LEMMA DistanceRange ==
    ASSUME head \in Frames, NEW f \in Frames
    PROVE  Distance(f) \in 0 .. NFrames - 1
  BY DEF Distance, Frames

\* The frame n behind head is at distance n, and it is the only one.
LEMMA DistanceOfFrameAt ==
    ASSUME head \in Frames, NEW n \in 0 .. NFrames - 1, NEW f \in Frames
    PROVE  Distance(f) = n <=> f = (head + n) % NFrames
<1>1. (head + n) % NFrames = IF head + n < NFrames THEN head + n
                                                   ELSE head + n - NFrames
  BY FrameAt
<1> QED
  BY <1>1 DEF Distance, Frames

\* When head moves on, every frame is one nearer, and the old head is the last.
LEMMA DistanceOnAdvance ==
    ASSUME head \in Frames, head' = Succ(head), NEW f \in Frames
    PROVE  Distance(f)' = IF f = head THEN NFrames - 1 ELSE Distance(f) - 1
<1>1. head' = IF head + 1 = NFrames THEN 0 ELSE head + 1
  BY SuccIsNext
<1> QED
  BY <1>1 DEF Distance, Frames

(***************************************************************************)
(* The worker fills the frame behind the window, which makes it longer;    *)
(* it cannot when every frame waits, because the frame it looks at does.   *)
(***************************************************************************)
LEMMA PlaceExtendsWindow ==
    ASSUME TypeOK, NEW n \in 0 .. NFrames, WaitingAre(n), Place
    PROVE  /\ n + 1 \in 0 .. NFrames
           /\ WaitingAre(n + 1)'
<1> USE DEF TypeOK
<1>1. WaitingAre(n)
  OBVIOUS
<1>2. n # NFrames
  <2> SUFFICES ASSUME n = NFrames PROVE FALSE
    OBVIOUS
  <2>1. Distance(txIdx) < n
    BY DistanceRange DEF Frames
  <2> QED
    BY <1>1, <2>1 DEF WaitingAre, Place, Free
<1>3. n \in 0 .. NFrames - 1 /\ n + 1 \in 0 .. NFrames
  BY <1>2
<1>4. \A f \in Frames : f = txIdx <=> Distance(f) = n
  BY <1>1, <1>3, DistanceOfFrameAt DEF WaitingAre
<1>5. txIdx' = (head' + (n + 1)) % NFrames'
  <2>1. txIdx' = IF txIdx + 1 = NFrames THEN 0 ELSE txIdx + 1
    BY SuccIsNext DEF Place, MoveOn
  <2>2. txIdx = IF head + n < NFrames THEN head + n ELSE head + n - NFrames
    BY <1>1, FrameAt DEF WaitingAre
  <2>3. (head + (n + 1)) % NFrames =
            IF head + (n + 1) < NFrames THEN head + (n + 1)
                                        ELSE head + (n + 1) - NFrames
    BY <1>3, FrameAt
  <2>4. head' = head
    BY DEF Place, kernel
  <2> QED
    BY <1>3, <2>1, <2>2, <2>3, <2>4 DEF Frames
<1>6. \A f \in Frames' : (status[f] = "send_request")' <=> Distance(f)' < n + 1
  <2> SUFFICES ASSUME NEW f \in Frames
               PROVE  (status[f] = "send_request")' <=> Distance(f)' < n + 1
    BY DEF Frames
  <2>1. Distance(f)' = Distance(f) /\ Distance(f) \in 0 .. NFrames - 1
    BY DistanceRange DEF Distance, Place, kernel
  <2>2. (status[f] = "send_request")' <=> f = txIdx \/ status[f] = "send_request"
    BY DEF Place
  <2>3. status[f] = "send_request" <=> Distance(f) < n
    BY <1>1 DEF WaitingAre
  <2> QED
    BY <1>3, <1>4, <2>1, <2>2, <2>3
<1>7. WaitingAre(n + 1)'
  BY <1>5, <1>6 DEF WaitingAre
<1> QED
  BY <1>3, <1>7

LEMMA PlaceKeepsWindow ==
    ASSUME TypeOK, InWindow, Place
    PROVE  InWindow'
<1>1. PICK n \in 0 .. NFrames : WaitingAre(n)
  BY DEF InWindow
<1> QED
  BY <1>1, PlaceExtendsWindow DEF InWindow

(***************************************************************************)
(* The kernel takes the frame at its head, which makes the window shorter. *)
(***************************************************************************)
LEMMA TakeShortensWindow ==
    ASSUME TypeOK, NEW n \in 0 .. NFrames, WaitingAre(n),
           status[head] = "send_request",
           NEW s \in {"sending", "available"},
           status' = [status EXCEPT ![head] = s],
           head' = Succ(head),
           txIdx' = txIdx
    PROVE  /\ n - 1 \in 0 .. NFrames
           /\ WaitingAre(n - 1)'
<1> USE DEF TypeOK
<1>1. WaitingAre(n)
  OBVIOUS
<1>2. Distance(head) = 0
  BY DEF Distance, Frames
<1>3. n - 1 \in 0 .. NFrames
  BY <1>1, <1>2 DEF WaitingAre
<1>4. txIdx' = (head' + (n - 1)) % NFrames'
  <2>1. head' = IF head + 1 = NFrames THEN 0 ELSE head + 1
    BY SuccIsNext
  <2>2. txIdx = IF head + n < NFrames THEN head + n ELSE head + n - NFrames
    BY <1>1, FrameAt DEF WaitingAre
  <2>3. head' \in Frames
    BY SuccIsFrame
  <2>4. (head' + (n - 1)) % NFrames =
            IF head' + (n - 1) < NFrames THEN head' + (n - 1)
                                         ELSE head' + (n - 1) - NFrames
    BY <1>3, <2>3, FrameAt
  <2> QED
    BY <1>3, <2>1, <2>2, <2>4 DEF Frames
<1>5. \A f \in Frames' : (status[f] = "send_request")' <=> Distance(f)' < n - 1
  <2> SUFFICES ASSUME NEW f \in Frames
               PROVE  (status[f] = "send_request")' <=> Distance(f)' < n - 1
    BY DEF Frames
  <2>1. Distance(f)' = IF f = head THEN NFrames - 1 ELSE Distance(f) - 1
    BY DistanceOnAdvance
  <2>2. (status[f] = "send_request")' <=>
            f # head /\ status[f] = "send_request"
    OBVIOUS
  <2>3. status[f] = "send_request" <=> Distance(f) < n
    BY <1>1 DEF WaitingAre
  <2>4. Distance(f) \in 0 .. NFrames - 1
    BY DistanceRange
  <2> QED
    BY <1>3, <2>1, <2>2, <2>3, <2>4
<1>6. WaitingAre(n - 1)'
  BY <1>4, <1>5 DEF WaitingAre
<1> QED
  BY <1>3, <1>6

LEMMA TakeKeepsWindow ==
    ASSUME TypeOK, InWindow,
           status[head] = "send_request",
           NEW s \in {"sending", "available"},
           status' = [status EXCEPT ![head] = s],
           head' = Succ(head),
           txIdx' = txIdx
    PROVE  InWindow'
<1>1. PICK n \in 0 .. NFrames : WaitingAre(n)
  BY DEF InWindow
<1> QED
  BY <1>1, TakeShortensWindow DEF InWindow

(***************************************************************************)
(* The indexes and the waiting frames are what InWindow reads.             *)
(***************************************************************************)
LEMMA WindowUnchanged ==
    ASSUME TypeOK, InWindow,
           txIdx' = txIdx, head' = head,
           \A f \in Frames : (status[f] = "send_request")' <=>
                                 status[f] = "send_request"
    PROVE  InWindow'
<1>1. PICK n \in 0 .. NFrames : WaitingAre(n)
  BY DEF InWindow
<1>2. WaitingAre(n)'
  BY <1>1 DEF WaitingAre, Distance, Frames
<1> QED
  BY <1>2 DEF InWindow

\* If the frame at the kernel's head does not wait, none does.
LEMMA NoneWaitsBehind ==
    ASSUME TypeOK, InWindow, status[head] # "send_request"
    PROVE  Waiting = {}
<1> USE DEF TypeOK
<1>1. PICK n \in 0 .. NFrames : WaitingAre(n)
  BY DEF InWindow
<1>2. Distance(head) = 0
  BY DEF Distance, Frames
<1>3. n = 0
  BY <1>1, <1>2 DEF WaitingAre
<1>4. \A f \in Frames : ~(Distance(f) < n)
  BY <1>3, DistanceRange
<1> QED
  BY <1>1, <1>4 DEF WaitingAre, Waiting

-----------------------------------------------------------------------------
(***************************************************************************)
(* With PACKET_LOSS the two indexes never lose each other.                 *)
(***************************************************************************)
THEOREM WindowHolds == Spec => []Window
<1>1. Init => Window
  <2> SUFFICES ASSUME Init PROVE Window
    OBVIOUS
  <2>1. txIdx = (head + 0) % NFrames
    BY FrameAt DEF Init, Frames
  <2>2. \A f \in Frames : status[f] # "send_request" /\ ~(Distance(f) < 0)
    BY DistanceRange DEF Init, Frames
  <2>3. WaitingAre(0)
    BY <2>1, <2>2 DEF WaitingAre
  <2> QED
    BY <2>3 DEF Window, InWindow
<1>2. TypeOK /\ Window /\ [Next]_vars => Window'
  <2> SUFFICES ASSUME TypeOK, Window, [Next]_vars, Discards', ~spilt'
               PROVE  InWindow'
    BY DEF Window
  <2>0. Discards /\ ~spilt /\ InWindow
    BY VersionUnchanged, SpiltStays DEF Discards, Window
  <2>1. CASE \E c \in Calls[version] : Call(c)
    BY <2>0, <2>1, WindowUnchanged DEF Call, ring, kernel
  <2>2. CASE Place
    BY <2>0, <2>2, PlaceKeepsWindow
  <2>3. CASE WaitWritable \/ GiveUp \/ PollReady \/ PollTimeout \/ SendtoReturns
    BY <2>0, <2>3, WindowUnchanged
    DEF WaitWritable, GiveUp, PollReady, PollTimeout, SendtoReturns, ring,
        kernel
  <2>4. CASE \E errno \in Errnos : SendtoFails(errno)
    BY <2>0, <2>4, WindowUnchanged DEF SendtoFails, ring, kernel
  <2>5. CASE \E errno \in Errnos : KernelReject(errno)
    BY <2>0, <2>5 DEF KernelReject, DiscardPacketLoss, Discards
  <2>6. CASE KernelTransmit
    BY <2>0, <2>6, TakeKeepsWindow DEF KernelTransmit
  <2>7. CASE KernelDiscard
    BY <2>0, <2>7, TakeKeepsWindow DEF KernelDiscard
  <2>8. CASE \E f \in Frames : Complete(f)
    <3>1. txIdx' = txIdx /\ head' = head
      BY <2>8 DEF Complete
    <3>2. \A g \in Frames : (status[g] = "send_request")' <=>
                               status[g] = "send_request"
      BY <2>0, <2>8 DEF Complete, TypeOK, Sending
    <3> QED
      BY <2>0, <3>1, <3>2, WindowUnchanged
  <2>9. CASE DeviceChange
    BY <2>0, <2>9, WindowUnchanged DEF DeviceChange, ring
  <2>10. CASE UNCHANGED vars
    BY <2>0, <2>10, WindowUnchanged DEF vars, ring, kernel
  <2>11. CASE Overrun \/ Fault
    BY <2>11 DEF Overrun, Fault
  <2> QED
    BY <2>1, <2>2, <2>3, <2>4, <2>5, <2>6, <2>7, <2>8, <2>9, <2>10, <2>11
    DEF Next, WorkerStep, KernelStep
<1> QED
  BY <1>1, <1>2, TypeCorrect, PTL DEF Spec

(***************************************************************************)
(* Then a call that returned true left no frame waiting: TRUE comes only   *)
(* from a sendto() that found nothing at its head, and the window is empty *)
(* then.                                                                   *)
(***************************************************************************)
THEOREM TrueMeansFlushedHolds == Spec => []TrueMeansFlushed
<1>1. Init => TrueMeansFlushed
  BY DEF Init, TrueMeansFlushed, Waiting
<1>2. TypeOK /\ Window /\ TrueMeansFlushed /\ [Next]_vars
        => TrueMeansFlushed'
  <2> SUFFICES ASSUME TypeOK, Window, TrueMeansFlushed, [Next]_vars,
                      Discards', ~spilt', pc' = "idle", result'
               PROVE  Waiting' = {}
    BY DEF TrueMeansFlushed
  <2>0. Discards /\ ~spilt /\ InWindow
    BY VersionUnchanged, SpiltStays DEF Discards, Window
  <2>1. CASE \E c \in Calls[version] : Call(c)
    BY <2>1 DEF Call
  <2>2. CASE WorkerStep
    BY <2>2
    DEF WorkerStep, Place, Overrun, Fault, MoveOn, WaitWritable, GiveUp,
        PollReady, PollTimeout, Return
  <2>3. CASE SendtoReturns
    <3>1. Waiting = {}
      BY <2>0, <2>3, NoneWaitsBehind DEF SendtoReturns
    <3> QED
      BY <2>3, <3>1 DEF SendtoReturns, Waiting, Frames, ring
  <2>4. CASE \E errno \in Errnos : SendtoFails(errno) \/ KernelReject(errno)
    BY <2>4, NoRetry DEF SendtoFails, KernelReject, Return
  <2>5. CASE KernelTransmit \/ KernelDiscard
    BY <2>5 DEF KernelTransmit, KernelDiscard
  <2>6. CASE \E f \in Frames : Complete(f)
    <3>1. Waiting = {}
      BY <2>0, <2>6 DEF Complete, TrueMeansFlushed
    <3>2. \A g \in Frames : (status[g] = "send_request")' =>
                               status[g] = "send_request"
      BY <2>6 DEF Complete, TypeOK
    <3> QED
      BY <3>1, <3>2 DEF Waiting, Frames
  <2>7. CASE DeviceChange \/ UNCHANGED vars
    BY <2>0, <2>7 DEF DeviceChange, vars, ring, Waiting, Frames, TrueMeansFlushed
  <2> QED
    BY <2>1, <2>2, <2>3, <2>4, <2>5, <2>6, <2>7 DEF Next, KernelStep
<1> QED
  BY <1>1, <1>2, TypeCorrect, WindowHolds, PTL DEF Spec

-----------------------------------------------------------------------------
(***************************************************************************)
(* The ring read as a queue: what the frames hold from one frame on, in    *)
(* ring order.                                                             *)
(***************************************************************************)
Contents == Packets \cup {NoPacket}

Run(d, h, n) == [k \in 1 .. n |-> d[(h + k - 1) % NFrames]]

LEMMA RunFrames ==
    ASSUME NEW h \in Frames, NEW n \in 0 .. NFrames, NEW k \in 1 .. n
    PROVE  /\ (h + k - 1) % NFrames \in Frames
           /\ (h + k - 1) % NFrames = IF h + k - 1 < NFrames
                                      THEN h + k - 1 ELSE h + k - 1 - NFrames
<1>1. k - 1 \in 0 .. NFrames
  OBVIOUS
<1>2. (h + (k - 1)) % NFrames = IF h + (k - 1) < NFrames
                                THEN h + (k - 1) ELSE h + (k - 1) - NFrames
  BY <1>1, FrameAt
<1>3. h + (k - 1) = h + k - 1
  BY DEF Frames
<1> QED
  BY <1>2, <1>3 DEF Frames

LEMMA RunTyped ==
    ASSUME NEW d \in [Frames -> Contents], NEW h \in Frames,
           NEW n \in 0 .. NFrames
    PROVE  Run(d, h, n) \in Seq(Contents) /\ Len(Run(d, h, n)) = n
<1>1. \A k \in 1 .. n : d[(h + k - 1) % NFrames] \in Contents
  BY RunFrames
<1> QED
  BY <1>1 DEF Run

\* Filling the frame behind the run appends to it.
LEMMA RunGrows ==
    ASSUME NEW d \in [Frames -> Contents], NEW h \in Frames,
           NEW n \in 0 .. NFrames - 1, NEW p \in Contents
    PROVE  Run([d EXCEPT ![(h + n) % NFrames] = p], h, n + 1) =
               Append(Run(d, h, n), p)
<1> DEFINE t == (h + n) % NFrames
           e == [d EXCEPT ![t] = p]
           r == Run(d, h, n)
           q == Run(e, h, n + 1)
<1>1. t \in Frames /\ t = IF h + n < NFrames THEN h + n ELSE h + n - NFrames
  BY FrameAt DEF Frames
<1>2. e \in [Frames -> Contents] /\ e[t] = p
  BY <1>1
<1>3. /\ n + 1 \in 0 .. NFrames
      /\ n \in 0 .. NFrames
  OBVIOUS
<1>4. /\ r \in Seq(Contents) /\ Len(r) = n
      /\ q \in Seq(Contents) /\ Len(q) = n + 1
  BY <1>2, <1>3, RunTyped
<1>5. \A k \in 1 .. n : q[k] = r[k]
  <2> SUFFICES ASSUME NEW k \in 1 .. n PROVE q[k] = r[k]
    OBVIOUS
  <2>1. (h + k - 1) % NFrames \in Frames /\ (h + k - 1) % NFrames # t
    <3>1. k \in 1 .. n + 1
      OBVIOUS
    <3> HIDE DEF t
    <3> QED
      BY <1>1, <1>3, RunFrames DEF Frames
  <2>2. e[(h + k - 1) % NFrames] = d[(h + k - 1) % NFrames]
    BY <2>1
  <2> QED
    BY <2>2 DEF Run
<1>6. q[n + 1] = p
  <2>1. q[n + 1] = e[(h + (n + 1) - 1) % NFrames]
    BY DEF Run
  <2>2. h + (n + 1) - 1 = h + n
    BY DEF Frames
  <2> QED
    BY <2>1, <2>2, <1>2
<1>7. /\ Append(r, p) \in Seq(Contents)
      /\ Len(Append(r, p)) = n + 1
      /\ \A k \in 1 .. n : Append(r, p)[k] = r[k]
      /\ Append(r, p)[n + 1] = p
  BY <1>4, AppendProperties
<1> HIDE DEF r, q, e, t
<1>8. \A k \in 1 .. n + 1 : q[k] = Append(r, p)[k]
  BY <1>5, <1>6, <1>7
<1>9. q = Append(r, p)
  BY <1>4, <1>7, <1>8, SeqEqual
<1> QED
  BY <1>9 DEF r, q, e, t

\* Taking the first frame of the run is its tail.
LEMMA RunShrinks ==
    ASSUME NEW d \in [Frames -> Contents], NEW h \in Frames,
           NEW n \in 1 .. NFrames
    PROVE  Run(d, Succ(h), n - 1) = Tail(Run(d, h, n))
<1> DEFINE r == Run(d, h, n)
           q == Run(d, Succ(h), n - 1)
<1>1. /\ n \in 0 .. NFrames
      /\ n - 1 \in 0 .. NFrames
      /\ Succ(h) \in Frames
      /\ Succ(h) = IF h + 1 = NFrames THEN 0 ELSE h + 1
  BY SuccIsFrame, SuccIsNext
<1>2. /\ r \in Seq(Contents) /\ Len(r) = n
      /\ q \in Seq(Contents) /\ Len(q) = n - 1
  BY <1>1, RunTyped
<1>3. \A k \in 1 .. n - 1 : q[k] = r[k + 1]
  <2> SUFFICES ASSUME NEW k \in 1 .. n - 1 PROVE q[k] = r[k + 1]
    OBVIOUS
  <2>1. k + 1 \in 1 .. n
    OBVIOUS
  <2>2. q[k] = d[(Succ(h) + k - 1) % NFrames]
    BY DEF Run
  <2>3. r[k + 1] = d[(h + (k + 1) - 1) % NFrames]
    BY <2>1 DEF Run
  <2>4. (Succ(h) + k - 1) % NFrames =
            IF Succ(h) + k - 1 < NFrames
            THEN Succ(h) + k - 1 ELSE Succ(h) + k - 1 - NFrames
    BY <1>1, RunFrames
  <2>5. (h + (k + 1) - 1) % NFrames =
            IF h + (k + 1) - 1 < NFrames
            THEN h + (k + 1) - 1 ELSE h + (k + 1) - 1 - NFrames
    BY <1>1, <2>1, RunFrames
  <2>6. (Succ(h) + k - 1) % NFrames = (h + (k + 1) - 1) % NFrames
    BY <1>1, <2>4, <2>5 DEF Frames
  <2> QED
    BY <2>2, <2>3, <2>6
<1> HIDE DEF r, q
<1>4. r # <<>>
  BY <1>2
<1>5. /\ Tail(r) \in Seq(Contents)
      /\ Len(Tail(r)) = n - 1
      /\ \A k \in 1 .. n - 1 : Tail(r)[k] = r[k + 1]
  BY <1>2, <1>4, HeadTailProperties
<1>6. q = Tail(r)
  BY <1>2, <1>3, <1>5, SeqEqual
<1> QED
  BY <1>6 DEF r, q

\* A window of n frames is a set of n frames.
LEMMA WindowCount ==
    ASSUME NEW h \in Frames, NEW n \in 0 .. NFrames, NEW W \in SUBSET Frames,
           \A f \in Frames :
               f \in W <=> (IF f >= h THEN f - h ELSE f - h + NFrames) < n
    PROVE  IsFiniteSet(W) /\ Cardinality(W) = n
<1> DEFINE g == [k \in 1 .. n |-> (h + k - 1) % NFrames]
<1>1. ASSUME NEW k \in 1 .. n
      PROVE  /\ g[k] \in Frames
             /\ g[k] = IF h + k - 1 < NFrames
                       THEN h + k - 1 ELSE h + k - 1 - NFrames
  BY RunFrames
<1>2. \A k \in 1 .. n : g[k] \in W
  BY <1>1 DEF Frames
<1>3. \A j, k \in 1 .. n : g[j] = g[k] => j = k
  BY <1>1 DEF Frames
<1>4. \A f \in W : \E k \in 1 .. n : g[k] = f
  <2> SUFFICES ASSUME NEW f \in W PROVE \E k \in 1 .. n : g[k] = f
    OBVIOUS
  <2> DEFINE j == (IF f >= h THEN f - h ELSE f - h + NFrames) + 1
  <2>1. f \in Frames /\ j \in 1 .. n
    BY DEF Frames
  <2>2. g[j] = IF h + j - 1 < NFrames THEN h + j - 1 ELSE h + j - 1 - NFrames
    BY <1>1, <2>1
  <2> HIDE DEF g
  <2>3. CASE f >= h
    BY <2>1, <2>2, <2>3 DEF Frames
  <2>4. CASE ~(f >= h)
    BY <2>1, <2>2, <2>4 DEF Frames
  <2> QED
    BY <2>1, <2>2, <2>3, <2>4
<1>5. g \in Bijection(1 .. n, W)
  <2> HIDE DEF g
  <2>1. g \in [1 .. n -> W]
    BY <1>2 DEF g
  <2>2. g \in Injection(1 .. n, W)
    BY <2>1, <1>3, Zenon DEF Injection, IsInjective
  <2>3. g \in Surjection(1 .. n, W)
    BY <2>1, <1>4, Zenon DEF Surjection
  <2> QED
    BY <2>2, <2>3, Zenon DEF Bijection
<1>6. ExistsBijection(1 .. n, W)
  BY <1>5, Zenon DEF ExistsBijection
<1>7. IsFiniteSet(1 .. n) /\ Cardinality(1 .. n) = n
  BY FS_Interval
<1> QED
  BY <1>6, <1>7, FS_Bijection, ZenonT(60)

-----------------------------------------------------------------------------
(***************************************************************************)
(* The ring implements the queue.  Queue and InFlight of a ring whose      *)
(* window is known, and the steps that leave them alone.                   *)
(***************************************************************************)
LEMMA WindowQueue ==
    ASSUME TypeOK, Discards, NEW n \in 0 .. NFrames, WaitingAre(n)
    PROVE  /\ Queue = Run(data, head, n)
           /\ IsFiniteSet(Waiting)
           /\ Cardinality(Waiting) = n
<1>1. /\ head \in Frames
      /\ Waiting \in SUBSET Frames
      /\ \A f \in Frames :
             f \in Waiting <=> (IF f >= head THEN f - head
                                ELSE f - head + NFrames) < n
  BY DEF TypeOK, WaitingAre, Waiting, Distance
<1>2. IsFiniteSet(Waiting) /\ Cardinality(Waiting) = n
  BY <1>1, WindowCount, ZenonT(60)
<1> QED
  BY <1>2 DEF Queue, Run

LEMMA WindowQueueNext ==
    ASSUME TypeOK', Discards', NEW n \in 0 .. NFrames, WaitingAre(n)'
    PROVE  Queue' = Run(data', head', n)
<1>1. /\ head' \in Frames
      /\ Waiting' \in SUBSET Frames
      /\ \A f \in Frames :
             f \in Waiting' <=> (IF f >= head' THEN f - head'
                                 ELSE f - head' + NFrames) < n
  BY DEF TypeOK, WaitingAre, Waiting, Distance, Frames
<1>2. Cardinality(Waiting') = n
  BY <1>1, WindowCount, ZenonT(60)
<1> QED
  BY <1>2 DEF Queue, Run

LEMMA QueueUnchanged ==
    ASSUME version' = version, head' = head, data' = data, Waiting' = Waiting
    PROVE  Queue' = Queue
  BY DEF Queue, Discards

LEMMA InFlightUnchanged ==
    ASSUME version' = version, Sending' = Sending
    PROVE  InFlight' = InFlight
  BY DEF InFlight, Discards

LEMMA SendingCounted ==
    ASSUME TypeOK
    PROVE  IsFiniteSet(Sending) /\ Cardinality(Sending) \in Nat
<1>1. IsFiniteSet(Frames)
  BY FS_Interval DEF Frames
<1>2. Sending \in SUBSET Frames
  BY DEF Sending
<1>3. IsFiniteSet(Sending)
  BY <1>1, <1>2, FS_Subset
<1> QED
  BY <1>3, FS_CardinalityType

\* The frame the worker fills is neither waiting nor being sent, so the two
\* sets together do not make up the ring.
LEMMA RoomForOne ==
    ASSUME TypeOK, Free(txIdx), IsFiniteSet(Waiting)
    PROVE  Cardinality(Waiting) + Cardinality(Sending) < NFrames
<1> DEFINE used == Waiting \cup Sending
           others == Frames \ {txIdx}
<1>1. IsFiniteSet(Frames) /\ Cardinality(Frames) = NFrames
  BY FS_Interval DEF Frames
<1>2. txIdx \in Frames
  BY DEF TypeOK
<1>3. IsFiniteSet(others) /\ Cardinality(others) = NFrames - 1
  BY <1>1, <1>2, FS_RemoveElement
<1>4. Waiting \cap Sending = {}
  BY DEF Waiting, Sending
<1>5. used \in SUBSET others
  BY DEF Waiting, Sending, Free
<1>6. IsFiniteSet(Sending) /\ Cardinality(Sending) \in Nat
  BY SendingCounted
<1>7. Cardinality(Waiting) \in Nat
  BY FS_CardinalityType
<1>8. Cardinality(used) = Cardinality(Waiting) + Cardinality(Sending)
                            - Cardinality(Waiting \cap Sending)
  BY <1>6, FS_Union
<1>9. Cardinality(Waiting \cap Sending) = 0
  BY <1>4, FS_EmptySet
<1>10. Cardinality(used) <= NFrames - 1
  BY <1>3, <1>5, FS_Subset
<1> HIDE DEF used
<1> QED
  BY <1>6, <1>7, <1>8, <1>9, <1>10

\* The packets of the call that are not yet in the ring.
LEMMA TodoAtPlace ==
    ASSUME TypeOK, i < Len(pkts)
    PROVE  /\ SubSeq(pkts, i + 1, Len(pkts)) # <<>>
           /\ Head(SubSeq(pkts, i + 1, Len(pkts))) = pkts[i + 1]
           /\ Tail(SubSeq(pkts, i + 1, Len(pkts))) =
                  SubSeq(pkts, i + 2, Len(pkts))
           /\ pkts[i + 1] \in Packets
<1> DEFINE n == Len(pkts)
           j == i + 1
<1>1. pkts \in Seq(Packets) /\ n \in Nat /\ i \in 0 .. n
  BY DEF TypeOK
<1>2. j \in 1 .. n /\ n \in j .. n /\ j + 1 = i + 2
  BY <1>1
<1>3. /\ Head(SubSeq(pkts, j, n)) = pkts[j]
      /\ Tail(SubSeq(pkts, j, n)) = SubSeq(pkts, j + 1, n)
  BY <1>1, <1>2, HeadTailOfSubSeq
<1>4. pkts[j] \in Packets
  BY <1>1, <1>2
<1>5. SubSeq(pkts, j, n) # <<>>
  <2>1. \A k \in j .. n : pkts[k] \in Packets
    BY <1>1, <1>2
  <2>2. Len(SubSeq(pkts, j, n)) = n - j + 1
    BY <1>1, <1>2, <2>1, SubSeqProperties
  <2>3. Len(<<>>) = 0
    OBVIOUS
  <2> DEFINE t == SubSeq(pkts, j, n)
  <2> HIDE DEF t, j, n
  <2>4. Len(t) # 0
    BY <1>1, <1>2, <2>2 DEF t
  <2>5. t # <<>>
    BY <2>3, <2>4
  <2> QED
    BY <2>5 DEF t
<1> QED
  BY <1>2, <1>3, <1>4, <1>5

LEMMA TodoAtSendto ==
    ASSUME TypeOK, pc = "sendto"
    PROVE  Todo = <<>>
<1>1. i = Len(pkts) /\ Len(pkts) \in Nat
  BY DEF TypeOK
<1>2. SubSeq(pkts, i + 1, Len(pkts)) = <<>>
  BY <1>1, SubSeqEmpty
<1> QED
  BY <1>2 DEF Todo

-----------------------------------------------------------------------------
(***************************************************************************)
(* Each step of the ring as a step of the queue.                           *)
(***************************************************************************)
LEMMA CallBegins ==
    ASSUME TypeOK, Discards, NEW c \in Calls[version], Call(c)
    PROVE  c[2] \in Batches /\ Abstract!Begin(c[2])
<1>1. version \in Versions
  BY DEF TypeOK
<1>2. c[2] \in Batches
  BY <1>1 DEF Batches
<1>3. Queue' = Queue /\ InFlight' = InFlight
  BY QueueUnchanged, InFlightUnchanged
  DEF Call, ring, kernel, Waiting, Sending, Frames
<1>4. SubSeq(c[2], 1, Len(c[2])) = c[2]
  BY <1>1, CallTyped, SubSeqFull
<1>5. pc' # "idle" /\ Discards'
  BY DEF Call, Discards
<1>6. Todo' = c[2]
  BY <1>4, <1>5 DEF Todo, Call
<1> QED
  BY <1>2, <1>3, <1>5, <1>6 DEF Abstract!Begin, Busy, Answer, Call, Discards

LEMMA PlaceAccepts ==
    ASSUME TypeOK, TypeOK', Discards, InWindow, Place
    PROVE  Abstract!Accept
<1>1. PICK n \in 0 .. NFrames : WaitingAre(n)
  BY DEF InWindow
<1>2. n + 1 \in 0 .. NFrames /\ WaitingAre(n + 1)'
  BY <1>1, PlaceExtendsWindow
<1>3. Discards' /\ pc' # "idle" /\ pc = "place"
  BY DEF Discards, Place, MoveOn
<1>4. Queue = Run(data, head, n) /\ IsFiniteSet(Waiting) /\ Cardinality(Waiting) = n
  BY <1>1, WindowQueue
<1>5. Queue' = Run(data', head', n + 1)
  BY <1>2, <1>3, WindowQueueNext
<1>6. i < Len(pkts)
  BY <1>3 DEF TypeOK
<1>7. /\ Todo # <<>>
      /\ Head(Todo) = pkts[i + 1]
      /\ Tail(Todo) = SubSeq(pkts, i + 2, Len(pkts))
      /\ pkts[i + 1] \in Packets
  BY <1>3, <1>6, TodoAtPlace DEF Todo
<1>8. Todo' = Tail(Todo)
  <2>1. Todo' = SubSeq(pkts', i' + 1, Len(pkts'))
    BY <1>3 DEF Todo
  <2>2. pkts' = pkts /\ i' + 1 = i + 2
    BY DEF Place, MoveOn, TypeOK
  <2> QED
    BY <1>7, <2>1, <2>2
<1>9. Queue' = Append(Queue, Head(Todo))
  <2>1. /\ head' = head
        /\ data' = [data EXCEPT ![(head + n) % NFrames] = pkts[i + 1]]
    BY <1>1 DEF Place, Packet, kernel, WaitingAre
  <2>2. /\ data \in [Frames -> Contents]
        /\ head \in Frames
        /\ pkts[i + 1] \in Contents
        /\ n \in 0 .. NFrames - 1
    BY <1>2, <1>7 DEF TypeOK, Contents
  <2>3. Run(data', head, n + 1) = Append(Run(data, head, n), pkts[i + 1])
    BY <2>1, <2>2, RunGrows
  <2> QED
    BY <1>4, <1>5, <1>7, <2>1, <2>3
<1>10. Sending' = Sending
  BY DEF Sending, Place, TypeOK, Free, Frames
<1>11. InFlight' = InFlight
  BY <1>10, InFlightUnchanged DEF Place
<1>12. Len(Queue) + InFlight < NFrames
  <2>1. Len(Queue) = n
    BY <1>4, RunTyped DEF TypeOK, Contents
  <2>2. InFlight = Cardinality(Sending)
    BY DEF InFlight
  <2> QED
    BY <1>4, <2>1, <2>2, RoomForOne DEF Place
<1> QED
  BY <1>3, <1>7, <1>8, <1>9, <1>11, <1>12
  DEF Abstract!Accept, Busy, Answer, Place, Discards

\* The kernel takes the frame at its head: the queue loses its first packet.
LEMMA TakeIsTail ==
    ASSUME TypeOK, TypeOK', Discards, Discards', InWindow,
           status[head] = "send_request",
           NEW s \in {"sending", "available"},
           status' = [status EXCEPT ![head] = s],
           head' = Succ(head),
           txIdx' = txIdx, data' = data
    PROVE  Queue # <<>> /\ Queue' = Tail(Queue)
<1>1. PICK n \in 0 .. NFrames : WaitingAre(n)
  BY DEF InWindow
<1>2. n - 1 \in 0 .. NFrames /\ WaitingAre(n - 1)'
  BY <1>1, TakeShortensWindow
<1>3. Queue = Run(data, head, n)
  BY <1>1, WindowQueue
<1>4. Queue' = Run(data, Succ(head), n - 1)
  BY <1>2, WindowQueueNext
<1>5. /\ data \in [Frames -> Contents]
      /\ head \in Frames
      /\ n \in 1 .. NFrames
  BY <1>2 DEF TypeOK, Contents
<1>6. Len(Queue) = n
  BY <1>3, <1>5, RunTyped
<1>7. Queue # <<>>
  BY <1>5, <1>6
<1> QED
  BY <1>3, <1>4, <1>5, <1>7, RunShrinks

LEMMA TransmitTransmits ==
    ASSUME TypeOK, TypeOK', Discards, InWindow, KernelTransmit
    PROVE  Abstract!Transmit
<1>1. Discards' /\ pc = "sendto" /\ pc' = "sendto"
  BY DEF Discards, KernelTransmit
<1>2. Queue # <<>> /\ Queue' = Tail(Queue)
  BY <1>1, TakeIsTail DEF KernelTransmit
<1>3. Sending' = Sending \cup {head} /\ head \notin Sending
  BY DEF KernelTransmit, Sending, TypeOK, Frames
<1>4. IsFiniteSet(Sending)
  BY SendingCounted
<1>5. Cardinality(Sending') = Cardinality(Sending) + 1
  BY <1>3, <1>4, FS_AddElement
<1>6. InFlight' = InFlight + 1
  BY <1>1, <1>5 DEF InFlight
<1>7. Todo' = Todo
  BY DEF KernelTransmit, call, Todo, Discards
<1> QED
  BY <1>1, <1>2, <1>6, <1>7
  DEF Abstract!Transmit, Busy, Answer, KernelTransmit, call, Discards

LEMMA DiscardDiscards ==
    ASSUME TypeOK, TypeOK', Discards, InWindow, KernelDiscard
    PROVE  Abstract!Discard
<1>1. Discards' /\ pc = "sendto" /\ pc' = "sendto"
  BY DEF Discards, KernelDiscard
<1>2. Queue # <<>> /\ Queue' = Tail(Queue)
  BY <1>1, TakeIsTail DEF KernelDiscard
<1>3. Sending' = Sending
  BY DEF KernelDiscard, Sending, TypeOK, Frames
<1>4. InFlight' = InFlight
  BY <1>3, InFlightUnchanged DEF KernelDiscard
<1>5. Todo' = Todo
  BY DEF KernelDiscard, call, Todo, Discards
<1> QED
  BY <1>1, <1>2, <1>4, <1>5
  DEF Abstract!Discard, Busy, Answer, KernelDiscard, call, Discards

LEMMA CompleteCompletes ==
    ASSUME TypeOK, Discards, ~spilt, NEW f \in Frames, Complete(f)
    PROVE  Abstract!Complete
<1>1. Waiting' = Waiting
  BY DEF Complete, Waiting, Sending, TypeOK, Frames
<1>2. Queue' = Queue
  BY <1>1, QueueUnchanged DEF Complete
<1>3. Sending' = Sending \ {f} /\ f \in Sending
  BY DEF Complete, Sending, TypeOK, Frames
<1>4. IsFiniteSet(Sending) /\ Cardinality(Sending) \in Nat
  BY SendingCounted
<1>5. Cardinality(Sending') = Cardinality(Sending) - 1
  BY <1>3, <1>4, FS_RemoveElement
<1>6. Sending # {}
  BY <1>3
<1>7. Cardinality(Sending) # 0
  BY <1>4, <1>6, FS_EmptySet
<1>8. InFlight > 0 /\ InFlight' = InFlight - 1
  BY <1>4, <1>5, <1>7 DEF InFlight, Discards, Complete
<1> QED
  BY <1>2, <1>8
  DEF Abstract!Complete, Busy, Answer, Todo, Complete, call, Discards

\* The ends of a call: the queue keeps what it holds.
LEMMA ReturnReturns ==
    ASSUME Discards, Busy, NEW ok \in BOOLEAN, Return(ok),
           UNCHANGED <<version, data, head>>,
           Waiting' = Waiting, Sending' = Sending,
           ok => Todo = <<>> /\ Queue = <<>>
    PROVE  Abstract!Return(ok)
<1>1. Queue' = Queue /\ InFlight' = InFlight
  BY QueueUnchanged, InFlightUnchanged
<1>2. ~Busy' /\ Todo' = <<>> /\ Answer' = ok
  BY DEF Return, Busy, Todo, Answer, Discards
<1> QED
  BY <1>1, <1>2 DEF Abstract!Return

LEMMA SendtoReturnsTrue ==
    ASSUME TypeOK, Discards, InWindow, SendtoReturns
    PROVE  Abstract!Return(TRUE)
<1>1. Waiting = {}
  BY NoneWaitsBehind DEF SendtoReturns
<1>2. Queue = <<>>
  <2>1. Cardinality(Waiting) = 0
    BY <1>1, FS_EmptySet
  <2> QED
    BY <2>1 DEF Queue
<1>3. Todo = <<>>
  BY TodoAtSendto DEF SendtoReturns
<1> QED
  BY <1>2, <1>3, ReturnReturns
  DEF SendtoReturns, Busy, ring, kernel, Waiting, Sending, Frames

LEMMA GivingUpReturnsFalse ==
    ASSUME Discards,
           GiveUp \/ PollTimeout \/ \E errno \in Errnos : SendtoFails(errno)
    PROVE  Abstract!Return(FALSE)
<1>1. /\ pc # "idle"
      /\ Return(FALSE)
      /\ UNCHANGED <<version, ring, head>>
  BY NoRetry DEF GiveUp, PollTimeout, SendtoFails, kernel
<1> QED
  BY <1>1, ReturnReturns DEF Busy, ring, kernel, Waiting, Sending, Frames

\* The steps that the queue does not see: waiting for the ring, and the device.
LEMMA WaitingIsSilent ==
    ASSUME TypeOK, Discards,
           WaitWritable \/ PollReady \/ DeviceChange \/ UNCHANGED vars
    PROVE  UNCHANGED Abstract!vars
<1>1. /\ UNCHANGED <<version, ring, head, op, pkts, i, result>>
      /\ pc' = "idle" <=> pc = "idle"
  BY DEF WaitWritable, PollReady, DeviceChange, vars, ring, kernel, call
<1>2. Queue' = Queue /\ InFlight' = InFlight
  BY <1>1, QueueUnchanged, InFlightUnchanged DEF ring, Waiting, Sending, Frames
<1>3. Todo' = Todo /\ Busy' = Busy /\ Answer' = Answer
  BY <1>1 DEF Todo, Busy, Answer, Discards
<1> QED
  BY <1>2, <1>3 DEF Abstract!vars

(***************************************************************************)
(* A ring with PACKET_LOSS is a bounded FIFO (ImplementsTxQueue): the      *)
(* packets of every call enter it in order and at most once, leave it in   *)
(* that order, are not overwritten, and a call that answers TRUE leaves    *)
(* nothing behind it, whatever the failures, the polls and the order of    *)
(* the completions, until a packet is written beyond its frame.            *)
(***************************************************************************)
THEOREM RefinesTxQueue == Spec => ImplementsTxQueue
<1>1. Init => Abstract!Init
  <2> SUFFICES ASSUME Init PROVE Abstract!Init
    OBVIOUS
  <2>1. Waiting = {} /\ Sending = {}
    BY DEF Init, Waiting, Sending
  <2>2. Cardinality({}) = 0
    BY FS_EmptySet
  <2>3. Queue = <<>> /\ InFlight = 0
    BY <2>1, <2>2 DEF Queue, InFlight
  <2> QED
    BY <2>3 DEF Init, Abstract!Init, Todo, Busy, Answer
<1>2. TypeOK /\ TypeOK' /\ Window /\ [Next]_vars
        => [Abstract!Next \/ spilt']_(Abstract!vars)
  <2> SUFFICES ASSUME TypeOK, TypeOK', Window, [Next]_vars, ~spilt'
               PROVE  Abstract!Next \/ UNCHANGED Abstract!vars
    OBVIOUS
  <2>1. CASE ~Discards
    <3>1. ~Discards'
      BY <2>1, VersionUnchanged DEF Discards
    <3> QED
      BY <2>1, <3>1 DEF Abstract!vars, Queue, InFlight, Todo, Busy, Answer
  <2>2. CASE Discards
    <3>0. ~spilt /\ InWindow
      BY <2>2, SpiltStays DEF Window
    <3>1. CASE \E c \in Calls[version] : Call(c)
      BY <2>2, <3>1, CallBegins DEF Abstract!Next
    <3>2. CASE Place
      BY <2>2, <3>0, <3>2, PlaceAccepts DEF Abstract!Next
    <3>3. CASE Overrun \/ Fault
      BY <3>3 DEF Overrun, Fault
    <3>4. CASE GiveUp \/ PollTimeout \/ \E errno \in Errnos : SendtoFails(errno)
      BY <2>2, <3>4, GivingUpReturnsFalse DEF Abstract!Next
    <3>5. CASE SendtoReturns
      BY <2>2, <3>0, <3>5, SendtoReturnsTrue DEF Abstract!Next
    <3>6. CASE \E errno \in Errnos : KernelReject(errno)
      BY <2>2, <3>6 DEF KernelReject, DiscardPacketLoss, Discards
    <3>7. CASE KernelTransmit
      BY <2>2, <3>0, <3>7, TransmitTransmits DEF Abstract!Next
    <3>8. CASE KernelDiscard
      BY <2>2, <3>0, <3>8, DiscardDiscards DEF Abstract!Next
    <3>9. CASE \E f \in Frames : Complete(f)
      BY <2>2, <3>0, <3>9, CompleteCompletes DEF Abstract!Next
    <3>10. CASE WaitWritable \/ PollReady \/ DeviceChange \/ UNCHANGED vars
      BY <2>2, <3>10, WaitingIsSilent
    <3> QED
      BY <3>1, <3>2, <3>3, <3>4, <3>5, <3>6, <3>7, <3>8, <3>9, <3>10
      DEF Next, WorkerStep, KernelStep
  <2> QED
    BY <2>1, <2>2
<1> QED
  BY <1>1, <1>2, TypeCorrect, WindowHolds, PTL
  DEF Spec, ImplementsTxQueue

-----------------------------------------------------------------------------
(***************************************************************************)
(* Rings whose packets all fit in a frame.                                 *)
(***************************************************************************)
AllFit == \A p \in Packets : Extent[p] = 1

LEMMA FittingStep ==
    ASSUME AllFit, TypeOK, [Next]_vars
    PROVE  /\ ~Overrun /\ ~Fault
           /\ ~spilt => ~spilt'
<1>1. ASSUME pc = "place"
      PROVE  Extent[Packet] = 1 /\ txIdx + Extent[Packet] <= NFrames
  <2>1. Packet \in Packets
    BY <1>1 DEF Packet, TypeOK
  <2> QED
    BY <2>1 DEF AllFit, TypeOK, Frames
<1>2. ~Overrun /\ ~Fault
  <2>1. ~Overrun
    BY <1>1 DEF Overrun
  <2>2. ~Fault
    BY <1>1 DEF Fault, TypeOK, Frames
  <2> QED
    BY <2>1, <2>2
<1>3. spilt' = spilt
  BY <1>2, SpiltUnchanged
<1> QED
  BY <1>2, <1>3

LEMMA NothingSpilt ==
    ASSUME AllFit
    PROVE  Spec => []~spilt
<1>1. Init => ~spilt
  BY DEF Init
<1>2. TypeOK /\ ~spilt /\ [Next]_vars => ~spilt'
  BY FittingStep
<1> QED
  BY <1>1, <1>2, TypeCorrect, PTL DEF Spec

\* If every packet fits in a frame, a ring with PACKET_LOSS is a bounded FIFO for
\* good: its behaviours are those of TxQueue, without an exception.
THEOREM FittingIsTxQueue ==
    ASSUME AllFit
    PROVE  Spec => Abstract!Spec
<1>1. [](~spilt) /\ [][Abstract!Next \/ spilt']_(Abstract!vars)
        => [][Abstract!Next]_(Abstract!vars)
  <2>1. ~spilt' /\ [Abstract!Next \/ spilt']_(Abstract!vars)
          => [Abstract!Next]_(Abstract!vars)
    OBVIOUS
  <2> QED
    BY <2>1, PTL
<1> QED
  BY <1>1, RefinesTxQueue, NothingSpilt, PTL
  DEF ImplementsTxQueue, Abstract!Spec

\* If every packet fits in a frame, no step of the worker writes to a frame that
\* waits or is being sent, which longer packets violate.
THEOREM FittingWritesOnlyFree ==
    ASSUME AllFit
    PROVE  Spec => WritesOnlyFree
<1>1. TypeOK /\ [Next]_vars
        => [WorkerStep => \A f \in Waiting \cup Sending :
                              UNCHANGED <<status[f], data[f]>>]_vars
  <2> SUFFICES ASSUME TypeOK, [Next]_vars, WorkerStep,
                      NEW f \in Waiting \cup Sending
               PROVE  UNCHANGED <<status[f], data[f]>>
    OBVIOUS
  <2>1. ~Overrun /\ ~Fault
    BY FittingStep
  <2>2. CASE Place
    <3>1. f # txIdx /\ f \in Frames
      BY <2>2 DEF Place, Free, Waiting, Sending
    <3> QED
      BY <2>2, <3>1 DEF Place, TypeOK
  <2>3. CASE WaitWritable \/ GiveUp \/ PollReady \/ PollTimeout
    BY <2>3 DEF WaitWritable, GiveUp, PollReady, PollTimeout, ring
  <2> QED
    BY <2>1, <2>2, <2>3 DEF WorkerStep
<1> QED
  BY <1>1, TypeCorrect, PTL DEF Spec, WritesOnlyFree
=============================================================================
