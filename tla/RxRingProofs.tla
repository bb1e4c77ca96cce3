---------------------------- MODULE RxRingProofs ----------------------------
(***************************************************************************)
(* The invariants of RxRing for every number of blocks, size of a block    *)
(* and size of the array, and that the ring implements PacketStream.       *)
(***************************************************************************)
EXTENDS RxRing, Counting

USE NBlocksAssumption, BlockCapAssumption, MaxPktsAssumption

(***************************************************************************)
(* The next block, without the remainder.                                  *)
(***************************************************************************)
LEMMA SuccIsNext ==
    ASSUME NEW b \in Blocks
    PROVE  /\ Succ(b) = IF b + 1 = NBlocks THEN 0 ELSE b + 1
           /\ Succ(b) \in Blocks
  BY DEF Succ, Blocks

(***************************************************************************)
(* A block that the kernel opens is empty.                                 *)
(***************************************************************************)
LEMMA OpeningKeepsBlocks ==
    ASSUME BlocksOK, NEW c \in Blocks, block' = [block EXCEPT ![c] = <<>>]
    PROVE  BlocksOK'
<1>1. <<>> \in Seq(Packets) /\ Len(<<>>) = 0 /\ 0 <= BlockCap
  OBVIOUS
<1>2. block' \in [Blocks -> Seq(Packets)]
  BY <1>1 DEF BlocksOK
<1>3. \A b \in Blocks : block'[b] = IF b = c THEN <<>> ELSE block[b]
  BY DEF BlocksOK
<1> QED
  BY <1>1, <1>2, <1>3 DEF BlocksOK

-----------------------------------------------------------------------------
(***************************************************************************)
(* The variables keep their types, and the array of recv_v3() (max_pkts    *)
(* entries on the stack) is never written past its end.                    *)
(***************************************************************************)
THEOREM TypeCorrect == Spec => []TypeOK
<1>1. Init => TypeOK
  BY DEF Init, TypeOK, IndexesOK, BlocksOK, BatchOK, Blocks
<1>2. TypeOK /\ [Next]_vars => TypeOK'
  <2> SUFFICES ASSUME IndexesOK, BlocksOK, BatchOK, [Next]_vars
               PROVE  IndexesOK' /\ BlocksOK' /\ BatchOK'
    BY DEF TypeOK
  <2> USE DEF kernel, local
  <2>1. CASE Recv \/ NoBlock \/ PollReady \/ PollTimeout
    <3>1. IndexesOK'
      BY <2>1 DEF IndexesOK, Recv, NoBlock, PollReady, PollTimeout
    <3>2. UNCHANGED <<block, done, pkts, last>>
      BY <2>1 DEF Recv, NoBlock, PollReady, PollTimeout
    <3> QED
      BY <3>1, <3>2 DEF BlocksOK, BatchOK
  <2>2. CASE NewBlock
    <3>1. IndexesOK' /\ BatchOK'
      BY <2>2 DEF NewBlock, IndexesOK, BatchOK
    <3> QED
      BY <2>2, <3>1 DEF NewBlock, BlocksOK
  <2>3. CASE Collect
    <3>1. IndexesOK' /\ BlocksOK'
      BY <2>3 DEF Collect, IndexesOK, BlocksOK
    <3>2. block[rxIdx][done + 1] \in Packets
      <4>1. block[rxIdx] \in Seq(Packets) /\ done \in Nat
        BY DEF IndexesOK, BlocksOK, BatchOK
      <4> QED
        BY <2>3, <4>1 DEF Collect
    <3>3. CASE Full
      <4>1. pkts' = <<block[rxIdx][done + 1]>> /\ last' = pkts /\ done' = done + 1
        BY <2>3, <3>3 DEF Collect
      <4>2. pkts' \in Seq(Packets) /\ Len(pkts') = 1
        BY <3>2, <4>1
      <4> QED
        BY <3>1, <4>1, <4>2 DEF BatchOK
    <3>4. CASE ~Full
      <4>1. Len(pkts) \in Nat /\ Len(pkts) < MaxPkts
        BY <3>4 DEF Full, BatchOK
      <4>2. pkts' = Append(pkts, block[rxIdx][done + 1]) /\ last' = last
            /\ done' = done + 1
        BY <2>3, <3>4 DEF Collect
      <4>3. pkts' \in Seq(Packets) /\ Len(pkts') = Len(pkts) + 1
        BY <3>2, <4>2 DEF BatchOK
      <4> QED
        BY <3>1, <4>1, <4>2, <4>3 DEF BatchOK
    <3> QED
      BY <3>1, <3>3, <3>4
  <2>4. CASE Flush
    <3>1. IndexesOK' /\ BatchOK'
      BY <2>4 DEF Flush, IndexesOK, BatchOK
    <3> QED
      BY <2>4, <3>1 DEF Flush, BlocksOK
  <2>5. CASE Release
    <3>1. IndexesOK'
      BY <2>5, SuccIsNext DEF Release, IndexesOK
    <3> QED
      BY <2>5, <3>1 DEF Release, BlocksOK, BatchOK
  <2>6. CASE \E p \in Packets : Store(p)
    <3> PICK p \in Packets : Store(p)
      BY <2>6
    <3>1. IndexesOK' /\ BatchOK'
      BY DEF Store, IndexesOK, BatchOK
    <3>2. /\ block[current] \in Seq(Packets)
          /\ Len(block[current]) \in Nat
          /\ Len(block[current]) < BlockCap
      BY DEF Store, IndexesOK, BlocksOK
    <3>3. /\ Append(block[current], p) \in Seq(Packets)
          /\ Len(Append(block[current], p)) <= BlockCap
      BY <3>2
    <3> QED
      BY <3>1, <3>3 DEF Store, BlocksOK
  <2>7. CASE Retire
    <3>1. IndexesOK'
      BY <2>7, SuccIsNext DEF Retire, IndexesOK
    <3>2. BatchOK'
      BY <2>7 DEF Retire, BatchOK
    <3>3. block' = block \/ block' = [block EXCEPT ![Succ(current)] = <<>>]
      BY <2>7 DEF Retire
    <3>4. BlocksOK'
      <4>1. CASE block' = block
        BY <4>1 DEF BlocksOK
      <4> QED
        BY <3>3, <4>1, OpeningKeepsBlocks, SuccIsNext DEF IndexesOK
    <3> QED
      BY <3>1, <3>2, <3>4
  <2>8. CASE Thaw
    <3>1. IndexesOK' /\ BatchOK'
      BY <2>8 DEF Thaw, IndexesOK, BatchOK
    <3> QED
      BY <2>8, <3>1, OpeningKeepsBlocks DEF Thaw, IndexesOK
  <2>9. CASE UNCHANGED vars
    BY <2>9 DEF vars, IndexesOK, BlocksOK, BatchOK
  <2> QED
    BY <2>1, <2>2, <2>3, <2>4, <2>5, <2>6, <2>7, <2>8, <2>9
    DEF Next, WorkerStep
<1> QED
  BY <1>1, <1>2, PTL DEF Spec

-----------------------------------------------------------------------------
(***************************************************************************)
(* Blocks counted from the worker's index, without the remainder.          *)
(***************************************************************************)
LEMMA BlockAt ==
    ASSUME NEW r \in Blocks, NEW n \in 0 .. NBlocks
    PROVE  (r + n) % NBlocks = IF r + n < NBlocks THEN r + n
                                                  ELSE r + n - NBlocks
  BY DEF Blocks

LEMMA DistanceRange ==
    ASSUME rxIdx \in Blocks, NEW b \in Blocks
    PROVE  Distance(b) \in 0 .. NBlocks - 1 /\ (Distance(b) = 0 <=> b = rxIdx)
  BY DEF Distance, Blocks

LEMMA DistanceOfBlockAt ==
    ASSUME rxIdx \in Blocks, NEW n \in 0 .. NBlocks - 1, NEW b \in Blocks
    PROVE  Distance(b) = n <=> b = (rxIdx + n) % NBlocks
<1>1. (rxIdx + n) % NBlocks = IF rxIdx + n < NBlocks THEN rxIdx + n
                                                     ELSE rxIdx + n - NBlocks
  BY BlockAt
<1> QED
  BY <1>1 DEF Distance, Blocks

LEMMA DistanceOnAdvance ==
    ASSUME rxIdx \in Blocks, rxIdx' = Succ(rxIdx), NEW b \in Blocks
    PROVE  Distance(b)' = IF b = rxIdx THEN NBlocks - 1 ELSE Distance(b) - 1
<1>1. rxIdx' = IF rxIdx + 1 = NBlocks THEN 0 ELSE rxIdx + 1
  BY SuccIsNext
<1> QED
  BY <1>1 DEF Distance, Blocks

\* The kernel that is not frozen fills a block that is its own.
LEMMA KernelOwnsCurrent ==
    ASSUME IndexesOK, InStep, ~frozen
    PROVE  status[current] = "kernel"
<1> USE DEF IndexesOK
<1>1. PICK n \in 0 .. NBlocks : UserBlocksAre(n) /\ (n = NBlocks => frozen)
  BY DEF InStep
<1>2. n \in 0 .. NBlocks - 1
  BY <1>1
<1>3. Distance(current) = n
  BY <1>1, <1>2, DistanceOfBlockAt DEF UserBlocksAre
<1> QED
  BY <1>1, <1>2, <1>3 DEF UserBlocksAre

-----------------------------------------------------------------------------
(***************************************************************************)
(* While a block is being read it is the worker's: the part of             *)
(* ReadsOwnBlock that InStep needs.                                        *)
(***************************************************************************)
OwnsBlock == pc \in {"collect", "release"} => status[rxIdx] = "user"

LEMMA RetireKeepsInStep ==
    ASSUME IndexesOK, InStep, Retire
    PROVE  InStep'
<1> USE DEF IndexesOK
<1>1. PICK n \in 0 .. NBlocks : UserBlocksAre(n) /\ (n = NBlocks => frozen)
  BY DEF InStep
<1>2. n \in 0 .. NBlocks - 1 /\ n + 1 \in 0 .. NBlocks
  BY <1>1 DEF Retire
<1>3. rxIdx' = rxIdx
  BY DEF Retire
<1>4. \A b \in Blocks : b = current <=> Distance(b) = n
  BY <1>1, <1>2, DistanceOfBlockAt DEF UserBlocksAre
<1>5. current' = (rxIdx' + (n + 1)) % NBlocks'
  <2>1. current' = IF current + 1 = NBlocks THEN 0 ELSE current + 1
    BY SuccIsNext DEF Retire
  <2>2. current = IF rxIdx + n < NBlocks THEN rxIdx + n ELSE rxIdx + n - NBlocks
    BY <1>1, BlockAt DEF UserBlocksAre
  <2>3. (rxIdx + (n + 1)) % NBlocks =
            IF rxIdx + (n + 1) < NBlocks THEN rxIdx + (n + 1)
                                         ELSE rxIdx + (n + 1) - NBlocks
    BY <1>2, BlockAt
  <2> QED
    BY <1>2, <1>3, <2>1, <2>2, <2>3 DEF Blocks
<1>6. \A b \in Blocks' : (status[b] = "user")' <=> Distance(b)' < n + 1
  <2> SUFFICES ASSUME NEW b \in Blocks
               PROVE  (status[b] = "user")' <=> Distance(b)' < n + 1
    BY DEF Blocks
  <2>1. Distance(b)' = Distance(b) /\ Distance(b) \in 0 .. NBlocks - 1
    BY <1>3, DistanceRange DEF Distance
  <2>2. (status[b] = "user")' <=> b = current \/ status[b] = "user"
    BY DEF Retire
  <2>3. status[b] = "user" <=> Distance(b) < n
    BY <1>1 DEF UserBlocksAre
  <2> QED
    BY <1>2, <1>4, <2>1, <2>2, <2>3
<1>7. n + 1 = NBlocks => frozen'
  <2> SUFFICES ASSUME n + 1 = NBlocks PROVE frozen'
    OBVIOUS
  <2> PICK b \in Blocks : b = current'
    BY SuccIsNext DEF Retire
  <2>1. Distance(b)' < n + 1
    BY <1>3, DistanceRange DEF Distance
  <2>2. status'[b] = "user"
    BY <1>6, <2>1 DEF Blocks
  <2> QED
    BY <2>2 DEF Retire
<1>8. UserBlocksAre(n + 1)'
  BY <1>5, <1>6 DEF UserBlocksAre
<1> QED
  BY <1>2, <1>7, <1>8 DEF InStep

LEMMA ReleaseKeepsInStep ==
    ASSUME IndexesOK, InStep, OwnsBlock, Release
    PROVE  InStep'
<1> USE DEF IndexesOK
<1>1. PICK n \in 0 .. NBlocks : UserBlocksAre(n) /\ (n = NBlocks => frozen)
  BY DEF InStep
<1>2. status[rxIdx] = "user" /\ Distance(rxIdx) = 0
  BY DistanceRange DEF OwnsBlock, Release
<1>3. n - 1 \in 0 .. NBlocks /\ n - 1 # NBlocks
  BY <1>1, <1>2 DEF UserBlocksAre
<1>4. current' = (rxIdx' + (n - 1)) % NBlocks'
  <2>1. /\ rxIdx' = IF rxIdx + 1 = NBlocks THEN 0 ELSE rxIdx + 1
        /\ rxIdx' \in Blocks
    BY SuccIsNext DEF Release
  <2>2. current = IF rxIdx + n < NBlocks THEN rxIdx + n ELSE rxIdx + n - NBlocks
    BY <1>1, BlockAt DEF UserBlocksAre
  <2>3. (rxIdx' + (n - 1)) % NBlocks =
            IF rxIdx' + (n - 1) < NBlocks THEN rxIdx' + (n - 1)
                                          ELSE rxIdx' + (n - 1) - NBlocks
    BY <1>3, <2>1, BlockAt
  <2>4. current' = current
    BY DEF Release, kernel
  <2> QED
    BY <1>3, <2>1, <2>2, <2>3, <2>4 DEF Blocks
<1>5. \A b \in Blocks' : (status[b] = "user")' <=> Distance(b)' < n - 1
  <2> SUFFICES ASSUME NEW b \in Blocks
               PROVE  (status[b] = "user")' <=> Distance(b)' < n - 1
    BY DEF Blocks
  <2>1. Distance(b)' = IF b = rxIdx THEN NBlocks - 1 ELSE Distance(b) - 1
    BY DistanceOnAdvance DEF Release
  <2>2. (status[b] = "user")' <=> b # rxIdx /\ status[b] = "user"
    BY DEF Release
  <2>3. status[b] = "user" <=> Distance(b) < n
    BY <1>1 DEF UserBlocksAre
  <2>4. Distance(b) \in 0 .. NBlocks - 1
    BY DistanceRange
  <2> QED
    BY <1>3, <2>1, <2>2, <2>3, <2>4
<1>6. UserBlocksAre(n - 1)'
  BY <1>4, <1>5 DEF UserBlocksAre
<1> QED
  BY <1>3, <1>6 DEF InStep

LEMMA ThawKeepsInStep ==
    ASSUME IndexesOK, InStep, Thaw
    PROVE  InStep'
<1> USE DEF IndexesOK
<1>1. PICK n \in 0 .. NBlocks : UserBlocksAre(n) /\ (n = NBlocks => frozen)
  BY DEF InStep
<1>2. n # NBlocks
  <2>1. Distance(current) \in 0 .. NBlocks - 1
    BY DistanceRange
  <2> QED
    BY <1>1, <2>1 DEF UserBlocksAre, Thaw
<1>3. UserBlocksAre(n)'
  BY <1>1 DEF UserBlocksAre, Thaw, Distance, Blocks
<1> QED
  BY <1>2, <1>3 DEF InStep

LEMMA InStepUnchanged ==
    ASSUME InStep, UNCHANGED <<status, current, frozen, rxIdx>>
    PROVE  InStep'
<1>1. PICK n \in 0 .. NBlocks : UserBlocksAre(n) /\ (n = NBlocks => frozen)
  BY DEF InStep
<1>2. UserBlocksAre(n)'
  BY <1>1 DEF UserBlocksAre, Distance, Blocks
<1> QED
  BY <1>1, <1>2 DEF InStep

LEMMA IndexesTyped == Spec => []IndexesOK
<1>1. TypeOK => IndexesOK
  BY DEF TypeOK
<1> QED
  BY <1>1, TypeCorrect, PTL

(***************************************************************************)
(* The worker and the kernel never lose each other in the ring.            *)
(***************************************************************************)
THEOREM InStepHolds == Spec => [](InStep /\ OwnsBlock)
<1>1. Init => InStep /\ OwnsBlock
  <2> SUFFICES ASSUME Init PROVE InStep
    BY DEF Init, OwnsBlock
  <2>1. current = (rxIdx + 0) % NBlocks
    BY BlockAt DEF Init, Blocks
  <2>2. \A b \in Blocks : status[b] # "user" /\ ~(Distance(b) < 0)
    BY DistanceRange DEF Init, Blocks
  <2>3. UserBlocksAre(0)
    BY <2>1, <2>2 DEF UserBlocksAre
  <2> QED
    BY <2>3 DEF InStep
<1>2. IndexesOK /\ InStep /\ OwnsBlock /\ [Next]_vars => InStep' /\ OwnsBlock'
  <2> SUFFICES ASSUME IndexesOK, InStep, OwnsBlock, [Next]_vars
               PROVE  InStep' /\ OwnsBlock'
    OBVIOUS
  <2> USE DEF IndexesOK, OwnsBlock, kernel, local
  <2>1. CASE Recv \/ NewBlock \/ NoBlock \/ PollReady \/ PollTimeout
    BY <2>1, InStepUnchanged DEF Recv, NewBlock, NoBlock, PollReady, PollTimeout
  <2>2. CASE Collect \/ Flush
    BY <2>2, InStepUnchanged DEF Collect, Flush
  <2>3. CASE Release
    BY <2>3, ReleaseKeepsInStep DEF Release
  <2>4. CASE \E p \in Packets : Store(p)
    BY <2>4, InStepUnchanged DEF Store
  <2>5. CASE Retire
    BY <2>5, RetireKeepsInStep DEF Retire
  <2>6. CASE Thaw
    BY <2>6, ThawKeepsInStep DEF Thaw
  <2>7. CASE UNCHANGED vars
    BY <2>7, InStepUnchanged DEF vars
  <2> QED
    BY <2>1, <2>2, <2>3, <2>4, <2>5, <2>6, <2>7 DEF Next, WorkerStep
<1> QED
  BY <1>1, <1>2, IndexesTyped, PTL DEF Spec

-----------------------------------------------------------------------------
(***************************************************************************)
(* A part of a sequence grows at its end.                                  *)
(***************************************************************************)
LEMMA SubSeqGrows ==
    ASSUME NEW S, NEW s \in Seq(S), NEW m \in Nat \ {0}, NEW n \in Nat,
           m <= n + 1, n + 1 <= Len(s)
    PROVE  Append(SubSeq(s, m, n), s[n + 1]) = SubSeq(s, m, n + 1)
<1>1. s[n + 1] \in S
  OBVIOUS
<1>2. \A j \in m .. n : s[j] \in S
  OBVIOUS
<1>3. \A j \in m .. n + 1 : s[j] \in S
  OBVIOUS
<1>4. /\ SubSeq(s, m, n) \in Seq(S)
      /\ Len(SubSeq(s, m, n)) = n - m + 1
      /\ \A j \in 1 .. n - m + 1 : SubSeq(s, m, n)[j] = s[m + j - 1]
  BY <1>2, SubSeqProperties
<1>5. /\ SubSeq(s, m, n + 1) \in Seq(S)
      /\ Len(SubSeq(s, m, n + 1)) = n - m + 2
      /\ \A j \in 1 .. n - m + 2 : SubSeq(s, m, n + 1)[j] = s[m + j - 1]
  BY <1>3, SubSeqProperties, SMTT(30)
<1> DEFINE t == Append(SubSeq(s, m, n), s[n + 1])
<1>6. t \in Seq(S) /\ Len(t) = n - m + 2
  BY <1>1, <1>4
<1>7. \A j \in 1 .. n - m + 2 : t[j] = s[m + j - 1]
  BY <1>1, <1>4
<1> HIDE DEF t
<1>8. t = SubSeq(s, m, n + 1)
  BY <1>5, <1>6, <1>7, SeqEqual
<1> QED
  BY <1>8 DEF t

(***************************************************************************)
(* The kernel does not touch the block that the worker is reading.         *)
(***************************************************************************)
LEMMA KernelLeavesBlock ==
    ASSUME IndexesOK, BlocksOK, InStep, ReadsOwnBlock,
           pc \in {"collect", "release"},
           Retire \/ Thaw \/ \E p \in Packets : Store(p)
    PROVE  /\ status'[rxIdx] = "user"
           /\ block'[rxIdx] = block[rxIdx]
           /\ UNCHANGED <<rxIdx, pc, done, pkts, last>>
<1> USE DEF IndexesOK
<1>1. status[rxIdx] = "user"
  BY DEF ReadsOwnBlock
<1>2. CASE Retire
  BY <1>1, <1>2, SuccIsNext DEF Retire, BlocksOK, local
<1>3. CASE Thaw
  BY <1>1, <1>3 DEF Thaw, BlocksOK, local
<1>4. CASE \E p \in Packets : Store(p)
  <2>1. rxIdx # current
    BY <1>1, <1>4, KernelOwnsCurrent DEF Store
  <2> QED
    BY <1>1, <1>4, <2>1 DEF Store, BlocksOK, local
<1> QED
  BY <1>2, <1>3, <1>4

(***************************************************************************)
(* What the callback gets is the block as the kernel handed it over.       *)
(***************************************************************************)
THEOREM ReadsOwnBlockHolds == Spec => []ReadsOwnBlock
<1>1. Init => ReadsOwnBlock
  BY DEF Init, ReadsOwnBlock
<1>2. TypeOK /\ InStep /\ ReadsOwnBlock /\ [Next]_vars => ReadsOwnBlock'
  <2> SUFFICES ASSUME IndexesOK, BlocksOK, BatchOK, InStep, ReadsOwnBlock,
                      [Next]_vars,
                      pc' \in {"collect", "release"}
               PROVE  ReadsOwnBlock'
    BY DEF TypeOK, ReadsOwnBlock
  <2>1. CASE Recv \/ NoBlock \/ PollReady \/ PollTimeout \/ Release
    BY <2>1 DEF Recv, NoBlock, PollReady, PollTimeout, Release
  <2>2. CASE NewBlock
    <3>1. /\ pc' = "collect" /\ pkts' = <<>> /\ done' = 0
          /\ status'[rxIdx'] = "user"
      BY <2>2 DEF NewBlock
    <3>2. /\ Len(pkts') <= done'
          /\ done' - Len(pkts') + 1 = 1
      BY <3>1
    <3> DEFINE t == block'[rxIdx']
    <3> HIDE DEF t
    <3>3. SubSeq(t, 1, 0) = <<>>
      BY SubSeqEmpty
    <3>4. pkts' = SubSeq(t, done' - Len(pkts') + 1, done')
      BY <3>1, <3>2, <3>3, Zenon
    <3> QED
      BY <3>1, <3>2, <3>4 DEF ReadsOwnBlock, t
  <2>3. CASE Collect
    <3> DEFINE s == block[rxIdx]
               m == done - Len(pkts) + 1
    <3>1. s \in Seq(Packets) /\ done \in Nat /\ Len(pkts) \in Nat
      BY DEF IndexesOK, BlocksOK, BatchOK
    <3>2. /\ done + 1 <= Len(s)
          /\ Len(pkts) <= done
          /\ pkts = SubSeq(s, m, done)
          /\ status[rxIdx] = "user"
      <4>1. done < Len(s) /\ pc = "collect"
        BY <2>3 DEF Collect
      <4>2. done + 1 <= Len(s)
        BY <3>1, <4>1
      <4> QED
        BY <4>1, <4>2 DEF ReadsOwnBlock
    <3>3. /\ pc' = "collect" /\ done' = done + 1
          /\ UNCHANGED <<status, block, rxIdx>>
      BY <2>3 DEF Collect
    <3>4. CASE Full
      <4>1. pkts' = <<s[done + 1]>>
        BY <2>3, <3>4 DEF Collect
      <4>2. SubSeq(s, done + 1, done) = <<>>
        BY <3>1, SubSeqEmpty
      <4>3. Append(<<>>, s[done + 1]) = SubSeq(s, done + 1, done + 1)
        BY <3>1, <3>2, <4>2, SubSeqGrows
      <4>4. pkts' = SubSeq(s, done + 1, done + 1) /\ Len(pkts') = 1
        BY <4>1, <4>3
      <4>5. /\ Len(pkts') <= done'
            /\ pkts' = SubSeq(s, done' - Len(pkts') + 1, done')
        BY <3>1, <3>3, <4>4
      <4> QED
        BY <3>2, <3>3, <4>5 DEF ReadsOwnBlock
    <3>5. CASE ~Full
      <4>1. pkts' = Append(pkts, s[done + 1])
        BY <2>3, <3>5 DEF Collect
      <4>2. m \in Nat \ {0} /\ m <= done + 1
        BY <3>1, <3>2
      <4>3. pkts' = SubSeq(s, m, done + 1)
        <5> HIDE DEF s, m
        <5>1. Append(SubSeq(s, m, done), s[done + 1]) = SubSeq(s, m, done + 1)
          BY <3>1, <3>2, <4>2, SubSeqGrows
        <5> QED
          BY <3>2, <4>1, <5>1
      <4>4. Len(pkts') = Len(pkts) + 1
        BY <3>1, <3>2, <4>1 DEF BatchOK
      <4>5. /\ Len(pkts') <= done'
            /\ done' - Len(pkts') + 1 = m
        BY <3>1, <3>2, <3>3, <4>4
      <4> QED
        BY <3>2, <3>3, <4>3, <4>5 DEF ReadsOwnBlock
    <3> QED
      BY <3>4, <3>5
  <2>4. CASE Flush
    BY <2>4 DEF Flush, ReadsOwnBlock, local
  <2>5. CASE Retire \/ Thaw \/ \E p \in Packets : Store(p)
    <3>1. pc \in {"collect", "release"}
      BY <2>5 DEF Retire, Thaw, Store
    <3> QED
      BY <2>5, <3>1, KernelLeavesBlock DEF ReadsOwnBlock
  <2>6. CASE UNCHANGED vars
    BY <2>6 DEF vars, local, ReadsOwnBlock
  <2> QED
    BY <2>1, <2>2, <2>3, <2>4, <2>5, <2>6 DEF Next, WorkerStep
<1> QED
  BY <1>1, <1>2, TypeCorrect, InStepHolds, PTL DEF Spec

-----------------------------------------------------------------------------
\* The pieces of the ring, and what is stored as their concatenation.
Pieces == [j \in 1 .. NBlocks |-> Left((rxIdx + j - 1) % NBlocks)]

StoredIsConcat == IsConcat(Stored, Pieces, NBlocks)

LEMMA StoredUnfolds == StoredIsConcat
<1>1. \E g : g = [j \in 0 .. NBlocks |-> IF j = 0 THEN <<>>
                                         ELSE g[j - 1] \o Pieces[j]]
  BY ConcatExists
<1>2. \A j \in 1 .. NBlocks : Pieces[j] = Left((rxIdx + j - 1) % NBlocks)
  BY DEF Pieces
<1>3. PICK g : g = [j \in 0 .. NBlocks |-> IF j = 0 THEN <<>>
                                           ELSE g[j - 1] \o Pieces[j]]
  BY <1>1
<1>4. \A j \in 0 .. NBlocks :
          (IF j = 0 THEN <<>> ELSE g[j - 1] \o Pieces[j]) =
          (IF j = 0 THEN <<>>
           ELSE g[j - 1] \o Left((rxIdx + j - 1) % NBlocks))
  BY <1>2
<1>5. g = [j \in 0 .. NBlocks |->
              IF j = 0 THEN <<>>
              ELSE g[j - 1] \o Left((rxIdx + j - 1) % NBlocks)]
  BY <1>3, <1>4
<1>6. Stored = [j \in 0 .. NBlocks |->
                   IF j = 0 THEN <<>>
                   ELSE Stored[j - 1] \o Left((rxIdx + j - 1) % NBlocks)]
  BY <1>5, Zenon DEF Stored
<1>7. Stored[0] = <<>>
  BY <1>6
<1>8. \A j \in 1 .. NBlocks : Stored[j] = Stored[j - 1] \o Pieces[j]
  <2> SUFFICES ASSUME NEW j \in 1 .. NBlocks
               PROVE  Stored[j] = Stored[j - 1] \o Pieces[j]
    OBVIOUS
  <2>1. j \in 0 .. NBlocks /\ j # 0
    OBVIOUS
  <2>2. Stored[j] = IF j = 0 THEN <<>>
                    ELSE Stored[j - 1] \o Left((rxIdx + j - 1) % NBlocks)
    BY <1>6, <2>1
  <2> QED
    BY <1>2, <2>1, <2>2
<1> QED
  BY <1>7, <1>8 DEF StoredIsConcat, IsConcat

LEMMA StoredUnfoldsNext == StoredIsConcat'
  BY StoredUnfolds, PTL

LEMMA ConcatAppend ==
    ASSUME NEW S, NEW s \in Seq(S), NEW t \in Seq(S), NEW p \in S
    PROVE  s \o Append(t, p) = Append(s \o t, p)
<1>1. <<p>> \in Seq(S) /\ s \o t \in Seq(S)
  OBVIOUS
<1>2. Append(t, p) = t \o <<p>> /\ Append(s \o t, p) = (s \o t) \o <<p>>
  BY <1>1, AppendIsConcat
<1>3. (s \o t) \o <<p>> = s \o (t \o <<p>>)
  BY <1>1, ConcatAssociative
<1> QED
  BY <1>2, <1>3

(***************************************************************************)
(* What a change of the pieces does to their concatenation: none changes,  *)
(* ...                                                                     *)
(***************************************************************************)
LEMMA ConcatSame ==
    ASSUME NEW n \in Nat, NEW X, NEW Y, NEW g, NEW h,
           IsConcat(g, X, n), IsConcat(h, Y, n),
           \A j \in 1 .. n : Y[j] = X[j]
    PROVE  h[n] = g[n]
<1> DEFINE T == {j \in 0 .. n : h[j] = g[j]}
<1>1. 0 \in T
  BY DEF IsConcat
<1>2. \A j \in 0 .. n - 1 : j \in T => j + 1 \in T
  <2> SUFFICES ASSUME NEW j \in 0 .. n - 1, h[j] = g[j]
               PROVE  h[j + 1] = g[j + 1]
    OBVIOUS
  <2>1. j + 1 \in 1 .. n /\ (j + 1) - 1 = j
    OBVIOUS
  <2>2. g[j + 1] = g[j] \o X[j + 1] /\ h[j + 1] = h[j] \o Y[j + 1]
    BY <2>1 DEF IsConcat
  <2> QED
    BY <2>1, <2>2
<1> HIDE DEF T
<1>3. \A j \in 0 .. n : j \in T
  BY <1>1, <1>2, CountUp
<1> QED
  BY <1>3 DEF T

\* ... the first one loses what it begins with, ...
LosesFirst(s, a, t) == s = a \o t

LEMMA ConcatLosesFirst ==
    ASSUME NEW S, NEW n \in Nat \ {0}, NEW X, NEW Y, NEW g, NEW h,
           IsConcat(g, X, n), IsConcat(h, Y, n),
           \A j \in 1 .. n : Y[j] \in Seq(S),
           NEW a \in Seq(S), LosesFirst(X[1], a, Y[1]),
           \A j \in 2 .. n : Y[j] = X[j]
    PROVE  LosesFirst(g[n], a, h[n])
<1> USE DEF LosesFirst
<1> DEFINE T == {j \in 0 .. n : j = 0 \/ g[j] = a \o h[j]}
<1>1. 0 \in T
  OBVIOUS
<1>2. \A j \in 0 .. n : h[j] \in Seq(S)
  BY ConcatTyped
<1>3. \A j \in 0 .. n - 1 : j \in T => j + 1 \in T
  <2> SUFFICES ASSUME NEW j \in 0 .. n - 1, j \in T
               PROVE  g[j + 1] = a \o h[j + 1]
    <3>1. \A j \in 0 .. n - 1 : j + 1 \in 0 .. n
      OBVIOUS
    <3> QED
      BY <3>1, Zenon
  <2>1. j + 1 \in 1 .. n /\ (j + 1) - 1 = j
    OBVIOUS
  <2>2. g[j + 1] = g[j] \o X[j + 1] /\ h[j + 1] = h[j] \o Y[j + 1]
    BY <2>1 DEF IsConcat
  <2>3. CASE j = 0
    <3>1. 1 \in 1 .. n
      OBVIOUS
    <3>2. g[0] = <<>> /\ h[0] = <<>> /\ Y[1] \in Seq(S)
      BY <3>1 DEF IsConcat
    <3>3. X[1] \in Seq(S)
      BY <3>2, ConcatProperties
    <3>4. <<>> \o X[1] = X[1] /\ <<>> \o Y[1] = Y[1]
      BY <3>2, <3>3, ConcatEmptySeq, ZenonT(60)
    <3>5. g[1] = X[1] /\ h[1] = Y[1]
      BY <2>2, <2>3, <3>2, <3>4
    <3> QED
      <4>1. j + 1 = 1
        BY <2>3
      <4>2. g[1] = a \o h[1]
        BY <3>5, Zenon
      <4> QED
        BY <4>1, <4>2
  <2>4. CASE j # 0
    <3>1. j + 1 \in 2 .. n
      BY <2>4
    <3>2. X[j + 1] = Y[j + 1] /\ Y[j + 1] \in Seq(S) /\ h[j] \in Seq(S)
      BY <1>2, <2>1, <3>1
    <3>3. g[j] = a \o h[j]
      BY <2>4
    <3>4. (a \o h[j]) \o Y[j + 1] = a \o (h[j] \o Y[j + 1])
      <4>1. \A t, u \in Seq(S) : (a \o t) \o u = a \o (t \o u)
        BY ConcatAssociative
      <4> QED
        BY <3>2, <4>1, Zenon
    <3> QED
      BY <2>2, <3>2, <3>3, <3>4
  <2> QED
    BY <2>3, <2>4
<1> HIDE DEF T
<1>4. \A j \in 0 .. n : j \in T
  BY <1>1, <1>3, CountUp
<1> QED
  BY <1>4 DEF T

\* ... the last one that is not empty grows at its end, ...
GrowsAt(X, m, p, Y, n) ==
    /\ Y[m] = Append(X[m], p)
    /\ \A j \in 1 .. n : j # m => Y[j] = X[j]
    /\ \A j \in 1 .. n : j > m => X[j] = <<>>

LEMMA ConcatGrows ==
    ASSUME NEW S, NEW n \in Nat, NEW X, NEW Y, NEW g, NEW h,
           IsConcat(g, X, n), IsConcat(h, Y, n),
           \A j \in 1 .. n : X[j] \in Seq(S),
           NEW m \in 1 .. n, NEW p \in S, GrowsAt(X, m, p, Y, n)
    PROVE  h[n] = Append(g[n], p)
<1> USE DEF GrowsAt
<1> DEFINE T == {j \in 0 .. n : h[j] = IF j >= m THEN Append(g[j], p) ELSE g[j]}
<1>1. 0 \in T
  BY DEF IsConcat
<1>2. \A j \in 0 .. n : g[j] \in Seq(S)
  BY ConcatTyped
<1>3. \A j \in 0 .. n - 1 : j \in T => j + 1 \in T
  <2> SUFFICES ASSUME NEW j \in 0 .. n - 1, j \in T
               PROVE  h[j + 1] = IF j + 1 >= m THEN Append(g[j + 1], p)
                                               ELSE g[j + 1]
    <3>1. \A j \in 0 .. n - 1 : j + 1 \in 0 .. n
      OBVIOUS
    <3> QED
      BY <3>1, Zenon
  <2>0. h[j] = IF j >= m THEN Append(g[j], p) ELSE g[j]
    OBVIOUS
  <2> HIDE DEF T
  <2>1. /\ j + 1 \in 1 .. n /\ (j + 1) - 1 = j /\ j \in 0 .. n
        /\ j \in Nat /\ m \in Nat
    OBVIOUS
  <2>2. /\ g[j + 1] = g[j] \o X[j + 1]
        /\ h[j + 1] = h[j] \o Y[j + 1]
        /\ g[j] \in Seq(S)
        /\ X[j + 1] \in Seq(S)
        /\ g[j + 1] \in Seq(S)
    <3>1. j + 1 \in 0 .. n
      OBVIOUS
    <3>2. g[j + 1] = g[j] \o X[j + 1] /\ h[j + 1] = h[j] \o Y[j + 1]
      BY <2>1 DEF IsConcat
    <3> QED
      BY <1>2, <2>1, <3>1, <3>2
  <2>3. CASE j + 1 = m
    <3>1. h[j] = g[j] /\ Y[j + 1] = Append(X[j + 1], p)
      BY <2>0, <2>1, <2>3
    <3>2. g[j] \o Append(X[j + 1], p) = Append(g[j] \o X[j + 1], p)
      <4> DEFINE u == g[j]
                 v == X[j + 1]
      <4>1. u \in Seq(S) /\ v \in Seq(S)
        BY <2>2
      <4> HIDE DEF u, v
      <4>2. u \o Append(v, p) = Append(u \o v, p)
        BY <4>1, ConcatAppend
      <4> QED
        BY <4>2 DEF u, v
    <3>3. h[j + 1] = Append(g[j + 1], p)
      BY <2>2, <3>1, <3>2, Zenon
    <3> QED
      BY <2>1, <2>3, <3>3
  <2>4. CASE j + 1 < m
    <3>1. Y[j + 1] = X[j + 1] /\ h[j] = g[j] /\ ~(j + 1 >= m)
      BY <2>0, <2>1, <2>4
    <3>2. h[j + 1] = g[j + 1]
      BY <2>2, <3>1, Zenon
    <3> QED
      BY <3>1, <3>2
  <2>5. CASE j + 1 > m
    <3>1. j >= m /\ j + 1 > m /\ j + 1 >= m
      BY <2>1, <2>5
    <3>2. X[j + 1] = <<>> /\ Y[j + 1] = <<>> /\ h[j] = Append(g[j], p)
      BY <2>0, <2>1, <3>1
    <3>3. h[j] \in Seq(S)
      BY <2>2, <3>2, AppendProperties
    <3>4. g[j + 1] = g[j] /\ h[j + 1] = h[j]
      BY <2>2, <3>2, <3>3, ConcatEmptySeq
    <3> QED
      BY <3>1, <3>2, <3>4
  <2> QED
    BY <2>1, <2>3, <2>4, <2>5
<1> HIDE DEF T
<1>4. \A j \in 0 .. n : j \in T
  BY <1>1, <1>3, CountUp
<1>5. n \in T /\ n >= m
  BY <1>4
<1>6. h[n] = IF n >= m THEN Append(g[n], p) ELSE g[n]
  BY <1>5, Zenon DEF T
<1> QED
  BY <1>5, <1>6

\* ... and the first one, which is empty, becomes the last.
LEMMA ConcatTurns ==
    ASSUME NEW S, NEW n \in Nat \ {0}, NEW X, NEW Y, NEW g, NEW h,
           IsConcat(g, X, n), IsConcat(h, Y, n),
           \A j \in 1 .. n : X[j] \in Seq(S),
           X[1] = <<>>, Y[n] = <<>>,
           \A j \in 1 .. n - 1 : Y[j] = X[j + 1]
    PROVE  h[n] = g[n]
<1> DEFINE k == n - 1
           T == {j \in 0 .. k : h[j] = g[j + 1]}
<1>1. \A j \in 0 .. n : g[j] \in Seq(S)
  BY ConcatTyped
<1>2. 0 \in T
  <2>1. 1 \in 1 .. n /\ 0 \in 0 .. k
    OBVIOUS
  <2>2. g[1] = g[0] \o X[1] /\ g[0] = <<>> /\ h[0] = <<>>
    <3>1. 1 - 1 = 0
      OBVIOUS
    <3> QED
      BY <2>1, <3>1, Zenon DEF IsConcat
  <2>3. <<>> \o <<>> = <<>>
    BY ConcatEmptySeq, <<>> \in Seq(S)
  <2> QED
    BY <2>1, <2>2, <2>3
<1>3. \A j \in 0 .. k - 1 : j \in T => j + 1 \in T
  <2> SUFFICES ASSUME NEW j \in 0 .. k - 1, h[j] = g[j + 1]
               PROVE  h[j + 1] = g[(j + 1) + 1]
    OBVIOUS
  <2>1. /\ j + 1 \in 1 .. n - 1 /\ j + 1 \in 1 .. n /\ (j + 1) + 1 \in 1 .. n
        /\ (j + 1) - 1 = j /\ ((j + 1) + 1) - 1 = j + 1
    OBVIOUS
  <2>2. /\ h[j + 1] = h[j] \o Y[j + 1]
        /\ g[(j + 1) + 1] = g[j + 1] \o X[(j + 1) + 1]
        /\ Y[j + 1] = X[(j + 1) + 1]
    BY <2>1 DEF IsConcat
  <2> QED
    BY <2>2
<1>4. k \in Nat
  OBVIOUS
<1>5. \A j \in 0 .. k : j \in T
  <2> HIDE DEF T, k
  <2> QED
    BY <1>2, <1>3, <1>4, CountUp
<1>6. h[k] = g[k + 1] /\ k + 1 = n
  BY <1>4, <1>5
<1>7. h[n] = h[k] \o Y[n]
  <2>1. n \in 1 .. n
    OBVIOUS
  <2> QED
    BY <2>1, Zenon DEF IsConcat
<1>8. g[n] \in Seq(S)
  BY <1>1
<1> QED
  BY <1>6, <1>7, <1>8, ConcatEmptySeq

-----------------------------------------------------------------------------
(***************************************************************************)
(* What is stored in the ring after a step.                                *)
(***************************************************************************)
LEMMA PieceIsLeft ==
    ASSUME NEW j \in 1 .. NBlocks
    PROVE  Pieces[j] = Left((rxIdx + j - 1) % NBlocks)
  BY DEF Pieces

LEMMA PieceBlock ==
    ASSUME NEW r \in Blocks, NEW j \in 1 .. NBlocks
    PROVE  /\ (r + j - 1) % NBlocks \in Blocks
           /\ (r + j - 1) % NBlocks = IF r + j - 1 < NBlocks
                                      THEN r + j - 1 ELSE r + j - 1 - NBlocks
<1>1. j - 1 \in 0 .. NBlocks /\ r + (j - 1) = r + j - 1
  BY DEF Blocks
<1>2. (r + (j - 1)) % NBlocks = IF r + (j - 1) < NBlocks
                                THEN r + (j - 1) ELSE r + (j - 1) - NBlocks
  BY <1>1, BlockAt
<1> QED
  BY <1>1, <1>2 DEF Blocks

LEMMA FirstPiece ==
    ASSUME NEW r \in Blocks
    PROVE  1 \in 1 .. NBlocks /\ (r + 1 - 1) % NBlocks = r
<1>1. r + 1 - 1 = r
  BY DEF Blocks
<1>2. r % NBlocks = r
  BY DEF Blocks
<1> QED
  BY <1>1, <1>2

LeftTyped == \A b \in Blocks : Left(b) \in Seq(Packets)

PiecesTyped == \A j \in 1 .. NBlocks : Pieces[j] \in Seq(Packets)

LEMMA LeftsTyped == TypeOK /\ ReadsOwnBlock => LeftTyped /\ PiecesTyped
<1> SUFFICES ASSUME TypeOK, ReadsOwnBlock PROVE LeftTyped /\ PiecesTyped
  OBVIOUS
<1>1. ASSUME NEW b \in Blocks PROVE Left(b) \in Seq(Packets)
  <2>1. block[b] \in Seq(Packets) /\ <<>> \in Seq(Packets)
    BY DEF TypeOK, BlocksOK
  <2>2. CASE pc = "collect" /\ b = rxIdx
    <3> DEFINE s == block[b]
               m == done - Len(pkts) + 1
    <3>1. m \in Nat \ {0}
      BY <2>2 DEF ReadsOwnBlock, TypeOK, BatchOK
    <3>2. SubSeq(s, m, Len(s)) \in Seq(Packets)
      <4>1. s \in Seq(Packets) /\ Len(s) \in Nat
        BY <2>1
      <4> HIDE DEF s, m
      <4>2. \A k \in m .. Len(s) : s[k] \in Packets
        BY <3>1, <4>1
      <4> QED
        BY <3>1, <4>1, <4>2, SubSeqProperties
    <3> QED
      BY <2>1, <2>2, <3>2 DEF Left, Rest
  <2>3. CASE pc # "collect" \/ b # rxIdx
    BY <2>1, <2>3 DEF Left, Rest
  <2> QED
    BY <2>2, <2>3
<1>2. PiecesTyped
  <2> SUFFICES ASSUME NEW j \in 1 .. NBlocks PROVE Pieces[j] \in Seq(Packets)
    BY DEF PiecesTyped
  <2>1. (rxIdx + j - 1) % NBlocks \in Blocks
    BY PieceBlock DEF TypeOK, IndexesOK
  <2> QED
    BY <1>1, <2>1, PieceIsLeft
<1> QED
  BY <1>1, <1>2 DEF LeftTyped

LEMMA LeftsTypedNext ==
    TypeOK' /\ ReadsOwnBlock' => LeftTyped' /\ PiecesTyped'
  BY LeftsTyped, PTL

\* Nothing changes: the same blocks with the same packets left.
LEMMA StoredSame ==
    ASSUME rxIdx \in Blocks, rxIdx' = rxIdx,
           \A b \in Blocks : Left(b)' = Left(b)
    PROVE  Stored[NBlocks]' = Stored[NBlocks]
<1>1. ASSUME NEW j \in 1 .. NBlocks PROVE Pieces'[j] = Pieces[j]
  <2>1. PICK b \in Blocks : b = (rxIdx + j - 1) % NBlocks
    BY PieceBlock
  <2>2. Pieces[j] = Left(b)
    BY <2>1 DEF Pieces
  <2>3. Pieces'[j] = Left(b)'
    BY <2>1 DEF Pieces
  <2> QED
    BY <2>2, <2>3
<1>2. /\ IsConcat(Stored, Pieces, NBlocks)
      /\ IsConcat(Stored', Pieces', NBlocks)
  BY StoredUnfolds, StoredUnfoldsNext DEF StoredIsConcat
<1> QED
  <2>1. NBlocks \in Nat /\ \A j \in 1 .. NBlocks : Pieces'[j] = Pieces[j]
    BY <1>1
  <2>2. Stored'[NBlocks] = Stored[NBlocks]
    BY <1>2, <2>1, ConcatSame
  <2> QED
    BY <2>2

(***************************************************************************)
(* The steps of the kernel: Store appends to what is stored, ...           *)
(***************************************************************************)
LEMMA StoreAppends ==
    ASSUME TypeOK, InStep, ReadsOwnBlock, NEW p \in Packets, Store(p)
    PROVE  Stored[NBlocks]' = Append(Stored[NBlocks], p)
<1> USE DEF TypeOK, IndexesOK
<1>1. PICK n \in 0 .. NBlocks : UserBlocksAre(n) /\ (n = NBlocks => frozen)
  BY DEF InStep
<1>2. PICK c \in Blocks, r \in Blocks : c = current /\ r = rxIdx
  OBVIOUS
<1>3. n \in 0 .. NBlocks - 1 /\ n + 1 \in 1 .. NBlocks
  BY <1>1 DEF Store
<1>4. c = (r + n) % NBlocks /\ Distance(c) = n /\ status[c] = "kernel"
  <2>1. c = (r + n) % NBlocks
    BY <1>1, <1>2 DEF UserBlocksAre
  <2>2. Distance(c) = n
    BY <1>2, <1>3, <2>1, DistanceOfBlockAt
  <2> QED
    BY <1>1, <1>2, <1>3, <2>1, <2>2 DEF UserBlocksAre
<1>5. /\ UNCHANGED <<status, current, frozen, rxIdx, pc, done, pkts>>
      /\ \A b \in Blocks : b # c => block'[b] = block[b]
      /\ block'[c] = Append(block[c], p)
  BY <1>2 DEF Store, kernel, local, BlocksOK
<1>6. pc \in {"collect", "release"} => c # r
  BY <1>2, <1>4 DEF ReadsOwnBlock
<1>7. Left(c)' = Append(Left(c), p)
  BY <1>2, <1>5, <1>6 DEF Left, Rest, Holding, Store, Blocks
<1>8. \A b \in Blocks : b # c => Left(b)' = Left(b)
  BY <1>5 DEF Left, Rest, Holding, Blocks
<1>9. ASSUME NEW j \in 1 .. NBlocks, NEW b \in Blocks,
             b = (r + j - 1) % NBlocks
      PROVE  /\ Pieces[j] = Left(b)
             /\ Pieces'[j] = Left(b)'
             /\ b = c <=> j = n + 1
             /\ j > n + 1 => Left(b) = <<>>
  <2>1. Pieces[j] = Left(b) /\ Pieces'[j] = Left(b)'
    BY <1>2, <1>5, <1>9 DEF Pieces
  <2>2. Distance(b) = j - 1
    <3>1. j - 1 \in 0 .. NBlocks - 1 /\ r + (j - 1) = r + j - 1
      BY DEF Blocks
    <3> QED
      BY <1>2, <1>9, <3>1, DistanceOfBlockAt
  <2>3. b = c <=> j = n + 1
    BY <1>2, <1>3, <1>4, <2>2, DistanceOfBlockAt DEF Blocks
  <2>4. j > n + 1 => b \notin Holding
    BY <1>1, <1>2, <1>3, <2>2, <2>3 DEF Holding, UserBlocksAre
  <2> QED
    BY <2>1, <2>3, <2>4 DEF Left
<1>10. /\ Pieces'[n + 1] = Append(Pieces[n + 1], p)
       /\ \A j \in 1 .. NBlocks : j # n + 1 => Pieces'[j] = Pieces[j]
       /\ \A j \in 1 .. NBlocks : j > n + 1 => Pieces[j] = <<>>
  <2>1. ASSUME NEW j \in 1 .. NBlocks
        PROVE  /\ j = n + 1 => Pieces'[j] = Append(Pieces[j], p)
               /\ j # n + 1 => Pieces'[j] = Pieces[j]
               /\ j > n + 1 => Pieces[j] = <<>>
    <3>1. PICK b \in Blocks : b = (r + j - 1) % NBlocks
      BY PieceBlock
    <3> QED
      BY <1>7, <1>8, <1>9, <3>1
  <2> QED
    BY <1>3, <2>1
<1>11. /\ IsConcat(Stored, Pieces, NBlocks)
       /\ IsConcat(Stored', Pieces', NBlocks)
  BY StoredUnfolds, StoredUnfoldsNext DEF StoredIsConcat
<1>12. \A j \in 1 .. NBlocks : Pieces[j] \in Seq(Packets)
  BY LeftsTyped DEF PiecesTyped
<1>13. Stored'[NBlocks] = Append(Stored[NBlocks], p)
  <2> HIDE DEF TypeOK, IndexesOK
  <2>1. PICK m \in 1 .. NBlocks : m = n + 1
    BY <1>3
  <2>2. GrowsAt(Pieces, m, p, Pieces', NBlocks)
    BY <1>10, <2>1 DEF GrowsAt
  <2>3. NBlocks \in Nat
    OBVIOUS
  <2> QED
    BY <1>11, <1>12, <2>2, <2>3, ConcatGrows
<1> QED
  BY <1>13

\* ... and handing over a block, freezing and thawing change nothing.
LEMMA HandOverKeepsStored ==
    ASSUME TypeOK, ReadsOwnBlock, Retire \/ Thaw
    PROVE  Stored[NBlocks]' = Stored[NBlocks]
<1> USE DEF TypeOK, IndexesOK
<1>1. UNCHANGED <<rxIdx, pc, done, pkts>>
  BY DEF Retire, Thaw, local
<1>2. PICK c \in Blocks, r \in Blocks : c = current /\ r = rxIdx
  OBVIOUS
<1>3. ASSUME NEW b \in Blocks PROVE Left(b)' = Left(b)
  <2>1. pc \in {"collect", "release"} => status[r] = "user"
    BY <1>2 DEF ReadsOwnBlock
  <2>2. CASE Retire
    <3>1. PICK d \in Blocks : d = Succ(c)
      BY SuccIsNext
    <3>2. /\ ~frozen
          /\ status' = [status EXCEPT ![c] = "user"]
          /\ current' = d
          /\ \/ /\ status'[d] = "kernel"
                /\ block' = [block EXCEPT ![d] = <<>>]
                /\ ~frozen'
             \/ frozen' /\ block' = block
      BY <1>2, <2>2, <3>1 DEF Retire
    <3>3. CASE frozen'
      <4>1. block' = block
        BY <3>2, <3>3
      <4>2. b \in Holding' <=> b \in Holding
        BY <1>2, <3>2, <3>3 DEF Holding, Blocks
      <4>3. Rest(b)' = Rest(b)
        BY <1>1, <4>1 DEF Rest
      <4> QED
        BY <4>2, <4>3 DEF Left
    <3>4. CASE ~frozen'
      <4>1. status'[d] = "kernel" /\ block' = [block EXCEPT ![d] = <<>>]
        BY <3>2, <3>4
      <4>2. d # c /\ status[d] = "kernel"
        BY <3>2, <4>1
      <4>3. d \notin Holding /\ (pc \in {"collect", "release"} => d # r)
        BY <1>2, <2>1, <4>2 DEF Holding
      <4>4. CASE b = d
        <5>1. block'[b] = <<>> /\ (pc \in {"collect", "release"} => b # rxIdx)
          BY <1>2, <4>1, <4>3, <4>4 DEF BlocksOK
        <5>2. Rest(b)' = <<>>
          BY <1>1, <5>1 DEF Rest
        <5> QED
          BY <4>3, <4>4, <5>2 DEF Left
      <4>5. CASE b # d
        <5>1. block'[b] = block[b]
          BY <4>1, <4>5 DEF BlocksOK
        <5>2. Rest(b)' = Rest(b)
          BY <1>1, <5>1 DEF Rest
        <5>3. b \in Holding' <=> b \in Holding
          BY <1>2, <3>2, <3>4, <4>5 DEF Holding, Blocks
        <5> QED
          BY <5>2, <5>3 DEF Left
      <4> QED
        BY <4>4, <4>5
    <3> QED
      BY <3>3, <3>4
  <2>3. CASE Thaw
    <3>1. /\ frozen /\ status[c] = "kernel" /\ ~frozen'
          /\ block' = [block EXCEPT ![c] = <<>>]
          /\ UNCHANGED <<status, current>>
      BY <1>2, <2>3 DEF Thaw
    <3>2. CASE b = c
      <4>1. block'[b] = <<>> /\ (pc \in {"collect", "release"} => b # rxIdx)
        BY <1>2, <2>1, <3>1, <3>2 DEF BlocksOK
      <4>2. Rest(b)' = <<>>
        BY <1>1, <4>1 DEF Rest
      <4>3. b \notin Holding
        BY <3>1, <3>2 DEF Holding
      <4> QED
        BY <4>2, <4>3 DEF Left
    <3>3. CASE b # c
      <4>1. block'[b] = block[b]
        BY <3>1, <3>3 DEF BlocksOK
      <4>2. Rest(b)' = Rest(b)
        BY <1>1, <4>1 DEF Rest
      <4>3. b \in Holding' <=> b \in Holding
        BY <1>2, <3>1, <3>3 DEF Holding, Blocks
      <4> QED
        BY <4>2, <4>3 DEF Left
    <3> QED
      BY <3>2, <3>3
  <2> QED
    BY <2>2, <2>3
<1> QED
  BY <1>1, <1>3, StoredSame

(***************************************************************************)
(* The steps of the worker that hand nothing over: what has been collected *)
(* is still part of what is left of the block.                             *)
(***************************************************************************)
LEMMA LookingKeepsStored ==
    ASSUME TypeOK, Recv \/ NewBlock \/ NoBlock \/ PollReady \/ PollTimeout
    PROVE  Stored[NBlocks]' = Stored[NBlocks] /\ last' = last
<1> USE DEF TypeOK, IndexesOK
<1>1. /\ UNCHANGED <<status, block, current, frozen, rxIdx, last>>
      /\ pc \notin {"collect", "release"}
      /\ pc' # "release"
      /\ pc' = "collect" => done' = 0 /\ pkts' = <<>>
  BY DEF Recv, NewBlock, NoBlock, PollReady, PollTimeout, kernel
<1>2. ASSUME NEW b \in Blocks PROVE Left(b)' = Left(b)
  <2>1. Rest(b) = block[b]
    BY <1>1 DEF Rest
  <2>2. Rest(b)' = block[b]
    <3>1. CASE pc' = "collect" /\ b = rxIdx
      <4> DEFINE s == block[b]
      <4>1. s \in Seq(Packets)
        BY DEF BlocksOK
      <4>2. done' - Len(pkts') + 1 = 1
        BY <1>1, <3>1
      <4>3. Rest(b)' = SubSeq(s, 1, Len(s))
        BY <1>1, <3>1, <4>2 DEF Rest
      <4> HIDE DEF s
      <4>4. SubSeq(s, 1, Len(s)) = s
        BY <4>1, SubSeqFull
      <4> QED
        BY <4>3, <4>4 DEF s
    <3>2. CASE pc' # "collect" \/ b # rxIdx
      BY <1>1, <3>2 DEF Rest
    <3> QED
      BY <3>1, <3>2
  <2>3. b \in Holding' <=> b \in Holding
    BY <1>1 DEF Holding, Blocks
  <2> QED
    BY <2>1, <2>2, <2>3 DEF Left
<1> QED
  BY <1>1, <1>2, StoredSame

LEMMA CollectKeepsStored ==
    ASSUME TypeOK, Collect, ~Full
    PROVE  Stored[NBlocks]' = Stored[NBlocks] /\ last' = last
<1> USE DEF TypeOK, IndexesOK
<1>1. /\ UNCHANGED <<status, block, current, frozen, rxIdx, last, pc>>
      /\ done' = done + 1
      /\ \E p : pkts' = Append(pkts, p)
  BY DEF Collect, kernel
<1>2. done' - Len(pkts') = done - Len(pkts)
  BY <1>1 DEF BatchOK
<1>3. ASSUME NEW b \in Blocks PROVE Left(b)' = Left(b)
  <2>1. Rest(b)' = Rest(b)
    BY <1>1, <1>2 DEF Rest
  <2>2. b \in Holding' <=> b \in Holding
    BY <1>1 DEF Holding, Blocks
  <2> QED
    BY <2>1, <2>2 DEF Left
<1> QED
  BY <1>1, <1>3, StoredSame

(***************************************************************************)
(* The batch that is handed over is the beginning of what is stored, and   *)
(* the rest of it stays stored.                                            *)
(***************************************************************************)
LEMMA HandingOver ==
    ASSUME TypeOK, TypeOK', ReadsOwnBlock, ReadsOwnBlock',
           pc = "collect",
           UNCHANGED <<status, block, current, frozen, rxIdx>>,
           pc' \in {"collect", "release"},
           Rest(rxIdx) = pkts \o Rest(rxIdx)'
    PROVE  Stored[NBlocks] = pkts \o Stored[NBlocks]'
<1> USE DEF TypeOK, IndexesOK
<1>1. PICK r \in Blocks : r = rxIdx
  OBVIOUS
<1>2. Left(r) = pkts \o Left(r)'
  BY <1>1 DEF Left, Holding, ReadsOwnBlock, Blocks
<1>3. ASSUME NEW b \in Blocks, b # r PROVE Left(b)' = Left(b)
  BY <1>1, <1>3 DEF Left, Rest, Holding, Blocks
<1>4. Pieces[1] = Left(r) /\ Pieces'[1] = Left(r)'
  <2>1. 1 \in 1 .. NBlocks /\ (r + 1 - 1) % NBlocks = r
    BY FirstPiece
  <2> QED
    BY <1>1, <2>1 DEF Pieces
<1>5. \A j \in 2 .. NBlocks : Pieces'[j] = Pieces[j]
  <2> SUFFICES ASSUME NEW j \in 2 .. NBlocks PROVE Pieces'[j] = Pieces[j]
    OBVIOUS
  <2>1. j \in 1 .. NBlocks
    OBVIOUS
  <2>2. PICK b \in Blocks : b = (r + j - 1) % NBlocks
    BY <2>1, PieceBlock
  <2>3. b # r
    <3>1. (r + j - 1) % NBlocks = IF r + j - 1 < NBlocks
                                  THEN r + j - 1 ELSE r + j - 1 - NBlocks
      BY <2>1, PieceBlock
    <3> QED
      BY <2>2, <3>1 DEF Blocks
  <2>4. Pieces[j] = Left(b) /\ Pieces'[j] = Left(b)'
    BY <1>1, <2>1, <2>2 DEF Pieces
  <2> QED
    BY <1>3, <2>3, <2>4
<1>6. /\ IsConcat(Stored, Pieces, NBlocks)
      /\ IsConcat(Stored', Pieces', NBlocks)
  BY StoredUnfolds, StoredUnfoldsNext DEF StoredIsConcat
<1>7. \A j \in 1 .. NBlocks : Pieces'[j] \in Seq(Packets)
  BY LeftsTypedNext DEF PiecesTyped
<1>8. pkts \in Seq(Packets) /\ Pieces[1] = pkts \o Pieces'[1]
  BY <1>2, <1>4 DEF BatchOK
<1>9. Stored[NBlocks] = pkts \o Stored'[NBlocks]
  <2> HIDE DEF TypeOK, IndexesOK
  <2>1. PICK a \in Seq(Packets) : a = pkts
    BY <1>8
  <2>2. Pieces[1] = a \o Pieces'[1]
    BY <1>8, <2>1
  <2>3. Stored[NBlocks] = a \o Stored'[NBlocks]
    <3>1. LosesFirst(Pieces[1], a, Pieces'[1])
      BY <2>2 DEF LosesFirst
    <3>2. LosesFirst(Stored[NBlocks], a, Stored'[NBlocks])
      BY <1>5, <1>6, <1>7, <3>1, ConcatLosesFirst
    <3> QED
      BY <3>2 DEF LosesFirst
  <2> QED
    BY <2>1, <2>3
<1> QED
  BY <1>9

\* The batch is followed in the block by what has not been read yet.
LEMMA BatchThenUnread ==
    ASSUME TypeOK, ReadsOwnBlock, pc = "collect", done <= Len(block[rxIdx])
    PROVE  Rest(rxIdx) =
               pkts \o SubSeq(block[rxIdx], done + 1, Len(block[rxIdx]))
<1> DEFINE s == block[rxIdx]
           n == Len(s)
           m == done - Len(pkts) + 1
<1>1. s \in Seq(Packets) /\ n \in Nat
  BY DEF TypeOK, IndexesOK, BlocksOK
<1>2. /\ m \in 1 .. n + 1
      /\ done \in m - 1 .. n
      /\ n \in done .. n
  BY <1>1 DEF ReadsOwnBlock, TypeOK, BatchOK
<1>3. pkts = SubSeq(s, m, done) /\ Rest(rxIdx) = SubSeq(s, m, n)
  BY DEF ReadsOwnBlock, Rest
<1> HIDE DEF s, m
<1>4. SubSeq(s, m, done) \o SubSeq(s, done + 1, n) = SubSeq(s, m, n)
  BY <1>1, <1>2, ConcatAdjacentSubSeq
<1> QED
  BY <1>3, <1>4 DEF s

LEMMA FullCollectHandsOver ==
    ASSUME TypeOK, TypeOK', ReadsOwnBlock, ReadsOwnBlock', Collect, Full
    PROVE  Stored[NBlocks] = pkts \o Stored[NBlocks]' /\ last' = pkts
<1>1. /\ UNCHANGED <<status, block, current, frozen, rxIdx, pc>>
      /\ done' = done + 1
      /\ last' = pkts
      /\ pc = "collect"
      /\ done < Len(block[rxIdx])
      /\ \E p : pkts' = <<p>>
  BY DEF Collect, kernel
<1>2. done \in Nat /\ Len(block[rxIdx]) \in Nat
  BY DEF TypeOK, IndexesOK, BlocksOK, BatchOK
<1>3. Len(pkts') = 1
  BY <1>1
<1>4. done' - Len(pkts') + 1 = done + 1
  BY <1>1, <1>2, <1>3
<1>5. Rest(rxIdx)' = SubSeq(block[rxIdx], done + 1, Len(block[rxIdx]))
  BY <1>1, <1>4 DEF Rest
<1>6. Rest(rxIdx) = pkts \o Rest(rxIdx)'
  <2>1. done <= Len(block[rxIdx])
    BY <1>1, <1>2
  <2>2. Rest(rxIdx) =
            pkts \o SubSeq(block[rxIdx], done + 1, Len(block[rxIdx]))
    BY <1>1, <2>1, BatchThenUnread
  <2> QED
    BY <1>5, <2>2, Zenon
<1> QED
  BY <1>1, <1>6, HandingOver

LEMMA FlushHandsOver ==
    ASSUME TypeOK, TypeOK', ReadsOwnBlock, ReadsOwnBlock', Flush
    PROVE  Stored[NBlocks] = pkts \o Stored[NBlocks]' /\ last' = pkts
<1>1. /\ UNCHANGED <<status, block, current, frozen, rxIdx>>
      /\ last' = pkts
      /\ pc = "collect"
      /\ pc' = "release"
      /\ done = Len(block[rxIdx])
  BY DEF Flush, kernel
<1>2. done \in Nat
  BY DEF TypeOK, BatchOK
<1>3. SubSeq(block[rxIdx], done + 1, Len(block[rxIdx])) = <<>>
  BY <1>1, <1>2, SubSeqEmpty
<1>4. Rest(rxIdx)' = <<>>
  BY <1>1 DEF Rest
<1>5. Rest(rxIdx) = pkts \o Rest(rxIdx)'
  <2>1. Rest(rxIdx) =
            pkts \o SubSeq(block[rxIdx], done + 1, Len(block[rxIdx]))
    BY <1>1, <1>2, BatchThenUnread
  <2> QED
    BY <1>3, <1>4, <2>1, Zenon
<1> QED
  BY <1>1, <1>5, HandingOver

(***************************************************************************)
(* The block that goes back has nothing left, and the ring is read from    *)
(* the next one on.                                                        *)
(***************************************************************************)
LEMMA ReleaseKeepsStored ==
    ASSUME TypeOK, InStep, ReadsOwnBlock, Release
    PROVE  Stored[NBlocks]' = Stored[NBlocks] /\ last' = last
<1> USE DEF TypeOK, IndexesOK
<1>1. PICK n \in 0 .. NBlocks : UserBlocksAre(n) /\ (n = NBlocks => frozen)
  BY DEF InStep
<1>2. PICK r \in Blocks, d \in Blocks : r = rxIdx /\ d = Succ(r)
  BY SuccIsNext
<1>3. /\ UNCHANGED <<block, current, frozen, last>>
      /\ status' = [status EXCEPT ![r] = "kernel"]
      /\ rxIdx' = d
      /\ pc = "release"
      /\ pc' = "idle"
      /\ status[r] = "user"
  BY <1>2 DEF Release, kernel, ReadsOwnBlock
<1>4. r = current => frozen
  <2>1. Distance(r) = 0
    BY <1>2, DistanceRange
  <2>2. n > 0
    BY <1>1, <1>2, <1>3, <2>1 DEF UserBlocksAre
  <2>3. (r + n) % NBlocks = IF r + n < NBlocks THEN r + n ELSE r + n - NBlocks
    BY BlockAt
  <2>4. r = current => n = NBlocks
    BY <1>1, <1>2, <2>2, <2>3 DEF UserBlocksAre, Blocks
  <2> QED
    BY <1>1, <2>4
<1>5. Left(r) = <<>>
  BY <1>2, <1>3 DEF Left, Rest
<1>6. Left(r)' = <<>>
  BY <1>3, <1>4 DEF Left, Holding
<1>7. ASSUME NEW b \in Blocks, b # r PROVE Left(b)' = Left(b)
  BY <1>2, <1>3, <1>7 DEF Left, Rest, Holding, Blocks
<1>8. Pieces[1] = <<>>
  <2>1. 1 \in 1 .. NBlocks /\ (r + 1 - 1) % NBlocks = r
    BY FirstPiece
  <2> QED
    BY <1>2, <1>5, <2>1 DEF Pieces
<1>9. Pieces'[NBlocks] = <<>>
  <2>1. NBlocks \in 1 .. NBlocks /\ (d + NBlocks - 1) % NBlocks = r
    <3>1. NBlocks \in 1 .. NBlocks
      OBVIOUS
    <3>2. (d + NBlocks - 1) % NBlocks =
              IF d + NBlocks - 1 < NBlocks
              THEN d + NBlocks - 1 ELSE d + NBlocks - 1 - NBlocks
      BY <3>1, PieceBlock
    <3>3. d = IF r + 1 = NBlocks THEN 0 ELSE r + 1
      BY <1>2, SuccIsNext
    <3> QED
      BY <3>1, <3>2, <3>3 DEF Blocks
  <2> QED
    BY <1>3, <1>6, <2>1 DEF Pieces
<1>10. \A j \in 1 .. NBlocks - 1 : Pieces'[j] = Pieces[j + 1]
  <2> SUFFICES ASSUME NEW j \in 1 .. NBlocks - 1
               PROVE  Pieces'[j] = Pieces[j + 1]
    OBVIOUS
  <2>1. j \in 1 .. NBlocks /\ j + 1 \in 1 .. NBlocks
    OBVIOUS
  <2>2. PICK b \in Blocks : b = (d + j - 1) % NBlocks
    BY <2>1, PieceBlock
  <2>3. /\ (d + j - 1) % NBlocks = IF d + j - 1 < NBlocks
                                   THEN d + j - 1 ELSE d + j - 1 - NBlocks
        /\ (r + (j + 1) - 1) % NBlocks = IF r + (j + 1) - 1 < NBlocks
                                   THEN r + (j + 1) - 1
                                   ELSE r + (j + 1) - 1 - NBlocks
    BY <2>1, PieceBlock
  <2>4. d = IF r + 1 = NBlocks THEN 0 ELSE r + 1
    BY <1>2, SuccIsNext
  <2>5. b = (r + (j + 1) - 1) % NBlocks /\ b # r
    BY <2>2, <2>3, <2>4 DEF Blocks
  <2>6. Pieces[j + 1] = Left(b)
    BY <1>2, <2>1, <2>5 DEF Pieces
  <2>7. Pieces'[j] = Left(b)'
    BY <1>3, <2>1, <2>2 DEF Pieces
  <2> QED
    BY <1>7, <2>5, <2>6, <2>7
<1>11. /\ IsConcat(Stored, Pieces, NBlocks)
       /\ IsConcat(Stored', Pieces', NBlocks)
  BY StoredUnfolds, StoredUnfoldsNext DEF StoredIsConcat
<1>12. \A j \in 1 .. NBlocks : Pieces[j] \in Seq(Packets)
  BY LeftsTyped DEF PiecesTyped
<1>13. Stored'[NBlocks] = Stored[NBlocks]
  <2> HIDE DEF TypeOK, IndexesOK
  <2> QED
    BY <1>8, <1>9, <1>10, <1>11, <1>12, ConcatTurns
<1> QED
  BY <1>3, <1>13

-----------------------------------------------------------------------------
(***************************************************************************)
(* A block that was handed over holds packets, and so does a batch that is *)
(* being collected from one: the callback never gets an empty batch.       *)
(***************************************************************************)
NothingEmpty ==
    /\ \A b \in Blocks : status[b] = "user" => block[b] # <<>>
    /\ pc = "collect" /\ done > 0 => pkts # <<>>

LEMMA NothingEmptyHolds == Spec => []NothingEmpty
<1>1. Init => NothingEmpty
  BY DEF Init, NothingEmpty
<1>2. TypeOK /\ NothingEmpty /\ [Next]_vars => NothingEmpty'
  <2> SUFFICES ASSUME IndexesOK, BlocksOK, BatchOK, NothingEmpty, [Next]_vars
               PROVE  NothingEmpty'
    BY DEF TypeOK
  <2> USE DEF IndexesOK, kernel, local
  <2>1. CASE Recv \/ NewBlock \/ NoBlock \/ PollReady \/ PollTimeout
    BY <2>1
    DEF Recv, NewBlock, NoBlock, PollReady, PollTimeout, NothingEmpty, Blocks
  <2>2. CASE Collect
    <3>1. /\ UNCHANGED <<status, block>>
          /\ \E p : pkts' = <<p>> \/ pkts' = Append(pkts, p)
      BY <2>2 DEF Collect
    <3>2. pkts' # <<>>
      <4>1. ASSUME NEW p PROVE <<p>> # <<>> /\ Append(pkts, p) # <<>>
        BY DEF BatchOK
      <4> QED
        BY <3>1, <4>1
    <3> QED
      BY <3>1, <3>2 DEF NothingEmpty, Blocks
  <2>3. CASE Flush \/ Release
    BY <2>3 DEF Flush, Release, NothingEmpty, Blocks
  <2>4. CASE \E p \in Packets : Store(p)
    <3> PICK p \in Packets : Store(p)
      BY <2>4
    <3>1. Append(block[current], p) # <<>>
      BY DEF BlocksOK
    <3>2. block' = [block EXCEPT ![current] = Append(block[current], p)]
          /\ UNCHANGED <<status, pc, done, pkts>>
      BY DEF Store
    <3> QED
      BY <3>1, <3>2 DEF NothingEmpty, BlocksOK, Blocks
  <2>5. CASE Retire
    <3>1. /\ block[current] # <<>>
          /\ UNCHANGED <<pc, done, pkts>>
          /\ status' = [status EXCEPT ![current] = "user"]
          /\ \/ block' = block
             \/ /\ status'[Succ(current)] = "kernel"
                /\ block' = [block EXCEPT ![Succ(current)] = <<>>]
      BY <2>5 DEF Retire
    <3> QED
      BY <3>1 DEF NothingEmpty, BlocksOK, Blocks
  <2>6. CASE Thaw
    BY <2>6 DEF Thaw, NothingEmpty, BlocksOK, Blocks
  <2>7. CASE UNCHANGED vars
    BY <2>7 DEF vars, NothingEmpty, Blocks
  <2> QED
    BY <2>1, <2>2, <2>3, <2>4, <2>5, <2>6, <2>7 DEF Next, WorkerStep
<1> QED
  BY <1>1, <1>2, TypeCorrect, PTL DEF Spec

\* Handing over what the stored packets begin with is a step of the stream.
LEMMA HandingOverDelivers ==
    ASSUME NEW s \in Seq(Packets), NEW t \in Seq(Packets),
           s # <<>>, Len(s) <= MaxPkts,
           Stored[NBlocks] = s \o t, Stored[NBlocks]' = t, last' = s
    PROVE  \E n \in 1 .. MaxPkts : n <= Len(Stored[NBlocks])
                                   /\ Abstract!Deliver(n)
<1> DEFINE u == s \o t
           n == Len(s)
<1>1. /\ u \in Seq(Packets) /\ Len(u) = Len(s) + Len(t)
      /\ n \in 1 .. MaxPkts /\ n <= Len(u) /\ Len(t) \in Nat
      /\ n + 1 \in Nat /\ n + Len(t) = Len(u)
  BY ConcatProperties
<1>2. SubSeq(u, 1, n) = s
  <2>1. /\ SubSeq(u, 1, n) \in Seq(Packets) /\ Len(SubSeq(u, 1, n)) = n
        /\ \A k \in 1 .. n : SubSeq(u, 1, n)[k] = u[k] /\ u[k] = s[k]
    BY <1>1
  <2> QED
    BY <2>1, SeqEqual
<1>3. SubSeq(u, n + 1, Len(u)) = t
  <2>1. /\ SubSeq(u, n + 1, Len(u)) \in Seq(Packets)
        /\ Len(SubSeq(u, n + 1, Len(u))) = Len(t)
        /\ \A k \in 1 .. Len(t) : SubSeq(u, n + 1, Len(u))[k] = t[k]
    BY <1>1
  <2> QED
    BY <2>1, SeqEqual
<1> HIDE DEF u, n
<1>4. Stored[NBlocks] = u
  BY DEF u
<1>5. Abstract!Deliver(n)
  BY <1>2, <1>3, <1>4 DEF Abstract!Deliver
<1> QED
  BY <1>1, <1>4, <1>5

IsSequence == Stored[NBlocks] \in Seq(Packets)

LEMMA StoredTyped == TypeOK /\ ReadsOwnBlock => IsSequence
<1> SUFFICES ASSUME PiecesTyped PROVE Stored[NBlocks] \in Seq(Packets)
  BY LeftsTyped DEF IsSequence
<1>1. IsConcat(Stored, Pieces, NBlocks)
  BY StoredUnfolds DEF StoredIsConcat
<1>2. NBlocks \in Nat /\ NBlocks \in 0 .. NBlocks
  OBVIOUS
<1>3. \A j \in 0 .. NBlocks : Stored[j] \in Seq(Packets)
  BY <1>1, <1>2, ConcatTyped DEF PiecesTyped
<1> QED
  BY <1>2, <1>3

LEMMA StoredTypedNext == TypeOK' /\ ReadsOwnBlock' => IsSequence'
  BY StoredTyped, PTL

(***************************************************************************)
(* The ring is a stream (ImplementsPacketStream): every packet that the    *)
(* kernel stored reaches the callback, once and in order, over the         *)
(* boundaries of blocks and of batches, while the ring freezes and thaws,  *)
(* for every number of blocks and size of a block and of the array.        *)
(***************************************************************************)
THEOREM RefinesPacketStream == Spec => ImplementsPacketStream
<1>1. Init => Abstract!Init
  <2> SUFFICES ASSUME Init PROVE Stored[NBlocks] = <<>>
    BY DEF Init, Abstract!Init
  <2>1. \A j \in 1 .. NBlocks : Pieces[j] = <<>>
    <3> SUFFICES ASSUME NEW j \in 1 .. NBlocks PROVE Pieces[j] = <<>>
      OBVIOUS
    <3>1. (rxIdx + j - 1) % NBlocks \in Blocks
      BY PieceBlock DEF Init, Blocks
    <3> QED
      BY <3>1, PieceIsLeft DEF Init, Left, Rest
  <2>2. IsConcat(Stored, Pieces, NBlocks)
    BY StoredUnfolds DEF StoredIsConcat
  <2> DEFINE T == {j \in 0 .. NBlocks : Stored[j] = <<>>}
  <2>3. 0 \in T
    BY <2>2 DEF IsConcat
  <2>4. \A j \in 0 .. NBlocks - 1 : j \in T => j + 1 \in T
    <3> SUFFICES ASSUME NEW j \in 0 .. NBlocks - 1, j \in T
                 PROVE  Stored[j + 1] = <<>>
      OBVIOUS
    <3>1. j + 1 \in 1 .. NBlocks /\ (j + 1) - 1 = j
      OBVIOUS
    <3>2. Stored[j + 1] = Stored[j] \o Pieces[j + 1]
      BY <2>2, <3>1 DEF IsConcat
    <3>3. <<>> \o <<>> = <<>>
      BY ConcatEmptySeq, <<>> \in Seq(Packets)
    <3> QED
      BY <2>1, <3>1, <3>2, <3>3
  <2> HIDE DEF T
  <2>5. NBlocks \in Nat
    OBVIOUS
  <2>6. \A j \in 0 .. NBlocks : j \in T
    BY <2>3, <2>4, <2>5, CountUp
  <2> QED
    BY <2>6 DEF T
<1>2. /\ TypeOK /\ InStep /\ ReadsOwnBlock /\ NothingEmpty
      /\ TypeOK' /\ ReadsOwnBlock'
      /\ [Next]_vars
      => [Abstract!Next]_(Abstract!vars)
  <2> SUFFICES ASSUME TypeOK, InStep, ReadsOwnBlock, NothingEmpty,
                      TypeOK', ReadsOwnBlock', [Next]_vars
               PROVE  Abstract!Next \/ UNCHANGED Abstract!vars
    OBVIOUS
  <2>0. Stored[NBlocks]' \in Seq(Packets) /\ pkts \in Seq(Packets)
    BY StoredTypedNext DEF IsSequence, TypeOK, BatchOK
  <2>1. CASE Recv \/ NewBlock \/ NoBlock \/ PollReady \/ PollTimeout
    BY <2>1, LookingKeepsStored DEF Abstract!vars
  <2>2. CASE Collect /\ ~Full
    BY <2>2, CollectKeepsStored DEF Abstract!vars
  <2>3. CASE Collect /\ Full
    <3>1. Stored[NBlocks] = pkts \o Stored[NBlocks]' /\ last' = pkts
      BY <2>3, FullCollectHandsOver
    <3>2. Len(pkts) <= MaxPkts /\ pkts # <<>>
      BY <2>3 DEF TypeOK, BatchOK, Full
    <3>3. PICK s \in Seq(Packets), t \in Seq(Packets) :
              s = pkts /\ t = Stored[NBlocks]'
      BY <2>0
    <3> QED
      BY <3>1, <3>2, <3>3, HandingOverDelivers DEF Abstract!Next
  <2>4. CASE Flush
    <3>1. Stored[NBlocks] = pkts \o Stored[NBlocks]' /\ last' = pkts
      BY <2>4, FlushHandsOver
    <3>2. Len(pkts) <= MaxPkts /\ pkts # <<>>
      <4>1. pc = "collect" /\ done = Len(block[rxIdx])
        BY <2>4 DEF Flush
      <4>2. status[rxIdx] = "user"
        BY <4>1 DEF ReadsOwnBlock
      <4>3. block[rxIdx] # <<>> /\ block[rxIdx] \in Seq(Packets)
        BY <4>2 DEF NothingEmpty, TypeOK, IndexesOK, BlocksOK
      <4>4. done > 0
        BY <4>1, <4>3
      <4> QED
        BY <4>1, <4>4 DEF NothingEmpty, TypeOK, BatchOK
    <3>3. PICK s \in Seq(Packets), t \in Seq(Packets) :
              s = pkts /\ t = Stored[NBlocks]'
      BY <2>0
    <3> QED
      BY <3>1, <3>2, <3>3, HandingOverDelivers DEF Abstract!Next
  <2>5. CASE Release
    BY <2>5, ReleaseKeepsStored DEF Abstract!vars
  <2>6. CASE \E p \in Packets : Store(p)
    <3> PICK p \in Packets : Store(p)
      BY <2>6
    <3>1. Stored[NBlocks]' = Append(Stored[NBlocks], p)
      BY StoreAppends
    <3>2. last' = last
      BY DEF Store
    <3> QED
      BY <3>1, <3>2 DEF Abstract!Next, Abstract!Store
  <2>7. CASE Retire \/ Thaw
    <3>1. last' = last
      BY <2>7 DEF Retire, Thaw
    <3> QED
      BY <2>7, <3>1, HandOverKeepsStored DEF Abstract!vars
  <2>8. CASE UNCHANGED vars
    <3>1. UNCHANGED <<status, block, current, frozen, rxIdx, pc, done, pkts, last>>
      BY <2>8 DEF vars, kernel, local
    <3>2. \A b \in Blocks : Left(b)' = Left(b)
      BY <3>1 DEF Left, Rest, Holding, Blocks
    <3> QED
      BY <3>1, <3>2, StoredSame DEF Abstract!vars, TypeOK, IndexesOK
  <2> QED
    BY <2>1, <2>2, <2>3, <2>4, <2>5, <2>6, <2>7, <2>8 DEF Next, WorkerStep
<1> QED
  BY <1>1, <1>2, TypeCorrect, InStepHolds, ReadsOwnBlockHolds,
     NothingEmptyHolds, PTL
  DEF Spec, ImplementsPacketStream, Abstract!Spec
=============================================================================
