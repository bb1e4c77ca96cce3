--------------------------- MODULE DatagramProofs ---------------------------
(***************************************************************************)
(* The checksums of Datagram, for bytes of any number of values, any       *)
(* destinations and any frames: the sum does not leave its 32 bits, its    *)
(* complement completes the words that were added, and these are the words *)
(* that a receiver adds.                                                   *)
(***************************************************************************)
EXTENDS Datagram, Counting

(***************************************************************************)
(* Arithmetic.  W stands for Word.                                         *)
(***************************************************************************)

\* The size of a word.
LEMMA WordSize == Word \in Nat /\ Word >= 4
<1>1. Byte \in Nat /\ Byte >= 2
  BY ByteAssumption
<1>2. Byte * Byte >= 2 * Byte
  BY <1>1
<1> QED
  BY <1>1, <1>2 DEF Word

\* A multiple leaves no rest.
LEMMA MultipleRest ==
    ASSUME NEW m \in Nat, m > 0, NEW k \in Int
    PROVE  (k * m) % m = 0
  OBVIOUS

\* What is below the modulus stays.
LEMMA SmallRest ==
    ASSUME NEW m \in Nat, NEW n \in Nat, n < m
    PROVE  n % m = n
  OBVIOUS

\* Folding takes a multiple of W - 1 away: the high part counts W each.
LEMMA FoldTakes ==
    ASSUME NEW W \in Nat, W >= 4, NEW s \in Nat
    PROVE  /\ s \div W \in Nat
           /\ s % W \in 0 .. W - 1
           /\ s = (s \div W) * W + (s % W)
           /\ (s \div W) + (s % W) = s - (s \div W) * (W - 1)
<1>1. s \div W \in Nat /\ s % W \in 0 .. W - 1 /\ s = (s \div W) * W + (s % W)
  OBVIOUS
<1> DEFINE q == s \div W
<1>2. q * W = q * (W - 1) + q
  BY <1>1
<1> QED
  BY <1>1, <1>2

\* A word less to add, and the room that is left is still enough.
LEMMA RoomLeft ==
    ASSUME NEW W \in Nat, W >= 4, NEW s \in Nat, NEW n \in Nat \ {0},
           NEW w \in 0 .. W - 1,
           s + n * (W - 1) <= W * (W - 1)
    PROVE  /\ s + w < W * W
           /\ s + w + (n - 1) * (W - 1) <= W * (W - 1)
<1>1. n * (W - 1) = (n - 1) * (W - 1) + (W - 1)
  OBVIOUS
<1>2. (n - 1) * (W - 1) >= 0
  OBVIOUS
<1>3. W * W = W * (W - 1) + W
  OBVIOUS
<1> QED
  BY <1>1, <1>2, <1>3

-----------------------------------------------------------------------------
(***************************************************************************)
(* What is added are words.                                                *)
(***************************************************************************)
LEMMA DataTyped ==
    ASSUME NEW p \in Packets
    PROVE  Data(p) \in Seq(Bytes)
<1>1. p.data \in Seq(Bytes) /\ p.udplen \in Nat
  BY PacketsAssumption, WordSize DEF Words
<1>2. DataLen(p) \in Nat
  BY <1>1 DEF DataLen, UdpHeaderLen, SizeMax
<1> DEFINE n == IF DataLen(p) < Len(p.data) THEN DataLen(p) ELSE Len(p.data)
<1>3. n \in Nat /\ n <= Len(p.data)
  BY <1>1, <1>2
<1>4. \A m \in 1 .. n : p.data[m] \in Bytes
  BY <1>1, <1>3
<1>5. Data(p) = [m \in 1 .. n |-> p.data[m]]
  BY DEF Data
<1> QED
  BY <1>3, <1>4, <1>5, IsASeq

LEMMA PairIsWord ==
    ASSUME NEW a \in Bytes, NEW b \in Bytes
    PROVE  a * Byte + b \in Words /\ LastByte(a) \in Words
<1>1. Byte \in Nat /\ Byte >= 2
  BY ByteAssumption
<1>2. a \in 0 .. Byte - 1 /\ b \in 0 .. Byte - 1
  BY DEF Bytes
<1>3. a * Byte >= 0 /\ a * Byte <= (Byte - 1) * Byte
  BY <1>1, <1>2
<1>4. (Byte - 1) * Byte = Byte * Byte - Byte
  BY <1>1
<1> QED
  BY <1>1, <1>2, <1>3, <1>4 DEF Words, Word, LastByte

LEMMA DataWordsTyped ==
    ASSUME NEW p \in Packets
    PROVE  DataWords(p) \in Seq(Words)
<1> DEFINE d == Data(p)
           n == (Len(d) + 1) \div 2
           W(m) == IF 2 * m <= Len(d) THEN d[2 * m - 1] * Byte + d[2 * m]
                                      ELSE LastByte(d[2 * m - 1])
<1>1. d \in Seq(Bytes) /\ Len(d) \in Nat
  BY DataTyped
<1>2. n \in Nat
  BY <1>1
<1>3. ASSUME NEW m \in 1 .. n
      PROVE  W(m) \in Words
  <2>1. 2 * m - 1 \in 1 .. Len(d)
    BY <1>1, <1>3
  <2>2. d[2 * m - 1] \in Bytes
    BY <1>1, <2>1
  <2>3. CASE 2 * m <= Len(d)
    <3>1. d[2 * m] \in Bytes
      BY <1>1, <2>3
    <3> QED
      BY <2>2, <2>3, <3>1, PairIsWord
  <2>4. CASE ~(2 * m <= Len(d))
    BY <2>2, <2>4, PairIsWord
  <2> QED
    BY <2>3, <2>4
<1>4. DataWords(p) = [m \in 1 .. n |-> W(m)]
  BY DEF DataWords
<1> HIDE DEF n, W
<1> QED
  BY <1>2, <1>3, <1>4, IsASeq

LEMMA WordsTyped ==
    ASSUME NEW d \in Dests, NEW p \in Packets
    PROVE  /\ HeaderWords(d, p) \in Seq(Words)
           /\ UdpWords(d, p) \in Seq(Words)
<1>1. /\ p.head \in Seq(Words)
      /\ p.options \in Seq(Words)
      /\ d.addr \in Seq(Words)
      /\ d.addr4 \in Seq(Words)
      /\ d.addr6 \in Seq(Words)
  BY DestsAssumption, PacketsAssumption
<1>2. HeaderWords(d, p) \in Seq(Words)
  BY <1>1, ConcatProperties DEF HeaderWords
<1>3. <<ProtoUDP, p.udplen, p.dport, d.port, p.udplen>> \in Seq(Words)
  BY DestsAssumption, PacketsAssumption, ProtoAssumption
<1>4. UdpWords(d, p) \in Seq(Words)
  BY <1>1, <1>3, DataWordsTyped, ConcatProperties DEF UdpWords
<1> QED
  BY <1>2, <1>4

-----------------------------------------------------------------------------
(***************************************************************************)
(* The invariant.                                                          *)
(***************************************************************************)

\* What is still to be added fits in 32 bits with what was.
Fits == sum + Len(todo) * (Word - 1) <= Word * (Word - 1)

\* The sum is the exact one but for multiples of 0xffff.
Congruent == \E k \in Int : exact - sum = k * (Word - 1)

Inv == TypeOK /\ Fits /\ Congruent

LEMMA BeginSumKeeps ==
    ASSUME NEW words \in Seq(Words), Len(words) <= Word, NEW part,
           BeginSum(part, words)
    PROVE  /\ sum' = 0 /\ exact' = 0
           /\ todo' \in Seq(Words)
           /\ Fits'
           /\ Congruent'
<1>1. Len(words) * (Word - 1) <= Word * (Word - 1)
  BY WordSize
<1>2. exact' - sum' = 0 * (Word - 1)
  BY WordSize DEF BeginSum
<1> QED
  BY <1>1, <1>2, WordSize DEF BeginSum, Fits, Congruent

LEMMA AddKeeps ==
    ASSUME Inv, Add
    PROVE  Inv'
<1> USE WordSize
<1>1. /\ todo \in Seq(Words)
      /\ todo # <<>>
      /\ sum \in Nat
      /\ exact \in Nat
  BY DEF Inv, TypeOK, Add
<1> DEFINE w == Head(todo)
<1>2. w \in 0 .. Word - 1 /\ Len(todo) \in Nat \ {0}
  BY <1>1 DEF Words
<1>3. Tail(todo) \in Seq(Words) /\ Len(Tail(todo)) = Len(todo) - 1
  BY <1>1
<1>4. /\ sum + w < Word * Word
      /\ sum + w + (Len(todo) - 1) * (Word - 1) <= Word * (Word - 1)
  BY <1>1, <1>2, RoomLeft DEF Inv, Fits
<1>5. sum' = sum + w /\ sum' \in 0 .. Word * Word - 1
  <2>1. Word * Word \in Nat /\ sum + w \in Nat
    BY <1>1, <1>2
  <2>2. (sum + w) % (Word * Word) = sum + w
    BY <1>4, <2>1, SmallRest
  <2>3. sum' = (sum + w) % (Word * Word)
    BY DEF Add
  <2>4. sum' = sum + w
    BY <2>2, <2>3
  <2> HIDE DEF w
  <2> QED
    BY <1>4, <2>1, <2>4
<1>6. Fits'
  BY <1>3, <1>4, <1>5 DEF Fits, Add
<1>7. Congruent'
  <2>1. PICK k \in Int : exact - sum = k * (Word - 1)
    BY DEF Inv, Congruent
  <2>2. exact' = exact + w
    BY DEF Add
  <2>3. exact' - sum' = k * (Word - 1)
    BY <1>1, <1>2, <1>5, <2>1, <2>2
  <2> QED
    BY <2>3 DEF Congruent
<1>8. TypeOK'
  <2>1. todo' \in Seq(Words)
    BY <1>3 DEF Add
  <2>2. exact' \in Nat
    BY <1>1, <1>2 DEF Add
  <2>3. UNCHANGED <<pc, call, check, udpcheck>>
    BY DEF Add
  <2> HIDE DEF w
  <2> QED
    BY <1>5, <2>1, <2>2, <2>3 DEF Inv, TypeOK, dest, pkt
<1> QED
  BY <1>6, <1>7, <1>8 DEF Inv

LEMMA FoldKeeps ==
    ASSUME Inv, Fold
    PROVE  Inv'
<1> USE WordSize
<1>1. sum \in Nat /\ sum < Word * Word /\ todo = <<>>
  BY DEF Inv, TypeOK, Fold, Added
<1> DEFINE q == sum \div Word
<1>2. /\ q \in Nat
      /\ sum' = q + (sum % Word)
      /\ sum % Word \in Nat
      /\ sum' = sum - q * (Word - 1)
  <2>1. sum' = (sum \div Word) + (sum % Word)
    BY DEF Fold
  <2>2. /\ sum \div Word \in Nat
        /\ sum % Word \in 0 .. Word - 1
        /\ (sum \div Word) + (sum % Word) = sum - (sum \div Word) * (Word - 1)
    BY <1>1, FoldTakes
  <2> QED
    BY <2>1, <2>2
<1> HIDE DEF q
<1>3. q * (Word - 1) \in Nat
  BY <1>2
<1>4. sum' \in Nat /\ sum' <= sum
  BY <1>1, <1>2, <1>3
<1>5. Fits'
  BY <1>1, <1>4 DEF Inv, Fits, Fold
<1>6. Congruent'
  <2>1. PICK k \in Int : exact - sum = k * (Word - 1)
    BY DEF Inv, Congruent
  <2>2. (k + q) * (Word - 1) = k * (Word - 1) + q * (Word - 1)
    BY <1>2
  <2>3. exact' = exact /\ exact \in Nat
    BY DEF Fold, Inv, TypeOK
  <2>4. exact' - sum' = (k + q) * (Word - 1)
    BY <1>1, <1>2, <1>3, <2>1, <2>2, <2>3
  <2>5. k + q \in Int
    BY <1>2
  <2> QED
    BY <2>4, <2>5 DEF Congruent
<1>7. TypeOK'
  BY <1>1, <1>4 DEF Inv, TypeOK, Fold, dest, pkt
<1> QED
  BY <1>5, <1>6, <1>7 DEF Inv

\* A checksum is a word.
LEMMA ComplementIsWord ==
    ASSUME sum \in Nat
    PROVE  Complement \in Words
  BY WordSize, FoldTakes DEF Complement, Words

LEMMA InvHolds == Spec => []Inv
<1> USE WordSize
<1>1. Init => Inv
  <2> SUFFICES ASSUME Init PROVE Inv
    OBVIOUS
  <2>1. TypeOK
    BY DEF Init, TypeOK, Words
  <2>2. Fits
    BY DEF Init, Fits
  <2>3. exact - sum = 0 * (Word - 1)
    BY DEF Init
  <2> QED
    BY <2>1, <2>2, <2>3 DEF Inv, Congruent
<1>2. Inv /\ [Next]_vars => Inv'
  <2> SUFFICES ASSUME Inv, [Next]_vars
               PROVE  Inv'
    OBVIOUS
  <2>1. CASE \E d \in Dests, p \in Packets : Call(d, p)
    BY <2>1 DEF Call, Inv, TypeOK, Fits, Congruent, dest, pkt
  <2>2. CASE Return
    <3>1. TypeOK'
      BY <2>2 DEF Return, TypeOK, Words
    <3>2. Fits'
      BY <2>2 DEF Return, Fits
    <3>3. exact' - sum' = 0 * (Word - 1)
      BY <2>2 DEF Return
    <3> QED
      BY <3>1, <3>2, <3>3 DEF Inv, Congruent
  <2>3. CASE BeginHeader \/ BeginUdp \/ EndHeader
    <3>1. dest \in Dests /\ pkt \in Packets
      BY <2>3 DEF BeginHeader, BeginUdp, EndHeader, Inv, TypeOK
    <3>2. PICK part \in {"header", "udp"},
               words \in {HeaderWords(dest, pkt), UdpWords(dest, pkt)} :
                   BeginSum(part, words)
      BY <2>3 DEF BeginHeader, BeginUdp, EndHeader
    <3>3. words \in Seq(Words) /\ Len(words) <= Word
      BY <3>1, WordsTyped, LengthAssumption
    <3>4. sum' = 0 /\ exact' = 0 /\ todo' \in Seq(Words) /\ Fits' /\ Congruent'
      BY <3>2, <3>3, BeginSumKeeps
    <3>5. check' \in Words /\ udpcheck' \in Words
      BY <2>3, ComplementIsWord
      DEF BeginHeader, BeginUdp, EndHeader, Inv, TypeOK
    <3>6. pc' = part /\ call' = call
      BY <2>3, <3>2 DEF BeginSum, BeginHeader, BeginUdp, EndHeader
    <3>7. TypeOK'
      BY <3>1, <3>4, <3>5, <3>6 DEF TypeOK, dest, pkt
    <3> QED
      BY <3>4, <3>7 DEF Inv
  <2>4. CASE Add
    BY <2>4, AddKeeps
  <2>5. CASE Fold
    BY <2>5, FoldKeeps
  <2>6. CASE EndUdp
    BY <2>6, ComplementIsWord
    DEF EndUdp, Inv, TypeOK, Fits, Congruent, dest, pkt
  <2>7. CASE UNCHANGED vars
    BY <2>7 DEF vars, Inv, TypeOK, Fits, Congruent, dest, pkt
  <2>8. CASE RunAway \/ CopyTooMuch
    <3>1. pc \in {"udp", "send"} /\ Kill
      BY <2>8 DEF RunAway, CopyTooMuch
    <3> QED
      BY <3>1 DEF Kill, Inv, TypeOK, Fits, Congruent, dest, pkt
  <2> QED
    BY <2>1, <2>2, <2>3, <2>4, <2>5, <2>6, <2>7, <2>8
    DEF Next, Step, Ignore, Send
<1> QED
  BY <1>1, <1>2, PTL DEF Spec

(***************************************************************************)
(* The variables keep their types: no sum leaves its 32 bits, and no       *)
(* checksum its 16 (the sums of send_ipv4() and send_ipv6()).              *)
(***************************************************************************)
THEOREM TypeCorrect == Spec => []TypeOK
  BY InvHolds, PTL DEF Inv

LEMMA InvCompletes ==
    ASSUME Inv, todo = <<>>, sum < Word
    PROVE  (exact + Complement) % (Word - 1) = 0
<1>1. sum \in Nat /\ exact \in Nat /\ Word \in Nat /\ Word >= 4
  BY WordSize DEF Inv, TypeOK
<1>2. Complement = Word - 1 - sum
  BY <1>1 DEF Complement
<1>3. PICK k \in Int : exact - sum = k * (Word - 1)
  BY DEF Inv, Congruent
<1>4. (k + 1) * (Word - 1) = k * (Word - 1) + (Word - 1)
  BY <1>1
<1>5. exact + Complement = (k + 1) * (Word - 1)
  BY <1>1, <1>2, <1>3, <1>4
<1> QED
  BY <1>1, <1>5, MultipleRest

(***************************************************************************)
(* The complement of the folded sum completes what was added to a multiple *)
(* of 0xffff, for words of any width (the checksums of send_ipv4() and     *)
(* send_ipv6()).                                                           *)
(***************************************************************************)
THEOREM CompletesHolds == Spec => []Completes
<1>1. Inv => Completes
  BY InvCompletes DEF Completes
<1> QED
  BY <1>1, InvHolds, PTL

-----------------------------------------------------------------------------
(***************************************************************************)
(* The pieces lie in the frame.                                            *)
(***************************************************************************)

\* Only a frame that passed the sanity check is summed and sent, and only a
\* length that wraps has the process killed.
Checked ==
    /\ pc \in {"header", "udp", "send", "killed"} => SanityCheck(pkt)
    /\ pc = "killed" => DataLenWraps(pkt) \/ OptionsLenWraps(pkt)

\* A well-formed frame that passes it has a UDP header, by the code for IPv4 and
\* by the filter for IPv6, and then no length wraps.
LEMMA SaneIsInside ==
    ASSUME NEW p \in Packets, SanityCheck(p), WellFormed(p)
    PROVE  /\ EtherLen + HeaderLen(p) + UdpHeaderLen + DataLen(p) <= p.len
           /\ ~DataLenWraps(p)
           /\ ~OptionsLenWraps(p)
<1> USE DEF EtherLen, UdpHeaderLen
<1>1. p.len \in Nat /\ p.udplen \in Nat /\ p.ihl \in Nat
  <2>1. p.len \in Nat /\ p.udplen \in Words /\ p.ihl \in 0 .. 15
    BY PacketsAssumption
  <2> QED
    BY <2>1, WordSize DEF Words
<1>2. HeaderLen(p) \in Nat
  BY <1>1 DEF HeaderLen
<1>3. p.udplen >= UdpHeaderLen
  <2>1. CASE p.af = "ipv4"
    BY <1>1, <1>2, <2>1 DEF SanityCheck
  <2>2. CASE p.af = "ipv6"
    <3>1. p.type = "ipv6"
      BY <2>2 DEF WellFormed
    <3> QED
      BY <1>1, <2>2, <3>1, FilterAssumption DEF SanityCheck, HeaderLen, MinLen
  <2> QED
    BY <2>1, <2>2, PacketsAssumption
<1>4. DataLen(p) = p.udplen - UdpHeaderLen
  BY <1>3 DEF DataLen
<1>5. EtherLen + HeaderLen(p) + p.udplen = p.len
  BY DEF SanityCheck
<1>6. ~OptionsLenWraps(p)
  BY <1>2 DEF WellFormed, OptionsLenWraps
<1>7. ~DataLenWraps(p)
  BY <1>1, <1>3 DEF DataLenWraps
<1> QED
  BY <1>1, <1>2, <1>4, <1>5, <1>6, <1>7

(***************************************************************************)
(* Nothing outside the frame is summed or sent, no length wraps and the    *)
(* process is not killed, for well-formed frames of any length that the    *)
(* filter lets through: those whose version is the one of the EtherType,   *)
(* and whose IPv4 header is not shorter than its fixed part (send_ipv4()   *)
(* and send_ipv6()).                                                       *)
(***************************************************************************)
THEOREM InsideFrameHolds == Spec => []InsideFrame
<1>1. Init => Checked
  BY DEF Init, Checked
<1>2. Checked /\ [Next]_vars => Checked'
  <2> SUFFICES ASSUME Checked, [Next]_vars
               PROVE  Checked'
    OBVIOUS
  <2>1. ASSUME pc' \in {"header", "udp", "send", "killed"}
        PROVE  call' = call /\ SanityCheck(pkt)
    BY <2>1
    DEF Checked, Next, Call, Step, Ignore, Return, BeginHeader, BeginUdp,
        Add, Fold, EndHeader, EndUdp, Send, RunAway, CopyTooMuch, Kill,
        BeginSum, vars
  <2>2. ASSUME pc' = "killed"
        PROVE  DataLenWraps(pkt) \/ OptionsLenWraps(pkt)
    BY <2>2
    DEF Checked, Next, Call, Step, Ignore, Return, BeginHeader, BeginUdp,
        Add, Fold, EndHeader, EndUdp, Send, RunAway, CopyTooMuch,
        BeginSum, vars
  <2>3. pc' \in {"header", "udp", "send", "killed"} => SanityCheck(pkt')
    BY <2>1 DEF pkt
  <2>4. pc' = "killed" => DataLenWraps(pkt') \/ OptionsLenWraps(pkt')
    BY <2>1, <2>2 DEF pkt
  <2>5. /\ SanityCheck(pkt)' <=> SanityCheck(pkt')
        /\ DataLenWraps(pkt)' <=> DataLenWraps(pkt')
        /\ OptionsLenWraps(pkt)' <=> OptionsLenWraps(pkt')
    BY DEF SanityCheck, DataLenWraps, OptionsLenWraps, HeaderLen
  <2> QED
    BY <2>3, <2>4, <2>5 DEF Checked
<1>3. TypeOK /\ Checked => InsideFrame
  <2> SUFFICES ASSUME TypeOK, Checked, pc # "idle", WellFormed(pkt)
               PROVE  /\ pc \in {"header", "udp", "send"} =>
                             EtherLen + HeaderLen(pkt) + UdpHeaderLen
                                 + DataLen(pkt) <= pkt.len
                      /\ pc # "killed"
    BY Zenon DEF InsideFrame
  <2>1. pkt \in Packets
    BY DEF TypeOK
  <2> QED
    BY <2>1, SaneIsInside DEF Checked
<1> QED
  BY <1>1, <1>2, <1>3, TypeCorrect, PTL DEF Spec

-----------------------------------------------------------------------------
(***************************************************************************)
(* Total() is a recursive function: there is one, and it adds up.          *)
(***************************************************************************)
LEMMA TotalUnfolds ==
    ASSUME NEW words, NEW n \in Nat, Len(words) = n
    PROVE  \E g : IsTotal(g, words, n) /\ Total(words) = g[n]
<1>1. \E g : g = [j \in 0 .. n |-> IF j = 0 THEN 0 ELSE g[j - 1] + words[j]]
  BY TotalExists
<1>2. \E g : g = [j \in 0 .. Len(words) |->
                     IF j = 0 THEN 0 ELSE g[j - 1] + words[j]]
  BY <1>1, Zenon
<1>3. \E g : /\ g = [j \in 0 .. Len(words) |->
                        IF j = 0 THEN 0 ELSE g[j - 1] + words[j]]
             /\ Total(words) = g[Len(words)]
  BY <1>2, Zenon DEF Total
<1>4. PICK g : /\ g = [j \in 0 .. Len(words) |->
                          IF j = 0 THEN 0 ELSE g[j - 1] + words[j]]
               /\ Total(words) = g[Len(words)]
  BY <1>3
<1>5. \A j \in 0 .. n : g[j] = IF j = 0 THEN 0 ELSE g[j - 1] + words[j]
  BY <1>4
<1>6. IsTotal(g, words, n)
  <2>1. g[0] = 0
    BY <1>5
  <2>2. \A j \in 1 .. n : j \in 0 .. n /\ j # 0
    OBVIOUS
  <2>3. \A j \in 1 .. n : g[j] = g[j - 1] + words[j]
    BY <1>5, <2>2
  <2> QED
    BY <2>1, <2>3 DEF IsTotal
<1> QED
  BY <1>4, <1>6

LEMMA TotalIsNat ==
    ASSUME NEW words \in Seq(Nat)
    PROVE  Total(words) \in Nat
<1>1. PICK n \in Nat : n = Len(words)
  OBVIOUS
<1>2. PICK g : IsTotal(g, words, n) /\ Total(words) = g[n]
  BY <1>1, TotalUnfolds
<1>3. \A j \in 1 .. n : words[j] \in Nat
  BY <1>1
<1>4. n \in 0 .. n
  OBVIOUS
<1> QED
  BY <1>2, <1>3, <1>4, TotalTyped

LEMMA TotalOfConcat ==
    ASSUME NEW s \in Seq(Nat), NEW t \in Seq(Nat)
    PROVE  Total(s \o t) = Total(s) + Total(t)
<1> DEFINE u == s \o t
<1>1. PICK m \in Nat : m = Len(s)
  OBVIOUS
<1>2. PICK n \in Nat : n = Len(t)
  OBVIOUS
<1>3. /\ u \in Seq(Nat)
      /\ Len(u) = Len(s) + Len(t)
      /\ \A i \in 1 .. Len(s) + Len(t) :
             u[i] = IF i <= Len(s) THEN s[i] ELSE t[i - Len(s)]
  BY ConcatProperties
<1> HIDE DEF u
<1>4. /\ Len(u) = m + n
      /\ \A i \in 1 .. m + n : u[i] = IF i <= m THEN s[i] ELSE t[i - m]
  BY <1>1, <1>2, <1>3
<1>5. PICK f : IsTotal(f, s, m) /\ Total(s) = f[m]
  BY <1>1, TotalUnfolds
<1>6. PICK g : IsTotal(g, t, n) /\ Total(t) = g[n]
  BY <1>2, TotalUnfolds
<1>7. PICK h : IsTotal(h, u, m + n) /\ Total(u) = h[m + n]
  <2>1. m + n \in Nat
    OBVIOUS
  <2> QED
    BY <1>4, <2>1, TotalUnfolds
<1>8. PICK zero \in Nat : zero = 0
  OBVIOUS
<1>9. Follow(s, u, zero, m) /\ Follow(t, u, m, n)
  <2>1. \A j \in 1 .. m : j \in 1 .. m + n /\ j <= m /\ zero + j = j
    BY <1>8
  <2>2. \A j \in 1 .. n : /\ m + j \in 1 .. m + n
                          /\ ~(m + j <= m)
                          /\ (m + j) - m = j
    OBVIOUS
  <2>3. \A j \in 1 .. m : s[j] \in Nat
    BY <1>1
  <2>4. \A j \in 1 .. n : t[j] \in Nat
    BY <1>2
  <2>5. \A j \in 1 .. m : u[zero + j] = s[j]
    BY <1>4, <2>1, Zenon
  <2>6. \A j \in 1 .. n : u[m + j] = t[j]
    BY <1>4, <2>2, Zenon
  <2> QED
    BY <2>3, <2>4, <2>5, <2>6 DEF Follow
<1>10. f[m] \in Nat /\ g[n] \in Nat
  BY <1>5, <1>6, TotalIsNat
<1>11. h[m] = f[m]
  <2>1. zero + m = m /\ \A j \in 1 .. m : j \in 1 .. m + n
    BY <1>8
  <2>2. h[zero] = 0
    BY <1>7, <1>8 DEF IsTotal
  <2>3. IsTotal(h, u, zero + m)
    BY <1>7, <2>1 DEF IsTotal
  <2>4. h[zero] \in Nat
    BY <2>2
  <2>5. IsTotal(f, s, m)
    BY <1>5
  <2>6. Follow(s, u, zero, m)
    BY <1>9
  <2>7. h[zero + m] = h[zero] + f[m]
    BY <2>3, <2>4, <2>5, <2>6, TotalShift
  <2> QED
    BY <1>10, <2>1, <2>2, <2>7
<1>12. h[m + n] = h[m] + g[n]
  <2>1. IsTotal(h, u, m + n)
    BY <1>7
  <2>2. IsTotal(g, t, n)
    BY <1>6
  <2>3. Follow(t, u, m, n)
    BY <1>9
  <2>4. h[m] \in Nat
    BY <1>10, <1>11
  <2> QED
    BY <2>1, <2>2, <2>3, <2>4, TotalShift
<1> QED
  BY <1>5, <1>6, <1>7, <1>11, <1>12 DEF u

\* A few words, one by one.
FourAdd(a, b, c, d) == Total(<<a, b, c, d>>) = a + b + c + d

FiveAdd(a, b, c, d, e) == Total(<<a, b, c, d, e>>) = a + b + c + d + e

LEMMA TotalOfFew ==
    /\ Total(<<>>) = 0
    /\ \A a \in Nat : Total(<<a>>) = a
    /\ \A a, b \in Nat : Total(<<a, b>>) = a + b
    /\ \A a, b, c, d \in Nat : FourAdd(a, b, c, d)
    /\ \A a, b, c, d, e \in Nat : FiveAdd(a, b, c, d, e)
<1>1. Total(<<>>) = 0
  <2>1. Len(<<>>) = 0 /\ 0 \in Nat
    OBVIOUS
  <2> QED
    BY <2>1, TotalUnfolds DEF IsTotal
<1>2. ASSUME NEW a \in Nat
      PROVE  Total(<<a>>) = a
  <2> DEFINE w == <<a>>
  <2>1. Len(w) = 1 /\ 1 \in Nat /\ w[1] = a
    OBVIOUS
  <2> HIDE DEF w
  <2>2. PICK g : IsTotal(g, w, 1) /\ Total(w) = g[1]
    BY <2>1, TotalUnfolds
  <2>3. g[0] = 0 /\ g[1] = g[1 - 1] + w[1]
    BY <2>2 DEF IsTotal
  <2>4. Total(w) = a
    BY <2>1, <2>2, <2>3
  <2> QED
    BY <2>4 DEF w
<1>3. ASSUME NEW a \in Nat, NEW b \in Nat
      PROVE  Total(<<a, b>>) = a + b
  <2> DEFINE w == <<a, b>>
  <2>1. Len(w) = 2 /\ 2 \in Nat /\ w[1] = a /\ w[2] = b
    OBVIOUS
  <2> HIDE DEF w
  <2>2. PICK g : IsTotal(g, w, 2) /\ Total(w) = g[2]
    BY <2>1, TotalUnfolds
  <2>3. g[0] = 0 /\ g[1] = g[1 - 1] + w[1] /\ g[2] = g[2 - 1] + w[2]
    BY <2>2 DEF IsTotal
  <2>4. Total(w) = a + b
    BY <2>1, <2>2, <2>3
  <2> QED
    BY <2>4 DEF w
<1>4. ASSUME NEW a \in Nat, NEW b \in Nat, NEW c \in Nat, NEW d \in Nat
      PROVE  Total(<<a, b, c, d>>) = a + b + c + d
  <2>1. /\ <<a, b>> \in Seq(Nat) /\ <<c, d>> \in Seq(Nat)
        /\ <<a, b, c, d>> = <<a, b>> \o <<c, d>>
    OBVIOUS
  <2>2. Total(<<a, b, c, d>>) = Total(<<a, b>>) + Total(<<c, d>>)
    BY <2>1, TotalOfConcat
  <2> QED
    BY <1>3, <2>2
<1>5. ASSUME NEW a \in Nat, NEW b \in Nat, NEW c \in Nat, NEW d \in Nat,
             NEW e \in Nat
      PROVE  Total(<<a, b, c, d, e>>) = a + b + c + d + e
  <2>1. /\ <<a, b, c, d>> \in Seq(Nat) /\ <<e>> \in Seq(Nat)
        /\ <<a, b, c, d, e>> = <<a, b, c, d>> \o <<e>>
    OBVIOUS
  <2>2. Total(<<a, b, c, d, e>>) = Total(<<a, b, c, d>>) + Total(<<e>>)
    BY <2>1, TotalOfConcat
  <2> QED
    BY <1>2, <1>4, <2>2
<1> QED
  BY <1>1, <1>2, <1>3, <1>4, <1>5 DEF FourAdd, FiveAdd

LEMMA WordsAreNats ==
    ASSUME NEW s \in Seq(Words)
    PROVE  s \in Seq(Nat)
<1>1. Words \subseteq Nat
  BY WordSize DEF Words
<1>2. \A j \in 1 .. Len(s) : s[j] \in Nat
  <2>1. \A j \in 1 .. Len(s) : s[j] \in Words
    OBVIOUS
  <2> QED
    BY <1>1, <2>1, Zenon
<1>3. s = [j \in 1 .. Len(s) |-> s[j]] /\ Len(s) \in Nat
  OBVIOUS
<1> QED
  BY <1>2, <1>3, IsASeq

\* The first word and the others.
LEMMA TotalOfTail ==
    ASSUME NEW s \in Seq(Nat), s # <<>>
    PROVE  /\ Head(s) \in Nat
           /\ Tail(s) \in Seq(Nat)
           /\ Total(s) = Head(s) + Total(Tail(s))
<1>1. PICK n \in Nat : n + 1 = Len(s)
  <2>1. Len(s) - 1 \in Nat /\ (Len(s) - 1) + 1 = Len(s)
    OBVIOUS
  <2> QED
    BY <2>1
<1> DEFINE t == Tail(s)
<1>2. /\ t \in Seq(Nat)
      /\ Len(t) = n
      /\ \A j \in 1 .. n : t[j] = s[j + 1]
  BY <1>1
<1>3. s[1] = Head(s) /\ Head(s) \in Nat
  OBVIOUS
<1> HIDE DEF t
<1>4. PICK one \in Nat : one = 1
  OBVIOUS
<1>5. PICK h : IsTotal(h, s, one + n) /\ Total(s) = h[one + n]
  <2>1. one + n \in Nat /\ Len(s) = one + n
    BY <1>1, <1>4
  <2> QED
    BY <2>1, TotalUnfolds
<1>6. PICK g : IsTotal(g, t, n) /\ Total(t) = g[n]
  BY <1>2, TotalUnfolds
<1>7. h[one] = Head(s)
  <2>1. 1 \in 1 .. one + n /\ 1 - 1 = 0
    BY <1>4
  <2>2. h[0] = 0 /\ h[1] = h[0] + s[1]
    BY <1>5, <2>1 DEF IsTotal
  <2> QED
    BY <1>3, <1>4, <2>2
<1>8. h[one + n] = h[one] + g[n]
  <2>1. IsTotal(h, s, one + n)
    BY <1>5
  <2>2. IsTotal(g, t, n)
    BY <1>6
  <2>3. \A j \in 1 .. n : t[j] \in Nat /\ j + 1 = one + j
    BY <1>2, <1>4
  <2>4. \A j \in 1 .. n : s[one + j] = t[j]
    BY <1>2, <2>3, Zenon
  <2>5. Follow(t, s, one, n)
    BY <2>3, <2>4 DEF Follow
  <2>6. h[one] \in Nat
    BY <1>3, <1>7
  <2> QED
    BY <2>1, <2>2, <2>5, <2>6, TotalShift
<1>9. Total(s) = Head(s) + Total(t)
  BY <1>5, <1>6, <1>7, <1>8
<1> QED
  BY <1>2, <1>3, <1>9 DEF t

LEMMA TotalOfFour ==
    ASSUME NEW s \in Seq(Nat), NEW t \in Seq(Nat), NEW u \in Seq(Nat),
           NEW v \in Seq(Nat)
    PROVE  /\ s \o t \o u \o v \in Seq(Nat)
           /\ Total(s \o t \o u \o v) =
                  Total(s) + Total(t) + Total(u) + Total(v)
<1>1. s \o t \in Seq(Nat)
  BY ConcatProperties
<1>2. Total(s \o t) = Total(s) + Total(t)
  BY TotalOfConcat
<1>3. PICK x \in Seq(Nat) : x = s \o t
  BY <1>1
<1>4. x \o u \in Seq(Nat)
  BY ConcatProperties
<1>5. Total(x \o u) = Total(x) + Total(u)
  BY TotalOfConcat
<1>6. PICK y \in Seq(Nat) : y = x \o u
  BY <1>4
<1>7. y \o v \in Seq(Nat)
  BY ConcatProperties
<1>8. Total(y \o v) = Total(y) + Total(v)
  BY TotalOfConcat
<1> QED
  BY <1>2, <1>3, <1>5, <1>6, <1>7, <1>8

LEMMA TotalOfFive ==
    ASSUME NEW s \in Seq(Nat), NEW t \in Seq(Nat), NEW u \in Seq(Nat),
           NEW v \in Seq(Nat), NEW w \in Seq(Nat)
    PROVE  Total(s \o t \o u \o v \o w) =
               Total(s) + Total(t) + Total(u) + Total(v) + Total(w)
<1>1. PICK x \in Seq(Nat) : x = s \o t \o u \o v
  BY TotalOfFour
<1>2. Total(x) = Total(s) + Total(t) + Total(u) + Total(v)
  BY <1>1, TotalOfFour
<1>3. Total(x \o w) = Total(x) + Total(w)
  BY TotalOfConcat
<1> QED
  BY <1>1, <1>2, <1>3

-----------------------------------------------------------------------------
(***************************************************************************)
(* What the checksums complete.                                            *)
(***************************************************************************)

\* All ones, but for being zero.
Ones(n) == n > 0 /\ n % (Word - 1) = 0

\* What was added and what is left make up the words of the part, and a
\* checksum that is computed completes the words that it covers.
Sums ==
    /\ sum <= exact
    /\ pc = "header" =>
           exact + Total(todo) = Total(HeaderWords(dest, pkt))
    /\ pc = "udp" => exact + Total(todo) = Total(UdpWords(dest, pkt))
    /\ pc = "header" => pkt.af = "ipv4"
    /\ pc \in {"udp", "send"} /\ pkt.af = "ipv4" =>
           Ones(Total(HeaderWords(dest, pkt)) + check)
    /\ pc = "send" => Ones(Total(UdpWords(dest, pkt)) + udpcheck)

\* Zero does not pass for all ones: the complement of nothing is 0xffff.
LEMMA ComplementOnes ==
    ASSUME Inv, Sums, todo = <<>>, ~Carry
    PROVE  Ones(exact + Complement)
<1>1. sum \in Nat /\ exact \in Nat /\ Word \in Nat /\ Word >= 4
  BY WordSize DEF Inv, TypeOK
<1>2. sum < Word
  BY <1>1 DEF Carry
<1>3. Complement = Word - 1 - sum
  BY <1>1, <1>2, SmallRest DEF Complement
<1>4. exact + Complement > 0
  BY <1>1, <1>2, <1>3 DEF Sums
<1>5. (exact + Complement) % (Word - 1) = 0
  BY <1>2, InvCompletes
<1> QED
  BY <1>4, <1>5 DEF Ones

LEMMA BeginSums ==
    ASSUME NEW words \in Seq(Words), NEW part, BeginSum(part, words)
    PROVE  sum' = 0 /\ exact' = 0 /\ exact' + Total(todo') = Total(words)
<1>1. Total(words) \in Nat
  BY WordsAreNats, TotalIsNat
<1> QED
  BY <1>1 DEF BeginSum

LEMMA AddSums ==
    ASSUME Inv, Sums, Add
    PROVE  Sums'
<1>1. /\ todo \in Seq(Words) /\ todo # <<>>
      /\ sum \in Nat /\ exact \in Nat
  BY WordSize DEF Inv, TypeOK, Add
<1>2. /\ Head(todo) \in Nat
      /\ Total(todo) = Head(todo) + Total(Tail(todo))
      /\ Total(Tail(todo)) \in Nat
  BY <1>1, WordsAreNats, TotalOfTail, TotalIsNat
<1>3. exact' = exact + Head(todo) /\ todo' = Tail(todo)
  BY DEF Add
<1>4. exact' + Total(todo') = exact + Total(todo)
  BY <1>1, <1>2, <1>3
<1>5. sum' <= exact'
  <2>1. sum' = (sum + Head(todo)) % (Word * Word)
    BY DEF Add
  <2>2. PICK m \in Nat : m = Word * Word /\ m > 0
    BY WordSize
  <2>3. PICK n \in Nat : n = sum + Head(todo)
    BY <1>1, <1>2
  <2>4. n % m <= n
    BY <2>2
  <2> QED
    BY <1>1, <1>2, <1>3, <2>1, <2>2, <2>3, <2>4 DEF Sums
<1>6. UNCHANGED <<pc, call, check, udpcheck>>
  BY DEF Add
<1> QED
  BY <1>4, <1>5, <1>6 DEF Sums, dest, pkt

LEMMA FoldSums ==
    ASSUME Inv, Sums, Fold
    PROVE  Sums'
<1>1. sum \in Nat /\ exact \in Nat
  BY WordSize DEF Inv, TypeOK
<1>2. sum' <= sum /\ sum' \in Nat
  <2>1. /\ sum \div Word \in Nat
        /\ sum % Word \in 0 .. Word - 1
        /\ (sum \div Word) + (sum % Word) =
               sum - (sum \div Word) * (Word - 1)
    BY <1>1, WordSize, FoldTakes
  <2>2. (sum \div Word) * (Word - 1) \in Nat
    BY <2>1, WordSize
  <2>3. sum' = (sum \div Word) + (sum % Word)
    BY DEF Fold
  <2> QED
    BY <1>1, <2>1, <2>2, <2>3
<1>3. UNCHANGED <<pc, call, todo, check, udpcheck, exact>>
  BY DEF Fold
<1> QED
  BY <1>1, <1>2, <1>3 DEF Sums, dest, pkt

LEMMA SumsHold == Spec => []Sums
<1>1. Init => Sums
  BY DEF Init, Sums
<1>2. Inv /\ Sums /\ [Next]_vars => Sums'
  <2> SUFFICES ASSUME Inv, Sums, [Next]_vars
               PROVE  Sums'
    OBVIOUS
  <2>1. CASE \E d \in Dests, p \in Packets : Call(d, p)
    BY <2>1 DEF Call, Sums
  <2>2. CASE Return
    BY <2>2 DEF Return, Sums
  <2>3. CASE BeginHeader
    <3>1. dest \in Dests /\ pkt \in Packets
      BY <2>3 DEF BeginHeader, Inv, TypeOK
    <3>2. HeaderWords(dest, pkt) \in Seq(Words)
      BY <3>1, WordsTyped
    <3>3. BeginSum("header", HeaderWords(dest, pkt))
      BY <2>3 DEF BeginHeader
    <3>4. /\ sum' = 0 /\ exact' = 0
          /\ exact' + Total(todo') = Total(HeaderWords(dest, pkt))
      BY <3>2, <3>3, BeginSums
    <3>5. pc' = "header" /\ pkt.af = "ipv4" /\ call' = call
      BY <2>3 DEF BeginHeader, BeginSum
    <3> QED
      BY <3>4, <3>5 DEF Sums, dest, pkt
  <2>4. CASE BeginUdp \/ EndHeader
    <3>1. dest \in Dests /\ pkt \in Packets
      BY <2>4 DEF BeginUdp, EndHeader, Inv, TypeOK
    <3>2. UdpWords(dest, pkt) \in Seq(Words)
      BY <3>1, WordsTyped
    <3>3. BeginSum("udp", UdpWords(dest, pkt))
      BY <2>4 DEF BeginUdp, EndHeader
    <3>4. /\ sum' = 0 /\ exact' = 0
          /\ exact' + Total(todo') = Total(UdpWords(dest, pkt))
      BY <3>2, <3>3, BeginSums
    <3>5. pc' = "udp" /\ call' = call
      BY <2>4 DEF BeginUdp, EndHeader, BeginSum
    <3>6. pkt.af = "ipv4" => Ones(Total(HeaderWords(dest, pkt)) + check')
      <4>1. CASE BeginUdp
        BY <4>1 DEF BeginUdp
      <4>2. CASE EndHeader
        <5>1. Ones(exact + Complement)
          BY <4>2, ComplementOnes DEF EndHeader, Added
        <5>2. exact + Total(todo) = Total(HeaderWords(dest, pkt))
          BY <4>2 DEF EndHeader, Sums
        <5>3. Total(todo) = 0 /\ exact \in Nat
          BY <4>2, TotalOfFew DEF EndHeader, Added, Inv, TypeOK
        <5>4. exact = Total(HeaderWords(dest, pkt))
          BY <5>2, <5>3
        <5> QED
          BY <4>2, <5>1, <5>4 DEF EndHeader
      <4> QED
        BY <2>4, <4>1, <4>2
    <3> QED
      BY <3>4, <3>5, <3>6 DEF Sums, dest, pkt
  <2>5. CASE Add
    BY <2>5, AddSums
  <2>6. CASE Fold
    BY <2>6, FoldSums
  <2>7. CASE EndUdp
    <3>1. Ones(exact + Complement)
      BY <2>7, ComplementOnes DEF EndUdp, Added
    <3>2. exact + Total(todo) = Total(UdpWords(dest, pkt))
      BY <2>7 DEF EndUdp, Sums
    <3>3. Total(todo) = 0 /\ exact \in Nat
      BY <2>7, TotalOfFew DEF EndUdp, Added, Inv, TypeOK
    <3>4. exact = Total(UdpWords(dest, pkt))
      BY <3>2, <3>3
    <3>5. Ones(Total(UdpWords(dest, pkt)) + udpcheck')
      BY <2>7, <3>1, <3>4 DEF EndUdp
    <3> QED
      BY <2>7, <3>5 DEF EndUdp, Sums, dest, pkt
  <2>8. CASE UNCHANGED vars
    BY <2>8 DEF vars, Sums, dest, pkt
  <2>9. CASE RunAway \/ CopyTooMuch
    <3>1. pc' = "killed" /\ UNCHANGED <<call, sum, todo, check, udpcheck, exact>>
      BY <2>9 DEF RunAway, CopyTooMuch, Kill
    <3>2. pc # "idle"
      BY <2>9 DEF RunAway, CopyTooMuch
    <3> QED
      BY <3>1, <3>2 DEF Sums, dest, pkt
  <2> QED
    BY <2>1, <2>2, <2>3, <2>4, <2>5, <2>6, <2>7, <2>8, <2>9
    DEF Next, Step, Ignore, Send
<1> QED
  BY <1>1, <1>2, InvHolds, PTL DEF Spec

\* The sender's words of the data are the receiver's.
LEMMA DataWordsArePairs ==
    ASSUME NEW p \in Packets
    PROVE  DataWords(p) = Pairs(Data(p))
<1>1. PICK d \in Seq(Bytes) : d = Data(p)
  BY DataTyped
<1>2. PICK n \in Nat : n = Len(d)
  OBVIOUS
<1>3. Byte \in Nat
  BY ByteAssumption
<1>4. \A j \in 1 .. n : d[j] \in Nat
  BY <1>2, <1>3 DEF Bytes
<1> DEFINE q == Padded(d)
           A(j) == IF 2 * j <= n THEN d[2 * j - 1] * Byte + d[2 * j]
                                 ELSE LastByte(d[2 * j - 1])
           B(j) == q[2 * j - 1] * Byte + q[2 * j]
<1>5. DataWords(p) = [j \in 1 .. (n + 1) \div 2 |-> A(j)]
  BY <1>1, <1>2 DEF DataWords
<1>6. Pairs(Data(p)) = [j \in 1 .. Len(q) \div 2 |-> B(j)]
  BY <1>1 DEF Pairs
<1>7. CASE n % 2 = 0
  <2>1. q = d
    BY <1>2, <1>7 DEF Padded
  <2>2. Len(q) \div 2 = (n + 1) \div 2
    BY <1>2, <1>7, <2>1
  <2>3. \A j \in 1 .. (n + 1) \div 2 : 2 * j <= n
    BY <1>7
  <2>4. \A j \in 1 .. (n + 1) \div 2 : A(j) = B(j)
    BY <2>1, <2>3
  <2> HIDE DEF q, A, B
  <2> QED
    BY <1>5, <1>6, <2>2, <2>4
<1>8. CASE n % 2 # 0
  <2>1. q = Append(d, 0)
    BY <1>2, <1>8 DEF Padded
  <2>2. /\ Len(q) = n + 1
        /\ q[n + 1] = 0
        /\ \A j \in 1 .. n : q[j] = d[j]
    BY <1>2, <2>1
  <2> HIDE DEF q
  <2>3. Len(q) \div 2 = (n + 1) \div 2
    BY <2>2
  <2>4. ASSUME NEW j \in 1 .. (n + 1) \div 2
        PROVE  A(j) = B(j)
    <3>1. CASE 2 * j <= n
      <4>1. 2 * j - 1 \in 1 .. n /\ 2 * j \in 1 .. n
        BY <3>1
      <4>2. q[2 * j - 1] = d[2 * j - 1] /\ q[2 * j] = d[2 * j]
        BY <2>2, <4>1
      <4> QED
        BY <3>1, <4>2
    <3>2. CASE ~(2 * j <= n)
      <4>1. 2 * j = n + 1 /\ 2 * j - 1 = n /\ n \in 1 .. n
        BY <1>8, <3>2
      <4>2. PICK b \in Nat : b = d[n]
        BY <1>4, <4>1
      <4>3. q[2 * j - 1] = b /\ q[2 * j] = 0 /\ d[2 * j - 1] = b
        BY <2>2, <4>1, <4>2
      <4>4. A(j) = b * Byte
        BY <3>2, <4>3 DEF LastByte
      <4>5. B(j) = b * Byte + 0
        BY <4>3
      <4>6. b * Byte \in Nat
        BY <1>3
      <4> QED
        BY <4>4, <4>5, <4>6
    <3> QED
      BY <3>1, <3>2
  <2> HIDE DEF A, B
  <2> QED
    BY <1>5, <1>6, <2>3, <2>4
<1>9. n % 2 = 0 \/ n % 2 # 0
  OBVIOUS
<1> QED
  BY <1>7, <1>8, <1>9

\* The parts of a frame and of a destination.
LEMMA PartsTyped ==
    ASSUME NEW d \in Dests, NEW p \in Packets
    PROVE  /\ p.head \in Seq(Nat) /\ p.options \in Seq(Nat)
           /\ d.addr \in Seq(Nat) /\ d.addr4 \in Seq(Nat)
           /\ d.addr6 \in Seq(Nat)
           /\ p.dport \in Nat /\ p.udplen \in Nat /\ d.port \in Nat
           /\ ProtoUDP \in Nat
           /\ DataWords(p) \in Seq(Nat)
<1>1. Words \subseteq Nat
  BY WordSize DEF Words
<1>2. /\ p.head \in Seq(Words) /\ p.options \in Seq(Words)
      /\ d.addr \in Seq(Words) /\ d.addr4 \in Seq(Words)
      /\ d.addr6 \in Seq(Words)
      /\ p.dport \in Nat /\ p.udplen \in Nat /\ d.port \in Nat
      /\ ProtoUDP \in Nat
  BY <1>1, DestsAssumption, PacketsAssumption, ProtoAssumption
<1> QED
  BY <1>2, WordsAreNats, DataWordsTyped

\* A header in its parts.
LEMMA HeaderTotal ==
    ASSUME NEW s \in Seq(Nat), NEW t \in Seq(Nat), NEW u \in Seq(Nat),
           NEW v \in Seq(Nat), NEW c \in Nat
    PROVE  Total(s \o <<c>> \o t \o u \o v) = Total(s \o t \o u \o v) + c
<1> DEFINE w == <<c>>
<1>1. w \in Seq(Nat)
  OBVIOUS
<1>2. Total(w) = c
  BY TotalOfFew, Zenon
<1> HIDE DEF w
<1>3. Total(s \o w \o t \o u \o v) =
          Total(s) + Total(w) + Total(t) + Total(u) + Total(v)
  BY <1>1, TotalOfFive
<1>4. Total(s \o t \o u \o v) = Total(s) + Total(t) + Total(u) + Total(v)
  BY TotalOfFour
<1>5. /\ Total(s) \in Nat /\ Total(t) \in Nat /\ Total(u) \in Nat
      /\ Total(v) \in Nat
  BY TotalIsNat
<1>6. Total(s \o w \o t \o u \o v) = Total(s \o t \o u \o v) + c
  BY <1>2, <1>3, <1>4, <1>5
<1> QED
  BY <1>6 DEF w

\* A datagram in its parts.
UdpAdds(s, t, v, proto, len, from, to, c) ==
    Total(s \o t \o <<proto, len>> \o <<from, to, len, c>> \o v) =
        Total(s \o t \o <<proto, len, from, to, len>> \o v) + c

LEMMA UdpTotal ==
    ASSUME NEW s \in Seq(Nat), NEW t \in Seq(Nat), NEW v \in Seq(Nat),
           NEW proto \in Nat, NEW len \in Nat, NEW from \in Nat,
           NEW to \in Nat, NEW c \in Nat
    PROVE  UdpAdds(s, t, v, proto, len, from, to, c)
<1> DEFINE w == <<proto, len, from, to, len>>
           x == <<proto, len>>
           y == <<from, to, len, c>>
<1>1. w \in Seq(Nat) /\ x \in Seq(Nat) /\ y \in Seq(Nat)
  OBVIOUS
<1>2. Total(w) = proto + len + from + to + len
  <2>1. FiveAdd(proto, len, from, to, len)
    BY TotalOfFew
  <2> QED
    BY <2>1, Zenon DEF FiveAdd
<1>3. Total(x) = proto + len
  BY TotalOfFew, Zenon
<1>4. Total(y) = from + to + len + c
  <2>1. FourAdd(from, to, len, c)
    BY TotalOfFew
  <2> QED
    BY <2>1, Zenon DEF FourAdd
<1> HIDE DEF w, x, y
<1>5. Total(s \o t \o w \o v) = Total(s) + Total(t) + Total(w) + Total(v)
  BY <1>1, TotalOfFour
<1>6. Total(s \o t \o x \o y \o v) =
          Total(s) + Total(t) + Total(x) + Total(y) + Total(v)
  BY <1>1, TotalOfFive
<1>7. Total(s) \in Nat /\ Total(t) \in Nat /\ Total(v) \in Nat
  BY TotalIsNat
<1>8. Total(s \o t \o x \o y \o v) = Total(s \o t \o w \o v) + c
  BY <1>2, <1>3, <1>4, <1>5, <1>6, <1>7
<1> QED
  BY <1>8 DEF w, x, y, UdpAdds

\* The header that is sent: the checksum stands between what it covers.
LEMMA HeaderSent ==
    ASSUME NEW d \in Dests, NEW p \in Packets, NEW c \in Nat,
           Ones(Total(HeaderWords(d, p)) + c)
    PROVE  AllOnes(p.head \o <<c>> \o d.addr4 \o d.addr \o p.options)
<1>1. PICK s \in Seq(Nat) : s = p.head
  BY PartsTyped
<1>2. PICK t \in Seq(Nat) : t = d.addr4
  BY PartsTyped
<1>3. PICK u \in Seq(Nat) : u = d.addr
  BY PartsTyped
<1>4. PICK v \in Seq(Nat) : v = p.options
  BY PartsTyped
<1>5. HeaderWords(d, p) = s \o t \o u \o v
  BY <1>1, <1>2, <1>3, <1>4 DEF HeaderWords
<1>6. Total(s \o <<c>> \o t \o u \o v) = Total(s \o t \o u \o v) + c
  BY <1>1, <1>2, <1>3, <1>4, HeaderTotal
<1>7. AllOnes(s \o <<c>> \o t \o u \o v)
  BY <1>5, <1>6 DEF AllOnes, Ones
<1> QED
  BY <1>1, <1>2, <1>3, <1>4, <1>7

\* The datagram that is sent: the pseudo header holds the length again.
LEMMA UdpSent ==
    ASSUME NEW d \in Dests, NEW p \in Packets, NEW c \in Nat, NEW src,
           src = IF p.af = "ipv4" THEN d.addr4 ELSE d.addr6,
           Ones(Total(UdpWords(d, p)) + c)
    PROVE  AllOnes(src \o d.addr \o <<ProtoUDP, p.udplen>>
                       \o <<p.dport, d.port, p.udplen, c>>
                       \o Pairs(Data(p)))
<1>1. src \in Seq(Nat)
  BY PartsTyped
<1>2. PICK proto \in Nat : proto = ProtoUDP
  BY PartsTyped
<1>3. PICK len \in Nat : len = p.udplen
  BY PartsTyped
<1>4. PICK from \in Nat : from = p.dport
  BY PartsTyped
<1>5. PICK to \in Nat : to = d.port
  BY PartsTyped
<1>6. PICK data \in Seq(Nat) : data = DataWords(p)
  BY PartsTyped
<1>7. PICK dst \in Seq(Nat) : dst = d.addr
  BY PartsTyped
<1>8. UdpWords(d, p) = src \o dst \o <<proto, len, from, to, len>> \o data
  BY <1>2, <1>3, <1>4, <1>5, <1>6, <1>7 DEF UdpWords
<1>9. Total(src \o dst \o <<proto, len>> \o <<from, to, len, c>> \o data) =
          Total(src \o dst \o <<proto, len, from, to, len>> \o data) + c
  <2>1. UdpAdds(src, dst, data, proto, len, from, to, c)
    BY <1>1, <1>2, <1>3, <1>4, <1>5, <1>6, <1>7, UdpTotal
  <2> QED
    BY <2>1, Zenon DEF UdpAdds
<1>10. AllOnes(src \o dst \o <<proto, len>> \o <<from, to, len, c>> \o data)
  BY <1>8, <1>9 DEF AllOnes, Ones
<1>11. data = Pairs(Data(p))
  BY <1>6, DataWordsArePairs
<1> QED
  BY <1>2, <1>3, <1>4, <1>5, <1>7, <1>10, <1>11

(***************************************************************************)
(* The checksums that are sent are those of what is sent, the one of the   *)
(* IPv4 header and the one over the pseudo header, the UDP header and the  *)
(* data, for frames of any length and words of any width; and the receiver *)
(* accepts every datagram but one over IPv6 whose checksum comes out as    *)
(* zero (send_ipv4() and send_ipv6()).                                     *)
(***************************************************************************)
THEOREM VerifiesHolds == Spec => []Verifies
<1>1. TypeOK /\ Sums => Verifies
  <2> SUFFICES ASSUME TypeOK, Sums, pc = "send"
               PROVE  Verifies
    BY DEF Verifies
  <2>1. dest \in Dests /\ pkt \in Packets
    BY DEF TypeOK
  <2>2. check \in Nat /\ udpcheck \in Nat
    BY WordSize DEF TypeOK, Words
  <2>3. /\ Sent.head = pkt.head /\ Sent.check = check
        /\ Sent.src = IF pkt.af = "ipv4" THEN dest.addr4 ELSE dest.addr6
        /\ Sent.dst = dest.addr /\ Sent.options = pkt.options
        /\ Sent.sport = pkt.dport /\ Sent.dport = dest.port
        /\ Sent.len = pkt.udplen /\ Sent.udpcheck = udpcheck
        /\ Sent.data = Data(pkt)
    BY DEF Sent
  <2>4. ASSUME pkt.af = "ipv4"
        PROVE  AllOnes(Sent.head \o <<Sent.check>> \o Sent.src \o Sent.dst
                           \o Sent.options)
    <3>1. Ones(Total(HeaderWords(dest, pkt)) + check)
      BY <2>4 DEF Sums
    <3>2. AllOnes(pkt.head \o <<check>> \o dest.addr4 \o dest.addr
                      \o pkt.options)
      BY <2>1, <2>2, <3>1, HeaderSent
    <3> QED
      BY <2>3, <2>4, <3>2
  <2>5. AllOnes(ReceivedWords)
    <3>1. Ones(Total(UdpWords(dest, pkt)) + udpcheck)
      BY DEF Sums
    <3>2. AllOnes(Sent.src \o dest.addr \o <<ProtoUDP, pkt.udplen>>
                      \o <<pkt.dport, dest.port, pkt.udplen, udpcheck>>
                      \o Pairs(Data(pkt)))
      BY <2>1, <2>2, <2>3, <3>1, UdpSent
    <3> QED
      BY <2>3, <3>2 DEF ReceivedWords
  <2>6. ReceiverAccepts \/ (pkt.af = "ipv6" /\ Sent.udpcheck = 0)
    <3>1. pkt.af \in {"ipv4", "ipv6"}
      BY <2>1, PacketsAssumption
    <3> QED
      BY <2>5, <3>1 DEF ReceiverAccepts
  <2> QED
    BY <2>4, <2>5, <2>6 DEF Verifies
<1> QED
  BY <1>1, SumsHold, TypeCorrect, PTL
=============================================================================
