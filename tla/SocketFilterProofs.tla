-------------------------- MODULE SocketFilterProofs --------------------------
(***************************************************************************)
(* Proofs about SocketFilter: port_range() keeps its ranges in their       *)
(* shortest form and holds exactly the ports that it was asked for, for    *)
(* every number of ports and of places; compile() finds no room only when  *)
(* the ranges have filled theirs, and its program accepts exactly the      *)
(* packets that the filter describes, for every number of instructions.    *)
(***************************************************************************)
EXTENDS SocketFilter, Counting, FiniteSetTheorems

-----------------------------------------------------------------------------
(* What port_range() looks for in the list.                                *)

Ranges == [from : Ports, to : Ports]

LEMMA PortsAreNats ==
    ASSUME ranges \in Seq(Ranges)
    PROVE  /\ Len(ranges) \in Nat
           /\ \A n \in 1 .. Len(ranges) : /\ ranges[n] \in Ranges
                                         /\ ranges[n].from \in Ports
                                         /\ ranges[n].from \in Nat
                                         /\ ranges[n].to \in Ports
                                         /\ ranges[n].to \in Nat
<1>1. Len(ranges) \in Nat
  OBVIOUS
<1>2. \A n \in 1 .. Len(ranges) : ranges[n] \in Ranges
  OBVIOUS
<1>3. \A range \in Ranges : range.from \in Ports /\ range.to \in Ports
  BY DEF Ranges
<1>4. Ports \subseteq Nat
  BY DEF Ports
<1> QED
  BY <1>1, <1>2, <1>3, <1>4

\* First() is the place of the first range that the new one is not beyond.
LEMMA FirstFound ==
    ASSUME ranges \in Seq(Ranges), NEW from \in Nat
    PROVE  /\ First(from) \in 1 .. Len(ranges) + 1
           /\ \A n \in 1 .. Len(ranges) :
                  n < First(from) => ranges[n].to + 1 < from
           /\ First(from) <= Len(ranges) => from <= ranges[First(from)].to + 1
<1> DEFINE S == {n \in 1 .. Len(ranges) : from <= ranges[n].to + 1}
                    \cup {Len(ranges) + 1}
<1>1. Len(ranges) \in Nat /\ \A n \in 1 .. Len(ranges) : ranges[n].to \in Nat
  BY PortsAreNats
<1>2. S \in SUBSET Nat /\ S # {}
  BY <1>1
<1>3. First(from) \in S /\ \A y \in S : First(from) <= y
  BY <1>2, MinOfNats DEF First
<1>4. First(from) \in 1 .. Len(ranges) + 1
  BY <1>1, <1>3
<1>5. ASSUME NEW n \in 1 .. Len(ranges), n < First(from)
      PROVE  ranges[n].to + 1 < from
  <2>1. n \notin S
    BY <1>3, <1>4, <1>5
  <2> QED
    BY <1>1, <2>1
<1> QED
  BY <1>1, <1>3, <1>4, <1>5

\* Last() is the place of the last range that the new one reaches.
LEMMA LastFound ==
    ASSUME ranges \in Seq(Ranges), NEW n \in 1 .. Len(ranges), NEW to \in Nat
    PROVE  /\ Last(n, to) \in n .. Len(ranges)
           /\ \A m \in n + 1 .. Last(n, to) : to + 1 >= ranges[m].from
           /\ Last(n, to) < Len(ranges) =>
                  to + 1 < ranges[Last(n, to) + 1].from
<1> DEFINE Reached(m) == \A next \in n + 1 .. m : to + 1 >= ranges[next].from
           S == {m \in n .. Len(ranges) : Reached(m)}
<1>1. /\ Len(ranges) \in Nat
      /\ \A m \in 1 .. Len(ranges) : ranges[m].from \in Nat
  BY PortsAreNats
<1>2. n \in S
  BY <1>1
<1>3. S \in SUBSET Nat /\ \A m \in S : m <= Len(ranges)
  BY <1>1
<1>4. Last(n, to) \in S /\ \A m \in S : m <= Last(n, to)
  BY <1>1, <1>2, <1>3, MaxOfNats DEF Last
<1>5. ASSUME Last(n, to) < Len(ranges), to + 1 >= ranges[Last(n, to) + 1].from
      PROVE  FALSE
  <2>1. Last(n, to) + 1 \in n .. Len(ranges)
    BY <1>1, <1>4, <1>5
  <2>2. Reached(Last(n, to) + 1)
    BY <1>4, <1>5, <2>1
  <2>3. Last(n, to) + 1 \in S
    BY <2>1, <2>2
  <2> QED
    BY <1>3, <1>4, <2>3
<1>6. Last(n, to) \in n .. Len(ranges) /\ Reached(Last(n, to))
  BY <1>4
<1>7. Last(n, to) < Len(ranges) => to + 1 < ranges[Last(n, to) + 1].from
  <2> SUFFICES ASSUME Last(n, to) < Len(ranges)
               PROVE  to + 1 < ranges[Last(n, to) + 1].from
    OBVIOUS
  <2>1. Last(n, to) + 1 \in 1 .. Len(ranges)
    BY <1>1, <1>6
  <2>2. ranges[Last(n, to) + 1].from \in Nat
    BY <1>1, <2>1
  <2> QED
    BY <1>5, <2>2
<1> QED
  BY <1>6, <1>7

\* What Replace() puts where.
LEMMA Replaced ==
    ASSUME ranges \in Seq(Ranges), NEW range \in Ranges,
           NEW m \in 1 .. Len(ranges) + 1, NEW n \in m - 1 .. Len(ranges)
    PROVE  /\ Replace(m, n, range) \in Seq(Ranges)
           /\ Len(Replace(m, n, range)) = m + Len(ranges) - n
           /\ \A j \in 1 .. m - 1 : Replace(m, n, range)[j] = ranges[j]
           /\ Replace(m, n, range)[m] = range
           /\ \A j \in m + 1 .. m + Len(ranges) - n :
                  Replace(m, n, range)[j] = ranges[j - m + n]
<1> DEFINE before == SubSeq(ranges, 1, m - 1)
           after == SubSeq(ranges, n + 1, Len(ranges))
<1>1. Len(ranges) \in Nat /\ \A j \in 1 .. Len(ranges) : ranges[j] \in Ranges
  BY ElementOfSeq
<1>2. /\ before \in Seq(Ranges)
      /\ Len(before) = m - 1
      /\ \A j \in 1 .. m - 1 : before[j] = ranges[j]
  <2>1. \A j \in 1 .. m - 1 : ranges[j] \in Ranges
    BY <1>1
  <2> QED
    BY <1>1, <2>1, SubSeqProperties
<1>3. /\ after \in Seq(Ranges)
      /\ Len(after) = Len(ranges) - n
      /\ \A j \in 1 .. Len(ranges) - n : after[j] = ranges[n + j]
  <2>1. \A j \in n + 1 .. Len(ranges) : ranges[j] \in Ranges
    BY <1>1
  <2> QED
    BY <1>1, <2>1, SubSeqProperties
<1>4. /\ <<range>> \in Seq(Ranges)
      /\ Len(<<range>>) = 1
      /\ <<range>>[1] = range
  OBVIOUS
<1> HIDE DEF before, after
<1>5. /\ before \o <<range>> \in Seq(Ranges)
      /\ Len(before \o <<range>>) = m
      /\ \A j \in 1 .. m - 1 : (before \o <<range>>)[j] = ranges[j]
      /\ (before \o <<range>>)[m] = range
  <2> DEFINE single == <<range>>
             front == before \o single
  <2>1. single \in Seq(Ranges) /\ Len(single) = 1 /\ single[1] = range
    BY <1>4
  <2> HIDE DEF single
  <2>2. /\ front \in Seq(Ranges)
        /\ Len(front) = Len(before) + Len(single)
        /\ \A j \in 1 .. Len(before) + Len(single) :
               front[j] = IF j <= Len(before) THEN before[j]
                          ELSE single[j - Len(before)]
    BY <1>2, <2>1, ConcatProperties
  <2> HIDE DEF front
  <2>3. Len(before) = m - 1 /\ Len(before) + Len(single) = m
    BY <1>1, <1>2, <2>1
  <2>4. \A j \in 1 .. m - 1 : front[j] = ranges[j]
    <3>1. \A j \in 1 .. m - 1 : j \in 1 .. m /\ j <= m - 1
      BY <1>1
    <3>2. \A j \in 1 .. m - 1 : front[j] = before[j]
      BY <2>2, <2>3, <3>1
    <3> QED
      BY <1>2, <3>2
  <2>5. front[m] = range
    BY <1>1, <2>1, <2>2, <2>3
  <2> QED
    BY <2>2, <2>3, <2>4, <2>5 DEF front, single
<1> DEFINE front == before \o <<range>>
<1>6. /\ front \o after \in Seq(Ranges)
      /\ Len(front \o after) = m + (Len(ranges) - n)
      /\ \A j \in 1 .. m : (front \o after)[j] = front[j]
      /\ \A j \in m + 1 .. m + Len(ranges) - n :
             (front \o after)[j] = after[j - m]
  <2> HIDE DEF front
  <2>1. front \in Seq(Ranges) /\ Len(front) = m
    BY <1>5 DEF front
  <2>2. /\ front \o after \in Seq(Ranges)
        /\ Len(front \o after) = Len(front) + Len(after)
        /\ \A j \in 1 .. Len(front) + Len(after) :
               (front \o after)[j] = IF j <= Len(front) THEN front[j]
                                     ELSE after[j - Len(front)]
    BY <1>3, <2>1, ConcatProperties
  <2>3. Len(front) + Len(after) = m + (Len(ranges) - n)
    BY <1>1, <1>3, <2>1
  <2>4. ASSUME NEW j \in 1 .. m
        PROVE  (front \o after)[j] = front[j]
    <3>1. j \in 1 .. m + (Len(ranges) - n) /\ j <= Len(front)
      BY <1>1, <2>1
    <3> QED
      BY <2>2, <2>3, <3>1
  <2>5. ASSUME NEW j \in m + 1 .. m + Len(ranges) - n
        PROVE  (front \o after)[j] = after[j - m]
    <3>1. j \in 1 .. m + (Len(ranges) - n) /\ ~(j <= Len(front))
      BY <1>1, <2>1
    <3> QED
      BY <2>1, <2>2, <2>3, <3>1
  <2> QED
    BY <2>2, <2>3, <2>4, <2>5
<1>7. Replace(m, n, range) = front \o after
  BY DEF Replace, before, after
<1> HIDE DEF front
<1>8. ASSUME NEW j \in m + 1 .. m + Len(ranges) - n
      PROVE  (front \o after)[j] = ranges[j - m + n]
  <2>1. j - m \in 1 .. Len(ranges) - n /\ n + (j - m) = j - m + n
    BY <1>1
  <2> QED
    BY <1>3, <1>6, <2>1
<1>9. /\ m + (Len(ranges) - n) = m + Len(ranges) - n
      /\ m \in 1 .. m
  BY <1>1
<1>10. /\ \A j \in 1 .. m - 1 : (front \o after)[j] = ranges[j]
       /\ (front \o after)[m] = range
  <2>1. \A j \in 1 .. m - 1 : j \in 1 .. m
    OBVIOUS
  <2> QED
    BY <1>5, <1>6, <1>9, <2>1 DEF front
<1> QED
  BY <1>6, <1>7, <1>8, <1>9, <1>10

-----------------------------------------------------------------------------
(* The list stays in order and exact.                                      *)

\* Every range ends before every later one begins, with a port between them:
\* Canonical, but not only of neighbours.
Ordered(list) ==
    /\ \A n \in 1 .. Len(list) : list[n].from <= list[n].to
    /\ \A m, n \in 1 .. Len(list) : m < n => list[m].to + 1 < list[n].from

\* The ports that a list holds.
Held(list) == {p \in Ports : \E n \in 1 .. Len(list) :
                                 list[n].from <= p /\ p <= list[n].to}

Types ==
    /\ families \subseteq {"ipv4", "ipv6"}
    /\ ranges \in Seq(Ranges)
    /\ Len(ranges) <= MaxPortRanges
    /\ Len(filters) <= MaxFilters
    /\ result \in BOOLEAN
    /\ asked \subseteq Ports
    /\ ports \subseteq Ports

Inv == Types /\ Ordered(ranges) /\ ports = Held(ranges)

LEMMA HeldIsUnion ==
    ASSUME ranges \in Seq(Ranges)
    PROVE  Held(ranges) = UNION {PortsOf(ranges[n]) : n \in 1 .. Len(ranges)}
<1>1. ASSUME NEW n \in 1 .. Len(ranges)
      PROVE  PortsOf(ranges[n]) = {p \in Ports : /\ ranges[n].from <= p
                                                 /\ p <= ranges[n].to}
  <2>1. ranges[n].from \in Ports /\ ranges[n].to \in Ports
    BY PortsAreNats
  <2> QED
    BY <2>1, LimitsAssumption DEF PortsOf, Ports
<1> QED
  BY <1>1 DEF Held

\* A range that takes the place of those from m to n keeps the order if it
\* touches none of the others.
LEMMA ReplacedInOrder ==
    ASSUME ranges \in Seq(Ranges), Ordered(ranges), NEW range \in Ranges,
           NEW m \in 1 .. Len(ranges) + 1, NEW n \in m - 1 .. Len(ranges),
           range.from <= range.to,
           \A j \in 1 .. m - 1 : ranges[j].to + 1 < range.from,
           \A j \in n + 1 .. Len(ranges) : range.to + 1 < ranges[j].from
    PROVE  Ordered(Replace(m, n, range))
<1> DEFINE list == Replace(m, n, range)
           K == m + Len(ranges) - n
<1>1. /\ Len(list) = K
      /\ \A j \in 1 .. m - 1 : list[j] = ranges[j]
      /\ list[m] = range
      /\ \A j \in m + 1 .. K : list[j] = ranges[j - m + n]
  BY Replaced
<1>2. Len(ranges) \in Nat /\ K \in Nat
  BY PortsAreNats
<1> HIDE DEF list
<1>3. \A j \in m + 1 .. K : j - m + n \in n + 1 .. Len(ranges)
                            /\ j - m + n \in 1 .. Len(ranges)
  BY <1>2
<1>4. \A j \in 1 .. m - 1 : j \in 1 .. Len(ranges)
  BY <1>2
<1>5. ASSUME NEW j \in 1 .. K
      PROVE  list[j].from <= list[j].to
  <2>1. CASE j < m
    <3>1. j \in 1 .. m - 1
      BY <2>1
    <3> QED
      BY <1>1, <1>4, <3>1 DEF Ordered
  <2>2. CASE j = m
    BY <1>1, <2>2
  <2>3. CASE j > m
    <3>1. j \in m + 1 .. K
      BY <2>3
    <3> QED
      BY <1>1, <1>3, <3>1 DEF Ordered
  <2> QED
    BY <2>1, <2>2, <2>3
<1>6. ASSUME NEW j \in 1 .. K, NEW l \in 1 .. K, j < l
      PROVE  list[j].to + 1 < list[l].from
  <2>1. CASE l < m
    <3>1. j \in 1 .. m - 1 /\ l \in 1 .. m - 1
      BY <1>6, <2>1
    <3> QED
      BY <1>1, <1>4, <1>6, <3>1 DEF Ordered
  <2>2. CASE l = m
    <3>1. j \in 1 .. m - 1
      BY <1>6, <2>2
    <3> QED
      BY <1>1, <2>2, <3>1
  <2>3. CASE l > m
    <3>1. l \in m + 1 .. K
      BY <2>3
    <3>2. CASE j < m
      <4>1. j \in 1 .. m - 1 /\ j < l - m + n
        BY <1>2, <2>3, <3>2
      <4> QED
        BY <1>1, <1>3, <1>4, <3>1, <4>1 DEF Ordered
    <3>3. CASE j = m
      BY <1>1, <1>3, <3>1, <3>3
    <3>4. CASE j > m
      <4>1. j \in m + 1 .. K /\ j - m + n < l - m + n
        BY <1>2, <1>6, <3>4
      <4> QED
        BY <1>1, <1>3, <3>1, <4>1 DEF Ordered
    <3> QED
      BY <3>2, <3>3, <3>4
  <2> QED
    BY <2>1, <2>2, <2>3
<1> QED
  BY <1>1, <1>5, <1>6 DEF Ordered, list

\* What the list holds then: the range, and the ranges that were left alone.
LEMMA ReplacedHolds ==
    ASSUME ranges \in Seq(Ranges), NEW range \in Ranges,
           NEW m \in 1 .. Len(ranges) + 1, NEW n \in m - 1 .. Len(ranges),
           NEW p \in Ports
    PROVE  p \in Held(Replace(m, n, range)) <=>
               \/ range.from <= p /\ p <= range.to
               \/ \E j \in 1 .. Len(ranges) :
                      (j < m \/ j > n) /\ ranges[j].from <= p /\ p <= ranges[j].to
<1> DEFINE list == Replace(m, n, range)
           K == m + Len(ranges) - n
<1>1. /\ Len(list) = K
      /\ \A j \in 1 .. m - 1 : list[j] = ranges[j]
      /\ list[m] = range
      /\ \A j \in m + 1 .. K : list[j] = ranges[j - m + n]
  BY Replaced, ZenonT(60)
<1>2. Len(ranges) \in Nat /\ K \in Nat /\ m \in 1 .. K
  BY PortsAreNats
<1> HIDE DEF list
<1>3. ASSUME NEW j \in 1 .. K, list[j].from <= p /\ p <= list[j].to
      PROVE  \/ range.from <= p /\ p <= range.to
             \/ \E l \in 1 .. Len(ranges) :
                    (l < m \/ l > n) /\ ranges[l].from <= p /\ p <= ranges[l].to
  <2>1. CASE j < m
    <3>1. j \in 1 .. m - 1 /\ j \in 1 .. Len(ranges)
      BY <1>2, <2>1
    <3> QED
      BY <1>1, <1>3, <2>1, <3>1
  <2>2. CASE j = m
    BY <1>1, <1>3, <2>2
  <2>3. CASE j > m
    <3>1. j \in m + 1 .. K
      BY <2>3
    <3>2. j - m + n \in 1 .. Len(ranges) /\ j - m + n > n
      BY <1>2, <2>3
    <3> QED
      BY <1>1, <1>3, <3>1, <3>2
  <2> QED
    BY <2>1, <2>2, <2>3
<1>4. ASSUME NEW l \in 1 .. Len(ranges), l < m \/ l > n,
             ranges[l].from <= p /\ p <= ranges[l].to
      PROVE  \E j \in 1 .. K : list[j].from <= p /\ p <= list[j].to
  <2>1. CASE l < m
    <3>1. l \in 1 .. m - 1 /\ l \in 1 .. K
      BY <1>2, <2>1
    <3> QED
      BY <1>1, <1>4, <3>1
  <2>2. CASE l > n
    <3> DEFINE j == l + m - n
    <3>1. j \in m + 1 .. K /\ j \in 1 .. K /\ j - m + n = l
      BY <1>2, <2>2
    <3> HIDE DEF j
    <3>2. list[j] = ranges[l]
      BY <1>1, <3>1
    <3> QED
      BY <1>4, <3>1, <3>2
  <2> QED
    BY <1>4, <2>1, <2>2
<1> QED
  BY <1>1, <1>2, <1>3, <1>4 DEF Held, list

-----------------------------------------------------------------------------
(* Every step keeps the invariant.                                         *)

LEMMA InvInit == Init => Inv
<1> SUFFICES ASSUME Init
             PROVE  Inv
  OBVIOUS
<1>1. ranges = <<>> /\ Len(ranges) = 0
  BY DEF Init
<1>2. Types
  BY <1>1, LimitsAssumption DEF Init, Types
<1>3. Ordered(ranges)
  BY <1>1 DEF Ordered
<1>4. ports = Held(ranges)
  BY <1>1 DEF Init, Held
<1> QED
  BY <1>2, <1>3, <1>4 DEF Inv

\* A range takes the place of those from m to n, all of which lie in it, and it
\* holds nothing but them and the ports asked for.
LEMMA TakesPlace ==
    ASSUME Inv, NEW from \in Ports, NEW to \in Ports, NEW range \in Ranges,
           Accepted(from, to),
           NEW m \in 1 .. Len(ranges) + 1, NEW n \in m - 1 .. Len(ranges),
           range.from <= from, to <= range.to,
           \A j \in 1 .. m - 1 : ranges[j].to + 1 < range.from,
           \A j \in n + 1 .. Len(ranges) : range.to + 1 < ranges[j].from,
           \A j \in m .. n : range.from <= ranges[j].from /\ ranges[j].to <= range.to,
           \A p \in Ports : range.from <= p /\ p <= range.to =>
               \/ p \in from .. to
               \/ \E j \in m .. n : ranges[j].from <= p /\ p <= ranges[j].to,
           m + Len(ranges) - n <= MaxPortRanges,
           ranges' = Replace(m, n, range)
    PROVE  Inv'
<1>1. ranges \in Seq(Ranges) /\ Ordered(ranges) /\ ports = Held(ranges)
  BY DEF Inv, Types
<1>2. Len(ranges) \in Nat /\ \A j \in m .. n : j \in 1 .. Len(ranges)
  BY <1>1, PortsAreNats
<1>3. from \in Nat /\ to \in Nat /\ from .. to \subseteq Ports /\ from <= to
  BY LimitsAssumption DEF Ports, Accepted
<1>4. range.from \in Nat /\ range.to \in Nat
  BY DEF Ranges, Ports
<1>5. ranges' \in Seq(Ranges) /\ Len(ranges') <= MaxPortRanges
  <2>1. /\ Replace(m, n, range) \in Seq(Ranges)
        /\ Len(Replace(m, n, range)) = m + Len(ranges) - n
    BY <1>1, Replaced, ZenonT(60)
  <2> QED
    BY <2>1
<1>6. Types'
  BY <1>3, <1>5 DEF Inv, Types, Accepted
<1>7. Ordered(ranges')
  BY <1>1, <1>3, <1>4, ReplacedInOrder
<1>8. ASSUME NEW p \in Ports
      PROVE  p \in Held(ranges') <=> p \in ports \/ p \in from .. to
  <2>1. p \in Nat
    BY DEF Ports
  <2>2. p \in Held(ranges') <=>
            \/ range.from <= p /\ p <= range.to
            \/ \E j \in 1 .. Len(ranges) :
                   (j < m \/ j > n) /\ ranges[j].from <= p /\ p <= ranges[j].to
    BY <1>1, ReplacedHolds
  <2>3. p \in ports <=> \E j \in 1 .. Len(ranges) :
                            ranges[j].from <= p /\ p <= ranges[j].to
    BY <1>1 DEF Held
  <2>4. p \in from .. to => range.from <= p /\ p <= range.to
    BY <1>3, <1>4, <2>1
  <2>5. ASSUME NEW j \in 1 .. Len(ranges), ~(j < m \/ j > n),
               ranges[j].from <= p /\ p <= ranges[j].to
        PROVE  range.from <= p /\ p <= range.to
    <3>1. j \in m .. n
      BY <1>2, <2>5
    <3>2. ranges[j].from \in Nat /\ ranges[j].to \in Nat
      BY <1>1, PortsAreNats
    <3>3. range.from <= ranges[j].from /\ ranges[j].to <= range.to
      BY <3>1
    <3>4. \A a, b, c \in Nat : a <= b /\ b <= c => a <= c
      OBVIOUS
    <3> QED
      BY <1>4, <2>1, <2>5, <3>2, <3>3, <3>4, Zenon
  <2>6. range.from <= p /\ p <= range.to => p \in ports \/ p \in from .. to
    BY <1>2, <2>3
  <2> QED
    BY <2>2, <2>3, <2>4, <2>5, <2>6
<1>9. ports' = Held(ranges')
  <2>1. ports' = ports \cup from .. to /\ ports \subseteq Ports
    BY DEF Accepted, Inv, Types
  <2>2. Held(ranges') \subseteq Ports
    BY DEF Held
  <2> QED
    BY <1>3, <1>8, <2>1, <2>2
<1> QED
  BY <1>6, <1>7, <1>9 DEF Inv

LEMMA InsertKeeps ==
    ASSUME Inv, NEW from \in 0 .. MaxPort, NEW to \in 0 .. MaxPort,
           Insert(from, to)
    PROVE  Inv'
<1> DEFINE n == First(from)
           range == [from |-> from, to |-> to]
<1>1. ranges \in Seq(Ranges) /\ Ordered(ranges)
  BY DEF Inv, Types
<1>2. /\ Accepted(from, to)
      /\ Alone(n, to)
      /\ Len(ranges) < MaxPortRanges
      /\ ranges' = Replace(n, n - 1, range)
  BY DEF Insert
<1>3. from \in Ports /\ to \in Ports /\ from \in Nat /\ to \in Nat
  BY <1>2, LimitsAssumption DEF Accepted, Ports
<1>4. range \in Ranges /\ range.from = from /\ range.to = to
  BY <1>3 DEF Ranges
<1>5. /\ n \in 1 .. Len(ranges) + 1
      /\ \A j \in 1 .. Len(ranges) : j < n => ranges[j].to + 1 < from
  BY <1>1, <1>3, FirstFound
<1> HIDE DEF n, range
<1>6. Len(ranges) \in Nat
  BY <1>1, PortsAreNats
<1>7. ASSUME NEW j \in n .. Len(ranges)
      PROVE  to + 1 < ranges[j].from
  <2>1. n \in 1 .. Len(ranges) /\ j \in 1 .. Len(ranges)
    BY <1>5, <1>6
  <2>2. to + 1 < ranges[n].from
    BY <1>2, <2>1 DEF Alone
  <2>3. CASE j = n
    BY <2>2, <2>3
  <2>4. CASE n < j
    <3>1. ranges[n].to + 1 < ranges[j].from /\ ranges[n].from <= ranges[n].to
      BY <1>1, <2>1, <2>4 DEF Ordered
    <3>2. /\ ranges[n].from \in Nat
          /\ ranges[n].to \in Nat
          /\ ranges[j].from \in Nat
      BY <1>1, <2>1, PortsAreNats
    <3> QED
      <4> DEFINE a == ranges[n].from
                 b == ranges[n].to
                 c == ranges[j].from
      <4>1. /\ a \in Nat /\ b \in Nat /\ c \in Nat
            /\ to + 1 < a /\ a <= b /\ b + 1 < c
        BY <2>2, <3>1, <3>2
      <4> HIDE DEF a, b, c
      <4>2. to + 1 < c
        BY <1>3, <4>1
      <4> QED
        BY <4>2 DEF c
  <2> QED
    BY <1>5, <1>6, <2>3, <2>4
<1>8. /\ n - 1 \in n - 1 .. Len(ranges)
      /\ n + Len(ranges) - (n - 1) <= MaxPortRanges
      /\ \A j \in 1 .. n - 1 : j \in 1 .. Len(ranges) /\ j < n
      /\ \A j \in n - 1 + 1 .. Len(ranges) : j \in n .. Len(ranges)
      /\ \A j \in n .. n - 1 : FALSE
  BY <1>2, <1>5, <1>6, LimitsAssumption
<1>9. /\ \A j \in 1 .. n - 1 : ranges[j].to + 1 < range.from
      /\ \A j \in n - 1 + 1 .. Len(ranges) : range.to + 1 < ranges[j].from
      /\ \A p \in Ports : range.from <= p /\ p <= range.to => p \in from .. to
      /\ range.from <= from /\ to <= range.to
  BY <1>3, <1>4, <1>5, <1>7, <1>8 DEF Ports
<1> QED
  BY <1>2, <1>3, <1>4, <1>5, <1>8, <1>9, TakesPlace


LEMMA MergeKeeps ==
    ASSUME Inv, NEW from \in 0 .. MaxPort, NEW to \in 0 .. MaxPort,
           Merge(from, to)
    PROVE  Inv'
<1> DEFINE m == First(from)
           n == Last(m, to)
           range == [from |-> Min({from, ranges[m].from}),
                     to |-> Max({to, ranges[n].to})]
<1>1. ranges \in Seq(Ranges) /\ Ordered(ranges) /\ Len(ranges) <= MaxPortRanges
  BY DEF Inv, Types
<1>2. Accepted(from, to) /\ ~Alone(m, to) /\ ranges' = Replace(m, n, range)
  BY DEF Merge
<1>3. from \in Ports /\ to \in Ports /\ from \in Nat /\ to \in Nat
  BY <1>2, LimitsAssumption DEF Accepted, Ports
<1>4. Len(ranges) \in Nat
  BY <1>1, PortsAreNats
<1>5. /\ m \in 1 .. Len(ranges) + 1
      /\ \A j \in 1 .. Len(ranges) : j < m => ranges[j].to + 1 < from
      /\ m <= Len(ranges) => from <= ranges[m].to + 1
  BY <1>1, <1>3, FirstFound
<1>6. m \in 1 .. Len(ranges)
  BY <1>2, <1>4, <1>5 DEF Alone
<1>7. /\ n \in m .. Len(ranges)
      /\ \A j \in m + 1 .. n : to + 1 >= ranges[j].from
      /\ n < Len(ranges) => to + 1 < ranges[n + 1].from
  BY <1>1, <1>3, <1>6, LastFound
<1>8. n = m => to + 1 >= ranges[m].from
  <2>1. ranges[m].from \in Nat
    BY <1>1, <1>6, PortsAreNats
  <2> QED
    BY <1>2, <1>3, <2>1 DEF Alone
<1> HIDE DEF m, n
<1>9. n \in 1 .. Len(ranges)
  BY <1>4, <1>6, <1>7
<1>10. \A j \in 1 .. Len(ranges) : /\ ranges[j].from \in Nat
                                   /\ ranges[j].to \in Nat
                                   /\ ranges[j].from <= ranges[j].to
  BY <1>1, PortsAreNats DEF Ordered
<1>11. \A j, l \in 1 .. Len(ranges) :
           j < l => ranges[j].to + 1 < ranges[l].from
  BY <1>1 DEF Ordered
<1>12. to + 1 >= ranges[n].from
  <2>1. n # m => n \in m + 1 .. n
    BY <1>4, <1>6, <1>7
  <2> QED
    BY <1>7, <1>8, <2>1
<1>13. /\ range.from = IF from <= ranges[m].from THEN from ELSE ranges[m].from
       /\ range.to = IF to <= ranges[n].to THEN ranges[n].to ELSE to
  BY <1>3, <1>6, <1>9, <1>10, OfTwo
<1>14. range \in Ranges
  <2>1. /\ ranges[m].from \in Ports
        /\ ranges[n].to \in Ports
    BY <1>1, <1>6, <1>9, PortsAreNats
  <2>2. range.from \in Ports /\ range.to \in Ports
    BY <1>3, <1>13, <2>1
  <2> QED
    BY <2>2 DEF Ranges
<1> HIDE DEF range
<1>15. ASSUME NEW j \in 1 .. m - 1
       PROVE  ranges[j].to + 1 < range.from
  <2>1. j \in 1 .. Len(ranges) /\ j < m
    BY <1>4, <1>6
  <2>2. ranges[j].to + 1 < from /\ ranges[j].to + 1 < ranges[m].from
    BY <1>5, <1>6, <1>11, <2>1
  <2> QED
    BY <1>13, <2>2
<1>16. ASSUME NEW j \in n + 1 .. Len(ranges)
       PROVE  range.to + 1 < ranges[j].from
  <2>1. j \in 1 .. Len(ranges) /\ n < j /\ n < Len(ranges)
        /\ n + 1 \in 1 .. Len(ranges)
    BY <1>4, <1>9
  <2>2. ranges[n].to + 1 < ranges[j].from
    BY <1>9, <1>11, <2>1
  <2>3. to + 1 < ranges[n + 1].from
    BY <1>7, <2>1
  <2>4. ranges[n + 1].from <= ranges[j].from
    <3>1. CASE j = n + 1
      BY <1>10, <2>1, <3>1
    <3>2. CASE n + 1 < j
      <4>1. ranges[n + 1].to + 1 < ranges[j].from
        BY <1>11, <2>1, <3>2
      <4>2. /\ ranges[n + 1].from \in Nat
            /\ ranges[n + 1].to \in Nat
            /\ ranges[j].from \in Nat
            /\ ranges[n + 1].from <= ranges[n + 1].to
        BY <1>10, <2>1
      <4> QED
        BY <4>1, <4>2
    <3> QED
      BY <1>9, <2>1, <3>1, <3>2
  <2>5. /\ ranges[n + 1].from \in Nat
        /\ ranges[j].from \in Nat
    BY <1>10, <2>1
  <2>6. to + 1 < ranges[j].from
    BY <1>3, <2>3, <2>4, <2>5
  <2> QED
    BY <1>13, <2>2, <2>6
<1>17. ASSUME NEW j \in m .. n
       PROVE  range.from <= ranges[j].from /\ ranges[j].to <= range.to
  <2>1. j \in 1 .. Len(ranges)
    BY <1>4, <1>6, <1>9
  <2>2. /\ ranges[j].from \in Nat /\ ranges[j].to \in Nat
        /\ ranges[j].from <= ranges[j].to
        /\ ranges[m].from \in Nat /\ ranges[m].to \in Nat
        /\ ranges[m].from <= ranges[m].to
        /\ ranges[n].from \in Nat /\ ranges[n].to \in Nat
        /\ ranges[n].from <= ranges[n].to
    BY <1>6, <1>9, <1>10, <2>1
  <2>3. m < j => ranges[m].to + 1 < ranges[j].from
    BY <1>6, <1>11, <2>1
  <2>4. j < n => ranges[j].to + 1 < ranges[n].from
    BY <1>9, <1>11, <2>1
  <2>5. ranges[m].from <= ranges[j].from
    <3>1. CASE m = j
      BY <2>2, <3>1
    <3>2. CASE m < j
      BY <2>2, <2>3, <3>2
    <3> QED
      BY <1>6, <1>9, <3>1, <3>2
  <2>6. ranges[j].to <= ranges[n].to
    <3>1. CASE j = n
      BY <2>2, <3>1
    <3>2. CASE j < n
      BY <2>2, <2>4, <3>2
    <3> QED
      BY <1>6, <1>9, <3>1, <3>2
  <2> QED
    BY <1>3, <1>13, <2>2, <2>5, <2>6
<1>18. ASSUME NEW p \in Ports, range.from <= p /\ p <= range.to
       PROVE  \/ p \in from .. to
              \/ \E j \in m .. n : ranges[j].from <= p /\ p <= ranges[j].to
  <2>1. p \in Nat /\ m \in m .. n /\ n \in m .. n
    BY <1>6, <1>7, <1>9 DEF Ports
  <2>2. /\ ranges[m].from \in Nat /\ ranges[m].to \in Nat
        /\ ranges[n].from \in Nat /\ ranges[n].to \in Nat
        /\ from <= ranges[m].to + 1
    BY <1>5, <1>6, <1>9, <1>10
  <2>3. CASE p < from
    <3>1. ranges[m].from <= p /\ p <= ranges[m].to
      BY <1>3, <1>13, <1>18, <2>1, <2>2, <2>3
    <3> QED
      BY <2>1, <3>1
  <2>4. CASE to < p
    <3>1. ranges[n].from <= p /\ p <= ranges[n].to
      BY <1>3, <1>12, <1>13, <1>18, <2>1, <2>2, <2>4
    <3> QED
      BY <2>1, <3>1
  <2>5. CASE from <= p /\ p <= to
    BY <1>3, <2>1, <2>5
  <2> QED
    BY <1>3, <2>1, <2>3, <2>4, <2>5
<1>19. range.from <= from /\ to <= range.to
  <2>1. ranges[m].from \in Nat /\ ranges[n].to \in Nat
    BY <1>6, <1>9, <1>10
  <2> QED
    BY <1>3, <1>13, <2>1
<1>20. /\ m \in 1 .. Len(ranges) + 1
       /\ n \in m - 1 .. Len(ranges)
       /\ m + Len(ranges) - n <= MaxPortRanges
  BY <1>1, <1>4, <1>6, <1>7, LimitsAssumption
<1>21. /\ \A j \in 1 .. m - 1 : ranges[j].to + 1 < range.from
       /\ \A j \in n + 1 .. Len(ranges) : range.to + 1 < ranges[j].from
       /\ \A j \in m .. n :
              range.from <= ranges[j].from /\ ranges[j].to <= range.to
  BY <1>15, <1>16, <1>17
<1>22. \A p \in Ports : range.from <= p /\ p <= range.to =>
           \/ p \in from .. to
           \/ \E j \in m .. n : ranges[j].from <= p /\ p <= ranges[j].to
  BY <1>18
<1>23. ranges' = Replace(m, n, range)
  BY <1>2
<1> QED
  BY <1>2, <1>3, <1>14, <1>19, <1>20, <1>21, <1>22, <1>23, TakesPlace, SMTT(60)

LEMMA RefuseKeeps ==
    ASSUME Inv, NEW from \in 0 .. MaxPort, NEW to \in 0 .. MaxPort,
           Refuse(from, to)
    PROVE  Inv'
<1>1. result' = FALSE /\ UNCHANGED <<families, ranges, filters, ports>>
  BY DEF Refuse
<1>2. asked' \subseteq Ports
  BY LimitsAssumption DEF Refuse, Ports
<1> QED
  BY <1>1, <1>2 DEF Inv, Types, Ordered, Held

LEMMA CompileKeeps == Inv /\ Compile => Inv'
<1> SUFFICES ASSUME Inv, Compile
             PROVE  Inv'
  OBVIOUS
<1> DEFINE program == Patched(Program("ipv4" \in families',
                                      "ipv6" \in families'))
<1>1. /\ families' = IF families = {} THEN {"ipv4", "ipv6"} ELSE families
      /\ result' = (Len(program) <= MaxFilters)
      /\ filters' = IF result' THEN program ELSE <<>>
      /\ UNCHANGED <<ranges, asked, ports>>
  BY DEF Compile
<1> HIDE DEF program
<1>2. families' \subseteq {"ipv4", "ipv6"} /\ result' \in BOOLEAN
  BY <1>1 DEF Inv, Types
<1>3. Len(filters') <= MaxFilters
  <2>1. CASE result'
    BY <1>1, <2>1
  <2>2. CASE ~result'
    <3>1. Len(filters') = 0
      BY <1>1, <2>2
    <3> QED
      BY <3>1, LimitsAssumption
  <2> QED
    BY <2>1, <2>2
<1> QED
  BY <1>1, <1>2, <1>3 DEF Inv, Types, Ordered, Held

LEMMA InvStep == Inv /\ [Next]_vars => Inv'
<1> SUFFICES ASSUME Inv, [Next]_vars
             PROVE  Inv'
  OBVIOUS
<1>1. CASE \E family \in Enables : Enable(family)
  <2>1. PICK family \in Enables : Enable(family)
    BY <1>1
  <2>2. families' \subseteq {"ipv4", "ipv6"}
    BY <2>1, EnablesAssumption DEF Enable, Inv, Types
  <2> QED
    BY <2>1, <2>2 DEF Enable, Inv, Types, Ordered, Held
<1>2. CASE \E from, to \in 0 .. MaxPort : PortRange(from, to)
  <2>1. PICK from \in 0 .. MaxPort, to \in 0 .. MaxPort : PortRange(from, to)
    BY <1>2
  <2> QED
    BY <2>1, InsertKeeps, MergeKeeps, RefuseKeeps DEF PortRange
<1>3. CASE Compile
  BY <1>3, CompileKeeps
<1>4. CASE UNCHANGED vars
  BY <1>4 DEF vars, Inv, Types, Ordered, Held
<1> QED
  BY <1>1, <1>2, <1>3, <1>4 DEF Next

LEMMA InvAlways == Spec => []Inv
<1> QED
  BY InvInit, InvStep, PTL DEF Spec

-----------------------------------------------------------------------------
(* port_range() refuses ports only when there is no place for them.        *)

\* Where a run of the ports begins: at the first of each range, and of a new
\* range that lies alone.
LEMMA RefusedIsFull ==
    ASSUME Inv, NEW from \in Ports, NEW to \in Ports, from <= to,
           Alone(First(from), to), Len(ranges) = MaxPortRanges
    PROVE  Runs(ports \cup from .. to) > MaxPortRanges
<1> DEFINE N == Len(ranges)
           S == ports \cup from .. to
           B == {p \in S : p - 1 \notin S}
           f == [j \in 1 .. N + 1 |-> IF j <= N THEN ranges[j].from ELSE from]
<1>1. ranges \in Seq(Ranges) /\ Ordered(ranges) /\ ports = Held(ranges)
  BY DEF Inv, Types
<1>2. N \in Nat /\ from \in Nat /\ to \in Nat
  BY <1>1, PortsAreNats DEF Ports
<1>3. \A j \in 1 .. N : /\ ranges[j].from \in Nat
                        /\ ranges[j].from \in Ports
                        /\ ranges[j].to \in Nat
                        /\ ranges[j].from <= ranges[j].to
  BY <1>1, PortsAreNats DEF Ordered
<1>4. \A j, l \in 1 .. N : j < l => ranges[j].to + 1 < ranges[l].from
  BY <1>1 DEF Ordered
<1>5. \A j \in 1 .. N : \/ ranges[j].to + 1 < from
                        \/ to + 1 < ranges[j].from
  <2> SUFFICES ASSUME NEW j \in 1 .. N, ~(ranges[j].to + 1 < from)
               PROVE  to + 1 < ranges[j].from
    OBVIOUS
  <2>1. /\ First(from) \in 1 .. N + 1
        /\ j < First(from) => ranges[j].to + 1 < from
    BY <1>1, <1>2, FirstFound
  <2>2. PICK n \in 1 .. N + 1 : n = First(from)
    BY <2>1
  <2>3. n \in 1 .. N /\ n <= j
    BY <1>2, <2>1, <2>2
  <2>4. to + 1 < ranges[n].from
    BY <2>2, <2>3 DEF Alone
  <2>5. CASE n = j
    BY <2>4, <2>5
  <2>6. CASE n < j
    <3> DEFINE a == ranges[n].from
               b == ranges[n].to
               c == ranges[j].from
    <3>1. /\ a \in Nat /\ b \in Nat /\ c \in Nat
          /\ to + 1 < a /\ a <= b /\ b + 1 < c
      BY <1>3, <1>4, <2>3, <2>4, <2>6
    <3> HIDE DEF a, b, c
    <3>2. to + 1 < c
      BY <1>2, <3>1
    <3> QED
      BY <3>2 DEF c
  <2> QED
    BY <1>2, <2>3, <2>5, <2>6
<1>6. \A p \in Ports : p \in ports <=> \E j \in 1 .. N :
                           ranges[j].from <= p /\ p <= ranges[j].to
  BY <1>1 DEF Held
<1>7. ports \subseteq Ports /\ Ports \subseteq Nat
  BY DEF Inv, Types, Ports
<1> HIDE DEF N
<1>8. \A j \in 1 .. N : ranges[j].from \in B
  <2> SUFFICES ASSUME NEW j \in 1 .. N, ranges[j].from - 1 \in S
               PROVE  FALSE
    BY <1>3, <1>6
  <2> DEFINE q == ranges[j].from - 1
  <2>1. q \notin from .. to
    <3> DEFINE x == ranges[j].from
               y == ranges[j].to
    <3>1. x \in Nat /\ y \in Nat /\ x <= y /\ (y + 1 < from \/ to + 1 < x)
      BY <1>3, <1>5
    <3> HIDE DEF x, y
    <3>2. x - 1 \notin from .. to
      BY <1>2, <3>1
    <3> QED
      BY <3>2 DEF x
  <2>2. q \in ports
    BY <2>1
  <2>3. PICK l \in 1 .. N : ranges[l].from <= q /\ q <= ranges[l].to
    BY <1>6, <1>7, <2>2
  <2>4. ranges[l].from <= ranges[j].from - 1 /\ ranges[j].from <= ranges[l].to + 1
    BY <1>3, <2>3
  <2>5. ~(l < j) /\ l # j
    BY <1>3, <1>4, <2>4
  <2>6. ranges[j].to + 1 < ranges[l].from
    BY <1>2, <1>4, <2>5
  <2> QED
    BY <1>3, <2>4, <2>6
<1>9. from \in B
  <2> SUFFICES ASSUME from - 1 \in S
               PROVE  FALSE
    BY <1>2
  <2>1. from - 1 \in ports
    BY <1>2
  <2>2. PICK l \in 1 .. N : ranges[l].from <= from - 1 /\ from - 1 <= ranges[l].to
    BY <1>6, <1>7, <2>1
  <2> QED
    BY <1>2, <1>3, <1>5, <2>2
<1>10. \A j \in 1 .. N : ranges[j].from # from
  BY <1>2, <1>3, <1>5
<1>11. \A j, l \in 1 .. N : ranges[j].from = ranges[l].from => j = l
  <2> SUFFICES ASSUME NEW j \in 1 .. N, NEW l \in 1 .. N, j < l,
                      ranges[j].from = ranges[l].from
               PROVE  FALSE
    BY <1>2
  <2> QED
    BY <1>3, <1>4
<1>12. f \in [1 .. N + 1 -> B]
  BY <1>2, <1>8, <1>9
<1>13. \A j, l \in 1 .. N + 1 : f[j] = f[l] => j = l
  BY <1>2, <1>10, <1>11
<1>14. IsFiniteSet(B)
  <2>1. S \subseteq 1 .. MaxPort
    BY <1>7, LimitsAssumption DEF Ports
  <2>2. IsFiniteSet(1 .. MaxPort)
    BY FS_Interval, LimitsAssumption
  <2>3. B \in SUBSET (1 .. MaxPort)
    BY <2>1
  <2> QED
    BY <2>2, <2>3, FS_Subset
<1> HIDE DEF f, B
<1>15. f \in Injection(1 .. N + 1, B)
  BY <1>12, <1>13 DEF Injection, IsInjective
<1>16. Cardinality(1 .. N + 1) <= Cardinality(B)
  BY <1>14, <1>15, FS_Injection
<1>17. Cardinality(1 .. N + 1) = N + 1
  BY <1>2, FS_Interval
<1>18. Cardinality(B) \in Nat
  BY <1>14, FS_CardinalityType
<1> QED
  BY <1>2, <1>16, <1>17, <1>18, LimitsAssumption DEF Runs, B, N

-----------------------------------------------------------------------------
(* The program that compile() writes, before its jumps are patched: how    *)
(* long it is.                                                             *)

Codes == {"ld", "jeq", "jge", "jgt", "jset", "ret"}

Fields == {"len", "ether_type", "ip6_nxt", "protocol", "frag_off", "ipv4_port",
           "ipv6_port"}

\* Forward by so many statements, or to one of the returns at the end.
Jumps == Nat \cup {Ignore, Accept}

Stmts == {s \in [code : Codes, k : Fields \cup Int, jt : Jumps, jf : Jumps] :
              s.code = "ld" => s.k \in Fields}

\* A piece of a program, of n statements at most.
Piece(s, n) == s \in Seq(Stmts) /\ Len(s) <= n

LEMMA OneStmt ==
    ASSUME NEW code \in Codes, NEW k \in Fields \cup Int, NEW jt \in Jumps,
           NEW jf \in Jumps, code = "ld" => k \in Fields
    PROVE  Piece(<<[code |-> code, k |-> k, jt |-> jt, jf |-> jf]>>, 1)
<1>1. [code |-> code, k |-> k, jt |-> jt, jf |-> jf] \in Stmts
  BY DEF Stmts
<1> HIDE DEF Stmts
<1> QED
  BY <1>1 DEF Piece

LEMMA Pieces ==
    ASSUME NEW s, NEW t, NEW m \in Nat, NEW n \in Nat, Piece(s, m), Piece(t, n)
    PROVE  Piece(s \o t, m + n)
<1>1. s \o t \in Seq(Stmts) /\ Len(s \o t) = Len(s) + Len(t)
  BY ConcatProperties DEF Piece
<1>2. Len(s) \in Nat /\ Len(t) \in Nat
  BY DEF Piece
<1> QED
  BY <1>1, <1>2 DEF Piece

LEMMA LongerPiece ==
    ASSUME NEW s, NEW m \in Nat, NEW n \in Nat, Piece(s, m), m <= n
    PROVE  Piece(s, n)
<1>1. Len(s) \in Nat
  BY DEF Piece
<1> QED
  BY <1>1 DEF Piece

LEMMA StmtsRegroup ==
    \A s, t, u \in Seq(Stmts) : (s \o t) \o u = s \o (t \o u)
  BY ConcatAssociative

\* The statements that compile() writes one by one.
LEMMA StmtPieces ==
    /\ Piece(<<>>, 0)
    /\ \A k \in Int : Piece(Stmt("ret", k), 1)
    /\ \A field \in Fields : Piece(Load(field), 1)
    /\ \A code \in Codes \ {"ld"}, k \in Int, jt, jf \in Jumps :
           Piece(Jump(code, k, jt, jf), 1)
<1>1. Piece(<<>>, 0)
  BY DEF Piece
<1>2. 0 \in Jumps /\ \A k \in Int : k \in Fields \cup Int
  BY DEF Jumps
<1>3. /\ "ld" \in Codes /\ "ret" \in Codes /\ "ret" # "ld"
      /\ \A field \in Fields : field \in Fields \cup Int
  BY DEF Codes
<1>4. \A k \in Int : Piece(Stmt("ret", k), 1)
  BY <1>2, <1>3, OneStmt DEF Stmt
<1>5. \A field \in Fields : Piece(Load(field), 1)
  BY <1>2, <1>3, OneStmt DEF Load
<1>6. \A code \in Codes \ {"ld"}, k \in Int, jt, jf \in Jumps :
          Piece(Jump(code, k, jt, jf), 1)
  BY <1>2, OneStmt DEF Jump
<1> QED
  BY <1>1, <1>4, <1>5, <1>6

\* The tests of the ports, as PortTests concatenates them.
Tests == [n \in 1 .. MaxPortRanges |-> PortTest(ranges[n])]

LEMMA PortTestsUnfold == IsConcat(PortTests, Tests, MaxPortRanges)
<1>1. PICK g : g = [n \in 0 .. MaxPortRanges |->
                       IF n = 0 THEN <<>> ELSE g[n - 1] \o Tests[n]]
  BY ConcatExists, LimitsAssumption
<1>2. \A n \in 1 .. MaxPortRanges : Tests[n] = PortTest(ranges[n])
  BY DEF Tests
<1>3. \A n \in 0 .. MaxPortRanges :
          (IF n = 0 THEN <<>> ELSE g[n - 1] \o Tests[n]) =
          (IF n = 0 THEN <<>> ELSE g[n - 1] \o PortTest(ranges[n]))
  BY <1>2, LimitsAssumption
<1>4. g = [n \in 0 .. MaxPortRanges |->
              IF n = 0 THEN <<>> ELSE g[n - 1] \o PortTest(ranges[n])]
  BY <1>1, <1>3
<1>5. PortTests = [n \in 0 .. MaxPortRanges |->
                      IF n = 0 THEN <<>>
                      ELSE PortTests[n - 1] \o PortTest(ranges[n])]
  BY <1>4, Zenon DEF PortTests
<1>6. PortTests[0] = <<>>
  BY <1>5, LimitsAssumption
<1>7. ASSUME NEW n \in 1 .. MaxPortRanges
      PROVE  PortTests[n] = PortTests[n - 1] \o Tests[n]
  <2>1. n \in 0 .. MaxPortRanges /\ n # 0
    BY LimitsAssumption
  <2>2. PortTests[n] = IF n = 0 THEN <<>>
                       ELSE PortTests[n - 1] \o PortTest(ranges[n])
    BY <1>5, <2>1
  <2> QED
    BY <1>2, <2>1, <2>2
<1> QED
  BY <1>6, <1>7 DEF IsConcat

LEMMA PortTestPiece ==
    ASSUME NEW range \in Ranges
    PROVE  Piece(PortTest(range), 2)
<1>1. range.from \in Int /\ range.to \in Int
  BY LimitsAssumption DEF Ranges, Ports
<1>2. /\ "jeq" \in Codes \ {"ld"} /\ "jge" \in Codes \ {"ld"}
      /\ "jgt" \in Codes \ {"ld"}
      /\ Accept \in Jumps /\ 0 \in Jumps /\ 1 \in Jumps
  BY DEF Codes, Jumps
<1>3. CASE range.from = range.to
  <2>1. Piece(PortTest(range), 1)
    BY <1>1, <1>2, <1>3, StmtPieces DEF PortTest
  <2> QED
    BY <2>1, LongerPiece
<1>4. CASE range.from # range.to
  <2>1. /\ Piece(Jump("jge", range.from, 0, 1), 1)
        /\ Piece(Jump("jgt", range.to, 0, Accept), 1)
    BY <1>1, <1>2, StmtPieces
  <2>2. Piece(PortTest(range), 1 + 1)
    BY <1>4, <2>1, Pieces DEF PortTest
  <2> QED
    BY <2>2
<1> QED
  BY <1>3, <1>4

LEMMA PortTestsPiece ==
    ASSUME Inv
    PROVE  /\ IsConcat(PortTests, Tests, Len(ranges))
           /\ \A n \in 1 .. Len(ranges) : Tests[n] = PortTest(ranges[n])
           /\ \A n \in 0 .. Len(ranges) : Piece(PortTests[n], 2 * n)
<1> DEFINE N == Len(ranges)
<1>1. N \in Nat /\ N <= MaxPortRanges
  BY PortsAreNats DEF Inv, Types
<1>2. IsConcat(PortTests, Tests, N)
  <2>1. \A n \in 1 .. N : n \in 1 .. MaxPortRanges
    BY <1>1, LimitsAssumption
  <2> QED
    BY <2>1, PortTestsUnfold DEF IsConcat
<1>3. \A n \in 1 .. N : Tests[n] = PortTest(ranges[n])
  BY <1>1, LimitsAssumption DEF Tests
<1>4. \A n \in 1 .. N : Tests[n] \in Seq(Stmts) /\ Len(Tests[n]) <= 2
  <2>1. \A n \in 1 .. N : ranges[n] \in Ranges
    BY PortsAreNats DEF Inv, Types
  <2> QED
    BY <1>3, <2>1, PortTestPiece DEF Piece
<1> HIDE DEF N
<1>5. \A n \in 0 .. N : PortTests[n] \in Seq(Stmts)
  BY <1>1, <1>2, <1>4, ConcatTyped
<1>6. \A n \in 0 .. N : Len(PortTests[n]) <= 2 * n
  BY <1>1, <1>2, <1>4, ConcatLength
<1> QED
  BY <1>2, <1>3, <1>5, <1>6 DEF Piece, N

\* What both families' parts are made of.
LEMMA FixedPieces ==
    /\ Piece(Stmt("ret", 0), 1)
    /\ Piece(Stmt("ret", WholePacket), 1)
    /\ \A field \in Fields : Piece(Load(field), 1)
    /\ Piece(Jump("jge", MinLenIPv6, 0, Ignore), 1)
    /\ Piece(Jump("jge", MinLenIPv4, 0, Ignore), 1)
    /\ Piece(Jump("jeq", EtherTypeIPv4, 0, Ignore), 1)
    /\ Piece(Jump("jeq", ProtoUDP, 0, Ignore), 1)
    /\ Piece(Jump("jset", FragmentBits, Ignore, 0), 1)
<1>1. /\ "jge" \in Codes \ {"ld"} /\ "jeq" \in Codes \ {"ld"}
      /\ "jset" \in Codes \ {"ld"}
      /\ 0 \in Jumps /\ Ignore \in Jumps
  BY DEF Codes, Jumps
<1>2. /\ MinLenIPv6 \in Int /\ MinLenIPv4 \in Int /\ EtherTypeIPv4 \in Int
      /\ ProtoUDP \in Int /\ FragmentBits \in Int /\ 0 \in Int
      /\ WholePacket \in Int
  BY SMT DEF MinLenIPv6, MinLenIPv4, EtherTypeIPv4, ProtoUDP, FragmentBits,
         WholePacket
<1> QED
  BY <1>1, <1>2, StmtPieces

\* The ports are tested by at most two statements for each place of the list,
\* and two more.
LEMMA PortPartPiece ==
    ASSUME Inv, NEW field \in Fields, NEW otherwise, Piece(otherwise, 1)
    PROVE  Piece(PortPart(field, otherwise), 2 * MaxPortRanges + 2)
<1> DEFINE N == Len(ranges)
<1>1. N \in Nat /\ N <= MaxPortRanges
  BY PortsAreNats DEF Inv, Types
<1>2. CASE ranges # <<>>
  <2>1. Piece(PortTests[N], 2 * N) /\ Piece(Load(field), 1)
    BY <1>1, PortTestsPiece, StmtPieces
  <2> HIDE DEF N
  <2>2. 1 + 2 * N \in Nat /\ 2 * N \in Nat
    BY <1>1
  <2>3. Piece(PortTests[N] \o otherwise, 2 * N + 1)
    BY <2>1, <2>2, Pieces
  <2>4. Piece(Load(field) \o (PortTests[N] \o otherwise), 1 + (2 * N + 1))
    BY <2>1, <2>2, <2>3, Pieces
  <2>5. Load(field) \o (PortTests[N] \o otherwise) =
            Load(field) \o PortTests[N] \o otherwise
    <3>1. /\ Load(field) \in Seq(Stmts)
          /\ PortTests[N] \in Seq(Stmts)
          /\ otherwise \in Seq(Stmts)
      BY <2>1 DEF Piece
    <3> QED
      BY <3>1, StmtsRegroup, Zenon
  <2>6. 1 + (2 * N + 1) <= 2 * MaxPortRanges + 2
        /\ 1 + (2 * N + 1) \in Nat /\ 2 * MaxPortRanges + 2 \in Nat
    BY <1>1, LimitsAssumption
  <2> QED
    BY <1>2, <2>4, <2>5, <2>6, LongerPiece DEF PortPart, N
<1>3. CASE ranges = <<>>
  <2>1. Piece(Stmt("ret", WholePacket), 1)
    BY FixedPieces
  <2>2. 1 <= 2 * MaxPortRanges + 2 /\ 2 * MaxPortRanges + 2 \in Nat
    BY LimitsAssumption
  <2> QED
    BY <1>3, <2>1, <2>2, LongerPiece DEF PortPart
<1> QED
  BY <1>2, <1>3

LEMMA ThreePieces ==
    ASSUME NEW r, NEW s, NEW t, NEW l \in Nat, NEW m \in Nat, NEW n \in Nat,
           Piece(r, l), Piece(s, m), Piece(t, n)
    PROVE  Piece(r \o s \o t, l + m + n)
<1>1. Piece(r \o s, l + m) /\ l + m \in Nat
  BY Pieces
<1> QED
  BY <1>1, Pieces

LEMMA IPv6Piece ==
    ASSUME Inv, NEW with4 \in BOOLEAN
    PROVE  Piece(PartIPv6(with4), 2 * MaxPortRanges + 6)
<1> DEFINE K == 2 * MaxPortRanges + 2
           length == IF with4
                     THEN Load("len") \o Jump("jge", MinLenIPv6, 0, Ignore)
                     ELSE <<>>
           rest == PortPart("ipv6_port", Stmt("ret", 0))
<1>1. K \in Nat
  BY LimitsAssumption
<1>2. "len" \in Fields /\ "ip6_nxt" \in Fields /\ "ipv6_port" \in Fields
  BY DEF Fields
<1>3. Piece(rest, K)
  BY <1>2, FixedPieces, PortPartPiece
<1>4. Piece(length, 2)
  <2>1. CASE with4
    <3>1. Piece(length, 1 + 1)
      BY <1>2, <2>1, FixedPieces, Pieces
    <3> QED
      BY <3>1
  <2>2. CASE ~with4
    <3>1. Piece(length, 0)
      BY <2>2, StmtPieces
    <3> QED
      BY <3>1, LongerPiece
  <2> QED
    BY <2>1, <2>2
<1> HIDE DEF length, rest, K
<1>5. Piece(length \o Load("ip6_nxt") \o Jump("jeq", ProtoUDP, 0, Ignore),
            2 + 1 + 1)
  BY <1>2, <1>4, FixedPieces, ThreePieces
<1>6. Piece(length \o Load("ip6_nxt") \o Jump("jeq", ProtoUDP, 0, Ignore) \o rest,
            2 + 1 + 1 + K)
  BY <1>1, <1>3, <1>5, Pieces
<1>7. 2 + 1 + 1 + K = 2 * MaxPortRanges + 6
  BY LimitsAssumption DEF K
<1> QED
  BY <1>6, <1>7 DEF PartIPv6, length, rest

LEMMA IPv4Piece ==
    ASSUME Inv
    PROVE  Piece(PartIPv4, 2 * MaxPortRanges + 7)
<1> DEFINE K == 2 * MaxPortRanges + 2
           rest == PortPart("ipv4_port", <<>>)
<1>1. K \in Nat
  BY LimitsAssumption
<1>2. /\ "protocol" \in Fields /\ "frag_off" \in Fields
      /\ "ipv4_port" \in Fields
  BY DEF Fields
<1>3. Piece(rest, K)
  <2>1. Piece(<<>>, 1)
    BY StmtPieces, LongerPiece
  <2> QED
    BY <1>2, <2>1, PortPartPiece
<1> HIDE DEF rest, K
<1> DEFINE first == Jump("jeq", EtherTypeIPv4, 0, Ignore) \o Load("protocol")
                        \o Jump("jeq", ProtoUDP, 0, Ignore)
           second == first \o Load("frag_off")
                         \o Jump("jset", FragmentBits, Ignore, 0)
<1>4. Piece(first, 3)
  <2>1. Piece(first, 1 + 1 + 1)
    BY <1>2, FixedPieces, ThreePieces
  <2> QED
    BY <2>1
<1> HIDE DEF first
<1>5. Piece(second, 5)
  <2>1. Piece(second, 3 + 1 + 1)
    BY <1>2, <1>4, FixedPieces, ThreePieces
  <2> QED
    BY <2>1
<1> HIDE DEF second
<1>6. Piece(second \o rest, 5 + K)
  BY <1>1, <1>3, <1>5, Pieces
<1>7. 5 + K = 2 * MaxPortRanges + 7
  BY LimitsAssumption DEF K
<1>8. PartIPv4 = second \o rest
  BY DEF PartIPv4, first, second, rest
<1> QED
  BY <1>6, <1>7, <1>8

LEMMA ProgramPiece ==
    ASSUME Inv, NEW with4 \in BOOLEAN, NEW with6 \in BOOLEAN
    PROVE  Piece(Program(with4, with6), 4 * MaxPortRanges + 19)
<1> DEFINE K == 2 * MaxPortRanges + 7
           minlen == IF with4 THEN MinLenIPv4 ELSE MinLenIPv6
           start == Load("len") \o Jump("jge", minlen, 0, Ignore)
                        \o Load("ether_type")
           part6 == IF with6 THEN TypeTest(with4) \o PartIPv6(with4) ELSE <<>>
           part4 == IF with4 THEN PartIPv4 ELSE <<>>
<1>1. K \in Nat
  BY LimitsAssumption
<1>2. "len" \in Fields /\ "ether_type" \in Fields
  BY DEF Fields
<1>3. Piece(start, 1 + 1 + 1)
  <2>1. Piece(Jump("jge", minlen, 0, Ignore), 1)
    BY FixedPieces
  <2> HIDE DEF minlen
  <2> QED
    BY <1>2, <2>1, FixedPieces, ThreePieces
<1>4. Piece(part6, K)
  <2>1. CASE with6
    <3>1. Piece(PartIPv6(with4), 2 * MaxPortRanges + 6)
          /\ 2 * MaxPortRanges + 6 \in Nat
      BY IPv6Piece, LimitsAssumption
    <3>2. Piece(TypeTest(with4), 1)
      <4>1. Len(PartIPv6(with4)) \in Nat
        BY <3>1 DEF Piece
      <4>2. /\ "jeq" \in Codes \ {"ld"} /\ EtherTypeIPv6 \in Int /\ 0 \in Jumps
            /\ (IF with4 THEN Len(PartIPv6(with4)) ELSE 0) \in Jumps
        <5>1. EtherTypeIPv6 \in Int
          BY SMT DEF EtherTypeIPv6
        <5> QED
          BY <4>1, <5>1 DEF Codes, Jumps
      <4> QED
        BY <4>2, StmtPieces DEF TypeTest
    <3>3. Piece(part6, 1 + (2 * MaxPortRanges + 6))
      BY <2>1, <3>1, <3>2, Pieces
    <3>4. 1 + (2 * MaxPortRanges + 6) = K
      BY LimitsAssumption
    <3> QED
      BY <3>3, <3>4
  <2>2. CASE ~with6
    <3>1. Piece(part6, 0) /\ 0 <= K
      BY <1>1, <2>2, StmtPieces
    <3> HIDE DEF part6, K
    <3> QED
      BY <1>1, <3>1, LongerPiece
  <2> QED
    BY <2>1, <2>2
<1>5. Piece(part4, K)
  <2>1. CASE with4
    BY <2>1, IPv4Piece
  <2>2. CASE ~with4
    <3>1. Piece(part4, 0) /\ 0 <= K
      BY <1>1, <2>2, StmtPieces
    <3> HIDE DEF part4, K
    <3> QED
      BY <1>1, <3>1, LongerPiece
  <2> QED
    BY <2>1, <2>2
<1> HIDE DEF start, part6, part4, K
<1>6. Piece(start \o part6 \o part4, 1 + 1 + 1 + K + K)
  BY <1>1, <1>3, <1>4, <1>5, ThreePieces
<1>7. 1 + 1 + 1 + K + K \in Nat
  BY <1>1
<1>8. Piece(start \o part6 \o part4 \o Stmt("ret", 0) \o Stmt("ret", WholePacket),
            1 + 1 + 1 + K + K + 1 + 1)
  BY <1>6, <1>7, FixedPieces, ThreePieces
<1>9. 1 + 1 + 1 + K + K + 1 + 1 = 4 * MaxPortRanges + 19
  BY LimitsAssumption DEF K
<1> QED
  BY <1>8, <1>9 DEF Program, start, part6, part4

\* With as much room as the code gives it, compile() does not fail.
Room == 4 * MaxPortRanges + 19 <= MaxFilters

LEMMA CompileSucceeds ==
    ASSUME Room, Inv, Compile
    PROVE  result'
<1> DEFINE program == Program("ipv4" \in families', "ipv6" \in families')
<1>1. Len(program) <= 4 * MaxPortRanges + 19 /\ Len(program) \in Nat
  <2> DEFINE with4 == "ipv4" \in families'
             with6 == "ipv6" \in families'
  <2>1. with4 \in BOOLEAN /\ with6 \in BOOLEAN
    OBVIOUS
  <2> HIDE DEF with4, with6
  <2>2. Piece(Program(with4, with6), 4 * MaxPortRanges + 19)
    BY <2>1, ProgramPiece
  <2>3. Piece(program, 4 * MaxPortRanges + 19)
    BY <2>2 DEF with4, with6
  <2> QED
    BY <2>3 DEF Piece
<1>2. Len(Patched(program)) = Len(program)
  <2> HIDE DEF program
  <2>1. Patched(program) =
            [n \in 1 .. Len(program) |-> Patched(program)[n]]
    BY DEF Patched
  <2> HIDE DEF Patched
  <2> QED
    BY <1>1, <2>1
<1>3. result' = (Len(Patched(program)) <= MaxFilters)
  BY DEF Compile
<1> HIDE DEF program
<1>4. Len(Patched(program)) <= MaxFilters
  BY <1>1, <1>2, LimitsAssumption DEF Room
<1> QED
  BY <1>3, <1>4

-----------------------------------------------------------------------------
(* The theorems.                                                           *)

\* For every number of ports and places, and every order of the calls of
\* port_range(): the variables have their types, and neither _M_portranges nor
\* the program of compile() outgrows its place.
THEOREM TypeCorrect == Spec => []TypeOK
<1>1. Inv => TypeOK
  <2> SUFFICES ASSUME Inv
               PROVE  TypeOK
    OBVIOUS
  <2>1. \A n \in 1 .. Len(ranges) : ranges[n] \in [from : Ports, to : Ports]
    BY PortsAreNats DEF Inv, Types, Ranges
  <2> QED
    BY <2>1 DEF Inv, Types, TypeOK
<1> QED
  BY <1>1, InvAlways, PTL

\* For every number of ports and places: port_range() keeps its ranges sorted,
\* not empty, and a port apart.
THEOREM CanonicalHolds == Spec => []Canonical
<1>1. Inv => Canonical
  <2> SUFFICES ASSUME Inv
               PROVE  Canonical
    OBVIOUS
  <2>1. Len(ranges) \in Nat
    BY PortsAreNats DEF Inv, Types
  <2>2. \A n \in 2 .. Len(ranges) : /\ n - 1 \in 1 .. Len(ranges)
                                    /\ n \in 1 .. Len(ranges)
                                    /\ n - 1 < n
    BY <2>1
  <2> QED
    BY <2>2 DEF Inv, Ordered, Canonical
<1> QED
  BY <1>1, InvAlways, PTL

\* For every number of ports and places: the ranges hold exactly the ports of
\* the calls of port_range() that returned true.
THEOREM ExactHolds == Spec => []Exact
<1>1. Inv => Exact
  BY HeldIsUnion DEF Inv, Types, Exact
<1> QED
  BY <1>1, InvAlways, PTL

\* For every number of ports, and with the room for the filter that the code
\* has (147 of 255 statements for 32 places): port_range() refuses ports only
\* when they and those so far make up more ranges than there are places for.
THEOREM RefusesOnlyWhenFullHolds ==
    ASSUME Room
    PROVE  Spec => []RefusesOnlyWhenFull
<1>1. Init => RefusesOnlyWhenFull
  BY DEF Init, RefusesOnlyWhenFull
<1>2. Inv /\ RefusesOnlyWhenFull /\ [Next]_vars => RefusesOnlyWhenFull'
  <2> SUFFICES ASSUME Inv, RefusesOnlyWhenFull, [Next]_vars
               PROVE  RefusesOnlyWhenFull'
    OBVIOUS
  <2>1. CASE \E family \in Enables : Enable(family)
    BY <2>1 DEF Enable, RefusesOnlyWhenFull
  <2>2. ASSUME NEW from \in 0 .. MaxPort, NEW to \in 0 .. MaxPort,
               PortRange(from, to)
        PROVE  RefusesOnlyWhenFull'
    <3>1. CASE Insert(from, to) \/ Merge(from, to)
      BY <3>1 DEF Insert, Merge, Accepted, RefusesOnlyWhenFull
    <3>2. CASE Refuse(from, to)
      <4>1. /\ asked' = IF from = 0 THEN {} ELSE from .. to
            /\ ports' = ports
        BY <3>2 DEF Refuse
      <4>2. CASE from = 0
        BY <4>1, <4>2 DEF RefusesOnlyWhenFull
      <4>3. CASE from > to
        <5>1. asked' = {}
          BY <4>1, <4>3, LimitsAssumption
        <5> QED
          BY <5>1 DEF RefusesOnlyWhenFull
      <4>4. CASE from # 0 /\ from <= to
        <5>1. from \in Ports /\ to \in Ports
          BY <4>4, LimitsAssumption DEF Ports
        <5>2. Alone(First(from), to) /\ Len(ranges) = MaxPortRanges
          BY <3>2, <4>4, LimitsAssumption DEF Refuse
        <5>3. Runs(ports \cup from .. to) > MaxPortRanges
          BY <4>4, <5>1, <5>2, RefusedIsFull
        <5>4. ports' \cup asked' = ports \cup from .. to
          BY <4>1, <4>4
        <5>5. Runs(ports' \cup asked') > MaxPortRanges
          BY <5>3, <5>4
        <5> QED
          BY <5>5 DEF RefusesOnlyWhenFull, Runs
      <4> QED
        BY <4>2, <4>3, <4>4, LimitsAssumption
    <3> QED
      BY <2>2, <3>1, <3>2 DEF PortRange
  <2>3. CASE Compile
    <3>1. result'
      BY <2>3, CompileSucceeds
    <3> QED
      BY <3>1 DEF RefusesOnlyWhenFull
  <2>4. CASE UNCHANGED vars
    BY <2>4 DEF vars, RefusesOnlyWhenFull, Runs
  <2> QED
    BY <2>1, <2>2, <2>3, <2>4 DEF Next
<1> QED
  BY <1>1, <1>2, InvAlways, PTL DEF Spec

-----------------------------------------------------------------------------
(* What a program makes of a packet.  Run() is a recursive function: there *)
(* is one that satisfies its definition if no jump goes back.              *)

Body(program, packet, g, pc, a) ==
    IF pc > Len(program) THEN FALSE
    ELSE LET at == program[pc]
         IN  CASE at.code = "ret" -> at.k > 0
               [] at.code = "ld" -> g[pc + 1][Loaded(packet, at.k)]
               [] OTHER -> g[pc + 1 + IF Taken(at, a) THEN at.jt ELSE at.jf][a]

WellFormed(program, packet) ==
    /\ Len(program) \in Nat
    /\ \A pc \in 1 .. Len(program) :
           /\ program[pc].code = "ld" => Loaded(packet, program[pc].k) \in Nat
           /\ program[pc].jt \in Nat
           /\ program[pc].jf \in Nat

LEMMA BodyLooksAhead ==
    ASSUME NEW program, NEW packet, WellFormed(program, packet),
           NEW g, NEW h, NEW pc \in Nat \ {0}, NEW a \in Nat,
           \A q \in Nat \ {0} : q > pc => h[q] = g[q]
    PROVE  Body(program, packet, h, pc, a) = Body(program, packet, g, pc, a)
<1> DEFINE at == program[pc]
           next == pc + 1 + IF Taken(at, a) THEN at.jt ELSE at.jf
<1>1. CASE pc > Len(program)
  BY <1>1 DEF Body
<1>2. CASE ~(pc > Len(program))
  <2>1. at.jt \in Nat /\ at.jf \in Nat
    <3>1. pc \in 1 .. Len(program)
      BY <1>2 DEF WellFormed
    <3> QED
      BY <3>1 DEF WellFormed
  <2>2. h[pc + 1] = g[pc + 1]
    OBVIOUS
  <2>3. next \in Nat \ {0} /\ next > pc
    <3> HIDE DEF at
    <3> QED
      BY <2>1
  <2>4. h[next] = g[next]
    BY <2>3
  <2> QED
    BY <1>2, <2>2, <2>4, Zenon DEF Body
<1> QED
  BY <1>1, <1>2

LEMMA RunExists ==
    ASSUME NEW program, NEW packet, WellFormed(program, packet)
    PROVE  \E g : g = [pc \in Nat \ {0} |->
                          [a \in Nat |-> Body(program, packet, g, pc, a)]]
<1> DEFINE L == Len(program)
           At(g, pc) == [a \in Nat |-> Body(program, packet, g, pc, a)]
           From(g, m) == \A pc \in Nat \ {0} : pc > L - m => g[pc] = At(g, pc)
           T == {m \in 0 .. L : \E g : From(g, m)}
<1>1. L \in Nat
  BY DEF WellFormed
<1>2. ASSUME NEW g, NEW h, NEW pc \in Nat \ {0},
             \A q \in Nat \ {0} : q > pc => h[q] = g[q]
      PROVE  At(h, pc) = At(g, pc)
  <2>1. \A a \in Nat :
            Body(program, packet, h, pc, a) = Body(program, packet, g, pc, a)
    BY <1>2, BodyLooksAhead
  <2> QED
    BY <2>1
<1>3. 0 \in T
  <2> DEFINE g == [pc \in Nat \ {0} |-> [a \in Nat |-> FALSE]]
  <2>1. ASSUME NEW pc \in Nat \ {0}, pc > L - 0
        PROVE  g[pc] = At(g, pc)
    <3>1. pc > Len(program)
      BY <1>1, <2>1
    <3>2. \A a \in Nat : Body(program, packet, g, pc, a) = FALSE
      BY <3>1 DEF Body
    <3> QED
      BY <3>2
  <2>2. From(g, 0)
    BY <2>1
  <2> HIDE DEF g, From
  <2>3. \E f : From(f, 0)
    BY <2>2
  <2> QED
    BY <1>1, <2>3
<1>4. \A m \in 0 .. L - 1 : m \in T => m + 1 \in T
  <2> SUFFICES ASSUME NEW m \in 0 .. L - 1, m \in T
               PROVE  m + 1 \in T
    OBVIOUS
  <2>1. PICK g : From(g, m)
    OBVIOUS
  <2> HIDE DEF L
  <2> DEFINE h == [pc \in Nat \ {0} |->
                      IF pc = L - m THEN At(g, pc) ELSE g[pc]]
  <2>2. \A pc \in Nat \ {0} : pc > L - m => h[pc] = g[pc]
    BY <1>1
  <2>3. ASSUME NEW pc \in Nat \ {0}, pc > L - (m + 1)
        PROVE  h[pc] = At(h, pc)
    <3>1. At(h, pc) = At(g, pc)
      <4>1. \A q \in Nat \ {0} : q > pc => q > L - m
        BY <1>1, <2>3
      <4>2. \A q \in Nat \ {0} : q > pc => h[q] = g[q]
        BY <2>2, <4>1
      <4> HIDE DEF At, h
      <4> QED
        BY <1>2, <4>2
    <3>2. CASE pc = L - m
      BY <3>1, <3>2
    <3>3. CASE pc # L - m
      <4>1. pc > L - m
        BY <1>1, <2>3, <3>3
      <4>2. h[pc] = g[pc] /\ g[pc] = At(g, pc)
        BY <2>1, <2>2, <4>1
      <4> QED
        BY <3>1, <4>2
    <3> QED
      BY <3>2, <3>3
  <2>4. From(h, m + 1)
    BY <2>3
  <2> HIDE DEF h, From
  <2>5. \E f : From(f, m + 1)
    BY <2>4
  <2>6. m + 1 \in 0 .. L
    BY <1>1
  <2> QED
    BY <2>5, <2>6
<1> HIDE DEF T
<1>5. \A m \in 0 .. L : m \in T
  BY <1>1, <1>3, <1>4, CountUp
<1>6. PICK g : From(g, L)
  <2>1. L \in T
    BY <1>1, <1>5
  <2> QED
    BY <2>1 DEF T
<1> HIDE DEF L
<1> DEFINE f == [pc \in Nat \ {0} |-> g[pc]]
<1>7. \A pc \in Nat \ {0} : f[pc] = At(f, pc)
  <2> SUFFICES ASSUME NEW pc \in Nat \ {0}
               PROVE  f[pc] = At(f, pc)
    OBVIOUS
  <2>1. g[pc] = At(g, pc)
    BY <1>1, <1>6
  <2>2. At(f, pc) = At(g, pc)
    <3>1. \A q \in Nat \ {0} : q > pc => f[q] = g[q]
      OBVIOUS
    <3> HIDE DEF At, f
    <3> QED
      BY <1>2, <3>1
  <2> QED
    BY <2>1, <2>2
<1>8. f = [pc \in Nat \ {0} |-> At(f, pc)]
  <2>1. f = [pc \in Nat \ {0} |-> f[pc]]
    OBVIOUS
  <2> HIDE DEF f, At
  <2>2. [pc \in Nat \ {0} |-> f[pc]] = [pc \in Nat \ {0} |-> At(f, pc)]
    BY <1>7
  <2> QED
    BY <2>1, <2>2
<1> HIDE DEF f
<1> QED
  BY <1>8, Zenon

LEMMA RunUnfolds ==
    ASSUME NEW program, NEW packet, WellFormed(program, packet)
    PROVE  \A pc \in Nat \ {0}, a \in Nat :
               Run(program, packet)[pc][a] =
                   Body(program, packet, Run(program, packet), pc, a)
<1> DEFINE R == Run(program, packet)
<1>1. \E g : g = [pc \in Nat \ {0} |->
                     [a \in Nat |-> Body(program, packet, g, pc, a)]]
  BY RunExists
<1>2. R = [pc \in Nat \ {0} |-> [a \in Nat |-> Body(program, packet, R, pc, a)]]
  BY <1>1, Zenon DEF Run, Body
<1> HIDE DEF R
<1>3. \A pc \in Nat \ {0} :
          R[pc] = [a \in Nat |-> Body(program, packet, R, pc, a)]
  BY <1>2
<1>4. \A pc \in Nat \ {0}, a \in Nat :
          R[pc][a] = Body(program, packet, R, pc, a)
  BY <1>3
<1> QED
  BY <1>4 DEF R
-----------------------------------------------------------------------------
(* The patched program, statement by statement.                            *)

\* The bits and bytes that a packet may have: its sizes and types are numbers,
\* the reserved bit of the IPv4 header is not set, and no options lie between
\* the IPv4 header and the port.
Regular(packet) ==
    /\ packet.len \in Nat
    /\ packet.type \in Nat
    /\ packet.proto \in Nat
    /\ packet.frag \in 0 .. 2 * FragmentBits + 1
    /\ packet.port \in Nat
    /\ packet.fixed = packet.port

\* Where a jump at n goes in a program of the length end.
Target(end, n, jump) ==
    CASE jump = Ignore -> end - 1
      [] jump = Accept -> end
      [] OTHER -> n + 1 + jump

\* A program that ends with the two returns, and that 8 bits suffice for.
Complete(P) ==
    /\ P \in Seq(Stmts)
    /\ Len(P) \in 2 .. 256
    /\ P[Len(P) - 1] = Stmt("ret", 0)[1]
    /\ P[Len(P)] = Stmt("ret", WholePacket)[1]

\* R tells what P does with the packet from each statement on.
Executes(R, P, packet) ==
    /\ \A a \in Nat : R[Len(P) - 1][a] = FALSE /\ R[Len(P)][a] = TRUE
    /\ \A n \in 1 .. Len(P) - 2, a \in Nat :
           /\ P[n].code = "ret" => R[n][a] = (P[n].k > 0)
           /\ P[n].code = "ld" => R[n][a] = R[n + 1][Loaded(packet, P[n].k)]
           /\ P[n].code \notin {"ret", "ld"} =>
                  R[n][a] = R[Target(Len(P), n, IF Taken(P[n], a)
                                                THEN P[n].jt ELSE P[n].jf)][a]

LEMMA LoadedTyped ==
    ASSUME NEW packet, Regular(packet), NEW field \in Fields
    PROVE  Loaded(packet, field) \in Nat
<1>1. packet.frag \in Nat /\ packet.fixed \in Nat
  <2>1. packet.fixed = packet.port /\ packet.port \in Nat
    BY DEF Regular
  <2>2. packet.frag \in 0 .. 2 * FragmentBits + 1
    BY DEF Regular
  <2> QED
    BY <2>1, <2>2
<1>2. packet.len \in Nat /\ packet.type \in Nat /\ packet.proto \in Nat
  BY DEF Regular
<1>3. field \in {"len", "ether_type", "ip6_nxt", "protocol", "frag_off",
                 "ipv4_port", "ipv6_port"}
  BY DEF Fields
<1> QED
  BY <1>1, <1>2, <1>3 DEF Loaded

LEMMA StmtTyped ==
    ASSUME NEW P, P \in Seq(Stmts), NEW n \in 1 .. Len(P)
    PROVE  /\ P[n].code \in Codes
           /\ P[n].code = "ld" => P[n].k \in Fields
           /\ P[n].jt \in Jumps
           /\ P[n].jf \in Jumps
           /\ P[n] = [code |-> P[n].code, k |-> P[n].k, jt |-> P[n].jt,
                      jf |-> P[n].jf]
<1>1. P[n] \in Stmts
  OBVIOUS
<1>2. \A s \in Stmts : /\ s.code \in Codes
                       /\ s.code = "ld" => s.k \in Fields
                       /\ s.jt \in Jumps
                       /\ s.jf \in Jumps
                       /\ s = [code |-> s.code, k |-> s.k, jt |-> s.jt,
                               jf |-> s.jf]
  BY DEF Stmts
<1> QED
  BY <1>1, <1>2, Zenon

\* A jump that was patched goes where it should, if 8 bits suffice.
LEMMA PatchedStmt ==
    ASSUME NEW P, P \in Seq(Stmts), Len(P) \in 2 .. 256, NEW n \in 1 .. Len(P)
    PROVE  /\ Patched(P)[n].code = P[n].code
           /\ Patched(P)[n].k = P[n].k
           /\ Patched(P)[n].jt \in Nat
           /\ Patched(P)[n].jf \in Nat
           /\ n <= Len(P) - 2 =>
                  /\ n + 1 + Patched(P)[n].jt = Target(Len(P), n, P[n].jt)
                  /\ n + 1 + Patched(P)[n].jf = Target(Len(P), n, P[n].jf)
<1> DEFINE end == Len(P)
           Offset(jump) == CASE jump = Ignore -> (end - 1 - n - 1) % 256
                             [] jump = Accept -> (end - n - 1) % 256
                             [] OTHER -> jump
<1>1. P[n].jt \in Jumps /\ P[n].jf \in Jumps
      /\ P[n] = [code |-> P[n].code, k |-> P[n].k, jt |-> P[n].jt,
                 jf |-> P[n].jf]
  BY StmtTyped, Zenon
<1>2. Patched(P)[n] = [P[n] EXCEPT !.jt = Offset(@), !.jf = Offset(@)]
  BY DEF Patched
<1> HIDE DEF Offset
<1>3. /\ Patched(P)[n].code = P[n].code
      /\ Patched(P)[n].k = P[n].k
      /\ Patched(P)[n].jt = Offset(P[n].jt)
      /\ Patched(P)[n].jf = Offset(P[n].jf)
  BY <1>1, <1>2
<1>4. ASSUME NEW jump \in Jumps
      PROVE  /\ Offset(jump) \in Nat
             /\ n <= end - 2 => n + 1 + Offset(jump) = Target(end, n, jump)
  <2> HIDE DEF end
  <2>1. end \in 2 .. 256 /\ n \in 1 .. end
    BY DEF end
  <2>2. /\ (end - 1 - n - 1) % 256 \in Nat
        /\ (end - n - 1) % 256 \in Nat
        /\ n <= end - 2 => /\ (end - 1 - n - 1) % 256 = end - 1 - n - 1
                           /\ (end - n - 1) % 256 = end - n - 1
    BY <2>1, SMT
  <2>3. CASE jump = Ignore
    <3>1. jump # Accept
      BY <2>3 DEF Ignore, Accept
    <3>2. /\ Offset(jump) = (end - 1 - n - 1) % 256
          /\ Target(end, n, jump) = end - 1
      BY <2>3, <3>1, Zenon DEF Offset, Target
    <3> QED
      BY <2>1, <2>2, <3>2
  <2>4. CASE jump = Accept
    <3>1. jump # Ignore
      BY <2>4 DEF Ignore, Accept
    <3>2. /\ Offset(jump) = (end - n - 1) % 256
          /\ Target(end, n, jump) = end
      BY <2>4, <3>1, Zenon DEF Offset, Target
    <3> QED
      BY <2>1, <2>2, <3>2
  <2>5. CASE jump \in Nat
    <3>1. jump # Ignore /\ jump # Accept
      BY <2>5 DEF Ignore, Accept
    <3> QED
      BY <2>1, <2>5, <3>1 DEF Offset, Target
  <2> QED
    BY <2>3, <2>4, <2>5 DEF Jumps
<1> HIDE DEF end
<1>5. /\ Offset(P[n].jt) \in Nat
      /\ Offset(P[n].jf) \in Nat
      /\ n <= end - 2 =>
             /\ n + 1 + Offset(P[n].jt) = Target(end, n, P[n].jt)
             /\ n + 1 + Offset(P[n].jf) = Target(end, n, P[n].jf)
  BY <1>1, <1>4
<1> QED
  BY <1>3, <1>5 DEF end

LEMMA PatchedLength ==
    ASSUME NEW P, P \in Seq(Stmts)
    PROVE  Len(Patched(P)) = Len(P)
<1>1. Patched(P) = [n \in 1 .. Len(P) |-> Patched(P)[n]]
  BY DEF Patched
<1>2. Len(P) \in Nat
  OBVIOUS
<1> HIDE DEF Patched
<1> QED
  BY <1>1, <1>2

LEMMA ProgramExecutes ==
    ASSUME NEW P, Complete(P), NEW packet, Regular(packet)
    PROVE  Executes(Run(Patched(P), packet), P, packet)
<1> DEFINE F == Patched(P)
           R == Run(F, packet)
           E == Len(P)
<1>1. P \in Seq(Stmts) /\ E \in 2 .. 256 /\ E \in Nat /\ Len(F) = E
  BY PatchedLength DEF Complete
<1>2. \A n \in 1 .. E :
           /\ F[n].code = P[n].code
           /\ F[n].k = P[n].k
           /\ F[n].jt \in Nat
           /\ F[n].jf \in Nat
           /\ n <= E - 2 =>
                  /\ n + 1 + F[n].jt = Target(E, n, P[n].jt)
                  /\ n + 1 + F[n].jf = Target(E, n, P[n].jf)
  BY <1>1, PatchedStmt
<1>3. \A n \in 1 .. E : P[n].code \in Codes
                        /\ (P[n].code = "ld" => P[n].k \in Fields)
  BY <1>1, StmtTyped
<1> HIDE DEF F, E
<1>4. WellFormed(F, packet)
  BY <1>1, <1>2, <1>3, LoadedTyped DEF WellFormed
<1>5. \A pc \in Nat \ {0}, a \in Nat : R[pc][a] = Body(F, packet, R, pc, a)
  BY <1>4, RunUnfolds
<1> HIDE DEF R
<1>6. \A n \in 1 .. E, a \in Nat :
          R[n][a] = CASE P[n].code = "ret" -> P[n].k > 0
                      [] P[n].code = "ld" -> R[n + 1][Loaded(packet, P[n].k)]
                      [] OTHER -> R[n + 1 + IF Taken(P[n], a) THEN F[n].jt
                                                              ELSE F[n].jf][a]
  <2> SUFFICES ASSUME NEW n \in 1 .. E, NEW a \in Nat
               PROVE  R[n][a] =
                          CASE P[n].code = "ret" -> P[n].k > 0
                            [] P[n].code = "ld" ->
                                   R[n + 1][Loaded(packet, P[n].k)]
                            [] OTHER ->
                                   R[n + 1 + IF Taken(P[n], a) THEN F[n].jt
                                                               ELSE F[n].jf][a]
    OBVIOUS
  <2>1. n \in Nat \ {0} /\ ~(n > Len(F))
    BY <1>1
  <2>2. Taken(F[n], a) <=> Taken(P[n], a)
    BY <1>2 DEF Taken
  <2>3. R[n][a] = Body(F, packet, R, n, a)
    BY <1>5, <2>1
  <2>4. F[n].code = P[n].code /\ F[n].k = P[n].k
    BY <1>2
  <2> QED
    BY <2>1, <2>2, <2>3, <2>4, Zenon DEF Body
<1>7. ASSUME NEW a \in Nat
      PROVE  R[E - 1][a] = FALSE /\ R[E][a] = TRUE
  <2>1. E - 1 \in 1 .. E /\ E \in 1 .. E
    BY <1>1
  <2>2. /\ P[E - 1].code = "ret" /\ P[E - 1].k = 0
        /\ P[E].code = "ret" /\ P[E].k = WholePacket
    BY DEF Complete, Stmt, E
  <2>3. R[E - 1][a] = (P[E - 1].k > 0) /\ R[E][a] = (P[E].k > 0)
    BY <1>6, <2>1, <2>2
  <2>4. (0 > 0) = FALSE /\ (WholePacket > 0) = TRUE
    BY SMT DEF WholePacket
  <2> QED
    BY <2>2, <2>3, <2>4, Zenon
<1>8. ASSUME NEW n \in 1 .. E - 2, NEW a \in Nat
      PROVE  /\ P[n].code = "ret" => R[n][a] = (P[n].k > 0)
             /\ P[n].code = "ld" => R[n][a] = R[n + 1][Loaded(packet, P[n].k)]
             /\ P[n].code \notin {"ret", "ld"} =>
                    R[n][a] = R[Target(E, n, IF Taken(P[n], a)
                                             THEN P[n].jt ELSE P[n].jf)][a]
  <2>1. n \in 1 .. E /\ n <= E - 2
    BY <1>1
  <2>2. R[n][a] = CASE P[n].code = "ret" -> P[n].k > 0
                    [] P[n].code = "ld" -> R[n + 1][Loaded(packet, P[n].k)]
                    [] OTHER -> R[n + 1 + IF Taken(P[n], a) THEN F[n].jt
                                                            ELSE F[n].jf][a]
    BY <1>6, <2>1, Zenon
  <2>3. /\ n + 1 + F[n].jt = Target(E, n, P[n].jt)
        /\ n + 1 + F[n].jf = Target(E, n, P[n].jf)
    BY <1>2, <2>1
  <2>4. P[n].code \notin {"ret", "ld"} =>
            R[n][a] = R[Target(E, n, IF Taken(P[n], a)
                                     THEN P[n].jt ELSE P[n].jf)][a]
    BY <2>2, <2>3, Zenon
  <2> QED
    BY <2>2, <2>4
<1> QED
  BY <1>7, <1>8 DEF Executes, E, F, R
-----------------------------------------------------------------------------
(* What the parts of the program do, wherever they are in it.              *)

\* The piece s of the program begins after the statement off, and ends before
\* the returns.
At(P, off, s) ==
    /\ off + Len(s) <= Len(P) - 2
    /\ \A i \in 1 .. Len(s) : P[off + i] = s[i]

\* A piece of two parts: where they are.
Splits(P, off, s, t) ==
    At(P, off, s \o t) => /\ At(P, off, s)
                          /\ At(P, off + Len(s), t)
                          /\ off + Len(s) \in Nat
                          /\ off + Len(s) + Len(t) = off + Len(s \o t)

LEMMA AtSplit ==
    ASSUME NEW P, Complete(P)
    PROVE  \A off \in Nat, s, t \in Seq(Stmts) : Splits(P, off, s, t)
<1> SUFFICES ASSUME NEW off \in Nat, NEW s \in Seq(Stmts),
                    NEW t \in Seq(Stmts), At(P, off, s \o t)
             PROVE  /\ At(P, off, s)
                    /\ At(P, off + Len(s), t)
                    /\ off + Len(s) \in Nat
                    /\ off + Len(s) + Len(t) = off + Len(s \o t)
  BY Zenon DEF Splits
<1>1. Len(s) \in Nat /\ Len(t) \in Nat /\ Len(P) \in Nat
  BY DEF Complete
<1>2. /\ Len(s \o t) = Len(s) + Len(t)
      /\ \A i \in 1 .. Len(s) + Len(t) :
             (s \o t)[i] = IF i <= Len(s) THEN s[i] ELSE t[i - Len(s)]
  BY ConcatProperties
<1>3. At(P, off, s)
  <2>1. \A i \in 1 .. Len(s) : i \in 1 .. Len(s) + Len(t)
    BY <1>1
  <2>2. \A i \in 1 .. Len(s) : P[off + i] = s[i]
    BY <1>2, <2>1 DEF At
  <2>3. off + Len(s) <= Len(P) - 2
    BY <1>1, <1>2 DEF At
  <2> QED
    BY <2>2, <2>3 DEF At
<1>4. At(P, off + Len(s), t)
  <2>1. ASSUME NEW i \in 1 .. Len(t)
        PROVE  P[off + Len(s) + i] = t[i]
    <3>1. /\ Len(s) + i \in 1 .. Len(s) + Len(t)
          /\ ~(Len(s) + i <= Len(s))
          /\ Len(s) + i - Len(s) = i
          /\ off + (Len(s) + i) = off + Len(s) + i
      BY <1>1
    <3>2. (s \o t)[Len(s) + i] = t[i]
      BY <1>2, <3>1
    <3>3. P[off + (Len(s) + i)] = (s \o t)[Len(s) + i]
      BY <1>2, <3>1 DEF At
    <3> QED
      BY <3>1, <3>2, <3>3
  <2>2. off + Len(s) + Len(t) <= Len(P) - 2
    BY <1>1, <1>2 DEF At
  <2> QED
    BY <2>1, <2>2 DEF At
<1> QED
  BY <1>1, <1>2, <1>3, <1>4

\* A single statement.
LEMMA AtOne ==
    ASSUME NEW P, P \in Seq(Stmts), NEW off \in Nat, NEW x, At(P, off, <<x>>)
    PROVE  off + 1 \in 1 .. Len(P) - 2 /\ P[off + 1] = x
<1>1. Len(<<x>>) = 1 /\ <<x>>[1] = x /\ Len(P) \in Nat
  OBVIOUS
<1>2. off + 1 <= Len(P) - 2
  BY <1>1 DEF At
<1>3. P[off + 1] = <<x>>[1]
  BY <1>1 DEF At
<1> QED
  BY <1>1, <1>2, <1>3

\* What a load does.
Loads(R, P, packet, off, field, a) ==
    At(P, off, Load(field)) => R[off + 1][a] = R[off + 2][Loaded(packet, field)]

LEMMA LoadRuns ==
    ASSUME NEW R, NEW P, Complete(P), NEW packet, Executes(R, P, packet)
    PROVE  \A off \in Nat, field \in Fields, a \in Nat :
               Loads(R, P, packet, off, field, a)
<1> SUFFICES ASSUME NEW off \in Nat, NEW field \in Fields, NEW a \in Nat,
                    At(P, off, Load(field))
             PROVE  R[off + 1][a] = R[off + 2][Loaded(packet, field)]
  BY Zenon DEF Loads
<1>1. /\ off + 1 \in 1 .. Len(P) - 2
      /\ P[off + 1] = [code |-> "ld", k |-> field, jt |-> 0, jf |-> 0]
  BY AtOne DEF Load, Complete
<1>2. P[off + 1].code = "ld" /\ P[off + 1].k = field
  BY <1>1
<1>3. R[off + 1][a] = R[off + 1 + 1][Loaded(packet, field)]
  BY <1>1, <1>2 DEF Executes
<1>4. off + 1 + 1 = off + 2
  OBVIOUS
<1> QED
  BY <1>3, <1>4

LEMMA RetRuns ==
    ASSUME NEW R, NEW P, Complete(P), NEW packet, Executes(R, P, packet)
    PROVE  \A off \in Nat, k \in Int, a \in Nat :
               At(P, off, Stmt("ret", k)) => R[off + 1][a] = (k > 0)
<1> SUFFICES ASSUME NEW off \in Nat, NEW k \in Int, NEW a \in Nat,
                    At(P, off, Stmt("ret", k))
             PROVE  R[off + 1][a] = (k > 0)
  OBVIOUS
<1>1. /\ off + 1 \in 1 .. Len(P) - 2
      /\ P[off + 1] = [code |-> "ret", k |-> k, jt |-> 0, jf |-> 0]
  BY AtOne DEF Stmt, Complete
<1>2. P[off + 1].code = "ret" /\ P[off + 1].k = k
  BY <1>1
<1> QED
  BY <1>1, <1>2 DEF Executes

\* Whether a jump with this code and operand takes its true branch.
Takes(code, k, a) == Taken([code |-> code, k |-> k], a)

LEMMA JumpRuns ==
    ASSUME NEW R, NEW P, Complete(P), NEW packet, Executes(R, P, packet),
           NEW off \in Nat, NEW code \in Codes \ {"ld", "ret"}, NEW k \in Int,
           NEW jt \in Jumps, NEW jf \in Jumps,
           At(P, off, Jump(code, k, jt, jf)), NEW a \in Nat
    PROVE  R[off + 1][a] = R[Target(Len(P), off + 1, IF Takes(code, k, a)
                                                     THEN jt ELSE jf)][a]
<1>1. /\ off + 1 \in 1 .. Len(P) - 2
      /\ P[off + 1] = [code |-> code, k |-> k, jt |-> jt, jf |-> jf]
  BY AtOne DEF Jump, Complete
<1>2. /\ P[off + 1].code = code /\ P[off + 1].k = k
      /\ P[off + 1].jt = jt /\ P[off + 1].jf = jf
  BY <1>1
<1>3. P[off + 1].code \notin {"ret", "ld"}
  BY <1>2
<1>4. R[off + 1][a] = R[Target(Len(P), off + 1, IF Taken(P[off + 1], a)
                                                THEN P[off + 1].jt
                                                ELSE P[off + 1].jf)][a]
  BY <1>1, <1>3 DEF Executes
<1>5. Taken(P[off + 1], a) <=> Takes(code, k, a)
  BY <1>2, Zenon DEF Taken, Takes
<1> QED
  BY <1>2, <1>4, <1>5, Zenon

LEMMA Targets ==
    ASSUME NEW end \in Nat, NEW n \in Nat
    PROVE  /\ Target(end, n, Ignore) = end - 1
           /\ Target(end, n, Accept) = end
           /\ \A jump \in Nat : Target(end, n, jump) = n + 1 + jump
<1>1. Ignore # Accept /\ \A jump \in Nat : jump # Ignore /\ jump # Accept
  BY DEF Ignore, Accept
<1> QED
  BY <1>1, Zenon DEF Target

\* The jumps that compile() uses: on a packet that fails a test, to the end, or
\* on one that passes it, to the next statement; and the tests of a port.
Tested(R, P, off, k, a) ==
    /\ At(P, off, Jump("jge", k, 0, Ignore)) =>
           R[off + 1][a] = IF a >= k THEN R[off + 2][a] ELSE FALSE
    /\ At(P, off, Jump("jeq", k, 0, Ignore)) =>
           R[off + 1][a] = IF a = k THEN R[off + 2][a] ELSE FALSE
    /\ At(P, off, Jump("jset", k, Ignore, 0)) =>
           R[off + 1][a] = IF a % (k + 1) # 0 THEN FALSE ELSE R[off + 2][a]
    /\ At(P, off, Jump("jeq", k, Accept, 0)) =>
           R[off + 1][a] = IF a = k THEN TRUE ELSE R[off + 2][a]
    /\ At(P, off, Jump("jge", k, 0, 1)) =>
           R[off + 1][a] = IF a >= k THEN R[off + 2][a] ELSE R[off + 3][a]
    /\ At(P, off, Jump("jgt", k, 0, Accept)) =>
           R[off + 1][a] = IF a > k THEN R[off + 2][a] ELSE TRUE
    /\ \A jf \in Nat : At(P, off, Jump("jeq", k, 0, jf)) =>
           R[off + 1][a] = IF a = k THEN R[off + 2][a] ELSE R[off + 2 + jf][a]

LEMMA TestRuns ==
    ASSUME NEW R, NEW P, Complete(P), NEW packet, Executes(R, P, packet)
    PROVE  \A off \in Nat, k \in Int, a \in Nat : Tested(R, P, off, k, a)
<1> SUFFICES ASSUME NEW off \in Nat, NEW k \in Int, NEW a \in Nat
             PROVE  Tested(R, P, off, k, a)
  OBVIOUS
<1> DEFINE E == Len(P)
           Goes(jump) == R[Target(E, off + 1, jump)][a]
<1>1. E \in Nat
  BY DEF Complete
<1>2. R[E - 1][a] = FALSE /\ R[E][a] = TRUE
  BY DEF Executes
<1>3. /\ off + 1 \in Nat /\ 0 \in Nat /\ 1 \in Nat
      /\ off + 1 + 1 + 0 = off + 2
      /\ off + 1 + 1 + 1 = off + 3
      /\ \A jf \in Nat : off + 1 + 1 + jf = off + 2 + jf
  OBVIOUS
<1>4. /\ Goes(Ignore) = FALSE
      /\ Goes(Accept) = TRUE
      /\ \A jump \in Nat : Goes(jump) = R[off + 1 + 1 + jump][a]
  <2> HIDE DEF E
  <2>1. /\ Target(E, off + 1, Ignore) = E - 1
        /\ Target(E, off + 1, Accept) = E
        /\ \A jump \in Nat : Target(E, off + 1, jump) = off + 1 + 1 + jump
    BY <1>1, <1>3, Targets
  <2> QED
    BY <1>2, <2>1
<1>5. /\ Goes(0) = R[off + 2][a]
      /\ Goes(1) = R[off + 3][a]
      /\ \A jf \in Nat : Goes(jf) = R[off + 2 + jf][a]
  <2> HIDE DEF Goes
  <2> QED
    BY <1>3, <1>4
<1>6. /\ Takes("jge", k, a) <=> a >= k
      /\ Takes("jeq", k, a) <=> a = k
      /\ Takes("jgt", k, a) <=> a > k
      /\ Takes("jset", k, a) <=> a % (k + 1) # 0
  BY DEF Takes, Taken
<1>7. /\ Ignore \in Jumps /\ Accept \in Jumps /\ 0 \in Jumps /\ 1 \in Jumps
      /\ \A jf \in Nat : jf \in Jumps
  BY DEF Jumps
<1>8. /\ "jge" \in Codes \ {"ld", "ret"} /\ "jeq" \in Codes \ {"ld", "ret"}
      /\ "jgt" \in Codes \ {"ld", "ret"} /\ "jset" \in Codes \ {"ld", "ret"}
  BY DEF Codes
<1> DEFINE Jumps2(code, jt, jf) ==
               At(P, off, Jump(code, k, jt, jf)) =>
                   R[off + 1][a] = IF Takes(code, k, a) THEN Goes(jt)
                                                        ELSE Goes(jf)
<1>9. ASSUME NEW code \in Codes \ {"ld", "ret"}, NEW jt \in Jumps,
             NEW jf \in Jumps, At(P, off, Jump(code, k, jt, jf))
      PROVE  R[off + 1][a] = IF Takes(code, k, a) THEN Goes(jt) ELSE Goes(jf)
  <2>1. R[off + 1][a] = R[Target(Len(P), off + 1, IF Takes(code, k, a)
                                                  THEN jt ELSE jf)][a]
    BY <1>9, JumpRuns
  <2> QED
    BY <2>1, Zenon
<1>10. \A code \in Codes \ {"ld", "ret"}, jt, jf \in Jumps :
           Jumps2(code, jt, jf)
  BY <1>9, Zenon
<1> HIDE DEF Goes, Jumps2
<1>11. /\ Jumps2("jge", 0, Ignore)
       /\ Jumps2("jeq", 0, Ignore)
       /\ Jumps2("jset", Ignore, 0)
       /\ Jumps2("jeq", Accept, 0)
       /\ Jumps2("jge", 0, 1)
       /\ Jumps2("jgt", 0, Accept)
       /\ \A jf \in Nat : Jumps2("jeq", 0, jf)
  BY <1>7, <1>8, <1>10
<1> QED
  BY <1>4, <1>5, <1>6, <1>11, Zenon DEF Tested, Jumps2

\* Pieces of one statement.
LEMMA Singles ==
    /\ \A k : Len(Stmt("ret", k)) = 1
    /\ \A field : Len(Load(field)) = 1
    /\ \A code, k, jt, jf : Len(Jump(code, k, jt, jf)) = 1
  BY DEF Stmt, Load, Jump

Inside(range, a) == range.from <= a /\ a <= range.to

\* The test of a port accepts what is inside, and lets the others go on.
Admits(R, P, off, range, a) ==
    At(P, off, PortTest(range)) =>
        R[off + 1][a] = IF Inside(range, a) THEN TRUE
                        ELSE R[off + Len(PortTest(range)) + 1][a]

LEMMA PortTestRuns ==
    ASSUME NEW R, NEW P, Complete(P), NEW packet, Executes(R, P, packet)
    PROVE  \A off \in Nat, range \in Ranges, a \in Nat :
               Admits(R, P, off, range, a)
<1> SUFFICES ASSUME NEW off \in Nat, NEW range \in Ranges, NEW a \in Nat,
                    At(P, off, PortTest(range))
             PROVE  R[off + 1][a] = IF Inside(range, a) THEN TRUE
                                    ELSE R[off + Len(PortTest(range)) + 1][a]
  BY Zenon DEF Admits
<1>1. range.from \in Nat /\ range.to \in Nat /\ range.from \in Int
      /\ range.to \in Int
  BY DEF Ranges, Ports
<1>2. CASE range.from = range.to
  <2>1. PortTest(range) = Jump("jeq", range.from, Accept, 0)
    BY <1>2 DEF PortTest
  <2>2. R[off + 1][a] = IF a = range.from THEN TRUE ELSE R[off + 2][a]
    <3>1. At(P, off, Jump("jeq", range.from, Accept, 0))
      BY <2>1
    <3>2. Tested(R, P, off, range.from, a)
      BY <1>1, TestRuns
    <3> QED
      BY <3>1, <3>2, Zenon DEF Tested
  <2>3. off + Len(PortTest(range)) + 1 = off + 2
    <3>1. Len(PortTest(range)) = 1
      BY <2>1, Singles, Zenon
    <3> QED
      BY <3>1
  <2>4. Inside(range, a) <=> a = range.from
    BY <1>1, <1>2 DEF Inside
  <2> QED
    BY <2>2, <2>3, <2>4, Zenon
<1>3. CASE range.from # range.to
  <2> DEFINE first == Jump("jge", range.from, 0, 1)
             second == Jump("jgt", range.to, 0, Accept)
  <2>1. PortTest(range) = first \o second
    BY <1>3 DEF PortTest
  <2>2. first \in Seq(Stmts) /\ second \in Seq(Stmts)
    <3>1. /\ "jge" \in Codes \ {"ld"} /\ "jgt" \in Codes \ {"ld"}
          /\ 0 \in Jumps /\ 1 \in Jumps /\ Accept \in Jumps
      BY DEF Codes, Jumps
    <3> QED
      BY <1>1, <3>1, StmtPieces DEF Piece
  <2>3. Len(first) = 1 /\ Len(second) = 1
    BY Singles
  <2>4. /\ At(P, off, first)
        /\ At(P, off + Len(first), second)
        /\ off + Len(first) + Len(second) = off + Len(PortTest(range))
    <3> HIDE DEF first, second
    <3>1. Splits(P, off, first, second)
      BY <2>2, AtSplit
    <3>2. At(P, off, first \o second)
      BY <2>1
    <3> QED
      BY <2>1, <3>1, <3>2, Zenon DEF Splits
  <2>5. R[off + 1][a] = IF a >= range.from THEN R[off + 2][a]
                        ELSE R[off + 3][a]
    <3>1. Tested(R, P, off, range.from, a)
      BY <1>1, TestRuns
    <3> QED
      BY <2>4, <3>1, Zenon DEF Tested
  <2>6. R[off + 2][a] = IF a > range.to THEN R[off + 3][a] ELSE TRUE
    <3>1. At(P, off + 1, Jump("jgt", range.to, 0, Accept))
      BY <2>3, <2>4, Zenon
    <3>2. off + 1 \in Nat
      OBVIOUS
    <3>3. R[off + 1 + 1][a] = IF a > range.to THEN R[off + 1 + 2][a] ELSE TRUE
      <4>1. Tested(R, P, off + 1, range.to, a)
        BY <1>1, <3>2, TestRuns
      <4> QED
        BY <3>1, <4>1, Zenon DEF Tested
    <3>4. off + 1 + 1 = off + 2 /\ off + 1 + 2 = off + 3
      OBVIOUS
    <3> QED
      BY <3>3, <3>4
  <2>7. off + Len(PortTest(range)) + 1 = off + 3
    <3> HIDE DEF first, second
    <3>1. off + 1 + 1 = off + Len(PortTest(range))
      BY <2>3, <2>4
    <3>2. off + 1 + 1 + 1 = off + 3
      OBVIOUS
    <3> QED
      BY <3>1, <3>2
  <2>8. /\ Inside(range, a) <=> a >= range.from /\ ~(a > range.to)
    BY <1>1 DEF Inside
  <2> QED
    BY <2>5, <2>6, <2>7, <2>8, Zenon
<1> QED
  BY <1>2, <1>3

\* All of them: those of the first j ranges, for j from 0 on.
LEMMA PortTestsRun ==
    ASSUME Inv, NEW R, NEW P, Complete(P), NEW packet, Executes(R, P, packet),
           NEW off \in Nat, At(P, off, PortTests[Len(ranges)]), NEW a \in Nat
    PROVE  R[off + 1][a] =
               IF \E n \in 1 .. Len(ranges) : Inside(ranges[n], a) THEN TRUE
               ELSE R[off + Len(PortTests[Len(ranges)]) + 1][a]
<1> DEFINE N == Len(ranges)
           g == PortTests
           Before(j) == \E n \in 1 .. j : Inside(ranges[n], a)
           T == {j \in 0 .. N : R[off + 1][a] = IF Before(j) THEN TRUE
                                                ELSE R[off + Len(g[j]) + 1][a]}
<1>1. N \in Nat /\ \A n \in 1 .. N : ranges[n] \in Ranges
  BY PortsAreNats DEF Inv, Types
<1>2. /\ IsConcat(g, Tests, N)
      /\ \A n \in 1 .. N : Tests[n] = PortTest(ranges[n])
      /\ \A n \in 0 .. N : g[n] \in Seq(Stmts) /\ Len(g[n]) \in Nat
  BY PortTestsPiece DEF Piece
<1>3. \A n \in 1 .. N : PortTest(ranges[n]) \in Seq(Stmts)
  BY <1>1, PortTestPiece DEF Piece
<1>4. \A j \in 0 .. N : At(P, off, g[j])
  <2>1. \A n \in 1 .. N : Tests[n] \in Seq(Stmts)
    BY <1>2, <1>3
  <2> HIDE DEF N, g
  <2>2. \A j \in 0 .. N : /\ Len(g[j]) <= Len(g[N])
                          /\ \A i \in 1 .. Len(g[j]) : g[N][i] = g[j][i]
    BY <1>1, <1>2, <2>1, ConcatPrefix
  <2> TAKE j \in 0 .. N
  <2>3. At(P, off, g[N])
    BY DEF g, N
  <2>4. Len(g[j]) \in Nat /\ Len(g[N]) \in Nat /\ Len(P) \in Nat
        /\ Len(g[j]) <= Len(g[N])
    <3>1. N \in 0 .. N
      BY <1>1
    <3>2. Len(g[j]) \in Nat /\ Len(g[N]) \in Nat
      BY <1>2, <3>1
    <3>3. Len(P) \in Nat
      BY DEF Complete
    <3> QED
      BY <2>2, <3>2, <3>3
  <2>5. off + Len(g[j]) <= Len(P) - 2
    BY <2>3, <2>4 DEF At
  <2>6. \A i \in 1 .. Len(g[j]) : i \in 1 .. Len(g[N])
    BY <2>4
  <2>7. \A i \in 1 .. Len(g[j]) : P[off + i] = g[j][i]
    BY <2>2, <2>3, <2>6 DEF At
  <2> QED
    BY <2>5, <2>7 DEF At
<1>5. 0 \in T
  <2>1. off + Len(g[0]) + 1 = off + 1
    <3>1. Len(g[0]) = 0
      BY <1>2 DEF IsConcat
    <3> QED
      BY <3>1
  <2>2. ~Before(0)
    OBVIOUS
  <2>3. 0 \in 0 .. N
    BY <1>1
  <2> HIDE DEF Before
  <2> QED
    BY <2>1, <2>2, <2>3
<1>6. \A j \in 0 .. N - 1 : j \in T => j + 1 \in T
  <2> SUFFICES ASSUME NEW j \in 0 .. N - 1, j \in T
               PROVE  j + 1 \in T
    OBVIOUS
  <2> DEFINE test == PortTest(ranges[j + 1])
  <2>1. j \in 0 .. N /\ j + 1 \in 1 .. N /\ j + 1 \in 0 .. N /\ (j + 1) - 1 = j
    BY <1>1
  <2>2. g[j + 1] = g[j] \o test
    BY <1>2, <2>1 DEF IsConcat
  <2>3. g[j] \in Seq(Stmts) /\ test \in Seq(Stmts) /\ At(P, off, g[j] \o test)
    BY <1>2, <1>3, <1>4, <2>1, <2>2
  <2> DEFINE here == off + Len(g[j])
  <2>4. /\ At(P, here, test)
        /\ here \in Nat
        /\ here + Len(test) = off + Len(g[j + 1])
    <3> HIDE DEF test, g
    <3>1. P \in Seq(Stmts)
      BY DEF Complete
    <3>2. /\ At(P, off + Len(g[j]), test)
          /\ off + Len(g[j]) \in Nat
          /\ off + Len(g[j]) + Len(test) = off + Len(g[j] \o test)
      <4>1. Splits(P, off, g[j], test)
        BY <2>3, AtSplit
      <4> QED
        BY <2>3, <4>1, Zenon DEF Splits
    <3> QED
      BY <2>2, <3>2, Zenon
  <2>5. R[here + 1][a] = IF Inside(ranges[j + 1], a) THEN TRUE
                         ELSE R[here + Len(test) + 1][a]
    <3> HIDE DEF here
    <3>1. ranges[j + 1] \in Ranges /\ At(P, here, PortTest(ranges[j + 1]))
      BY <1>1, <2>1, <2>4
    <3>2. Admits(R, P, here, ranges[j + 1], a)
      BY <2>4, <3>1, PortTestRuns
    <3> QED
      BY <3>1, <3>2, Zenon DEF Admits
  <2>6. R[off + 1][a] = IF Before(j) THEN TRUE ELSE R[here + 1][a]
    OBVIOUS
  <2>7. Before(j + 1) <=> Before(j) \/ Inside(ranges[j + 1], a)
    <3>1. \A n : n \in 1 .. j + 1 <=> n \in 1 .. j \/ n = j + 1
      BY <2>1
    <3> QED
      BY <3>1, Zenon
  <2> HIDE DEF test, here, Before
  <2>8. R[off + 1][a] = IF Before(j + 1) THEN TRUE
                        ELSE R[off + Len(g[j + 1]) + 1][a]
    BY <2>4, <2>5, <2>6, <2>7, Zenon
  <2> QED
    BY <2>1, <2>8
<1> HIDE DEF T
<1>7. \A j \in 0 .. N : j \in T
  BY <1>1, <1>5, <1>6, CountUp
<1>8. N \in T
  BY <1>1, <1>7
<1> QED
  BY <1>8 DEF T

\* The ports are all right if there are no ranges, or one of them holds the
\* packet's.
PortWanted(packet) ==
    \/ ranges = <<>>
    \/ \E n \in 1 .. Len(ranges) : Inside(ranges[n], packet.port)

\* The ports are tested, and packets to other ports are ignored: at the end of
\* the part for IPv6 by a statement of its own, and of that for IPv4 by the
\* first of the returns.
LEMMA PortPartRuns ==
    ASSUME Inv, NEW R, NEW P, Complete(P), NEW packet, Executes(R, P, packet),
           Regular(packet), NEW off \in Nat,
           NEW field \in {"ipv4_port", "ipv6_port"},
           NEW otherwise, At(P, off, PortPart(field, otherwise)),
           \/ otherwise = Stmt("ret", 0)
           \/ /\ otherwise = <<>>
              /\ off + Len(PortPart(field, otherwise)) = Len(P) - 2,
           NEW a \in Nat
    PROVE  R[off + 1][a] = PortWanted(packet)
<1> DEFINE load == Load(field)
           tests == PortTests[Len(ranges)]
           port == packet.port
<1>1. port \in Nat /\ Loaded(packet, field) = port /\ field \in Fields
  BY DEF Regular, Loaded, Fields
<1>2. CASE ranges = <<>>
  <2>1. At(P, off, Stmt("ret", WholePacket))
    BY <1>2 DEF PortPart
  <2>2. WholePacket \in Int /\ (WholePacket > 0) = TRUE
    BY SMT DEF WholePacket
  <2>3. R[off + 1][a] = TRUE
    <3>1. R[off + 1][a] = (WholePacket > 0)
      BY <2>1, <2>2, RetRuns, Zenon
    <3> QED
      BY <2>2, <3>1, Zenon
  <2>4. PortWanted(packet) = TRUE
    BY <1>2 DEF PortWanted
  <2> QED
    BY <2>3, <2>4
<1>3. CASE ranges # <<>>
  <2>1. PortPart(field, otherwise) = load \o tests \o otherwise
    BY <1>3 DEF PortPart
  <2>2. /\ load \in Seq(Stmts) /\ Len(load) = 1
        /\ tests \in Seq(Stmts) /\ Len(tests) \in Nat
    <3>1. Len(ranges) \in 0 .. Len(ranges)
      BY PortsAreNats DEF Inv, Types
    <3>2. Piece(load, 1) /\ \E n : Piece(tests, n)
      BY <1>1, <3>1, FixedPieces, PortTestsPiece
    <3> QED
      BY <3>2, Singles DEF Piece
  <2>3. otherwise \in Seq(Stmts)
    BY StmtPieces, FixedPieces DEF Piece
  <2> HIDE DEF load, tests
  <2>4. load \o tests \in Seq(Stmts) /\ P \in Seq(Stmts)
        /\ Len(load \o tests) = 1 + Len(tests)
    <3>1. P \in Seq(Stmts)
      BY DEF Complete
    <3>2. load \o tests \in Seq(Stmts)
          /\ Len(load \o tests) = Len(load) + Len(tests)
      BY <2>2, ConcatProperties
    <3> QED
      BY <2>2, <3>1, <3>2
  <2>5. /\ At(P, off, load \o tests)
        /\ At(P, off + Len(load \o tests), otherwise)
        /\ off + Len(load \o tests) + Len(otherwise) =
               off + Len(PortPart(field, otherwise))
    <3>1. At(P, off, (load \o tests) \o otherwise)
      BY <2>1
    <3> QED
      <4>1. Splits(P, off, load \o tests, otherwise)
        BY <2>3, <2>4, AtSplit
      <4> QED
        BY <2>1, <3>1, <4>1, Zenon DEF Splits
  <2>6. At(P, off, load) /\ At(P, off + Len(load), tests)
    <3>1. Splits(P, off, load, tests)
      BY <2>2, AtSplit
    <3> QED
      BY <2>5, <3>1, Zenon DEF Splits
  <2>7. R[off + 1][a] = R[off + 2][port]
    <3>1. At(P, off, Load(field))
      BY <2>6 DEF load
    <3>2. R[off + 1][a] = R[off + 2][Loaded(packet, field)]
      <4>1. Loads(R, P, packet, off, field, a)
        BY <1>1, LoadRuns
      <4> QED
        BY <3>1, <4>1, Zenon DEF Loads
    <3> QED
      BY <1>1, <3>2
  <2> DEFINE end == off + 1 + Len(tests)
  <2>8. R[off + 2][port] =
            IF \E n \in 1 .. Len(ranges) : Inside(ranges[n], port) THEN TRUE
            ELSE R[end + 1][port]
    <3>1. At(P, off + 1, PortTests[Len(ranges)]) /\ off + 1 \in Nat
      BY <2>2, <2>6 DEF tests
    <3>2. R[off + 1 + 1][port] =
              IF \E n \in 1 .. Len(ranges) : Inside(ranges[n], port) THEN TRUE
              ELSE R[off + 1 + Len(PortTests[Len(ranges)]) + 1][port]
      BY <1>1, <3>1, PortTestsRun
    <3>3. off + 1 + 1 = off + 2
      OBVIOUS
    <3> QED
      BY <3>2, <3>3 DEF tests
  <2>9. end = off + Len(load \o tests) /\ end \in Nat
    BY <2>2, <2>4
  <2>10. R[end + 1][port] = FALSE
    <3>1. CASE otherwise = Stmt("ret", 0)
      <4>1. At(P, end, Stmt("ret", 0))
        BY <2>5, <2>9, <3>1
      <4>2. (0 > 0) = FALSE /\ 0 \in Int
        OBVIOUS
      <4> HIDE DEF end
      <4>3. R[end + 1][port] = (0 > 0)
        BY <1>1, <2>9, <4>1, <4>2, RetRuns
      <4> QED
        BY <4>2, <4>3
    <3>2. CASE /\ otherwise = <<>>
               /\ off + Len(PortPart(field, otherwise)) = Len(P) - 2
      <4>1. Len(otherwise) = 0 /\ Len(P) \in Nat
        BY <2>4, <3>2
      <4>2. end + 1 = Len(P) - 1
        <5> HIDE DEF end
        <5>1. end + 0 = Len(P) - 2
          BY <2>5, <2>9, <3>2, <4>1
        <5> QED
          BY <2>9, <4>1, <5>1
      <4>3. R[Len(P) - 1][port] = FALSE
        BY <1>1 DEF Executes
      <4> QED
        BY <4>2, <4>3
    <3> QED
      BY <3>1, <3>2
  <2> HIDE DEF end
  <2>11. PortWanted(packet) <=>
             \E n \in 1 .. Len(ranges) : Inside(ranges[n], port)
    BY <1>3 DEF PortWanted
  <2>12. PortWanted(packet) \in BOOLEAN
    BY DEF PortWanted
  <2> QED
    BY <2>7, <2>8, <2>10, <2>11, <2>12, Zenon
<1> QED
  BY <1>2, <1>3
LEMMA StmtsJoin ==
    \A s, t \in Seq(Stmts) : s \o t \in Seq(Stmts) /\ Len(s \o t) = Len(s) + Len(t)
  BY ConcatProperties

\* Where the parts of a piece of four or five are; all but the last of them may
\* be of one statement.
LEMMA FivePieces ==
    ASSUME NEW P, Complete(P), NEW off \in Nat,
           NEW p \in Seq(Stmts), NEW q \in Seq(Stmts), NEW r \in Seq(Stmts),
           NEW s \in Seq(Stmts), NEW t \in Seq(Stmts),
           Len(p) = 1, Len(q) = 1, Len(r) = 1,
           At(P, off, p \o q \o r \o s \o t)
    PROVE  /\ At(P, off, p)
           /\ At(P, off + 1, q)
           /\ At(P, off + 2, r)
           /\ At(P, off + 3, s)
           /\ At(P, off + 3 + Len(s), t)
           /\ off + 3 + Len(s) \in Nat
           /\ off + 3 + Len(s) + Len(t) = off + Len(p \o q \o r \o s \o t)
<1> DEFINE two == p \o q
           three == two \o r
           four == three \o s
<1>1. two \in Seq(Stmts) /\ Len(two) = 2
  <2>1. two \in Seq(Stmts) /\ Len(two) = Len(p) + Len(q)
    BY StmtsJoin, Zenon
  <2> QED
    BY <2>1
<1> HIDE DEF two
<1>2. three \in Seq(Stmts) /\ Len(three) = 3
  <2>1. three \in Seq(Stmts) /\ Len(three) = Len(two) + Len(r)
    BY <1>1, StmtsJoin, Zenon
  <2> QED
    BY <1>1, <2>1
<1> HIDE DEF three
<1>3. four \in Seq(Stmts) /\ Len(four) = 3 + Len(s)
  <2>1. four \in Seq(Stmts) /\ Len(four) = Len(three) + Len(s)
    BY <1>2, StmtsJoin, Zenon
  <2> QED
    BY <1>2, <2>1
<1> HIDE DEF four
<1>4. /\ Splits(P, off, four, t) /\ Splits(P, off, three, s)
      /\ Splits(P, off, two, r) /\ Splits(P, off, p, q)
  <2>1. \A s_, t_ \in Seq(Stmts) : Splits(P, off, s_, t_)
    BY AtSplit
  <2> QED
    BY <1>1, <1>2, <1>3, <2>1, Zenon
<1>5. At(P, off, four \o t)
  BY DEF four, three, two
<1>6. /\ At(P, off, four)
      /\ At(P, off + Len(four), t)
      /\ off + Len(four) \in Nat
      /\ off + Len(four) + Len(t) = off + Len(four \o t)
  BY <1>4, <1>5, Zenon DEF Splits
<1>7. At(P, off, three) /\ At(P, off + Len(three), s)
  BY <1>4, <1>6, Zenon DEF Splits, four
<1>8. At(P, off, two) /\ At(P, off + Len(two), r)
  BY <1>4, <1>7, Zenon DEF Splits, three
<1>9. At(P, off, p) /\ At(P, off + Len(p), q)
  BY <1>4, <1>8, Zenon DEF Splits, two
<1>10. Len(s) \in Nat /\ off + Len(four) = off + 3 + Len(s)
  BY <1>3
<1>11. four \o t = p \o q \o r \o s \o t
  BY DEF four, three, two
<1> QED
  BY <1>1, <1>2, <1>6, <1>7, <1>8, <1>9, <1>10, <1>11, Zenon

\* The numbers that the program tests.
LEMMA TestedNumbers ==
    /\ MinLenIPv4 \in Int /\ MinLenIPv6 \in Int /\ ProtoUDP \in Int
    /\ EtherTypeIPv4 \in Int /\ EtherTypeIPv6 \in Int /\ FragmentBits \in Int
  BY SMT DEF MinLenIPv4, MinLenIPv6, ProtoUDP, EtherTypeIPv4, EtherTypeIPv6,
         FragmentBits

\* A load and a jump, each alone.
LEMMA OneEach ==
    /\ \A field \in Fields : Load(field) \in Seq(Stmts) /\ Len(Load(field)) = 1
    /\ \A code \in Codes \ {"ld"}, k \in Int, jt, jf \in Jumps :
           /\ Jump(code, k, jt, jf) \in Seq(Stmts)
           /\ Len(Jump(code, k, jt, jf)) = 1
  BY StmtPieces, Singles DEF Piece

\* The part for IPv4, last before the returns, for the type a.
LEMMA IPv4PartRuns ==
    ASSUME Inv, NEW R, NEW P, Complete(P), NEW packet, Executes(R, P, packet),
           Regular(packet), NEW off \in Nat, At(P, off, PartIPv4),
           off + Len(PartIPv4) = Len(P) - 2, NEW a \in Nat
    PROVE  R[off + 1][a] = /\ a = EtherTypeIPv4
                           /\ packet.proto = ProtoUDP
                           /\ packet.frag % (FragmentBits + 1) = 0
                           /\ PortWanted(packet)
<1> DEFINE type == Jump("jeq", EtherTypeIPv4, 0, Ignore)
           load == Load("protocol")
           proto == Jump("jeq", ProtoUDP, 0, Ignore)
           frag == Load("frag_off")
           whole == Jump("jset", FragmentBits, Ignore, 0)
           rest == PortPart("ipv4_port", <<>>)
<1>1. /\ "protocol" \in Fields /\ "frag_off" \in Fields /\ "ipv4_port" \in Fields
      /\ "jeq" \in Codes \ {"ld"} /\ "jset" \in Codes \ {"ld"}
      /\ 0 \in Jumps /\ Ignore \in Jumps
  BY DEF Fields, Codes, Jumps
<1>2. /\ type \in Seq(Stmts) /\ Len(type) = 1
      /\ load \in Seq(Stmts) /\ Len(load) = 1
      /\ proto \in Seq(Stmts) /\ Len(proto) = 1
      /\ frag \in Seq(Stmts) /\ Len(frag) = 1
      /\ whole \in Seq(Stmts) /\ Len(whole) = 1
  BY <1>1, OneEach, TestedNumbers
<1>3. rest \in Seq(Stmts)
  <2>1. Piece(<<>>, 1)
    BY StmtPieces, LongerPiece
  <2> QED
    BY <1>1, <2>1, PortPartPiece DEF Piece
<1>4. PartIPv4 = type \o load \o proto \o frag \o whole \o rest
  BY DEF PartIPv4
<1> DEFINE five == type \o load \o proto \o frag \o whole
<1> HIDE DEF type, load, proto, frag, whole, rest
<1>5. five \in Seq(Stmts) /\ Len(five) = 5
  <2>1. type \o load \in Seq(Stmts) /\ Len(type \o load) = 2
    BY <1>2, ConcatProperties
  <2>2. type \o load \o proto \in Seq(Stmts) /\ Len(type \o load \o proto) = 3
    BY <1>2, <2>1, ConcatProperties
  <2>3. /\ type \o load \o proto \o frag \in Seq(Stmts)
        /\ Len(type \o load \o proto \o frag) = 4
    BY <1>2, <2>2, ConcatProperties
  <2> QED
    BY <1>2, <2>3, ConcatProperties
<1>6. /\ At(P, off, five) /\ At(P, off + Len(five), rest)
      /\ off + Len(five) \in Nat
      /\ off + Len(five) + Len(rest) = off + Len(PartIPv4)
  <2>1. Splits(P, off, five, rest)
    BY <1>3, <1>5, AtSplit
  <2>2. At(P, off, five \o rest)
    BY <1>4
  <2> HIDE DEF five
  <2>3. PartIPv4 = five \o rest
    BY <1>4 DEF five
  <2> QED
    BY <2>1, <2>2, <2>3, Zenon DEF Splits
<1>7. /\ At(P, off, type) /\ At(P, off + 1, load) /\ At(P, off + 2, proto)
      /\ At(P, off + 3, frag) /\ At(P, off + 3 + Len(frag), whole)
  <2>1. At(P, off, type \o load \o proto \o frag \o whole)
    BY <1>6
  <2> HIDE DEF five
  <2> QED
    BY <1>2, <2>1, FivePieces
<1> HIDE DEF five
<1>8. /\ At(P, off + 4, whole) /\ At(P, off + 5, rest)
      /\ off + 5 + Len(rest) = Len(P) - 2
  <2>1. off + 3 + Len(frag) = off + 4 /\ off + Len(five) = off + 5
    BY <1>2, <1>5
  <2> QED
    BY <1>6, <1>7, <2>1, Zenon
<1>9. /\ packet.proto \in Nat /\ packet.frag \in Nat
      /\ Loaded(packet, "protocol") = packet.proto
      /\ Loaded(packet, "frag_off") = packet.frag
  <2>1. /\ packet.proto \in Nat
        /\ packet.frag \in 0 .. 2 * FragmentBits + 1
    BY DEF Regular
  <2>2. packet.frag \in Nat
    BY <2>1
  <2>3. /\ Loaded(packet, "protocol") = packet.proto
        /\ Loaded(packet, "frag_off") = packet.frag
    BY DEF Loaded
  <2> QED
    BY <2>1, <2>2, <2>3
<1>10. /\ off + 1 \in Nat /\ off + 2 \in Nat /\ off + 3 \in Nat
       /\ off + 4 \in Nat /\ off + 5 \in Nat
       /\ off + 1 + 1 = off + 2 /\ off + 1 + 2 = off + 3
       /\ off + 2 + 1 = off + 3 /\ off + 2 + 2 = off + 4
       /\ off + 3 + 1 = off + 4 /\ off + 3 + 2 = off + 5
       /\ off + 4 + 1 = off + 5 /\ off + 4 + 2 = off + 6
       /\ off + 5 + 1 = off + 6
  OBVIOUS
<1>11. R[off + 1][a] = IF a = EtherTypeIPv4 THEN R[off + 2][a] ELSE FALSE
  <2>1. Tested(R, P, off, EtherTypeIPv4, a)
    BY TestRuns, TestedNumbers
  <2> QED
    BY <1>7, <2>1, Zenon DEF Tested, type
<1>12. R[off + 2][a] = R[off + 3][packet.proto]
  <2>1. Loads(R, P, packet, off + 1, "protocol", a)
    BY <1>1, <1>10, LoadRuns
  <2>2. R[off + 1 + 1][a] = R[off + 1 + 2][Loaded(packet, "protocol")]
    BY <1>7, <2>1, Zenon DEF load, Loads
  <2> QED
    BY <1>9, <1>10, <2>2, Zenon
<1>13. R[off + 3][packet.proto] = IF packet.proto = ProtoUDP
                                  THEN R[off + 4][packet.proto] ELSE FALSE
  <2>1. Tested(R, P, off + 2, ProtoUDP, packet.proto)
    BY <1>9, <1>10, TestRuns, TestedNumbers
  <2>2. R[off + 2 + 1][packet.proto] = IF packet.proto = ProtoUDP
                                       THEN R[off + 2 + 2][packet.proto]
                                       ELSE FALSE
    BY <1>7, <2>1, Zenon DEF Tested, proto
  <2> QED
    BY <1>10, <2>2, Zenon
<1>14. R[off + 4][packet.proto] = R[off + 5][packet.frag]
  <2>1. Loads(R, P, packet, off + 3, "frag_off", packet.proto)
    BY <1>1, <1>9, <1>10, LoadRuns
  <2>2. R[off + 3 + 1][packet.proto] = R[off + 3 + 2][Loaded(packet, "frag_off")]
    BY <1>7, <2>1, Zenon DEF frag, Loads
  <2> QED
    BY <1>9, <1>10, <2>2, Zenon
<1>15. R[off + 5][packet.frag] =
           IF packet.frag % (FragmentBits + 1) # 0 THEN FALSE
           ELSE R[off + 6][packet.frag]
  <2>1. Tested(R, P, off + 4, FragmentBits, packet.frag)
    BY <1>9, <1>10, TestRuns, TestedNumbers
  <2>2. R[off + 4 + 1][packet.frag] =
            IF packet.frag % (FragmentBits + 1) # 0 THEN FALSE
            ELSE R[off + 4 + 2][packet.frag]
    BY <1>8, <2>1, Zenon DEF Tested, whole
  <2> QED
    BY <1>10, <2>2, Zenon
<1>16. R[off + 6][packet.frag] = PortWanted(packet)
  <2>1. "ipv4_port" \in {"ipv4_port", "ipv6_port"}
    OBVIOUS
  <2>2. R[off + 5 + 1][packet.frag] = PortWanted(packet)
    <3>1. /\ At(P, off + 5, PortPart("ipv4_port", <<>>))
          /\ off + 5 + Len(PortPart("ipv4_port", <<>>)) = Len(P) - 2
      BY <1>8 DEF rest
    <3>2. packet.frag \in Nat /\ off + 5 \in Nat
      BY <1>9, <1>10
    <3> QED
      BY <2>1, <3>1, <3>2, PortPartRuns
  <2> QED
    BY <1>10, <2>2, Zenon
<1>17. PortWanted(packet) \in BOOLEAN
  BY DEF PortWanted
<1> QED
  BY <1>11, <1>12, <1>13, <1>14, <1>15, <1>16, <1>17, Zenon
\* The part for IPv6, if there is one for IPv4 too: the shortest packets passed
\* the test of the length for IPv4, so it is tested again.
LEMMA IPv6PartRuns ==
    ASSUME Inv, NEW R, NEW P, Complete(P), NEW packet, Executes(R, P, packet),
           Regular(packet), NEW off \in Nat, At(P, off, PartIPv6(TRUE)),
           NEW a \in Nat
    PROVE  R[off + 1][a] = /\ packet.len >= MinLenIPv6
                           /\ packet.proto = ProtoUDP
                           /\ PortWanted(packet)
<1> DEFINE length == Load("len")
           enough == Jump("jge", MinLenIPv6, 0, Ignore)
           load == Load("ip6_nxt")
           proto == Jump("jeq", ProtoUDP, 0, Ignore)
           rest == PortPart("ipv6_port", Stmt("ret", 0))
<1>1. /\ "len" \in Fields /\ "ip6_nxt" \in Fields /\ "ipv6_port" \in Fields
      /\ "jeq" \in Codes \ {"ld"} /\ "jge" \in Codes \ {"ld"}
      /\ 0 \in Jumps /\ Ignore \in Jumps
  BY DEF Fields, Codes, Jumps
<1>2. /\ length \in Seq(Stmts) /\ Len(length) = 1
      /\ enough \in Seq(Stmts) /\ Len(enough) = 1
      /\ load \in Seq(Stmts) /\ Len(load) = 1
      /\ proto \in Seq(Stmts) /\ Len(proto) = 1
  BY <1>1, OneEach, TestedNumbers
<1>3. rest \in Seq(Stmts)
  BY <1>1, FixedPieces, PortPartPiece DEF Piece
<1>4. PartIPv6(TRUE) = length \o enough \o load \o proto \o rest
  BY DEF PartIPv6
<1> HIDE DEF length, enough, load, proto, rest
<1>5. /\ At(P, off, length) /\ At(P, off + 1, enough) /\ At(P, off + 2, load)
      /\ At(P, off + 3, proto) /\ At(P, off + 3 + Len(proto), rest)
  <2>1. At(P, off, length \o enough \o load \o proto \o rest)
    BY <1>4
  <2> QED
    BY <1>2, <1>3, <2>1, FivePieces
<1>6. At(P, off + 4, rest)
  <2>1. off + 3 + Len(proto) = off + 4
    BY <1>2
  <2> QED
    BY <1>5, <2>1, Zenon
<1>7. packet.len \in Nat /\ packet.proto \in Nat
  BY DEF Regular
<1>8. /\ Loaded(packet, "len") = packet.len
      /\ Loaded(packet, "ip6_nxt") = packet.proto
  BY DEF Loaded
<1>9. /\ off + 1 \in Nat /\ off + 2 \in Nat /\ off + 3 \in Nat /\ off + 4 \in Nat
      /\ off + 1 + 1 = off + 2 /\ off + 1 + 2 = off + 3
      /\ off + 2 + 1 = off + 3 /\ off + 2 + 2 = off + 4
      /\ off + 3 + 1 = off + 4 /\ off + 3 + 2 = off + 5
      /\ off + 4 + 1 = off + 5
  OBVIOUS
<1>10. /\ Loads(R, P, packet, off, "len", a)
       /\ Loads(R, P, packet, off + 2, "ip6_nxt", packet.len)
  BY <1>1, <1>7, <1>9, LoadRuns
<1>11. R[off + 1][a] = R[off + 2][packet.len]
  <2>1. At(P, off, Load("len"))
    BY <1>5 DEF length
  <2>2. R[off + 1][a] = R[off + 2][Loaded(packet, "len")]
    BY <1>10, <2>1, Zenon DEF Loads
  <2> QED
    BY <1>8, <2>2, Zenon
<1>12. R[off + 2][packet.len] = IF packet.len >= MinLenIPv6
                                THEN R[off + 3][packet.len] ELSE FALSE
  <2>1. Tested(R, P, off + 1, MinLenIPv6, packet.len)
    BY <1>7, <1>9, TestRuns, TestedNumbers
  <2>2. R[off + 1 + 1][packet.len] = IF packet.len >= MinLenIPv6
                                     THEN R[off + 1 + 2][packet.len] ELSE FALSE
    BY <1>5, <2>1, Zenon DEF Tested, enough
  <2> QED
    BY <1>9, <2>2, Zenon
<1>13. R[off + 3][packet.len] = R[off + 4][packet.proto]
  <2>1. R[off + 2 + 1][packet.len] = R[off + 2 + 2][Loaded(packet, "ip6_nxt")]
    BY <1>5, <1>10, Zenon DEF load, Loads
  <2> QED
    BY <1>8, <1>9, <2>1, Zenon
<1>14. R[off + 4][packet.proto] = IF packet.proto = ProtoUDP
                                  THEN R[off + 5][packet.proto] ELSE FALSE
  <2>1. Tested(R, P, off + 3, ProtoUDP, packet.proto)
    BY <1>7, <1>9, TestRuns, TestedNumbers
  <2>2. R[off + 3 + 1][packet.proto] = IF packet.proto = ProtoUDP
                                       THEN R[off + 3 + 2][packet.proto]
                                       ELSE FALSE
    BY <1>5, <2>1, Zenon DEF Tested, proto
  <2> QED
    BY <1>9, <2>2, Zenon
<1>15. R[off + 5][packet.proto] = PortWanted(packet)
  <2>1. "ipv6_port" \in {"ipv4_port", "ipv6_port"}
    OBVIOUS
  <2>2. R[off + 4 + 1][packet.proto] = PortWanted(packet)
    BY <1>6, <1>7, <1>9, <2>1, PortPartRuns DEF rest
  <2> QED
    BY <1>9, <2>2, Zenon
<1>16. PortWanted(packet) \in BOOLEAN
  BY DEF PortWanted
<1> QED
  BY <1>11, <1>12, <1>13, <1>14, <1>15, <1>16, Zenon

\* What the whole program accepts, if it has a part for IPv4.
Right(packet, with6) ==
    \/ /\ packet.type = EtherTypeIPv4
       /\ packet.len >= MinLenIPv4
       /\ packet.proto = ProtoUDP
       /\ packet.frag % (FragmentBits + 1) = 0
       /\ PortWanted(packet)
    \/ /\ with6
       /\ packet.type = EtherTypeIPv6
       /\ packet.len >= MinLenIPv6
       /\ packet.proto = ProtoUDP
       /\ PortWanted(packet)

LEMMA StmtsLen == \A s \in Seq(Stmts) : Len(s) \in Nat
  OBVIOUS

\* The body of a program, and the two returns at its end.
IsBody(P, body, x, y) == P = body \o <<x>> \o <<y>>

LEMMA TwoReturns ==
    ASSUME NEW body \in Seq(Stmts), NEW x \in Stmts, NEW y \in Stmts, NEW P,
           IsBody(P, body, x, y)
    PROVE  /\ P \in Seq(Stmts)
           /\ Len(P) = Len(body) + 2
           /\ P[Len(body) + 1] = x
           /\ P[Len(body) + 2] = y
           /\ \A i \in 1 .. Len(body) : P[i] = body[i]
<1> DEFINE s == <<x>>
           t == <<y>>
           first == body \o s
<1>1. /\ s \in Seq(Stmts) /\ Len(s) = 1 /\ s[1] = x
      /\ t \in Seq(Stmts) /\ Len(t) = 1 /\ t[1] = y
      /\ Len(body) \in Nat
  OBVIOUS
<1>2. P = first \o t
  BY DEF IsBody
<1> HIDE DEF s, t
<1>3. /\ first \in Seq(Stmts)
      /\ Len(first) = Len(body) + Len(s)
      /\ \A i \in 1 .. Len(body) + Len(s) :
             first[i] = IF i <= Len(body) THEN body[i] ELSE s[i - Len(body)]
  BY <1>1, ConcatProperties
<1> HIDE DEF first
<1>4. /\ P \in Seq(Stmts)
      /\ Len(P) = Len(first) + Len(t)
      /\ \A i \in 1 .. Len(first) + Len(t) :
             P[i] = IF i <= Len(first) THEN first[i] ELSE t[i - Len(first)]
  <2>1. \A u, v \in Seq(Stmts) :
            /\ u \o v \in Seq(Stmts)
            /\ Len(u \o v) = Len(u) + Len(v)
            /\ \A i \in 1 .. Len(u) + Len(v) :
                   (u \o v)[i] = IF i <= Len(u) THEN u[i] ELSE v[i - Len(u)]
    BY ConcatProperties
  <2> QED
    BY <1>1, <1>2, <1>3, <2>1, Zenon
<1>5. PICK n \in Nat : n = Len(body)
  BY <1>1
<1>6. Len(first) = n + 1 /\ Len(P) = n + 2
  BY <1>1, <1>3, <1>4, <1>5
<1>7. /\ \A i \in 1 .. n + 1 : first[i] = IF i <= n THEN body[i] ELSE s[i - n]
      /\ \A i \in 1 .. n + 2 : P[i] = IF i <= n + 1 THEN first[i]
                                      ELSE t[i - (n + 1)]
  <2>1. Len(body) + Len(s) = n + 1 /\ Len(first) + Len(t) = n + 2
    BY <1>1, <1>5, <1>6
  <2> QED
    BY <1>3, <1>4, <1>5, <1>6, <2>1
<1>8. P[n + 1] = x
  <2>1. P[n + 1] = first[n + 1]
    BY <1>7
  <2>2. first[n + 1] = s[(n + 1) - n]
    BY <1>7
  <2>3. (n + 1) - n = 1
    OBVIOUS
  <2> QED
    BY <1>1, <2>1, <2>2, <2>3
<1>9. P[n + 2] = y
  <2>1. P[n + 2] = t[(n + 2) - (n + 1)]
    BY <1>7
  <2>2. (n + 2) - (n + 1) = 1
    OBVIOUS
  <2> QED
    BY <1>1, <2>1, <2>2
<1>10. \A i \in 1 .. n : P[i] = body[i]
  BY <1>7
<1> QED
  BY <1>4, <1>5, <1>6, <1>8, <1>9, <1>10

\* The program with its returns: its parts are where they should be.
Written(P, with6) == P = Program(TRUE, with6)

LEMMA ProgramParts ==
    ASSUME Inv, NEW with6 \in BOOLEAN, NEW P, Written(P, with6),
           Len(P) <= 256
    PROVE  LET part6 == IF with6 THEN TypeTest(TRUE) \o PartIPv6(TRUE) ELSE <<>>
           IN  /\ Complete(P)
               /\ At(P, 0, Load("len"))
               /\ At(P, 1, Jump("jge", MinLenIPv4, 0, Ignore))
               /\ At(P, 2, Load("ether_type"))
               /\ At(P, 3, part6)
               /\ At(P, 3 + Len(part6), PartIPv4)
               /\ 3 + Len(part6) \in Nat
               /\ 3 + Len(part6) + Len(PartIPv4) = Len(P) - 2
<1> DEFINE part6 == IF with6 THEN TypeTest(TRUE) \o PartIPv6(TRUE) ELSE <<>>
           length == Load("len")
           enough == Jump("jge", MinLenIPv4, 0, Ignore)
           type == Load("ether_type")
           body == length \o enough \o type \o part6 \o PartIPv4
           no == Stmt("ret", 0)
           yes == Stmt("ret", WholePacket)
<1>1. /\ "len" \in Fields /\ "ether_type" \in Fields
      /\ "jge" \in Codes \ {"ld"} /\ "jeq" \in Codes \ {"ld"}
      /\ 0 \in Jumps /\ Ignore \in Jumps
  BY DEF Fields, Codes, Jumps
<1>2. /\ length \in Seq(Stmts) /\ Len(length) = 1
      /\ enough \in Seq(Stmts) /\ Len(enough) = 1
      /\ type \in Seq(Stmts) /\ Len(type) = 1
  BY <1>1, OneEach, TestedNumbers
<1>3. PartIPv4 \in Seq(Stmts) /\ PartIPv6(TRUE) \in Seq(Stmts)
  BY IPv4Piece, IPv6Piece DEF Piece
<1>4. part6 \in Seq(Stmts)
  <2>1. CASE with6
    <3>1. Len(PartIPv6(TRUE)) \in Jumps
      <4>1. Len(PartIPv6(TRUE)) \in Nat
        BY <1>3, StmtsLen, Zenon
      <4> QED
        BY <4>1 DEF Jumps
    <3>2. TypeTest(TRUE) \in Seq(Stmts)
      BY <1>1, <3>1, OneEach, TestedNumbers DEF TypeTest
    <3> QED
      BY <1>3, <2>1, <3>2, StmtsJoin
  <2>2. CASE ~with6
    BY <2>2
  <2> QED
    BY <2>1, <2>2
<1>5. no[1] \in Stmts /\ no = <<no[1]>> /\ yes[1] \in Stmts /\ yes = <<yes[1]>>
  <2>1. no \in Seq(Stmts) /\ yes \in Seq(Stmts)
    BY FixedPieces DEF Piece
  <2>2. Len(no) = 1 /\ Len(yes) = 1
    BY Singles
  <2>3. no = <<no[1]>> /\ yes = <<yes[1]>>
    BY DEF Stmt
  <2>4. \A s \in Seq(Stmts) : Len(s) = 1 => s[1] \in Stmts
    OBVIOUS
  <2> HIDE DEF no, yes
  <2> QED
    BY <2>1, <2>2, <2>3, <2>4, Zenon
<1>6. P = body \o no \o yes
  BY DEF Written, Program
<1> HIDE DEF part6, length, enough, type, no, yes
<1>7. body \in Seq(Stmts)
  <2>1. length \o enough \in Seq(Stmts)
    BY <1>2, StmtsJoin
  <2>2. length \o enough \o type \in Seq(Stmts)
    BY <1>2, <2>1, StmtsJoin
  <2>3. length \o enough \o type \o part6 \in Seq(Stmts)
    BY <1>4, <2>2, StmtsJoin
  <2> QED
    BY <1>3, <2>3, StmtsJoin
<1> HIDE DEF body
<1>8. /\ P \in Seq(Stmts) /\ Len(body) \in Nat /\ Len(P) = Len(body) + 2
      /\ P[Len(body) + 1] = no[1] /\ P[Len(body) + 2] = yes[1]
      /\ \A i \in 1 .. Len(body) : P[i] = body[i]
  <2>1. IsBody(P, body, no[1], yes[1])
    BY <1>5, <1>6, Zenon DEF IsBody
  <2>2. Len(body) \in Nat
    BY <1>7, StmtsLen, Zenon
  <2> QED
    BY <1>5, <1>7, <2>1, <2>2, TwoReturns
<1>9. Complete(P)
  <2>1. PICK n \in Nat : n = Len(body)
    BY <1>8
  <2>2. Len(P) = n + 2
    BY <1>8, <2>1
  <2>3. Len(P) \in 2 .. 256 /\ Len(P) - 1 = n + 1
    BY <2>2
  <2>4. P[n + 1] = no[1] /\ P[n + 2] = yes[1]
    BY <1>8, <2>1, Zenon
  <2> QED
    BY <1>8, <2>2, <2>3, <2>4, Zenon DEF Complete, no, yes
<1>10. At(P, 0, body) /\ 0 + Len(body) = Len(P) - 2
  <2>1. PICK n \in Nat : n = Len(body)
    BY <1>8
  <2>2. Len(P) = n + 2
    BY <1>8, <2>1
  <2>3. 0 + n = Len(P) - 2 /\ 0 + n <= Len(P) - 2
    BY <2>2
  <2>4. \A i \in 1 .. n : P[0 + i] = body[i]
    <3>1. \A i \in 1 .. n : 0 + i = i
      OBVIOUS
    <3> QED
      BY <1>8, <2>1, <3>1, Zenon
  <2> QED
    BY <2>1, <2>3, <2>4, Zenon DEF At
<1>11. /\ At(P, 0, length)
       /\ At(P, 0 + 1, enough)
       /\ At(P, 0 + 2, type)
       /\ At(P, 0 + 3, part6)
       /\ At(P, 0 + 3 + Len(part6), PartIPv4)
       /\ 0 + 3 + Len(part6) \in Nat
       /\ 0 + 3 + Len(part6) + Len(PartIPv4) = 0 + Len(body)
  <2>1. At(P, 0, length \o enough \o type \o part6 \o PartIPv4)
    BY <1>10 DEF body
  <2>2. 0 \in Nat
    OBVIOUS
  <2>3. PICK last : last = PartIPv4
    OBVIOUS
  <2>4. last \in Seq(Stmts) /\ At(P, 0, length \o enough \o type \o part6 \o last)
    BY <1>3, <2>1, <2>3, Zenon
  <2>5. /\ At(P, 0, length)
        /\ At(P, 0 + 1, enough)
        /\ At(P, 0 + 2, type)
        /\ At(P, 0 + 3, part6)
        /\ At(P, 0 + 3 + Len(part6), last)
        /\ 0 + 3 + Len(part6) \in Nat
        /\ 0 + 3 + Len(part6) + Len(last) =
               0 + Len(length \o enough \o type \o part6 \o last)
    BY <1>2, <1>4, <1>9, <2>2, <2>4, FivePieces
  <2> QED
    BY <2>3, <2>5, Zenon DEF body
<1>12. 0 + 1 = 1 /\ 0 + 2 = 2 /\ 0 + 3 = 3
  OBVIOUS
<1> QED
  BY <1>9, <1>10, <1>11, <1>12, Zenon DEF part6, length, enough, type
\* The two parts of the program, whichever of the types the packet has.
LEMMA PartsRun ==
    ASSUME Inv, NEW with6 \in BOOLEAN, NEW P, Written(P, with6), Len(P) <= 256,
           NEW packet, Regular(packet), NEW R, Executes(R, P, packet)
    PROVE  R[4][packet.type] =
               IF with6 /\ packet.type = EtherTypeIPv6
               THEN /\ packet.len >= MinLenIPv6
                    /\ packet.proto = ProtoUDP
                    /\ PortWanted(packet)
               ELSE /\ packet.type = EtherTypeIPv4
                    /\ packet.proto = ProtoUDP
                    /\ packet.frag % (FragmentBits + 1) = 0
                    /\ PortWanted(packet)
<1> DEFINE part6 == IF with6 THEN TypeTest(TRUE) \o PartIPv6(TRUE) ELSE <<>>
           Good4 == /\ packet.type = EtherTypeIPv4
                    /\ packet.proto = ProtoUDP
                    /\ packet.frag % (FragmentBits + 1) = 0
                    /\ PortWanted(packet)
           Good6 == /\ packet.len >= MinLenIPv6
                    /\ packet.proto = ProtoUDP
                    /\ PortWanted(packet)
<1>1. /\ Complete(P)
      /\ At(P, 3, part6)
      /\ At(P, 3 + Len(part6), PartIPv4)
      /\ 3 + Len(part6) \in Nat
      /\ 3 + Len(part6) + Len(PartIPv4) = Len(P) - 2
  BY ProgramParts
<1>2. packet.type \in Nat
  BY DEF Regular
<1>3. R[3 + Len(part6) + 1][packet.type] = Good4
  <2> HIDE DEF part6
  <2>1. PICK off \in Nat : off = 3 + Len(part6)
    BY <1>1
  <2>2. At(P, off, PartIPv4) /\ off + Len(PartIPv4) = Len(P) - 2
    BY <1>1, <2>1, Zenon
  <2>3. R[off + 1][packet.type] = Good4
    BY <1>1, <1>2, <2>2, IPv4PartRuns
  <2> QED
    BY <2>1, <2>3, Zenon
<1>4. CASE ~with6
  <2>1. 3 + Len(part6) + 1 = 4
    <3>1. Len(part6) = 0
      BY <1>4
    <3>2. 3 + 0 + 1 = 4
      OBVIOUS
    <3> HIDE DEF part6
    <3> QED
      BY <3>1, <3>2, Zenon
  <2> HIDE DEF Good4, Good6, part6
  <2>2. R[4][packet.type] = Good4
    BY <1>3, <2>1, Zenon
  <2> QED
    BY <1>4, <2>2, Zenon DEF Good4
<1>5. CASE with6
  <2>1. /\ PartIPv6(TRUE) \in Seq(Stmts)
        /\ Len(PartIPv6(TRUE)) \in Nat
        /\ TypeTest(TRUE) \in Seq(Stmts)
        /\ Len(TypeTest(TRUE)) = 1
    <3>1. PartIPv6(TRUE) \in Seq(Stmts)
      BY IPv6Piece DEF Piece
    <3>2. Len(PartIPv6(TRUE)) \in Nat
      BY <3>1, StmtsLen, Zenon
    <3>3. /\ "jeq" \in Codes \ {"ld"} /\ 0 \in Jumps
          /\ Len(PartIPv6(TRUE)) \in Jumps
      BY <3>2 DEF Codes, Jumps
    <3> QED
      BY <3>1, <3>2, <3>3, OneEach, TestedNumbers DEF TypeTest
  <2>2. /\ At(P, 3, TypeTest(TRUE))
        /\ At(P, 3 + Len(TypeTest(TRUE)), PartIPv6(TRUE))
        /\ 3 + Len(TypeTest(TRUE)) + Len(PartIPv6(TRUE)) = 3 + Len(part6)
    <3>1. 3 \in Nat
      OBVIOUS
    <3>2. Splits(P, 3, TypeTest(TRUE), PartIPv6(TRUE))
      BY <1>1, <2>1, <3>1, AtSplit, Zenon
    <3>3. part6 = TypeTest(TRUE) \o PartIPv6(TRUE)
      BY <1>5
    <3> QED
      BY <1>1, <3>2, <3>3, Zenon DEF Splits
  <2> HIDE DEF part6
  <2>3. PICK L \in Nat : L = Len(PartIPv6(TRUE))
    BY <2>1
  <2>4. 3 + Len(part6) + 1 = 5 + L /\ 3 + Len(TypeTest(TRUE)) = 4
    <3>1. 3 + 1 + L = 3 + Len(part6)
      BY <2>1, <2>2, <2>3, Zenon
    <3>2. 3 + 1 + L + 1 = 5 + L /\ 3 + 1 = 4
      OBVIOUS
    <3> QED
      BY <2>1, <3>1, <3>2, Zenon
  <2>5. R[4][packet.type] = IF packet.type = EtherTypeIPv6
                            THEN R[5][packet.type] ELSE R[5 + L][packet.type]
    <3>1. 3 \in Nat /\ 3 + 1 = 4 /\ 3 + 2 = 5 /\ 3 + 2 + L = 5 + L
      OBVIOUS
    <3>2. Tested(R, P, 3, EtherTypeIPv6, packet.type)
      BY <1>1, <1>2, <3>1, TestRuns, TestedNumbers, Zenon
    <3>3. TypeTest(TRUE) = Jump("jeq", EtherTypeIPv6, 0, L)
      BY <2>3, Zenon DEF TypeTest
    <3>4. At(P, 3, Jump("jeq", EtherTypeIPv6, 0, L))
      BY <2>2, <3>3, Zenon
    <3>5. R[3 + 1][packet.type] = IF packet.type = EtherTypeIPv6
                                  THEN R[3 + 2][packet.type]
                                  ELSE R[3 + 2 + L][packet.type]
      BY <3>2, <3>4, Zenon DEF Tested
    <3> QED
      BY <3>1, <3>5, Zenon
  <2>6. R[5][packet.type] = Good6
    <3>1. 4 + 1 = 5
      OBVIOUS
    <3>2. PICK four \in Nat : four = 4
      OBVIOUS
    <3>3. At(P, four, PartIPv6(TRUE))
      BY <2>2, <2>4, <3>2, Zenon
    <3>4. R[four + 1][packet.type] = Good6
      BY <1>1, <1>2, <3>3, IPv6PartRuns
    <3> QED
      BY <3>1, <3>2, <3>4, Zenon
  <2> HIDE DEF Good4, Good6
  <2>7. R[5 + L][packet.type] = Good4
    BY <1>3, <2>4, Zenon
  <2> QED
    BY <1>5, <2>5, <2>6, <2>7, Zenon DEF Good4, Good6
<1> QED
  BY <1>4, <1>5

LEMMA ProgramRuns ==
    ASSUME Inv, NEW with6 \in BOOLEAN, NEW P, Written(P, with6), Len(P) <= 256,
           NEW packet, Regular(packet)
    PROVE  Accepts(Patched(P), packet) <=> Right(packet, with6)
<1> DEFINE R == Run(Patched(P), packet)
<1>1. /\ Complete(P)
      /\ At(P, 0, Load("len"))
      /\ At(P, 1, Jump("jge", MinLenIPv4, 0, Ignore))
      /\ At(P, 2, Load("ether_type"))
  BY ProgramParts
<1>2. Executes(R, P, packet)
  BY <1>1, ProgramExecutes
<1>3. Accepts(Patched(P), packet) = R[1][0]
  BY DEF Accepts
<1> HIDE DEF R
<1>4. /\ "len" \in Fields /\ "ether_type" \in Fields
      /\ packet.len \in Nat /\ packet.type \in Nat
      /\ Loaded(packet, "len") = packet.len
      /\ Loaded(packet, "ether_type") = packet.type
  <2>1. packet.len \in Nat /\ packet.type \in Nat
    BY DEF Regular
  <2>2. /\ Loaded(packet, "len") = packet.len
        /\ Loaded(packet, "ether_type") = packet.type
    BY DEF Loaded
  <2> QED
    BY <2>1, <2>2 DEF Fields
<1>5. /\ 0 \in Nat /\ 1 \in Nat /\ 2 \in Nat /\ 0 + 1 = 1 /\ 0 + 2 = 2
      /\ 1 + 1 = 2 /\ 1 + 2 = 3 /\ 2 + 1 = 3 /\ 2 + 2 = 4
  OBVIOUS
<1>6. /\ Loads(R, P, packet, 0, "len", 0)
      /\ Loads(R, P, packet, 2, "ether_type", packet.len)
  BY <1>1, <1>2, <1>4, <1>5, LoadRuns
<1>7. R[1][0] = R[2][packet.len]
  <2>1. R[0 + 1][0] = R[0 + 2][Loaded(packet, "len")]
    BY <1>1, <1>6, Zenon DEF Loads
  <2> QED
    BY <1>4, <1>5, <2>1, Zenon
<1>8. R[2][packet.len] = IF packet.len >= MinLenIPv4 THEN R[3][packet.len]
                         ELSE FALSE
  <2>1. Tested(R, P, 1, MinLenIPv4, packet.len)
    BY <1>1, <1>2, <1>4, <1>5, TestRuns, TestedNumbers
  <2>2. R[1 + 1][packet.len] = IF packet.len >= MinLenIPv4
                               THEN R[1 + 2][packet.len] ELSE FALSE
    BY <1>1, <2>1, Zenon DEF Tested
  <2> QED
    BY <1>5, <2>2, Zenon
<1>9. R[3][packet.len] = R[4][packet.type]
  <2>1. R[2 + 1][packet.len] = R[2 + 2][Loaded(packet, "ether_type")]
    BY <1>1, <1>6, Zenon DEF Loads
  <2> QED
    BY <1>4, <1>5, <2>1, Zenon
<1>10. R[4][packet.type] =
           IF with6 /\ packet.type = EtherTypeIPv6
           THEN /\ packet.len >= MinLenIPv6
                /\ packet.proto = ProtoUDP
                /\ PortWanted(packet)
           ELSE /\ packet.type = EtherTypeIPv4
                /\ packet.proto = ProtoUDP
                /\ packet.frag % (FragmentBits + 1) = 0
                /\ PortWanted(packet)
  BY <1>2, PartsRun
<1>11. packet.len >= MinLenIPv6 => packet.len >= MinLenIPv4
  BY <1>4, SMT DEF MinLenIPv4, MinLenIPv6
<1>12. packet.type = EtherTypeIPv6 => packet.type # EtherTypeIPv4
  BY SMT DEF EtherTypeIPv4, EtherTypeIPv6
<1>13. R[1][0] <=> Right(packet, with6)
  BY <1>7, <1>8, <1>9, <1>10, <1>11, <1>12, Zenon DEF Right
<1> QED
  BY <1>3, <1>13, Zenon
LEMMA PortWantedIs ==
    ASSUME Inv, NEW packet, Regular(packet)
    PROVE  PortWanted(packet) <=> ports = {} \/ packet.port \in ports
<1>1. packet.port \in Nat
  BY DEF Regular
<1>2. Len(ranges) \in Nat /\ \A n \in 1 .. Len(ranges) : ranges[n] \in Ranges
  BY PortsAreNats DEF Inv, Types
<1>3. \A p : p \in ports <=>
          p \in Ports /\ \E n \in 1 .. Len(ranges) : Inside(ranges[n], p)
  BY DEF Inv, Held, Inside
<1>4. \A n \in 1 .. Len(ranges) :
          Inside(ranges[n], packet.port) => packet.port \in Ports
  <2> TAKE n \in 1 .. Len(ranges)
  <2>1. ranges[n].from \in Ports /\ ranges[n].to \in Ports
    BY <1>2 DEF Ranges
  <2> QED
    BY <1>1, <2>1, LimitsAssumption DEF Inside, Ports
<1>5. CASE ranges = <<>>
  <2>1. Len(ranges) = 0
    BY <1>5
  <2>2. ports = {}
    BY <1>3, <2>1
  <2> QED
    BY <1>5, <2>2 DEF PortWanted
<1>6. CASE ranges # <<>>
  <2>1. 1 \in 1 .. Len(ranges)
    BY <1>2, <1>6 DEF Inv, Types
  <2>2. ranges[1].from \in Ports /\ Inside(ranges[1], ranges[1].from)
    BY <1>2, <2>1, LimitsAssumption DEF Inv, Ordered, Inside, Ranges, Ports
  <2>3. ports # {}
    BY <1>3, <2>1, <2>2
  <2> QED
    BY <1>3, <1>4, <1>6, <2>3 DEF PortWanted
<1> QED
  BY <1>5, <1>6

\* No other bits than those that say "fragment" and the one that forbids to.
LEMMA WholeDatagram ==
    ASSUME NEW packet, Regular(packet)
    PROVE  packet.frag % (FragmentBits + 1) = 0 <=>
               packet.frag \in {0, DontFragment}
<1>1. packet.frag \in 0 .. 2 * FragmentBits + 1
  BY DEF Regular
<1>2. PICK frag \in 0 .. 2 * FragmentBits + 1 : frag = packet.frag
  BY <1>1
<1>3. FragmentBits + 1 = 16384 /\ 2 * FragmentBits + 1 = 32767
      /\ DontFragment = 16384
  BY SMT DEF FragmentBits, DontFragment
<1>4. frag \in Int /\ 0 <= frag /\ frag <= 32767
  BY <1>2, <1>3, SMT
<1>5. frag % 16384 = 0 <=> frag = 0 \/ frag = 16384
  BY <1>4, SMT
<1> QED
  BY <1>2, <1>3, <1>5, SMT

\* What compile() hands out is right when it hands it out.
LEMMA CompileIsExact ==
    ASSUME MaxFilters <= 256, \A packet \in Packets : Regular(packet),
           Inv, Compile, families' # {"ipv6"}
    PROVE  FilterExact'
<1> DEFINE with4 == "ipv4" \in families'
           with6 == "ipv6" \in families'
           program == Program(with4, with6)
<1>1. with4 = TRUE /\ with6 \in BOOLEAN
  <2>1. families' \subseteq {"ipv4", "ipv6"} /\ families' # {}
    BY DEF Compile, Inv, Types
  <2>2. "ipv4" \in families'
    <3> SUFFICES ASSUME "ipv4" \notin families'
                 PROVE  families' = {"ipv6"}
      OBVIOUS
    <3> QED
      BY <2>1
  <2> QED
    BY <2>2
<1>2. /\ result' = (Len(Patched(program)) <= MaxFilters)
      /\ filters' = IF result' THEN Patched(program) ELSE <<>>
      /\ ports' = ports
  BY DEF Compile
<1> HIDE DEF with4, with6
<1>3. PICK P : Written(P, with6)
  BY DEF Written
<1>4. program = P
  BY <1>1, <1>3, Zenon DEF Written
<1>5. SUFFICES ASSUME filters' # <<>>, NEW packet \in Packets
               PROVE  Accepts(filters', packet) <=> Wanted(packet)'
  BY DEF FilterExact
<1>6. filters' = Patched(P) /\ Len(Patched(P)) <= MaxFilters
  BY <1>2, <1>4, <1>5
<1>7. Len(P) <= 256
  <2>1. Piece(Program(with4, with6), 4 * MaxPortRanges + 19)
    BY <1>1, ProgramPiece
  <2>2. P \in Seq(Stmts)
    BY <1>4, <2>1 DEF Piece
  <2>3. Len(Patched(P)) = Len(P) /\ Len(P) \in Nat
    BY <2>2, PatchedLength, StmtsLen
  <2> QED
    BY <1>6, <2>3, LimitsAssumption
<1>8. Regular(packet)
  OBVIOUS
<1>9. Accepts(filters', packet) <=> Right(packet, with6)
  BY <1>1, <1>3, <1>6, <1>7, <1>8, ProgramRuns
<1>10. PortWanted(packet) <=> ports' = {} \/ packet.port \in ports'
  BY <1>2, <1>8, PortWantedIs
<1>11. packet.frag % (FragmentBits + 1) = 0 <=> packet.frag \in {0, DontFragment}
  BY <1>8, WholeDatagram
<1>12. Right(packet, with6) <=> Wanted(packet)'
  BY <1>1, <1>10, <1>11, Zenon DEF Right, Wanted, with4, with6
<1> QED
  BY <1>9, <1>12

\* For every number of ports and places, every program of 256 statements at
\* most (max_filters is 255, an offset has eight bits) and all packets without
\* IPv4 options: the filter that compile() hands out accepts exactly the
\* packets that are wanted, unless ipv6() alone was called (main() calls
\* neither ipv4() nor ipv6()).
THEOREM FilterExactHolds ==
    ASSUME MaxFilters <= 256, \A packet \in Packets : Regular(packet)
    PROVE  Spec => [](families # {"ipv6"} => FilterExact)
<1> DEFINE Good == families # {"ipv6"} => FilterExact
<1>1. Init => Good
  BY DEF Init, FilterExact
<1>2. Inv /\ Good /\ [Next]_vars => Good'
  <2> SUFFICES ASSUME Inv, Good, [Next]_vars
               PROVE  Good'
    OBVIOUS
  <2>1. CASE \E family \in Enables : Enable(family)
    BY <2>1 DEF Enable, FilterExact
  <2>2. CASE \E from, to \in 0 .. MaxPort : PortRange(from, to)
    <3>1. filters' = <<>>
      BY <2>2 DEF PortRange, Insert, Merge, Refuse, Accepted
    <3> QED
      BY <3>1 DEF FilterExact
  <2>3. CASE Compile
    BY <2>3, CompileIsExact
  <2>4. CASE UNCHANGED vars
    BY <2>4 DEF vars, FilterExact, Wanted
  <2> QED
    BY <2>1, <2>2, <2>3, <2>4 DEF Next
<1> QED
  BY <1>1, <1>2, InvAlways, PTL DEF Spec

=============================================================================
