------------------------------ MODULE Counting ------------------------------
(***************************************************************************)
(* Lemmas that the proofs about several modules share: counting up to a    *)
(* number, the least and the greatest of a set of numbers, and functions   *)
(* that are defined by recursion on a number.  The recursive functions of  *)
(* the models are choices of a function that satisfies its own definition, *)
(* so that the first thing to prove about one is that there is any.        *)
(***************************************************************************)
EXTENDS Integers, FiniteSetsExt, SequenceTheorems, WellFoundedInduction, TLAPS

-----------------------------------------------------------------------------
(* The least and the greatest of a set of numbers.                         *)

LEMMA MinOfNats ==
    ASSUME NEW S \in SUBSET Nat, S # {}
    PROVE  Min(S) \in S /\ \A y \in S : Min(S) <= y
<1>1. \E x \in S : \A y \in S : ~(<<y, x>> \in OpToRel(<, Nat))
  BY NatLessThanWellFounded, WFMin, Zenon
<1>2. \A x, y \in S : <<y, x>> \in OpToRel(<, Nat) <=> y < x
  BY DEF OpToRel
<1>3. \E x \in S : \A y \in S : x <= y
  <2>1. PICK x \in S : \A y \in S : ~(<<y, x>> \in OpToRel(<, Nat))
    BY <1>1
  <2>2. \A y \in S : ~(y < x)
    BY <1>2, <2>1
  <2>3. \A y \in S : x <= y
    BY <2>2, SMT
  <2> QED
    BY <2>3
<1> QED
  BY <1>3, Zenon DEF Min

LEMMA MaxOfNats ==
    ASSUME NEW S \in SUBSET Nat, S # {}, NEW k \in Nat, \A x \in S : x <= k
    PROVE  Max(S) \in S /\ \A y \in S : y <= Max(S)
<1> DEFINE T == {k - x : x \in S}
<1>1. T \in SUBSET Nat /\ T # {}
  <2>1. \A x \in S : k - x \in Nat
    BY SMT
  <2> QED
    BY <2>1
<1>2. Min(T) \in T /\ \A y \in T : Min(T) <= y
  BY <1>1, MinOfNats
<1>3. PICK x \in S : Min(T) = k - x
  BY <1>2
<1>4. \A y \in S : k - y \in T
  OBVIOUS
<1>5. \A y \in S : x >= y
  <2> TAKE y \in S
  <2>1. k - x <= k - y
    BY <1>2, <1>3, <1>4
  <2> QED
    BY <2>1, SMT
<1>6. Max(S) \in S /\ \A y \in S : Max(S) >= y
  BY <1>5, Zenon DEF Max
<1> QED
  BY <1>6, SMT

LEMMA OfTwo ==
    ASSUME NEW a \in Nat, NEW b \in Nat
    PROVE  /\ Min({a, b}) = IF a <= b THEN a ELSE b
           /\ Max({a, b}) = IF a <= b THEN b ELSE a
<1>1. Min({a, b}) \in {a, b} /\ \A y \in {a, b} : Min({a, b}) <= y
  BY MinOfNats
<1>2. \E k \in Nat : a <= k /\ b <= k
  <2>1. a <= a + b /\ b <= a + b /\ a + b \in Nat
    BY SMT
  <2> QED
    BY <2>1
<1>3. Max({a, b}) \in {a, b} /\ \A y \in {a, b} : y <= Max({a, b})
  BY <1>2, MaxOfNats
<1> QED
  BY <1>1, <1>3, SMT

-----------------------------------------------------------------------------
(***************************************************************************)
(* Counting up to n: a set that holds 0 and, with each number below n, the *)
(* next one, holds every number up to n.                                   *)
(***************************************************************************)
LEMMA CountUp ==
    ASSUME NEW n \in Nat, NEW T, 0 \in T,
           \A j \in 0 .. n - 1 : j \in T => j + 1 \in T
    PROVE  \A j \in 0 .. n : j \in T
<1> DEFINE S == {j \in 0 .. n : j \notin T}
<1> SUFFICES ASSUME S # {} PROVE FALSE
  OBVIOUS
<1>1. S \in SUBSET Nat
  OBVIOUS
<1>2. PICK x \in S : \A y \in S : ~(<<y, x>> \in OpToRel(<, Nat))
  <2> HIDE DEF S
  <2> QED
    BY <1>1, NatLessThanWellFounded, WFMin, Zenon
<1>3. \A y \in S : ~(y < x)
  BY <1>1, <1>2 DEF OpToRel
<1>4. x \in 1 .. n /\ x \notin T
  OBVIOUS
<1>5. x - 1 \in 0 .. n - 1 /\ x - 1 \notin S
  BY <1>3, <1>4
<1>6. x - 1 \in T
  BY <1>5
<1>7. (x - 1) + 1 \in T
  BY <1>5, <1>6
<1> QED
  BY <1>4, <1>7

(***************************************************************************)
(* The concatenation of the first n of some sequences, as Stored builds it. *)
(***************************************************************************)
IsConcat(g, X, n) ==
    /\ g[0] = <<>>
    /\ \A j \in 1 .. n : g[j] = g[j - 1] \o X[j]

LEMMA ConcatExists ==
    ASSUME NEW X, NEW n \in Nat
    PROVE  \E g : g = [j \in 0 .. n |-> IF j = 0 THEN <<>>
                                        ELSE g[j - 1] \o X[j]]
<1> DEFINE Is(g, m) == g = [j \in 0 .. m |-> IF j = 0 THEN <<>>
                                             ELSE g[j - 1] \o X[j]]
           T == {m \in 0 .. n : \E g : Is(g, m)}
<1>1. 0 \in T
  <2> DEFINE g == [j \in 0 .. 0 |-> <<>>]
  <2>1. Is(g, 0)
    OBVIOUS
  <2> HIDE DEF g, Is
  <2>2. \E f : Is(f, 0)
    BY <2>1
  <2> QED
    BY <2>2
<1>2. \A m \in 0 .. n - 1 : m \in T => m + 1 \in T
  <2> SUFFICES ASSUME NEW m \in 0 .. n - 1, m \in T PROVE m + 1 \in T
    OBVIOUS
  <2>1. PICK g : Is(g, m)
    OBVIOUS
  <2> DEFINE h == [j \in 0 .. m + 1 |-> IF j = m + 1 THEN g[m] \o X[m + 1]
                                                     ELSE g[j]]
  <2>2. \A j \in 0 .. m + 1 : h[j] = IF j = 0 THEN <<>> ELSE h[j - 1] \o X[j]
    <3> SUFFICES ASSUME NEW j \in 0 .. m + 1
                 PROVE  h[j] = IF j = 0 THEN <<>> ELSE h[j - 1] \o X[j]
      OBVIOUS
    <3>1. CASE j = m + 1
      <4>1. h[m + 1] = g[m] \o X[m + 1]
        <5>1. m + 1 \in 0 .. m + 1
          OBVIOUS
        <5> QED
          BY <5>1, Zenon
      <4>2. m \in 0 .. m + 1 /\ m # m + 1
        OBVIOUS
      <4>3. h[m] = g[m]
        BY <4>2
      <4>4. j - 1 = m /\ j # 0
        BY <3>1
      <4> HIDE DEF h
      <4> QED
        BY <3>1, <4>1, <4>3, <4>4
    <3>2. CASE j # m + 1
      <4>1. j \in 0 .. m
        BY <3>2
      <4>2. h[j] = g[j] /\ (j # 0 => h[j - 1] = g[j - 1])
        BY <4>1
      <4>3. g[j] = IF j = 0 THEN <<>> ELSE g[j - 1] \o X[j]
        BY <2>1, <4>1
      <4> QED
        BY <4>2, <4>3
    <3> QED
      BY <3>1, <3>2
  <2>3. Is(h, m + 1)
    <3>1. h = [j \in 0 .. m + 1 |-> h[j]]
      OBVIOUS
    <3> HIDE DEF h
    <3>2. [j \in 0 .. m + 1 |-> h[j]] =
              [j \in 0 .. m + 1 |-> IF j = 0 THEN <<>> ELSE h[j - 1] \o X[j]]
      BY <2>2
    <3> QED
      BY <3>1, <3>2
  <2> HIDE DEF h, Is
  <2>4. \E f : Is(f, m + 1)
    BY <2>3
  <2> QED
    BY <2>4
<1> HIDE DEF T
<1>3. \A m \in 0 .. n : m \in T
  BY <1>1, <1>2, CountUp
<1>4. n \in T
  BY <1>3
<1> QED
  BY <1>4 DEF T

LEMMA ConcatTyped ==
    ASSUME NEW S, NEW n \in Nat, NEW X, NEW g, IsConcat(g, X, n),
           \A j \in 1 .. n : X[j] \in Seq(S)
    PROVE  \A j \in 0 .. n : g[j] \in Seq(S)
<1> DEFINE T == {j \in 0 .. n : g[j] \in Seq(S)}
<1>1. 0 \in T
  <2>1. g[0] = <<>> /\ <<>> \in Seq(S) /\ 0 \in 0 .. n
    BY DEF IsConcat
  <2> QED
    BY <2>1
<1>2. \A j \in 0 .. n - 1 : j \in T => j + 1 \in T
  <2> SUFFICES ASSUME NEW j \in 0 .. n - 1, g[j] \in Seq(S)
               PROVE  g[j + 1] \in Seq(S)
    OBVIOUS
  <2>1. j + 1 \in 1 .. n /\ (j + 1) - 1 = j
    OBVIOUS
  <2>2. g[j + 1] = g[j] \o X[j + 1] /\ X[j + 1] \in Seq(S)
    BY <2>1 DEF IsConcat
  <2> QED
    BY <2>2, ConcatProperties
<1> HIDE DEF T
<1>3. \A j \in 0 .. n : j \in T
  BY <1>1, <1>2, CountUp
<1> QED
  BY <1>3 DEF T

LEMMA SumsBelow ==
    \A a, b, p, c \in Nat : a <= p /\ b <= c => a + b <= p + c
  OBVIOUS

\* What is appended has at most c elements each time.
LEMMA ConcatLength ==
    ASSUME NEW S, NEW n \in Nat, NEW X, NEW g, IsConcat(g, X, n),
           \A j \in 1 .. n : X[j] \in Seq(S),
           NEW c \in Nat, \A j \in 1 .. n : Len(X[j]) <= c
    PROVE  \A j \in 0 .. n : Len(g[j]) <= c * j
<1> DEFINE T == {j \in 0 .. n : Len(g[j]) <= c * j}
<1>1. 0 \in T
  <2>1. Len(g[0]) = 0 /\ c * 0 = 0
    BY DEF IsConcat
  <2> QED
    BY <2>1
<1>2. \A j \in 0 .. n - 1 : j \in T => j + 1 \in T
  <2> SUFFICES ASSUME NEW j \in 0 .. n - 1, Len(g[j]) <= c * j
               PROVE  Len(g[j + 1]) <= c * (j + 1)
    OBVIOUS
  <2>1. j + 1 \in 1 .. n /\ (j + 1) - 1 = j /\ j \in 0 .. n
    OBVIOUS
  <2>2. g[j + 1] = g[j] \o X[j + 1] /\ X[j + 1] \in Seq(S) /\ g[j] \in Seq(S)
    BY <2>1, ConcatTyped DEF IsConcat
  <2>3. Len(g[j + 1]) = Len(g[j]) + Len(X[j + 1])
    BY <2>2, ConcatProperties
  <2>4. Len(X[j + 1]) <= c
    BY <2>1
  <2>5. c * (j + 1) = c * j + c /\ c * j \in Nat
    BY SMT
  <2>6. Len(g[j]) \in Nat /\ Len(X[j + 1]) \in Nat
    BY <2>2
  <2> DEFINE p == c * j
             q == c * (j + 1)
  <2>7. p \in Nat /\ q = p + c /\ Len(g[j]) <= p
    BY <2>5
  <2> HIDE DEF p, q
  <2>8. Len(g[j]) + Len(X[j + 1]) <= p + c
    BY <2>4, <2>6, <2>7, SumsBelow, Zenon
  <2> QED
    BY <2>3, <2>7, <2>8, Zenon DEF q
<1> HIDE DEF T
<1>3. \A j \in 0 .. n : j \in T
  BY <1>1, <1>2, CountUp
<1> QED
  BY <1>3 DEF T

\* What is appended leaves what is there.
LEMMA ConcatPrefix ==
    ASSUME NEW S, NEW n \in Nat, NEW X, NEW g, IsConcat(g, X, n),
           \A j \in 1 .. n : X[j] \in Seq(S)
    PROVE  \A j \in 0 .. n : /\ Len(g[j]) <= Len(g[n])
                             /\ \A i \in 1 .. Len(g[j]) : g[n][i] = g[j][i]
<1> DEFINE Prefix(j) == /\ Len(g[j]) <= Len(g[n])
                        /\ \A i \in 1 .. Len(g[j]) : g[n][i] = g[j][i]
           T == {d \in 0 .. n : Prefix(n - d)}
<1>1. \A j \in 0 .. n : g[j] \in Seq(S) /\ Len(g[j]) \in Nat
  <2>1. \A j \in 0 .. n : g[j] \in Seq(S)
    BY ConcatTyped
  <2> QED
    BY <2>1
<1>2. 0 \in T
  <2>1. n - 0 = n /\ n \in 0 .. n
    OBVIOUS
  <2>2. Prefix(n)
    BY <1>1, <2>1
  <2> HIDE DEF Prefix
  <2> QED
    BY <2>1, <2>2
<1>3. \A d \in 0 .. n - 1 : d \in T => d + 1 \in T
  <2> SUFFICES ASSUME NEW d \in 0 .. n - 1, d \in T
               PROVE  d + 1 \in T
    OBVIOUS
  <2>1. PICK j \in 1 .. n : j = n - d
    OBVIOUS
  <2>2. Prefix(j)
    BY <2>1
  <2> DEFINE short == g[j - 1]
             long == g[j]
             x == X[j]
  <2>3. long = short \o x /\ short \in Seq(S) /\ x \in Seq(S)
    <3>1. j - 1 \in 0 .. n
      OBVIOUS
    <3> QED
      BY <1>1, <3>1 DEF IsConcat
  <2> HIDE DEF short, long, x
  <2>4. /\ Len(long) = Len(short) + Len(x)
        /\ \A i \in 1 .. Len(short) + Len(x) :
               long[i] = IF i <= Len(short) THEN short[i] ELSE x[i - Len(short)]
    BY <2>3, ConcatProperties
  <2>5. Len(short) \in Nat /\ Len(x) \in Nat
    BY <2>3
  <2>6. \A i \in 1 .. Len(short) : long[i] = short[i] /\ i \in 1 .. Len(long)
    BY <2>4, <2>5
  <2>7. Prefix(j - 1)
    <3>1. Len(long) <= Len(g[n]) /\ \A i \in 1 .. Len(long) : g[n][i] = long[i]
      BY <2>2 DEF long
    <3>2. Len(g[n]) \in Nat
      BY <1>1
    <3>3. Len(short) <= Len(g[n])
      BY <2>4, <2>5, <3>1, <3>2
    <3>4. \A i \in 1 .. Len(short) : g[n][i] = short[i]
      BY <2>6, <3>1
    <3> QED
      BY <3>3, <3>4 DEF short
  <2>8. n - (d + 1) = j - 1 /\ d + 1 \in 0 .. n
    BY <2>1
  <2> HIDE DEF Prefix
  <2> QED
    BY <2>7, <2>8
<1> HIDE DEF T, Prefix
<1>4. \A d \in 0 .. n : d \in T
  BY <1>2, <1>3, CountUp
<1>5. ASSUME NEW j \in 0 .. n
      PROVE  Prefix(j)
  <2>1. n - j \in 0 .. n /\ n - (n - j) = j
    OBVIOUS
  <2>2. n - j \in T
    BY <1>4, <2>1
  <2>3. Prefix(n - (n - j))
    BY <2>2 DEF T
  <2> QED
    BY <2>1, <2>3
<1> QED
  BY <1>5 DEF Prefix

-----------------------------------------------------------------------------
(***************************************************************************)
(* The sum of the first n of some numbers.                                 *)
(***************************************************************************)
IsTotal(g, X, n) ==
    /\ g[0] = 0
    /\ \A j \in 1 .. n : g[j] = g[j - 1] + X[j]

LEMMA TotalExists ==
    ASSUME NEW X, NEW n \in Nat
    PROVE  \E g : g = [j \in 0 .. n |-> IF j = 0 THEN 0
                                        ELSE g[j - 1] + X[j]]
<1> DEFINE Is(g, m) == g = [j \in 0 .. m |-> IF j = 0 THEN 0
                                             ELSE g[j - 1] + X[j]]
           T == {m \in 0 .. n : \E g : Is(g, m)}
<1>1. 0 \in T
  <2> DEFINE g == [j \in 0 .. 0 |-> 0]
  <2>1. Is(g, 0)
    OBVIOUS
  <2> HIDE DEF g, Is
  <2>2. \E f : Is(f, 0)
    BY <2>1
  <2> QED
    BY <2>2
<1>2. \A m \in 0 .. n - 1 : m \in T => m + 1 \in T
  <2> SUFFICES ASSUME NEW m \in 0 .. n - 1, m \in T PROVE m + 1 \in T
    OBVIOUS
  <2>1. PICK g : Is(g, m)
    OBVIOUS
  <2> DEFINE h == [j \in 0 .. m + 1 |-> IF j = m + 1 THEN g[m] + X[m + 1]
                                                     ELSE g[j]]
  <2>2. \A j \in 0 .. m + 1 : h[j] = IF j = 0 THEN 0 ELSE h[j - 1] + X[j]
    <3> SUFFICES ASSUME NEW j \in 0 .. m + 1
                 PROVE  h[j] = IF j = 0 THEN 0 ELSE h[j - 1] + X[j]
      OBVIOUS
    <3>1. CASE j = m + 1
      <4>1. h[m + 1] = g[m] + X[m + 1]
        <5>1. m + 1 \in 0 .. m + 1
          OBVIOUS
        <5> QED
          BY <5>1, Zenon
      <4>2. m \in 0 .. m + 1 /\ m # m + 1
        OBVIOUS
      <4>3. h[m] = g[m]
        BY <4>2
      <4>4. j - 1 = m /\ j # 0
        BY <3>1
      <4> HIDE DEF h
      <4> QED
        BY <3>1, <4>1, <4>3, <4>4
    <3>2. CASE j # m + 1
      <4>1. j \in 0 .. m
        BY <3>2
      <4>2. h[j] = g[j] /\ (j # 0 => h[j - 1] = g[j - 1])
        BY <4>1
      <4>3. g[j] = IF j = 0 THEN 0 ELSE g[j - 1] + X[j]
        BY <2>1, <4>1
      <4> QED
        BY <4>2, <4>3
    <3> QED
      BY <3>1, <3>2
  <2>3. Is(h, m + 1)
    <3>1. h = [j \in 0 .. m + 1 |-> h[j]]
      OBVIOUS
    <3> HIDE DEF h
    <3>2. [j \in 0 .. m + 1 |-> h[j]] =
              [j \in 0 .. m + 1 |-> IF j = 0 THEN 0 ELSE h[j - 1] + X[j]]
      BY <2>2
    <3> QED
      BY <3>1, <3>2
  <2> HIDE DEF h, Is
  <2>4. \E f : Is(f, m + 1)
    BY <2>3
  <2> QED
    BY <2>4
<1> HIDE DEF T
<1>3. \A m \in 0 .. n : m \in T
  BY <1>1, <1>2, CountUp
<1>4. n \in T
  BY <1>3
<1> QED
  BY <1>4 DEF T

LEMMA TotalTyped ==
    ASSUME NEW n \in Nat, NEW X, NEW g, IsTotal(g, X, n),
           \A j \in 1 .. n : X[j] \in Nat
    PROVE  \A j \in 0 .. n : g[j] \in Nat
<1> DEFINE T == {j \in 0 .. n : g[j] \in Nat}
<1>1. 0 \in T
  BY DEF IsTotal
<1>2. \A j \in 0 .. n - 1 : j \in T => j + 1 \in T
  <2> SUFFICES ASSUME NEW j \in 0 .. n - 1, g[j] \in Nat
               PROVE  g[j + 1] \in Nat
    OBVIOUS
  <2>1. j + 1 \in 1 .. n /\ (j + 1) - 1 = j
    OBVIOUS
  <2>2. g[j + 1] = g[j] + X[j + 1] /\ X[j + 1] \in Nat
    BY <2>1 DEF IsTotal
  <2> QED
    BY <2>2
<1> HIDE DEF T
<1>3. \A j \in 0 .. n : j \in T
  BY <1>1, <1>2, CountUp
<1> QED
  BY <1>3 DEF T

\* The n numbers X are what follows the first m of Y.
Follow(X, Y, m, n) == \A j \in 1 .. n : X[j] \in Nat /\ Y[m + j] = X[j]

\* Two sums of the same numbers, the second after m others, differ by the sum
\* of the others.
LEMMA TotalShift ==
    ASSUME NEW m \in Nat, NEW n \in Nat, NEW X, NEW Y, NEW g, NEW h,
           IsTotal(g, X, n), IsTotal(h, Y, m + n), Follow(X, Y, m, n),
           h[m] \in Nat
    PROVE  h[m + n] = h[m] + g[n]
<1> USE DEF Follow
<1> DEFINE T == {j \in 0 .. n : h[m + j] = h[m] + g[j]}
<1>1. 0 \in T
  <2>1. m + 0 = m /\ g[0] = 0 /\ 0 \in 0 .. n
    BY DEF IsTotal
  <2> QED
    BY <2>1
<1>2. \A j \in 0 .. n - 1 : j \in T => j + 1 \in T
  <2> SUFFICES ASSUME NEW j \in 0 .. n - 1, h[m + j] = h[m] + g[j]
               PROVE  h[m + (j + 1)] = h[m] + g[j + 1]
    OBVIOUS
  <2>1. /\ j + 1 \in 1 .. n /\ (j + 1) - 1 = j /\ j \in 0 .. n
        /\ m + (j + 1) \in 1 .. m + n /\ (m + (j + 1)) - 1 = m + j
    OBVIOUS
  <2>2. g[j + 1] = g[j] + X[j + 1] /\ X[j + 1] \in Nat
    BY <2>1 DEF IsTotal
  <2>3. h[m + (j + 1)] = h[m + j] + X[j + 1]
    <3>1. h[m + (j + 1)] = h[m + j] + Y[m + (j + 1)]
      BY <2>1 DEF IsTotal
    <3> QED
      BY <2>1, <3>1
  <2>4. g[j] \in Nat
    BY <2>1, TotalTyped
  <2> QED
    BY <2>2, <2>3, <2>4
<1> HIDE DEF T
<1>3. \A j \in 0 .. n : j \in T
  BY <1>1, <1>2, CountUp
<1>4. n \in T
  BY <1>3
<1> QED
  BY <1>4 DEF T
=============================================================================
