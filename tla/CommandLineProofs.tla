-------------------------- MODULE CommandLineProofs --------------------------
(***************************************************************************)
(* Proofs about CommandLine and the parsers it reads numbers and lists of  *)
(* ports with: what these accept, for every width of the integer, base,    *)
(* unit and limit that the assumptions allow; and whatever the arguments   *)
(* are and whatever becomes of the system's interfaces, the distributor    *)
(* gets what has been checked, and the second pass over the destinations   *)
(* adds no rubbish.                                                        *)
(***************************************************************************)
EXTENDS CommandLine, Counting, FiniteSetTheorems

-----------------------------------------------------------------------------
(* parse_size() and parse_number().                                        *)

\* The types of the variables, and that the limits are a caller's while a
\* text is parsed.
TypeInv ==
    /\ scan \in {"idle", "digits", "accepted", "rejected"}
    /\ limits \in [min : Nat, max : Nat \ {0}, sized : BOOLEAN]
    /\ scan = "digits" => limits \in Limits
    /\ res \in 0 .. Width - 1
    /\ some \in BOOLEAN
    /\ exact \in Nat
    /\ malformed \in BOOLEAN

\* The integer holds the number that the text says, or both are beyond what
\* the caller allows: once the number is too great it may wrap around, but
\* the comparison keeps it from becoming less than it was.
ExactOrGreat ==
    /\ scan = "idle" => res = 0 /\ exact = 0
    /\ scan = "digits" => \/ res = exact
                          \/ res > limits.max /\ exact > limits.max

NumberInv == TypeInv /\ ExactOrGreat /\ NumberExact

LEMMA Monotonic ==
    ASSUME NEW a \in Nat, NEW b \in Nat, NEW c \in Nat, a <= b
    PROVE  a * c <= b * c
<1>1. PICK n \in Nat : b = a + n
  <2>1. b - a \in Nat /\ b = a + (b - a)
    BY SMT
  <2> QED
    BY <2>1
<1>2. b * c = a * c + n * c /\ n * c \in Nat /\ a * c \in Nat
  BY <1>1, SMT
<1> QED
  BY <1>2, SMT

LEMMA Grows ==
    ASSUME NEW a \in Nat, NEW c \in Nat \ {0}
    PROVE  a * c >= a
<1>1. 1 * a <= c * a
  BY Monotonic
<1> QED
  BY <1>1, SMT

LEMMA Remainder ==
    ASSUME NEW n \in Nat, NEW w \in Nat \ {0}
    PROVE  /\ n % w \in 0 .. w - 1
           /\ n < w => n % w = n
           /\ w % w = 0
<1>1. n % w \in 0 .. w - 1
  BY SMT
<1>2. n < w => n % w = n
  BY SMT
<1>3. w % w = 0
  BY SMT
<1> QED
  BY <1>1, <1>2, <1>3

\* One more digit: what the test for overflow lets pass is right or too great,
\* and what it catches is too great.
LEMMA DigitStep ==
    ASSUME NEW m \in Nat \ {0}, m * Base + Base <= Width,
           NEW r \in 0 .. Width - 1, NEW e \in Nat, NEW d \in 0 .. Base - 1,
           r = e \/ (r > m /\ e > m),
           NEW tmp, tmp = (r * Base + d) % Width
    PROVE  /\ tmp \in 0 .. Width - 1
           /\ e * Base + d \in Nat
           /\ tmp >= r => \/ tmp = e * Base + d
                          \/ tmp > m /\ e * Base + d > m
           /\ tmp < r => e * Base + d > m
<1> USE WidthAssumption
<1>1. r * Base \in Nat /\ e * Base \in Nat /\ m * Base \in Nat
  BY SMT
<1>2. r * Base + d \in Nat /\ e * Base + d \in Nat
  BY <1>1, SMT
<1>3. r * Base >= r /\ e * Base >= e
  BY Grows
<1>4. tmp \in 0 .. Width - 1 /\ (r * Base + d < Width => tmp = r * Base + d)
  BY <1>2, Remainder
<1>5. CASE r <= m
  <2>1. r * Base <= m * Base
    BY <1>5, Monotonic
  <2>2. r * Base + d < Width
    BY <1>1, <2>1, SMT
  <2>3. r = e
    BY <1>5, SMT
  <2>4. tmp = e * Base + d
    BY <1>4, <2>2, <2>3
  <2>5. tmp >= r
    BY <1>1, <1>3, <2>2, <1>4, SMT
  <2> QED
    BY <1>2, <1>4, <2>4, <2>5, SMT
<1>6. CASE r > m
  <2>1. e * Base + d > m
    BY <1>1, <1>3, <1>6, SMT
  <2>2. tmp >= r => tmp > m
    BY <1>4, <1>6, SMT
  <2> QED
    BY <1>2, <1>4, <2>1, <2>2
<1> QED
  BY <1>5, <1>6, SMT

\* A suffix: a size that the test for overflow lets pass is right or too
\* great, and one that it catches is too great.
LEMMA UnitStep ==
    ASSUME NEW w \in Nat \ {0}, NEW u \in Nat \ {0}, NEW m \in Nat \ {0},
           m * u <= w, m < w,
           NEW r \in 0 .. w - 1, NEW e \in Nat,
           r = e \/ (r > m /\ e > m),
           NEW tmp, tmp = (r * u) % w
    PROVE  /\ tmp \in 0 .. w - 1
           /\ e * u \in Nat
           /\ tmp >= r => \/ tmp = e * u
                          \/ tmp > m /\ e * u > m
           /\ tmp < r => e * u > m
<1>1. r * u \in Nat /\ e * u \in Nat /\ m * u \in Nat
  BY SMT
<1>2. r * u >= r /\ e * u >= e
  BY Grows
<1>3. tmp \in 0 .. w - 1 /\ (r * u < w => tmp = r * u) /\ w % w = 0
  BY <1>1, Remainder
<1>4. CASE r <= m
  <2>1. r * u <= w
    <3>1. r * u <= m * u
      BY <1>4, Monotonic
    <3> QED
      BY <1>1, <3>1, SMT
  <2>2. r = e
    BY <1>4, SMT
  <2>3. CASE r * u < w
    BY <1>1, <1>2, <1>3, <2>2, <2>3, SMT
  <2>4. CASE r * u = w
    <3>1. tmp = 0 /\ e * u > m
      BY <1>3, <2>2, <2>4
    <3>2. r # 0
      BY <2>4, SMT
    <3>3. tmp < r
      BY <3>1, <3>2, SMT
    <3> QED
      BY <1>1, <1>3, <3>1, <3>3, SMT
  <2> QED
    BY <1>1, <2>1, <2>3, <2>4, SMT
<1>5. CASE r > m
  BY <1>1, <1>2, <1>3, <1>5, SMT
<1> QED
  BY <1>4, <1>5, SMT

-----------------------------------------------------------------------------

\* What the assumptions say of the limits of the call.
LEMMA CallersLimits ==
    ASSUME NEW limit \in Limits
    PROVE  /\ limit.min \in Nat /\ limit.max \in Nat \ {0}
           /\ limit.max * Base + Base <= Width
           /\ limit.max < Width
           /\ \A u \in DOMAIN Units : limit.max * Units[u] <= Width
<1>1. limit.min \in Nat /\ limit.max \in Nat \ {0}
  BY LimitsAssumption
<1>2. /\ limit.max * Base + Base <= Width
      /\ \A u \in DOMAIN Units : limit.max * Units[u] <= Width
  BY LimitsAssumption
<1>3. limit.max * Base >= limit.max /\ limit.max * Base \in Nat
  <2>1. limit.max * Base >= limit.max
    BY <1>1, WidthAssumption, Grows
  <2>2. limit.max * Base \in Nat
    BY <1>1, WidthAssumption, SMT
  <2> QED
    BY <2>1, <2>2
<1>4. limit.max < Width
  BY <1>1, <1>2, <1>3, WidthAssumption, SMT
<1> QED
  BY <1>1, <1>2, <1>4

LEMMA IdleInv ==
    /\ 0 \in 0 .. Width - 1
    /\ NoLimits \in [min : Nat, max : Nat \ {0}, sized : BOOLEAN]
<1>1. 0 \in 0 .. Width - 1
  BY WidthAssumption, SMT
<1>2. NoLimits \in [min : Nat, max : Nat \ {0}, sized : BOOLEAN]
  BY SMT DEF NoLimits
<1> QED
  BY <1>1, <1>2

LEMMA NumberInvInit == NumberInit => NumberInv
<1> SUFFICES ASSUME NumberInit
             PROVE  NumberInv
  OBVIOUS
<1>1. TypeInv
  BY IdleInv DEF NumberInit, TypeInv
<1>2. ExactOrGreat
  BY DEF NumberInit, ExactOrGreat
<1>3. NumberExact
  BY DEF NumberInit, NumberExact
<1> QED
  BY <1>1, <1>2, <1>3 DEF NumberInv

LEMMA NumberInvNext == NumberInv /\ [NumberNext]_numberVars => NumberInv'
<1> SUFFICES ASSUME NumberInv, [NumberNext]_numberVars
             PROVE  NumberInv'
  OBVIOUS
<1> USE DEF NumberInv
<1>1. ASSUME NEW limit \in Limits, BeginNumber(limit)
      PROVE  NumberInv'
  <2>1. limit \in [min : Nat, max : Nat \ {0}, sized : BOOLEAN]
    BY LimitsAssumption
  <2> QED
    BY <1>1, <2>1 DEF BeginNumber, TypeInv, ExactOrGreat, NumberExact
<1>2. CASE EndNumber
  BY <1>2, IdleInv DEF EndNumber, TypeInv, ExactOrGreat, NumberExact
<1>3. ASSUME NEW d \in 0 .. Base - 1, Digit(d)
      PROVE  NumberInv'
  <2> DEFINE tmp == (res * Base + d) % Width
  <2>1. limits \in Limits /\ scan = "digits"
    BY <1>3 DEF Digit, TypeInv
  <2>2. /\ tmp \in 0 .. Width - 1
        /\ exact * Base + d \in Nat
        /\ tmp >= res => \/ tmp = exact * Base + d
                         \/ tmp > limits.max /\ exact * Base + d > limits.max
        /\ tmp < res => exact * Base + d > limits.max
    <3>1. res = exact \/ (res > limits.max /\ exact > limits.max)
      BY <2>1 DEF ExactOrGreat
    <3>2. limits.max \in Nat \ {0} /\ limits.max * Base + Base <= Width
      BY <2>1, CallersLimits
    <3>3. res \in 0 .. Width - 1 /\ exact \in Nat
      BY DEF TypeInv
    <3>4. tmp = (res * Base + d) % Width
      OBVIOUS
    <3>5. \A m \in Nat \ {0}, r \in 0 .. Width - 1, e \in Nat :
             m * Base + Base <= Width /\ (r = e \/ (r > m /\ e > m))
             => \A t : t = (r * Base + d) % Width =>
                      /\ t \in 0 .. Width - 1
                      /\ e * Base + d \in Nat
                      /\ t >= r => t = e * Base + d \/ (t > m /\ e * Base + d > m)
                      /\ t < r => e * Base + d > m
      BY DigitStep
    <3> HIDE DEF NumberInv, tmp
    <3> QED
      BY <3>1, <3>2, <3>3, <3>4, <3>5, Zenon
  <2>3. exact' = exact * Base + d /\ limits' = limits /\ malformed' = malformed
    BY <1>3 DEF Digit
  <2>4. limits.min \in Nat /\ limits.max \in Nat
    BY <2>1, CallersLimits
  <2>5. CASE tmp >= res
    <3>1. res' = tmp /\ some' = TRUE /\ scan' = scan
      BY <1>3, <2>5 DEF Digit
    <3> HIDE DEF tmp
    <3>2. TypeInv'
      BY <2>1, <2>2, <2>3, <3>1 DEF TypeInv
    <3>3. ExactOrGreat'
      BY <2>1, <2>2, <2>3, <2>5, <3>1 DEF ExactOrGreat
    <3>4. NumberExact'
      BY <2>1, <3>1 DEF NumberExact
    <3> QED
      BY <3>2, <3>3, <3>4
  <2>6. CASE ~(tmp >= res)
    <3>1. scan' = "rejected" /\ res' = res /\ some' = some
      BY <1>3, <2>6 DEF Digit
    <3>2. tmp < res
      BY <2>2, <2>6, SMT DEF TypeInv
    <3> HIDE DEF tmp
    <3>3. ~Allowed(exact)'
      BY <2>2, <2>3, <2>4, <3>2, SMT DEF Allowed
    <3>4. TypeInv'
      BY <2>1, <2>2, <2>3, <3>1 DEF TypeInv
    <3> QED
      BY <3>1, <3>3, <3>4 DEF ExactOrGreat, NumberExact
  <2> QED
    BY <2>5, <2>6
<1>4. ASSUME NEW u \in DOMAIN Units, NEW last \in BOOLEAN, Unit(u, last)
      PROVE  NumberInv'
  <2> DEFINE tmp == (res * Units[u]) % Width
  <2>1. limits \in Limits /\ scan = "digits"
    BY <1>4 DEF Unit, TypeInv
  <2>2. /\ tmp \in 0 .. Width - 1
        /\ exact * Units[u] \in Nat
        /\ tmp >= res => \/ tmp = exact * Units[u]
                         \/ tmp > limits.max /\ exact * Units[u] > limits.max
        /\ tmp < res => exact * Units[u] > limits.max
    <3>1. res = exact \/ (res > limits.max /\ exact > limits.max)
      BY <2>1 DEF ExactOrGreat
    <3>2. /\ limits.max \in Nat \ {0} /\ limits.max < Width
          /\ limits.max * Units[u] <= Width
      BY <2>1, CallersLimits
    <3>3. res \in 0 .. Width - 1 /\ exact \in Nat
      BY DEF TypeInv
    <3>4. Units[u] \in Nat \ {0}
      BY WidthAssumption
    <3>5. tmp = (res * Units[u]) % Width
      OBVIOUS
    <3>6. Width \in Nat \ {0}
      BY WidthAssumption
    <3> HIDE DEF NumberInv, tmp
    <3> QED
      BY <3>1, <3>2, <3>3, <3>4, <3>5, <3>6, UnitStep, SMT
  <2>3. /\ exact' = exact * Units[u]
        /\ limits' = limits
        /\ some' = some
        /\ malformed' = (~some \/ ~last)
    BY <1>4 DEF Unit
  <2>4. limits.min \in Nat /\ limits.max \in Nat
    BY <2>1, CallersLimits
  <2>5. CASE some /\ tmp >= res /\ last /\ Allowed(tmp)
    <3>1. scan' = "accepted" /\ res' = tmp
      BY <1>4, <2>5 DEF Unit
    <3> HIDE DEF tmp
    <3>2. tmp = exact * Units[u]
      BY <2>2, <2>4, <2>5, SMT DEF Allowed
    <3>3. TypeInv'
      BY <2>1, <2>2, <2>3, <3>1 DEF TypeInv
    <3> QED
      BY <2>3, <2>5, <3>1, <3>2, <3>3 DEF ExactOrGreat, NumberExact, Allowed
  <2>6. CASE ~(some /\ tmp >= res /\ last /\ Allowed(tmp))
    <3>1. scan' = "rejected" /\ res' = res
      BY <1>4, <2>6 DEF Unit
    <3>2. TypeInv'
      BY <2>1, <2>2, <2>3, <3>1 DEF TypeInv
    <3>3. malformed' \/ ~Allowed(exact * Units[u])
      <4>1. CASE ~some \/ ~last
        BY <2>3, <4>1
      <4>2. CASE ~(tmp >= res)
        <5>1. tmp < res
          BY <2>2, <4>2, SMT DEF TypeInv
        <5> HIDE DEF tmp
        <5> QED
          BY <2>2, <2>4, <5>1, SMT DEF Allowed
      <4>3. CASE tmp >= res /\ ~Allowed(tmp)
        <5> HIDE DEF tmp
        <5> QED
          BY <2>2, <2>4, <4>3, SMT DEF Allowed
      <4> QED
        BY <2>6, <4>1, <4>2, <4>3
    <3> QED
      BY <2>3, <3>1, <3>2, <3>3 DEF ExactOrGreat, NumberExact, Allowed
  <2> QED
    BY <2>5, <2>6
<1>5. CASE OtherCharacter
  BY <1>5 DEF OtherCharacter, TypeInv, ExactOrGreat, NumberExact
<1>6. CASE EndOfText
  <2>1. limits \in Limits /\ scan = "digits"
    BY <1>6 DEF EndOfText, TypeInv
  <2>2. limits.min \in Nat /\ limits.max \in Nat
    BY <2>1, CallersLimits
  <2>3. /\ Allowed(res) => res = exact
        /\ ~Allowed(res) => ~Allowed(exact)
    BY <2>1, <2>2, SMT DEF TypeInv, ExactOrGreat, Allowed
  <2>4. TypeInv'
    BY <1>6, <2>1 DEF EndOfText, TypeInv
  <2> QED
    BY <1>6, <2>3, <2>4 DEF EndOfText, ExactOrGreat, NumberExact, Allowed
<1>7. CASE UNCHANGED numberVars
  BY <1>7 DEF numberVars, TypeInv, ExactOrGreat, NumberExact, Allowed
<1> QED
  BY <1>1, <1>2, <1>3, <1>4, <1>5, <1>6, <1>7 DEF NumberNext, NumberStep

\* parse_size() and parse_number() by themselves accept exactly the numbers
\* that a caller allows, with any limits that WidthAssumption admits.
THEOREM NumbersExact == NumberSpec => []NumberExact
<1>1. NumberInv => NumberExact
  BY DEF NumberInv
<1> QED
  BY NumberInvInit, NumberInvNext, <1>1, PTL DEF NumberSpec

-----------------------------------------------------------------------------
(* parse_port_list().                                                      *)

\* The recursion of Value().
IsValue(g, s, i, n) ==
    /\ g[0] = 0
    /\ \A b \in 1 .. n : g[b] = g[b - 1] * PortBase + s[i + b]

Writes(g, s, i, n) ==
    g = [b \in 0 .. n |-> IF b = 0 THEN 0
                          ELSE g[b - 1] * PortBase + s[i + b]]

LEMMA ValueExists ==
    ASSUME NEW s, NEW i, NEW n \in Nat
    PROVE  \E g : Writes(g, s, i, n)
<1> DEFINE Is(g, m) == Writes(g, s, i, m)
           T == {m \in 0 .. n : \E g : Is(g, m)}
<1>1. 0 \in T
  <2> DEFINE g == [j \in 0 .. 0 |-> 0]
  <2>1. Is(g, 0)
    BY DEF Writes
  <2> HIDE DEF g, Is
  <2>2. \E f : Is(f, 0)
    BY <2>1
  <2> QED
    BY <2>2
<1>2. \A m \in 0 .. n - 1 : m \in T => m + 1 \in T
  <2> SUFFICES ASSUME NEW m \in 0 .. n - 1, m \in T PROVE m + 1 \in T
    OBVIOUS
  <2>1. PICK g : Is(g, m)
    OBVIOUS
  <2> DEFINE h == [j \in 0 .. m + 1 |->
                      IF j = m + 1 THEN g[m] * PortBase + s[i + (m + 1)]
                                   ELSE g[j]]
  <2>2. \A j \in 0 .. m + 1 :
            h[j] = IF j = 0 THEN 0 ELSE h[j - 1] * PortBase + s[i + j]
    <3> SUFFICES ASSUME NEW j \in 0 .. m + 1
                 PROVE  h[j] = IF j = 0 THEN 0
                               ELSE h[j - 1] * PortBase + s[i + j]
      OBVIOUS
    <3>1. CASE j = m + 1
      <4>1. h[m + 1] = g[m] * PortBase + s[i + (m + 1)]
        <5>1. m + 1 \in 0 .. m + 1
          OBVIOUS
        <5> QED
          BY <5>1, Zenon
      <4>2. m \in 0 .. m + 1 /\ m # m + 1
        OBVIOUS
      <4>3. h[m] = g[m]
        BY <4>2
      <4>4. j - 1 = m /\ j # 0
        BY <3>1
      <4> HIDE DEF h
      <4> QED
        BY <3>1, <4>1, <4>3, <4>4
    <3>2. CASE j # m + 1
      <4>1. j \in 0 .. m
        BY <3>2
      <4>2. h[j] = g[j] /\ (j # 0 => h[j - 1] = g[j - 1])
        BY <4>1
      <4>3. g[j] = IF j = 0 THEN 0 ELSE g[j - 1] * PortBase + s[i + j]
        BY <2>1, <4>1 DEF Writes
      <4> QED
        BY <4>2, <4>3
    <3> QED
      BY <3>1, <3>2
  <2>3. Is(h, m + 1)
    <3>1. h = [j \in 0 .. m + 1 |-> h[j]]
      OBVIOUS
    <3> HIDE DEF h
    <3>2. [j \in 0 .. m + 1 |-> h[j]] =
              [j \in 0 .. m + 1 |->
                  IF j = 0 THEN 0 ELSE h[j - 1] * PortBase + s[i + j]]
      BY <2>2
    <3> QED
      BY <3>1, <3>2 DEF Writes
  <2> HIDE DEF h, Is
  <2>4. \E f : Is(f, m + 1)
    BY <2>3
  <2> QED
    BY <2>4
<1> HIDE DEF T
<1>3. \A m \in 0 .. n : m \in T
  BY <1>1, <1>2, CountUp
<1>4. n \in T
  BY <1>3
<1> QED
  BY <1>4 DEF T

LEMMA ValueUnfolds ==
    ASSUME NEW s, NEW i \in Nat, NEW j \in Nat, NEW n \in Nat, j - i - 1 = n
    PROVE  \E g : IsValue(g, s, i, n) /\ Value(s, i, j) = g[n]
<1>1. \E g : Writes(g, s, i, n)
  BY ValueExists
<1>2. \E g : Writes(g, s, i, j - i - 1)
  BY <1>1, Zenon
<1>3. \E g : Writes(g, s, i, j - i - 1) /\ Value(s, i, j) = g[j - i - 1]
  BY <1>2, Zenon DEF Value, Writes
<1>4. PICK g : Writes(g, s, i, j - i - 1) /\ Value(s, i, j) = g[j - i - 1]
  BY <1>3
<1>5. \A m \in 0 .. n : g[m] = IF m = 0 THEN 0
                               ELSE g[m - 1] * PortBase + s[i + m]
  BY <1>4 DEF Writes
<1>6. IsValue(g, s, i, n)
  <2>1. g[0] = 0
    BY <1>5
  <2>2. \A m \in 1 .. n : m \in 0 .. n /\ m # 0
    OBVIOUS
  <2>3. \A m \in 1 .. n : g[m] = g[m - 1] * PortBase + s[i + m]
    BY <1>5, <2>2
  <2> QED
    BY <2>1, <2>3 DEF IsValue
<1> QED
  BY <1>4, <1>6

\* The same digits, the same number.
Agree(s, t, i, n) == \A b \in 1 .. n : s[i + b] = t[i + b]

LEMMA ValueOnce ==
    ASSUME NEW s, NEW t, NEW i \in Nat, NEW n \in Nat, NEW g, NEW h,
           IsValue(g, s, i, n), IsValue(h, t, i, n), Agree(s, t, i, n)
    PROVE  g[n] = h[n]
<1> DEFINE T == {b \in 0 .. n : g[b] = h[b]}
<1>1. 0 \in T
  BY DEF IsValue
<1>2. \A b \in 0 .. n - 1 : b \in T => b + 1 \in T
  <2> SUFFICES ASSUME NEW b \in 0 .. n - 1, g[b] = h[b]
               PROVE  g[b + 1] = h[b + 1]
    OBVIOUS
  <2>1. b + 1 \in 1 .. n /\ (b + 1) - 1 = b
    OBVIOUS
  <2>2. g[b + 1] = g[b] * PortBase + s[i + (b + 1)]
    BY <2>1 DEF IsValue
  <2>3. h[b + 1] = h[b] * PortBase + t[i + (b + 1)]
    BY <2>1 DEF IsValue
  <2>4. s[i + (b + 1)] = t[i + (b + 1)]
    BY <2>1 DEF Agree
  <2> QED
    BY <2>2, <2>3, <2>4
<1> HIDE DEF T
<1>3. \A b \in 0 .. n : b \in T
  BY <1>1, <1>2, CountUp
<1>4. n \in T
  BY <1>3
<1> QED
  BY <1>4 DEF T

LEMMA ValueSame ==
    ASSUME NEW s, NEW t, NEW i \in Nat, NEW j \in Nat, i < j,
           \A n \in i + 1 .. j - 1 : s[n] = t[n]
    PROVE  Value(s, i, j) = Value(t, i, j)
<1>1. PICK n \in Nat : j - i - 1 = n
  OBVIOUS
<1>2. PICK g : IsValue(g, s, i, n) /\ Value(s, i, j) = g[n]
  BY <1>1, ValueUnfolds
<1>3. PICK h : IsValue(h, t, i, n) /\ Value(t, i, j) = h[n]
  BY <1>1, ValueUnfolds
<1>4. \A b \in 1 .. n : i + b \in i + 1 .. j - 1
  BY <1>1
<1>5. Agree(s, t, i, n)
  BY <1>4, Zenon DEF Agree
<1> QED
  BY <1>2, <1>3, <1>5, ValueOnce

LEMMA ValueOfNone ==
    ASSUME NEW s, NEW i \in Nat
    PROVE  Value(s, i, i + 1) = 0
<1>1. PICK zero \in Nat : zero = 0
  OBVIOUS
<1>2. (i + 1) - i - 1 = zero /\ i + 1 \in Nat
  BY <1>1
<1>3. PICK g : IsValue(g, s, i, zero) /\ Value(s, i, i + 1) = g[zero]
  BY <1>2, ValueUnfolds
<1> QED
  BY <1>1, <1>3 DEF IsValue

LEMMA ValueOfMore ==
    ASSUME NEW s, NEW i \in Nat, NEW j \in Nat, i < j
    PROVE  Value(s, i, j + 1) = Value(s, i, j) * PortBase + s[j]
<1>1. PICK n \in Nat : j - i - 1 = n
  OBVIOUS
<1>2. (j + 1) - i - 1 = n + 1 /\ n + 1 \in Nat /\ j + 1 \in Nat
  BY <1>1
<1>3. PICK g : IsValue(g, s, i, n) /\ Value(s, i, j) = g[n]
  BY <1>1, ValueUnfolds
<1>4. PICK h : IsValue(h, s, i, n + 1) /\ Value(s, i, j + 1) = h[n + 1]
  BY <1>2, ValueUnfolds
<1>5. IsValue(h, s, i, n)
  <2>1. \A b \in 1 .. n : b \in 1 .. n + 1
    OBVIOUS
  <2> QED
    BY <1>4, <2>1 DEF IsValue
<1>6. g[n] = h[n]
  <2>1. Agree(s, s, i, n)
    BY DEF Agree
  <2> QED
    BY <1>3, <1>5, <2>1, ValueOnce
<1>7. h[n + 1] = h[n] * PortBase + s[j]
  <2>1. n + 1 \in 1 .. n + 1 /\ (n + 1) - 1 = n /\ i + (n + 1) = j
    BY <1>1
  <2> QED
    BY <1>4, <2>1 DEF IsValue
<1> QED
  BY <1>3, <1>4, <1>6, <1>7

LEMMA ValueTyped ==
    ASSUME NEW s, NEW i \in Nat, NEW j \in Nat, i < j,
           \A n \in i + 1 .. j - 1 : s[n] \in Digits
    PROVE  Value(s, i, j) \in Nat
<1>1. PICK n \in Nat : j - i - 1 = n
  OBVIOUS
<1>2. PICK g : IsValue(g, s, i, n) /\ Value(s, i, j) = g[n]
  BY <1>1, ValueUnfolds
<1>3. Digits \subseteq Nat /\ PortBase \in Nat
  BY PortsAssumption DEF Digits
<1>4. \A b \in 1 .. n : i + b \in i + 1 .. j - 1
  BY <1>1
<1>5. \A b \in 1 .. n : s[i + b] \in Nat
  BY <1>3, <1>4, Zenon
<1> DEFINE T == {b \in 0 .. n : g[b] \in Nat}
<1>6. 0 \in T
  BY <1>2 DEF IsValue
<1>7. \A b \in 0 .. n - 1 : b \in T => b + 1 \in T
  <2> SUFFICES ASSUME NEW b \in 0 .. n - 1, g[b] \in Nat
               PROVE  g[b + 1] \in Nat
    OBVIOUS
  <2>1. b + 1 \in 1 .. n /\ (b + 1) - 1 = b
    OBVIOUS
  <2>2. g[b + 1] = g[b] * PortBase + s[i + (b + 1)]
    BY <1>2, <2>1 DEF IsValue
  <2>3. s[i + (b + 1)] \in Nat
    BY <1>5, <2>1, Zenon
  <2>4. g[b] * PortBase \in Nat
    BY <1>3
  <2> QED
    BY <2>2, <2>3, <2>4
<1> HIDE DEF T
<1>8. \A b \in 0 .. n : b \in T
  BY <1>6, <1>7, CountUp
<1>9. n \in T
  BY <1>8
<1> QED
  BY <1>2, <1>9 DEF T

-----------------------------------------------------------------------------
\* The characters are t and then c.
Longer(u, t, c) ==
    /\ u \in Seq(Characters)
    /\ Len(u) = Len(t) + 1
    /\ u[Len(t) + 1] = c
    /\ \A n \in 1 .. Len(t) : u[n] = t[n]

LEMMA AppendIsLonger ==
    ASSUME NEW t \in Seq(Characters), NEW c \in Characters
    PROVE  Longer(Append(t, c), t, c)
  BY DEF Longer

LEMMA CharactersApart ==
    /\ PortBase \in Nat /\ PortBase > 1
    /\ Digits \subseteq Nat /\ 0 \in Digits /\ 1 \in Digits
    /\ Comma \notin Digits /\ Dash \notin Digits /\ Other \notin Digits
    /\ Comma # Dash /\ Comma # Other /\ Dash # Other
    /\ Digits \subseteq Characters
    /\ \A c \in Characters : c \in Digits \/ c \in {Comma, Dash} \/ c = Other
  BY PortsAssumption DEF Digits, Comma, Dash, Other, Characters

LEMMA MarksOfLonger ==
    ASSUME NEW t \in Seq(Characters), NEW c \in Characters,
           NEW u \in Seq(Characters), Longer(u, t, c)
    PROVE  /\ \A n \in 0 .. Len(t) : Mark(u, n) <=> Mark(t, n)
           /\ \A n \in 0 .. Len(t), x \in Characters : Has(u, n, x) <=> Has(t, n, x)
           /\ Mark(u, Len(t) + 1) <=> c \in {Comma, Dash}
           /\ \A x \in Characters : Has(u, Len(t) + 1, x) <=> c = x
           /\ Mark(u, Len(t) + 2) /\ Mark(t, Len(t) + 1)
<1>1. PICK L \in Nat : L = Len(t)
  OBVIOUS
<1>2. Len(u) = L + 1 /\ u[L + 1] = c /\ \A n \in 1 .. L : u[n] = t[n]
  BY <1>1 DEF Longer
<1>3. ASSUME NEW n \in 0 .. L
      PROVE  /\ Mark(u, n) <=> Mark(t, n)
             /\ \A x \in Characters : Has(u, n, x) <=> Has(t, n, x)
  <2>1. n \in 1 .. L + 1 <=> n \in 1 .. L
    OBVIOUS
  <2> QED
    BY <1>1, <1>2, <2>1 DEF Mark, Has
<1>4. L + 1 \in 1 .. L + 1 /\ L + 2 \notin 1 .. L + 1 /\ L + 1 \notin 1 .. L
  OBVIOUS
<1>5. Mark(u, L + 1) <=> c \in {Comma, Dash}
  BY <1>2, <1>4 DEF Mark
<1>6. \A x \in Characters : Has(u, L + 1, x) <=> c = x
  BY <1>2, <1>4 DEF Has
<1>7. Mark(u, L + 2) /\ Mark(t, L + 1)
  BY <1>1, <1>2, <1>4 DEF Mark
<1> QED
  BY <1>1, <1>3, <1>5, <1>6, <1>7

\* What a character more does to the pieces: those that were closed stay, and
\* the last one is closed or becomes longer.
LEMMA PiecesOfLonger ==
    ASSUME NEW t \in Seq(Characters), NEW c \in Characters,
           NEW u \in Seq(Characters), Longer(u, t, c), NEW i \in 0 .. Len(t)
    PROVE  /\ \A j \in 1 .. Len(t) : Piece(u, i, j) <=> Piece(t, i, j)
           /\ Piece(u, i, Len(t) + 1) <=>
                  c \in {Comma, Dash} /\ Piece(t, i, Len(t) + 1)
           /\ c \notin {Comma, Dash} =>
                  (Piece(u, i, Len(t) + 2) <=> Piece(t, i, Len(t) + 1))
<1>1. PICK L \in Nat : L = Len(t)
  OBVIOUS
<1>2. /\ \A n \in 0 .. L : Mark(u, n) <=> Mark(t, n)
      /\ Mark(u, L + 1) <=> c \in {Comma, Dash}
      /\ Mark(u, L + 2) /\ Mark(t, L + 1)
  BY <1>1, MarksOfLonger
<1>3. i \in 0 .. L
  BY <1>1
<1>4. ASSUME NEW j \in 1 .. L
      PROVE  Piece(u, i, j) <=> Piece(t, i, j)
  <2>1. \A n \in i + 1 .. j - 1 : n \in 0 .. L
    BY <1>3
  <2>2. j \in 0 .. L
    OBVIOUS
  <2> QED
    BY <1>2, <1>3, <2>1, <2>2 DEF Piece
<1>5. \A n \in i + 1 .. (L + 1) - 1 : n \in 0 .. L
  BY <1>3
<1>6. Piece(u, i, L + 1) <=> c \in {Comma, Dash} /\ Piece(t, i, L + 1)
  BY <1>2, <1>3, <1>5 DEF Piece
<1>7. ASSUME c \notin {Comma, Dash}
      PROVE  Piece(u, i, L + 2) <=> Piece(t, i, L + 1)
  <2>1. \A n \in i + 1 .. (L + 2) - 1 :
            n \in i + 1 .. (L + 1) - 1 \/ n = L + 1
    BY <1>3
  <2>2. \A n \in i + 1 .. (L + 1) - 1 : n \in i + 1 .. (L + 2) - 1
    BY <1>3
  <2>3. i < L + 2 /\ i < L + 1
    BY <1>3
  <2> QED
    BY <1>2, <1>3, <1>5, <1>7, <2>1, <2>2, <2>3 DEF Piece
<1> QED
  BY <1>1, <1>4, <1>6, <1>7

\* What follows a mark is a piece that is still empty.
LEMMA EmptyPiece ==
    ASSUME NEW t \in Seq(Characters), Mark(t, Len(t))
    PROVE  Piece(t, Len(t), Len(t) + 1)
<1>1. PICK L \in Nat : L = Len(t)
  OBVIOUS
<1>2. \A n \in L + 1 .. (L + 1) - 1 : FALSE
  OBVIOUS
<1>3. L + 1 \notin 1 .. L /\ L < L + 1
  OBVIOUS
<1> QED
  BY <1>1, <1>2, <1>3 DEF Piece, Mark

LEMMA LastPieceOnce ==
    ASSUME NEW t \in Seq(Characters), NEW m \in 0 .. Len(t),
           NEW i \in 0 .. Len(t),
           Piece(t, m, Len(t) + 1), Piece(t, i, Len(t) + 1)
    PROVE  i = m
<1>1. PICK L \in Nat : L = Len(t)
  OBVIOUS
<1>2. i \in 0 .. L /\ m \in 0 .. L
  BY <1>1
<1>3. CASE i < m
  <2>1. m \in i + 1 .. (L + 1) - 1
    BY <1>2, <1>3
  <2> QED
    BY <1>1, <2>1 DEF Piece
<1>4. CASE m < i
  <2>1. i \in m + 1 .. (L + 1) - 1
    BY <1>2, <1>4
  <2> QED
    BY <1>1, <2>1 DEF Piece
<1> QED
  BY <1>2, <1>3, <1>4

\* Closed pieces end where the last one begins, or before.
LEMMA ClosedBeforeLast ==
    ASSUME NEW t \in Seq(Characters), NEW m \in 0 .. Len(t),
           Piece(t, m, Len(t) + 1),
           NEW i \in 0 .. Len(t), NEW j \in 1 .. Len(t), Piece(t, i, j)
    PROVE  j <= m
<1>1. PICK L \in Nat : L = Len(t)
  OBVIOUS
<1>2. i \in 0 .. L /\ j \in 1 .. L /\ m \in 0 .. L
  BY <1>1
<1>3. CASE m < j
  <2>1. j \in m + 1 .. (L + 1) - 1
    BY <1>2, <1>3
  <2>2. Mark(t, j)
    BY DEF Piece
  <2> QED
    BY <1>1, <2>1, <2>2 DEF Piece
<1> QED
  BY <1>2, <1>3

LEMMA ValuesOfLonger ==
    ASSUME NEW t \in Seq(Characters), NEW c \in Characters,
           NEW u \in Seq(Characters), Longer(u, t, c), NEW i \in 0 .. Len(t)
    PROVE  /\ \A j \in i + 1 .. Len(t) + 1 :
                  /\ Value(u, i, j) = Value(t, i, j)
                  /\ IsPort(u, i, j) <=> IsPort(t, i, j)
           /\ Value(u, i, Len(t) + 2) = Value(t, i, Len(t) + 1) * PortBase + c
<1>1. PICK L \in Nat : L = Len(t)
  OBVIOUS
<1>2. Len(u) = L + 1 /\ u[L + 1] = c /\ \A n \in 1 .. L : u[n] = t[n]
  BY <1>1 DEF Longer
<1>3. i \in 0 .. L /\ i \in Nat
  BY <1>1
<1>4. ASSUME NEW j \in i + 1 .. L + 1
      PROVE  /\ Value(u, i, j) = Value(t, i, j)
             /\ IsPort(u, i, j) <=> IsPort(t, i, j)
  <2>1. i < j /\ j \in Nat
    BY <1>3
  <2>2. \A n \in i + 1 .. j - 1 : n \in 1 .. L
    BY <1>3
  <2>3. \A n \in i + 1 .. j - 1 : u[n] = t[n]
    BY <1>2, <2>2, Zenon
  <2>4. Value(u, i, j) = Value(t, i, j)
    BY <1>3, <2>1, <2>3, ValueSame
  <2> QED
    BY <2>3, <2>4 DEF IsPort
<1>5. Value(u, i, L + 2) = Value(t, i, L + 1) * PortBase + c
  <2>1. L + 1 \in i + 1 .. L + 1 /\ L + 1 \in Nat /\ i < L + 1
    BY <1>3
  <2>2. Value(u, i, (L + 1) + 1) = Value(u, i, L + 1) * PortBase + u[L + 1]
    BY <1>3, <2>1, ValueOfMore
  <2>3. Value(u, i, L + 1) = Value(t, i, L + 1)
    BY <1>4, <2>1
  <2>4. (L + 1) + 1 = L + 2
    OBVIOUS
  <2> QED
    BY <1>2, <2>2, <2>3, <2>4
<1> QED
  BY <1>1, <1>4, <1>5

-----------------------------------------------------------------------------
\* Commas are counted.
LEMMA CommasTyped ==
    ASSUME NEW s, NEW n \in Nat
    PROVE  /\ Commas(s, n) \in Nat
           /\ IsFiniteSet({m \in 1 .. n : s[m] = Comma})
<1>1. IsFiniteSet(1 .. n)
  BY FS_Interval
<1>2. {m \in 1 .. n : s[m] = Comma} \in SUBSET (1 .. n)
  OBVIOUS
<1>3. IsFiniteSet({m \in 1 .. n : s[m] = Comma})
  BY <1>1, <1>2, FS_Subset
<1> QED
  BY <1>3, FS_CardinalityType DEF Commas

LEMMA ItemTyped ==
    ASSUME NEW t \in Seq(Characters), NEW n \in 0 .. Len(t)
    PROVE  Commas(t, n) \in Nat /\ Item(t, n) \in Nat \ {0}
<1>1. n \in Nat
  OBVIOUS
<1>2. Commas(t, n) \in Nat
  BY <1>1, CommasTyped
<1> QED
  BY <1>2 DEF Item

LEMMA CommasOfMore ==
    ASSUME NEW s, NEW n \in Nat
    PROVE  Commas(s, n + 1) = IF s[n + 1] = Comma THEN Commas(s, n) + 1
                                                  ELSE Commas(s, n)
<1> DEFINE S == {m \in 1 .. n : s[m] = Comma}
           T == {m \in 1 .. n + 1 : s[m] = Comma}
<1>1. \A m : m \in 1 .. n + 1 <=> m \in 1 .. n \/ m = n + 1
  OBVIOUS
<1>2. n + 1 \notin 1 .. n
  OBVIOUS
<1>3. CASE s[n + 1] = Comma
  <2>1. T = S \cup {n + 1} /\ n + 1 \notin S
    BY <1>1, <1>2, <1>3
  <2>2. IsFiniteSet(S)
    BY CommasTyped
  <2> HIDE DEF S, T
  <2>3. Cardinality(S \cup {n + 1}) = Cardinality(S) + 1
    BY <2>1, <2>2, FS_AddElement
  <2> QED
    BY <1>3, <2>1, <2>3 DEF Commas, S, T
<1>4. CASE s[n + 1] # Comma
  <2>1. T = S
    BY <1>1, <1>2, <1>4
  <2> QED
    BY <1>4, <2>1 DEF Commas
<1> QED
  BY <1>3, <1>4

LEMMA CommasOrdered ==
    ASSUME NEW s, NEW m \in Nat, NEW n \in Nat, m <= n
    PROVE  Commas(s, m) <= Commas(s, n)
<1> DEFINE S == {b \in 1 .. m : s[b] = Comma}
           T == {b \in 1 .. n : s[b] = Comma}
<1>1. IsFiniteSet(T)
  BY CommasTyped
<1>2. S \in SUBSET T
  OBVIOUS
<1> HIDE DEF S, T
<1>3. Cardinality(S) <= Cardinality(T)
  BY <1>1, <1>2, FS_Subset
<1> QED
  BY <1>3 DEF Commas, S, T

\* A comma counts for what follows it.
LEMMA CommaBetween ==
    ASSUME NEW s, NEW m \in Nat, NEW n \in Nat, m < n, s[n] = Comma
    PROVE  Commas(s, m) + 1 <= Commas(s, n)
<1>1. PICK b \in Nat : n = b + 1
  <2>1. n - 1 \in Nat /\ n = (n - 1) + 1
    OBVIOUS
  <2> QED
    BY <2>1
<1>2. Commas(s, m) <= Commas(s, b)
  BY <1>1, CommasOrdered
<1>3. Commas(s, n) = Commas(s, b) + 1
  BY <1>1, CommasOfMore
<1>4. Commas(s, m) \in Nat /\ Commas(s, b) \in Nat
  BY CommasTyped
<1> QED
  BY <1>2, <1>3, <1>4

LEMMA NoCommaBetween ==
    ASSUME NEW s, NEW m \in Nat, NEW n \in Nat, m <= n,
           \A b \in m + 1 .. n : s[b] # Comma
    PROVE  Commas(s, m) = Commas(s, n)
<1>1. {b \in 1 .. m : s[b] = Comma} = {b \in 1 .. n : s[b] = Comma}
  <2>1. \A b \in 1 .. n : b \in 1 .. m \/ b \in m + 1 .. n
    OBVIOUS
  <2>2. \A b \in 1 .. m : b \in 1 .. n
    OBVIOUS
  <2> QED
    BY <2>1, <2>2
<1> QED
  BY <1>1 DEF Commas

LEMMA CommasOfLonger ==
    ASSUME NEW t \in Seq(Characters), NEW c \in Characters,
           NEW u \in Seq(Characters), Longer(u, t, c)
    PROVE  /\ \A n \in 0 .. Len(t) : Commas(u, n) = Commas(t, n)
           /\ Commas(u, Len(t) + 1) = IF c = Comma THEN Commas(t, Len(t)) + 1
                                                   ELSE Commas(t, Len(t))
<1>1. PICK L \in Nat : L = Len(t)
  OBVIOUS
<1>2. Len(u) = L + 1 /\ u[L + 1] = c /\ \A n \in 1 .. L : u[n] = t[n]
  BY <1>1 DEF Longer
<1>3. ASSUME NEW n \in 0 .. L
      PROVE  Commas(u, n) = Commas(t, n)
  <2>1. \A b \in 1 .. n : b \in 1 .. L
    OBVIOUS
  <2>2. {b \in 1 .. n : u[b] = Comma} = {b \in 1 .. n : t[b] = Comma}
    BY <1>2, <2>1
  <2> QED
    BY <2>2 DEF Commas
<1>4. Commas(u, L + 1) = IF c = Comma THEN Commas(u, L) + 1 ELSE Commas(u, L)
  BY <1>2, CommasOfMore
<1>5. Commas(u, L) = Commas(t, L)
  BY <1>3
<1> QED
  BY <1>1, <1>3, <1>4, <1>5

-----------------------------------------------------------------------------
\* A piece is right by itself.
Fine(t, i, j) == IsPort(t, i, j) /\ ~(Has(t, i, Dash) /\ Has(t, j, Dash))

\* What has become of a piece: it is in the call of its item or, before that,
\* in the variables "from" and "to".
Ranged(t, i, j, cs, f, l) ==
    /\ Item(t, i) <= Len(cs) =>
           /\ ~Has(t, i, Dash) => cs[Item(t, i)].from = Value(t, i, j)
           /\ ~Has(t, j, Dash) => cs[Item(t, i)].to = Value(t, i, j)
    /\ Item(t, i) > Len(cs) =>
           /\ ~Has(t, i, Dash) => f = Value(t, i, j)
           /\ ~Has(t, j, Dash) => l = Value(t, i, j)

ClosedFine(t) ==
    \A i \in 0 .. Len(t), j \in 1 .. Len(t) : Piece(t, i, j) => Fine(t, i, j)

ClosedRanged(t, cs, f, l) ==
    \A i \in 0 .. Len(t), j \in 1 .. Len(t) :
        Piece(t, i, j) => Ranged(t, i, j, cs, f, l)

\* The last piece is a port, the second of its item in state 3.
LastPort(t, s, v) ==
    \E m \in 0 .. Len(t) :
        /\ Piece(t, m, Len(t) + 1)
        /\ IsPort(t, m, Len(t) + 1)
        /\ Has(t, m, Dash) <=> s = 3
        /\ Value(t, m, Len(t) + 1) = v

LastPart(t, s, f, l) ==
    /\ s = 0 => t = <<>>
    /\ s = 2 => Has(t, Len(t), Dash)
    /\ s = 4 => Has(t, Len(t), Comma)
    /\ s = 1 => LastPort(t, 1, f)
    /\ s = 3 => LastPort(t, 3, l)

Calls == [from : Nat, to : Nat, ok : BOOLEAN]

CallsMade(t, cs, s) ==
    /\ Len(cs) = IF s = 4 THEN Commas(t, Len(t)) - 1 ELSE Commas(t, Len(t))
    /\ \A n \in 1 .. Len(cs) : cs[n].ok

\* How far the parser is, having read the characters t, with the calls cs
\* made, in state s, with f and l in its variables.
Progress(t, cs, s, f, l) ==
    /\ t \in Seq(Characters)
    /\ cs \in Seq(Calls)
    /\ s \in 0 .. 4
    /\ f \in Nat
    /\ l \in Nat
    /\ ClosedFine(t)
    /\ ClosedRanged(t, cs, f, l)
    /\ CallsMade(t, cs, s)
    /\ LastPart(t, s, f, l)

-----------------------------------------------------------------------------
\* A closed piece stays what it is.
LEMMA PieceStays ==
    ASSUME NEW t \in Seq(Characters), NEW c \in Characters,
           NEW u \in Seq(Characters), Longer(u, t, c),
           NEW i \in 0 .. Len(t), NEW j \in 1 .. Len(t), i < j
    PROVE  /\ Piece(u, i, j) <=> Piece(t, i, j)
           /\ Fine(u, i, j) <=> Fine(t, i, j)
           /\ \A cs, f, l : Ranged(t, i, j, cs, f, l) => Ranged(u, i, j, cs, f, l)
<1>1. j \in i + 1 .. Len(t) + 1 /\ j \in 0 .. Len(t)
  OBVIOUS
<1>2. /\ Value(u, i, j) = Value(t, i, j)
      /\ IsPort(u, i, j) <=> IsPort(t, i, j)
  BY <1>1, ValuesOfLonger
<1>3. Dash \in Characters
  BY DEF Characters
<1>4. /\ Has(u, i, Dash) <=> Has(t, i, Dash)
      /\ Has(u, j, Dash) <=> Has(t, j, Dash)
  BY <1>1, <1>3, MarksOfLonger
<1>5. Item(u, i) = Item(t, i)
  BY CommasOfLonger DEF Item
<1>6. Piece(u, i, j) <=> Piece(t, i, j)
  BY PiecesOfLonger
<1>7. Fine(u, i, j) <=> Fine(t, i, j)
  BY <1>2, <1>4 DEF Fine
<1>8. ASSUME NEW cs, NEW f, NEW l, Ranged(t, i, j, cs, f, l)
      PROVE  Ranged(u, i, j, cs, f, l)
  BY <1>2, <1>4, <1>5, <1>8 DEF Ranged
<1> QED
  BY <1>6, <1>7, <1>8

LEMMA ClosedOfDigit ==
    ASSUME NEW t \in Seq(Characters), NEW c \in Characters,
           NEW u \in Seq(Characters), Longer(u, t, c), c \notin {Comma, Dash},
           NEW cs, NEW f, NEW l, ClosedFine(t), ClosedRanged(t, cs, f, l)
    PROVE  ClosedFine(u) /\ ClosedRanged(u, cs, f, l)
<1>1. PICK L \in Nat : L = Len(t)
  OBVIOUS
<1>2. Len(u) = L + 1
  BY <1>1 DEF Longer
<1>3. ASSUME NEW i \in 0 .. L + 1, NEW j \in 1 .. L + 1, Piece(u, i, j)
      PROVE  Fine(u, i, j) /\ Ranged(u, i, j, cs, f, l)
  <2>1. i < j
    BY <1>3 DEF Piece
  <2>2. i \in 0 .. L
    BY <2>1
  <2>3. j # L + 1
    BY <1>1, <1>3, <2>2, PiecesOfLonger
  <2>4. j \in 1 .. L
    BY <2>3
  <2>5. Piece(t, i, j)
    BY <1>1, <1>3, <2>2, <2>4, PiecesOfLonger
  <2>6. Fine(t, i, j) /\ Ranged(t, i, j, cs, f, l)
    BY <1>1, <2>2, <2>4, <2>5 DEF ClosedFine, ClosedRanged
  <2> QED
    BY <1>1, <2>1, <2>2, <2>4, <2>6, PieceStays
<1> QED
  BY <1>2, <1>3 DEF ClosedFine, ClosedRanged

LEMMA ClosedOfMark ==
    ASSUME NEW t \in Seq(Characters), NEW c \in Characters,
           NEW u \in Seq(Characters), Longer(u, t, c), c \in {Comma, Dash},
           NEW cs, NEW f, NEW l, ClosedFine(t), ClosedRanged(t, cs, f, l),
           NEW m \in 0 .. Len(t), Piece(t, m, Len(t) + 1),
           Fine(u, m, Len(t) + 1), Ranged(u, m, Len(t) + 1, cs, f, l)
    PROVE  ClosedFine(u) /\ ClosedRanged(u, cs, f, l)
<1>1. PICK L \in Nat : L = Len(t)
  OBVIOUS
<1>2. Len(u) = L + 1
  BY <1>1 DEF Longer
<1>3. ASSUME NEW i \in 0 .. L + 1, NEW j \in 1 .. L + 1, Piece(u, i, j)
      PROVE  Fine(u, i, j) /\ Ranged(u, i, j, cs, f, l)
  <2>1. i < j
    BY <1>3 DEF Piece
  <2>2. i \in 0 .. L
    BY <2>1
  <2>3. CASE j = L + 1
    <3>1. Piece(t, i, L + 1)
      BY <1>1, <1>3, <2>2, <2>3, PiecesOfLonger
    <3>2. i = m
      BY <1>1, <2>2, <3>1, LastPieceOnce
    <3> QED
      BY <1>1, <2>3, <3>2
  <2>4. CASE j # L + 1
    <3>1. j \in 1 .. L
      BY <2>4
    <3>2. Piece(t, i, j)
      BY <1>1, <1>3, <2>2, <3>1, PiecesOfLonger
    <3>3. Fine(t, i, j) /\ Ranged(t, i, j, cs, f, l)
      BY <1>1, <2>2, <3>1, <3>2 DEF ClosedFine, ClosedRanged
    <3> QED
      BY <1>1, <2>1, <2>2, <3>1, <3>3, PieceStays
  <2> QED
    BY <2>3, <2>4
<1> QED
  BY <1>2, <1>3 DEF ClosedFine, ClosedRanged

\* An item that has ended is in its call, unless its comma has just been read.
LEMMA EndedItem ==
    ASSUME NEW t \in Seq(Characters), NEW i \in 0 .. Len(t),
           NEW j \in 1 .. Len(t), Piece(t, i, j), ~Has(t, j, Dash)
    PROVE  Item(t, i) <= Commas(t, Len(t))
<1>1. i < j /\ t[j] = Comma
  BY DEF Piece, Mark, Has
<1>2. Commas(t, i) + 1 <= Commas(t, j)
  BY <1>1, CommaBetween
<1>3. Commas(t, j) <= Commas(t, Len(t))
  BY CommasOrdered
<1>4. /\ Commas(t, i) \in Nat /\ Commas(t, j) \in Nat
      /\ Commas(t, Len(t)) \in Nat
  <2>1. j \in 0 .. Len(t) /\ Len(t) \in 0 .. Len(t)
    OBVIOUS
  <2> QED
    BY <2>1, ItemTyped
<1> QED
  BY <1>2, <1>3, <1>4 DEF Item

\* Then nothing depends on "to" ...
LEMMA AnyLast ==
    ASSUME NEW t \in Seq(Characters), NEW cs, Len(cs) = Commas(t, Len(t)),
           NEW f, NEW l, ClosedRanged(t, cs, f, l)
    PROVE  \A y : ClosedRanged(t, cs, f, y)
<1> SUFFICES ASSUME NEW y, NEW i \in 0 .. Len(t), NEW j \in 1 .. Len(t),
                    Piece(t, i, j)
             PROVE  Ranged(t, i, j, cs, f, y)
  BY DEF ClosedRanged
<1>1. Ranged(t, i, j, cs, f, l)
  BY DEF ClosedRanged
<1>2. ~Has(t, j, Dash) => Item(t, i) <= Len(cs)
  BY EndedItem
<1>3. Item(t, i) \in Nat /\ Len(cs) \in Nat
  <2>1. Len(t) \in 0 .. Len(t)
    OBVIOUS
  <2> QED
    BY <2>1, ItemTyped
<1>4. ~Has(t, j, Dash) => ~(Item(t, i) > Len(cs))
  BY <1>2, <1>3
<1> QED
  BY <1>1, <1>4 DEF Ranged

\* ... nor on "from" while the first port of an item is read.
LEMMA AnyFirst ==
    ASSUME NEW t \in Seq(Characters), NEW cs, Len(cs) = Commas(t, Len(t)),
           NEW f, NEW l, ClosedRanged(t, cs, f, l),
           NEW m \in 0 .. Len(t), Piece(t, m, Len(t) + 1), ~Has(t, m, Dash)
    PROVE  \A x, y : ClosedRanged(t, cs, x, y)
<1> SUFFICES ASSUME NEW x, NEW y, NEW i \in 0 .. Len(t), NEW j \in 1 .. Len(t),
                    Piece(t, i, j)
             PROVE  Ranged(t, i, j, cs, x, y)
  BY DEF ClosedRanged
<1>1. Ranged(t, i, j, cs, f, l)
  BY DEF ClosedRanged
<1>2. j <= m
  BY ClosedBeforeLast
<1>3. i < m /\ m \in 1 .. Len(t)
  BY <1>2 DEF Piece
<1>4. t[m] = Comma
  BY <1>3 DEF Piece, Mark, Has
<1>5. Commas(t, i) + 1 <= Commas(t, m) /\ Commas(t, m) <= Commas(t, Len(t))
  BY <1>3, <1>4, CommaBetween, CommasOrdered
<1>6. /\ Commas(t, i) \in Nat /\ Commas(t, m) \in Nat
      /\ Commas(t, Len(t)) \in Nat
  <2>1. Len(t) \in 0 .. Len(t)
    OBVIOUS
  <2> QED
    BY <2>1, ItemTyped
<1>7. ~(Item(t, i) > Len(cs))
  BY <1>5, <1>6 DEF Item
<1> QED
  BY <1>1, <1>7 DEF Ranged

\* One call more, for the item that "from" and "to" hold.
LEMMA OneCallMore ==
    ASSUME NEW cs \in Seq(Calls), NEW f \in Nat, NEW l \in Nat, NEW n \in Nat \ {0},
           n <= Len(cs) + 1
    PROVE  /\ Append(cs, [from |-> f, to |-> l, ok |-> TRUE]) \in Seq(Calls)
           /\ Len(Append(cs, [from |-> f, to |-> l, ok |-> TRUE])) = Len(cs) + 1
           /\ n <= Len(cs) =>
                  Append(cs, [from |-> f, to |-> l, ok |-> TRUE])[n] = cs[n]
           /\ n > Len(cs) =>
                  /\ Append(cs, [from |-> f, to |-> l, ok |-> TRUE])[n].from = f
                  /\ Append(cs, [from |-> f, to |-> l, ok |-> TRUE])[n].to = l
                  /\ Append(cs, [from |-> f, to |-> l, ok |-> TRUE])[n].ok
<1>1. PICK r \in Calls : r = [from |-> f, to |-> l, ok |-> TRUE]
  BY DEF Calls
<1>2. r.from = f /\ r.to = l /\ r.ok
  BY <1>1
<1>3. /\ Append(cs, r) \in Seq(Calls)
      /\ Len(Append(cs, r)) = Len(cs) + 1
      /\ \A b \in 1 .. Len(cs) : Append(cs, r)[b] = cs[b]
      /\ Append(cs, r)[Len(cs) + 1] = r
  OBVIOUS
<1>4. n <= Len(cs) => n \in 1 .. Len(cs)
  OBVIOUS
<1>5. n > Len(cs) => n = Len(cs) + 1
  OBVIOUS
<1> QED
  BY <1>1, <1>2, <1>3, <1>4, <1>5

-----------------------------------------------------------------------------
\* A digit makes a port, or makes it longer.
LEMMA PortGrows ==
    ASSUME NEW t \in Seq(Characters), NEW c \in Digits,
           NEW u \in Seq(Characters), Longer(u, t, c),
           NEW m \in 0 .. Len(t), Piece(t, m, Len(t) + 1),
           \A n \in m + 1 .. Len(t) : t[n] \in Digits
    PROVE  /\ Piece(u, m, Len(u) + 1)
           /\ \A n \in m + 1 .. Len(u) : u[n] \in Digits
           /\ Value(u, m, Len(u) + 1) = Value(t, m, Len(t) + 1) * PortBase + c
           /\ Value(u, m, Len(u) + 1) <= MaxPort => IsPort(u, m, Len(u) + 1)
           /\ Has(u, m, Dash) <=> Has(t, m, Dash)
<1>1. PICK L \in Nat : L = Len(t)
  OBVIOUS
<1>2. Len(u) = L + 1 /\ u[L + 1] = c /\ \A n \in 1 .. L : u[n] = t[n]
  BY <1>1 DEF Longer
<1>3. c \in Characters /\ c \notin {Comma, Dash} /\ Dash \in Characters
  BY CharactersApart DEF Characters
<1>4. Piece(u, m, L + 2)
  BY <1>1, <1>3, PiecesOfLonger
<1>5. Value(u, m, L + 2) = Value(t, m, L + 1) * PortBase + c
  BY <1>1, <1>3, ValuesOfLonger
<1>6. Has(u, m, Dash) <=> Has(t, m, Dash)
  BY <1>3, MarksOfLonger
<1>7. ASSUME NEW n \in m + 1 .. L + 1
      PROVE  u[n] \in Digits
  <2>1. n = L + 1 \/ (n \in m + 1 .. L /\ n \in 1 .. L)
    BY <1>1
  <2> QED
    BY <1>1, <1>2, <2>1
<1>8. m + 1 < L + 2 /\ (L + 2) - 1 = L + 1 /\ (L + 1) + 1 = L + 2
  BY <1>1
<1>9. Value(u, m, L + 2) <= MaxPort => IsPort(u, m, L + 2)
  BY <1>7, <1>8 DEF IsPort
<1> QED
  BY <1>1, <1>2, <1>4, <1>5, <1>6, <1>7, <1>8, <1>9

LEMMA ProgressBegins ==
    ASSUME NEW f \in Nat, NEW l \in Nat
    PROVE  Progress(<<>>, <<>>, 0, f, l)
<1>1. Len(<<>>) = 0 /\ \A j \in 1 .. 0 : FALSE
  OBVIOUS
<1>2. Commas(<<>>, 0) = 0
  <2>1. {m \in 1 .. 0 : <<>>[m] = Comma} = {}
    OBVIOUS
  <2> QED
    BY <2>1, FS_EmptySet DEF Commas
<1>3. ClosedFine(<<>>) /\ ClosedRanged(<<>>, <<>>, f, l)
  BY <1>1 DEF ClosedFine, ClosedRanged
<1>4. CallsMade(<<>>, <<>>, 0)
  BY <1>1, <1>2 DEF CallsMade
<1>5. LastPart(<<>>, 0, f, l)
  BY DEF LastPart
<1>6. <<>> \in Seq(Characters) /\ <<>> \in Seq(Calls) /\ 0 \in 0 .. 4
  OBVIOUS
<1> QED
  BY <1>3, <1>4, <1>5, <1>6 DEF Progress

\* The first digit of a port: after nothing, after a dash, after a comma.
LEMMA NewPort ==
    ASSUME NEW t \in Seq(Characters), NEW c \in Digits,
           NEW u \in Seq(Characters), Longer(u, t, c), Mark(t, Len(t)),
           NEW s, Has(t, Len(t), Dash) <=> s = 3
    PROVE  LastPort(u, s, c)
<1>1. PICK m \in 0 .. Len(t) : m = Len(t)
  OBVIOUS
<1>2. Piece(t, m, Len(t) + 1)
  BY <1>1, EmptyPiece
<1>3. \A n \in m + 1 .. Len(t) : t[n] \in Digits
  BY <1>1
<1>4. Value(t, m, Len(t) + 1) = 0
  BY <1>1, ValueOfNone
<1>5. /\ Piece(u, m, Len(u) + 1)
      /\ Value(u, m, Len(u) + 1) = Value(t, m, Len(t) + 1) * PortBase + c
      /\ Value(u, m, Len(u) + 1) <= MaxPort => IsPort(u, m, Len(u) + 1)
      /\ Has(u, m, Dash) <=> Has(t, m, Dash)
  BY <1>2, <1>3, PortGrows
<1>6. 0 * PortBase + c = c /\ c <= MaxPort
  BY PortsAssumption DEF Digits
<1>7. m \in 0 .. Len(u)
  BY DEF Longer
<1> QED
  BY <1>1, <1>4, <1>5, <1>6, <1>7 DEF LastPort

LEMMA FirstDigitProgress ==
    ASSUME NEW t, NEW cs, NEW s \in {0, 2}, NEW f, NEW l,
           Progress(t, cs, s, f, l),
           NEW c \in Digits, NEW u, Longer(u, t, c)
    PROVE  Progress(u, cs, s + 1, IF s = 0 THEN c ELSE f,
                    IF s = 2 THEN c ELSE l)
<1>1. /\ t \in Seq(Characters) /\ cs \in Seq(Calls) /\ f \in Nat /\ l \in Nat
      /\ ClosedFine(t) /\ ClosedRanged(t, cs, f, l)
      /\ CallsMade(t, cs, s) /\ LastPart(t, s, f, l)
  BY DEF Progress
<1>2. u \in Seq(Characters)
  BY DEF Longer
<1>3. c \in Characters /\ c \notin {Comma, Dash} /\ c \in Nat
  BY CharactersApart
<1>4. PICK x \in Nat : x = IF s = 0 THEN c ELSE f
  BY <1>1, <1>3
<1>5. PICK y \in Nat : y = IF s = 2 THEN c ELSE l
  BY <1>1, <1>3
<1>6. /\ Len(cs) = Commas(t, Len(t))
      /\ \A n \in 1 .. Len(cs) : cs[n].ok
  BY <1>1 DEF CallsMade
<1>7. ClosedRanged(t, cs, x, y)
  <2>1. CASE s = 0
    <3>1. Len(t) = 0 /\ \A j \in 1 .. 0 : FALSE
      BY <1>1, <2>1 DEF LastPart
    <3> QED
      BY <3>1 DEF ClosedRanged
  <2>2. CASE s = 2
    <3>1. x = f
      BY <1>4, <2>2
    <3> QED
      BY <1>1, <1>6, <3>1, AnyLast
  <2> QED
    BY <2>1, <2>2
<1>8. ClosedFine(u) /\ ClosedRanged(u, cs, x, y)
  BY <1>1, <1>2, <1>3, <1>7, ClosedOfDigit
<1>9. CallsMade(u, cs, s + 1)
  <2>1. Commas(u, Len(t) + 1) = Commas(t, Len(t)) /\ Len(u) = Len(t) + 1
    BY <1>1, <1>2, <1>3, CharactersApart, CommasOfLonger DEF Longer
  <2> QED
    BY <1>6, <2>1 DEF CallsMade
<1>10. Mark(t, Len(t)) /\ (Has(t, Len(t), Dash) <=> s + 1 = 3)
  <2>1. CASE s = 0
    <3>1. Len(t) = 0
      BY <1>1, <2>1 DEF LastPart
    <3> QED
      BY <2>1, <3>1 DEF Mark, Has
  <2>2. CASE s = 2
    <3>1. Has(t, Len(t), Dash)
      BY <1>1, <2>2 DEF LastPart
    <3> QED
      BY <2>2, <3>1 DEF Mark, Has
  <2> QED
    BY <2>1, <2>2
<1>11. LastPort(u, s + 1, c)
  BY <1>1, <1>2, <1>10, NewPort
<1>12. LastPart(u, s + 1, x, y)
  BY <1>4, <1>5, <1>11 DEF LastPart
<1>13. s + 1 \in 0 .. 4
  OBVIOUS
<1>14. Progress(u, cs, s + 1, x, y)
  BY <1>1, <1>2, <1>8, <1>9, <1>12, <1>13 DEF Progress
<1> QED
  BY <1>4, <1>5, <1>14

LEMMA NextDigitProgress ==
    ASSUME NEW t, NEW cs, NEW s \in {1, 3}, NEW f, NEW l,
           Progress(t, cs, s, f, l),
           NEW c \in Digits, NEW u, Longer(u, t, c),
           NEW p, p = (IF s = 1 THEN f ELSE l) * PortBase + c, p <= MaxPort
    PROVE  Progress(u, cs, s, IF s = 1 THEN p ELSE f, IF s = 3 THEN p ELSE l)
<1>1. /\ t \in Seq(Characters) /\ cs \in Seq(Calls) /\ f \in Nat /\ l \in Nat
      /\ ClosedFine(t) /\ ClosedRanged(t, cs, f, l)
      /\ CallsMade(t, cs, s) /\ LastPart(t, s, f, l)
  BY DEF Progress
<1>2. u \in Seq(Characters)
  BY DEF Longer
<1>3. c \in Characters /\ c \notin {Comma, Dash} /\ c \in Nat /\ PortBase \in Nat
  BY CharactersApart
<1>4. PICK v \in Nat : v = IF s = 1 THEN f ELSE l
  BY <1>1
<1>5. v * PortBase + c \in Nat
  BY <1>3
<1>6. p = v * PortBase + c /\ p \in Nat
  BY <1>4, <1>5
<1>7. PICK x \in Nat : x = IF s = 1 THEN p ELSE f
  BY <1>1, <1>6
<1>8. PICK y \in Nat : y = IF s = 3 THEN p ELSE l
  BY <1>1, <1>6
<1>9. /\ Len(cs) = Commas(t, Len(t))
      /\ \A n \in 1 .. Len(cs) : cs[n].ok
  BY <1>1 DEF CallsMade
<1>10. PICK m \in 0 .. Len(t) :
           /\ Piece(t, m, Len(t) + 1)
           /\ IsPort(t, m, Len(t) + 1)
           /\ Has(t, m, Dash) <=> s = 3
           /\ Value(t, m, Len(t) + 1) = v
  <2>1. LastPort(t, s, v)
    BY <1>1, <1>4 DEF LastPart
  <2> QED
    BY <2>1 DEF LastPort
<1>11. ClosedRanged(t, cs, x, y)
  <2>1. CASE s = 1
    BY <1>1, <1>9, <1>10, <2>1, AnyFirst
  <2>2. CASE s = 3
    <3>1. x = f
      BY <1>7, <2>2
    <3> QED
      BY <1>1, <1>9, <3>1, AnyLast
  <2> QED
    BY <2>1, <2>2
<1>12. ClosedFine(u) /\ ClosedRanged(u, cs, x, y)
  BY <1>1, <1>2, <1>3, <1>11, ClosedOfDigit
<1>13. CallsMade(u, cs, s)
  <2>1. Commas(u, Len(t) + 1) = Commas(t, Len(t)) /\ Len(u) = Len(t) + 1
    BY <1>1, <1>2, <1>3, CharactersApart, CommasOfLonger DEF Longer
  <2> QED
    BY <1>9, <2>1 DEF CallsMade
<1>14. LastPort(u, s, p)
  <2>1. \A n \in m + 1 .. Len(t) : t[n] \in Digits
    <3>1. m + 1 .. Len(t) = m + 1 .. (Len(t) + 1) - 1
      BY <1>1
    <3> QED
      BY <1>10, <3>1 DEF IsPort
  <2>2. /\ Piece(u, m, Len(u) + 1)
        /\ Value(u, m, Len(u) + 1) = v * PortBase + c
        /\ Value(u, m, Len(u) + 1) <= MaxPort => IsPort(u, m, Len(u) + 1)
        /\ Has(u, m, Dash) <=> Has(t, m, Dash)
    BY <1>1, <1>2, <1>10, <2>1, PortGrows
  <2>3. m \in 0 .. Len(u)
    BY <1>1 DEF Longer
  <2> QED
    BY <1>6, <1>10, <2>2, <2>3 DEF LastPort
<1>15. LastPart(u, s, x, y)
  BY <1>7, <1>8, <1>14 DEF LastPart
<1>16. s \in 0 .. 4
  OBVIOUS
<1>17. Progress(u, cs, s, x, y)
  BY <1>1, <1>2, <1>12, <1>13, <1>15, <1>16 DEF Progress
<1> QED
  BY <1>7, <1>8, <1>17

\* A comma or a dash ends a port.
LEMMA SeparatorProgress ==
    ASSUME NEW t, NEW cs, NEW s \in {1, 3}, NEW f, NEW l,
           Progress(t, cs, s, f, l),
           NEW c \in {Comma, Dash}, ~(s = 3 /\ c = Dash),
           NEW u, Longer(u, t, c)
    PROVE  Progress(u, cs, IF c = Comma THEN 4 ELSE 2, f,
                    IF s = 1 /\ c = Comma THEN f ELSE l)
<1>1. /\ t \in Seq(Characters) /\ cs \in Seq(Calls) /\ f \in Nat /\ l \in Nat
      /\ ClosedFine(t) /\ ClosedRanged(t, cs, f, l)
      /\ CallsMade(t, cs, s) /\ LastPart(t, s, f, l)
  BY DEF Progress
<1>2. u \in Seq(Characters)
  BY DEF Longer
<1>3. /\ c \in Characters /\ Comma \in Characters /\ Dash \in Characters
      /\ Comma # Dash
  BY CharactersApart DEF Characters
<1>4. PICK v \in Nat : v = IF s = 1 THEN f ELSE l
  BY <1>1
<1>5. PICK y \in Nat : y = IF s = 1 /\ c = Comma THEN f ELSE l
  BY <1>1
<1>6. PICK x \in 0 .. 4 : x = IF c = Comma THEN 4 ELSE 2
  OBVIOUS
<1>7. /\ Len(cs) = Commas(t, Len(t))
      /\ \A n \in 1 .. Len(cs) : cs[n].ok
  BY <1>1 DEF CallsMade
<1>8. PICK m \in 0 .. Len(t) :
          /\ Piece(t, m, Len(t) + 1)
          /\ IsPort(t, m, Len(t) + 1)
          /\ Has(t, m, Dash) <=> s = 3
          /\ Value(t, m, Len(t) + 1) = v
  <2>1. LastPort(t, s, v)
    BY <1>1, <1>4 DEF LastPart
  <2> QED
    BY <2>1 DEF LastPort
<1>9. /\ Has(u, m, Dash) <=> s = 3
      /\ Has(u, Len(t) + 1, Dash) <=> c = Dash
      /\ Has(u, Len(t) + 1, Comma) <=> c = Comma
  BY <1>1, <1>2, <1>3, <1>8, MarksOfLonger
<1>10. /\ Value(u, m, Len(t) + 1) = v
       /\ IsPort(u, m, Len(t) + 1)
  <2>1. Len(t) + 1 \in m + 1 .. Len(t) + 1
    BY <1>1
  <2> QED
    BY <1>1, <1>2, <1>3, <1>8, <2>1, ValuesOfLonger
<1>11. Item(u, m) > Len(cs) /\ ~(Item(u, m) <= Len(cs))
  <2>1. \A n \in m + 1 .. Len(t) : t[n] # Comma
    <3>1. m + 1 .. Len(t) = m + 1 .. (Len(t) + 1) - 1
      BY <1>1
    <3> QED
      BY <1>8, <3>1, CharactersApart DEF IsPort
  <2>2. Commas(t, m) = Commas(t, Len(t))
    BY <1>1, <2>1, NoCommaBetween
  <2>3. Commas(u, m) = Commas(t, m)
    BY <1>1, <1>2, <1>3, CommasOfLonger
  <2>4. Len(cs) \in Nat
    BY <1>1
  <2> QED
    BY <1>7, <2>2, <2>3, <2>4 DEF Item
<1>12. Fine(u, m, Len(t) + 1)
  BY <1>9, <1>10 DEF Fine
<1>13. Ranged(u, m, Len(t) + 1, cs, f, y)
  BY <1>3, <1>4, <1>5, <1>9, <1>10, <1>11 DEF Ranged
<1>14. ClosedRanged(t, cs, f, y)
  BY <1>1, <1>7, AnyLast
<1>15. ClosedFine(u) /\ ClosedRanged(u, cs, f, y)
  BY <1>1, <1>2, <1>3, <1>8, <1>12, <1>13, <1>14, ClosedOfMark
<1>16. CallsMade(u, cs, x)
  <2>1. /\ Commas(u, Len(t) + 1) = IF c = Comma THEN Commas(t, Len(t)) + 1
                                               ELSE Commas(t, Len(t))
        /\ Len(u) = Len(t) + 1
    BY <1>1, <1>2, <1>3, CommasOfLonger DEF Longer
  <2>2. Len(cs) \in Nat
    BY <1>1
  <2> QED
    BY <1>6, <1>7, <2>1, <2>2 DEF CallsMade
<1>17. LastPart(u, x, f, y)
  <2>1. Len(u) = Len(t) + 1
    BY DEF Longer
  <2> QED
    BY <1>3, <1>6, <1>9, <2>1 DEF LastPart
<1>18. Progress(u, cs, x, f, y)
  BY <1>1, <1>2, <1>15, <1>16, <1>17 DEF Progress
<1> QED
  BY <1>5, <1>6, <1>18

AllOk(cs) == \A n \in 1 .. Len(cs) : cs[n].ok

\* The call of the item of a piece holds it.
InCall(t, i, j, cs) ==
    /\ cs[Item(t, i)].ok
    /\ ~Has(t, i, Dash) => cs[Item(t, i)].from = Value(t, i, j)
    /\ ~Has(t, j, Dash) => cs[Item(t, i)].to = Value(t, i, j)

\* The call that is made for an item holds its pieces.
LEMMA RangeAdded ==
    ASSUME NEW t \in Seq(Characters), NEW cs \in Seq(Calls), NEW f \in Nat,
           NEW l \in Nat, NEW i \in 0 .. Len(t), NEW j,
           Ranged(t, i, j, cs, f, l), Item(t, i) <= Len(cs) + 1, AllOk(cs),
           NEW ds, ds = Append(cs, [from |-> f, to |-> l, ok |-> TRUE])
    PROVE  InCall(t, i, j, ds)
<1>1. PICK n \in Nat \ {0} : n = Item(t, i)
  BY ItemTyped
<1>2. /\ n <= Len(cs) => ds[n] = cs[n]
      /\ n > Len(cs) => ds[n].from = f /\ ds[n].to = l /\ ds[n].ok
  BY <1>1, OneCallMore
<1>3. CASE n <= Len(cs)
  <2>1. n \in 1 .. Len(cs)
    BY <1>3
  <2> QED
    BY <1>1, <1>2, <1>3, <2>1 DEF Ranged, InCall, AllOk
<1>4. CASE n > Len(cs)
  BY <1>1, <1>2, <1>4 DEF Ranged, InCall
<1>5. n <= Len(cs) \/ n > Len(cs)
  OBVIOUS
<1> QED
  BY <1>3, <1>4, <1>5

\* The first digit of an item, with the item before it added.
LEMMA NextItemProgress ==
    ASSUME NEW t, NEW cs, NEW f, NEW l, Progress(t, cs, 4, f, l),
           NEW c \in Digits, NEW u, Longer(u, t, c),
           NEW ds, ds = Append(cs, [from |-> f, to |-> l, ok |-> TRUE])
    PROVE  Progress(u, ds, 1, c, l)
<1>1. /\ t \in Seq(Characters) /\ cs \in Seq(Calls) /\ f \in Nat /\ l \in Nat
      /\ ClosedFine(t) /\ ClosedRanged(t, cs, f, l)
      /\ CallsMade(t, cs, 4) /\ LastPart(t, 4, f, l)
  BY DEF Progress
<1>2. u \in Seq(Characters)
  BY DEF Longer
<1>3. c \in Characters /\ c \notin {Comma, Dash} /\ c \in Nat
  BY CharactersApart
<1>4. /\ Len(cs) = Commas(t, Len(t)) - 1
      /\ \A n \in 1 .. Len(cs) : cs[n].ok
      /\ Has(t, Len(t), Comma)
  BY <1>1 DEF CallsMade, LastPart
<1>5. /\ ds \in Seq(Calls)
      /\ Len(ds) = Len(cs) + 1
      /\ \A n \in 1 .. Len(ds) : ds[n].ok
  <2>1. PICK r \in Calls : r = [from |-> f, to |-> l, ok |-> TRUE]
    BY <1>1 DEF Calls
  <2>2. /\ Append(cs, r) \in Seq(Calls)
        /\ Len(Append(cs, r)) = Len(cs) + 1
        /\ \A b \in 1 .. Len(cs) : Append(cs, r)[b] = cs[b]
        /\ Append(cs, r)[Len(cs) + 1] = r
    BY <1>1
  <2>3. \A n \in 1 .. Len(cs) + 1 : n \in 1 .. Len(cs) \/ n = Len(cs) + 1
    BY <1>1
  <2> QED
    BY <1>4, <2>1, <2>2, <2>3
<1>6. Len(ds) = Commas(t, Len(t))
  BY <1>1, <1>4, <1>5, ItemTyped
<1>7. ASSUME NEW i \in 0 .. Len(t), NEW j \in 1 .. Len(t), Piece(t, i, j)
      PROVE  Ranged(t, i, j, ds, c, l)
  <2>1. Ranged(t, i, j, cs, f, l)
    BY <1>1, <1>7 DEF ClosedRanged
  <2>2. Commas(t, i) + 1 <= Commas(t, Len(t))
    <3>1. i < Len(t) /\ i \in Nat /\ Len(t) \in Nat
      BY <1>1, <1>7 DEF Piece
    <3>2. t[Len(t)] = Comma
      BY <1>4 DEF Has
    <3> QED
      BY <3>1, <3>2, CommaBetween
  <2>3. Item(t, i) <= Len(cs) + 1 /\ Item(t, i) <= Len(ds)
    BY <1>5, <1>6, <2>2 DEF Item
  <2>4. InCall(t, i, j, ds)
    <3>1. AllOk(cs)
      BY <1>4 DEF AllOk
    <3> QED
      BY <1>1, <2>1, <2>3, <3>1, RangeAdded
  <2>5. Item(t, i) \in Nat /\ Len(ds) \in Nat
    BY <1>1, <1>5, ItemTyped
  <2>6. ~(Item(t, i) > Len(ds))
    BY <2>3, <2>5
  <2> QED
    BY <2>4, <2>6 DEF Ranged, InCall
<1>8. ClosedRanged(t, ds, c, l)
  BY <1>7 DEF ClosedRanged
<1>9. ClosedFine(u) /\ ClosedRanged(u, ds, c, l)
  BY <1>1, <1>2, <1>3, <1>8, ClosedOfDigit
<1>10. CallsMade(u, ds, 1)
  <2>1. Commas(u, Len(t) + 1) = Commas(t, Len(t)) /\ Len(u) = Len(t) + 1
    BY <1>1, <1>2, <1>3, CharactersApart, CommasOfLonger DEF Longer
  <2> QED
    BY <1>5, <1>6, <2>1 DEF CallsMade
<1>11. Mark(t, Len(t)) /\ ~Has(t, Len(t), Dash)
  BY <1>4, CharactersApart DEF Has, Mark
<1>12. LastPort(u, 1, c)
  BY <1>1, <1>2, <1>11, NewPort
<1>13. LastPart(u, 1, c, l)
  BY <1>12 DEF LastPart
<1> QED
  BY <1>1, <1>2, <1>3, <1>5, <1>9, <1>10, <1>13 DEF Progress

\* Where the text may end, it is a list whose last item is yet to be added.
LEMMA ProgressEnds ==
    ASSUME NEW t, NEW cs, NEW s \in {1, 3}, NEW f, NEW l,
           Progress(t, cs, s, f, l),
           NEW ds, ds = Append(cs, [from |-> f,
                                    to |-> IF s = 1 THEN f ELSE l, ok |-> TRUE])
    PROVE  IsList(t) /\ Added(t, ds)
<1>1. /\ t \in Seq(Characters) /\ cs \in Seq(Calls) /\ f \in Nat /\ l \in Nat
      /\ ClosedFine(t) /\ ClosedRanged(t, cs, f, l)
      /\ CallsMade(t, cs, s) /\ LastPart(t, s, f, l)
  BY DEF Progress
<1>2. PICK v \in Nat : v = IF s = 1 THEN f ELSE l
  BY <1>1
<1>3. ds = Append(cs, [from |-> f, to |-> v, ok |-> TRUE])
  BY <1>2
<1>4. /\ Len(cs) = Commas(t, Len(t))
      /\ \A n \in 1 .. Len(cs) : cs[n].ok
  BY <1>1 DEF CallsMade
<1>5. PICK m \in 0 .. Len(t) :
          /\ Piece(t, m, Len(t) + 1)
          /\ IsPort(t, m, Len(t) + 1)
          /\ Has(t, m, Dash) <=> s = 3
          /\ Value(t, m, Len(t) + 1) = v
  <2>1. LastPort(t, s, v)
    BY <1>1, <1>2 DEF LastPart
  <2> QED
    BY <2>1 DEF LastPort
<1>6. ~Has(t, Len(t) + 1, Dash)
  BY <1>1 DEF Has
<1>7. Fine(t, m, Len(t) + 1)
  BY <1>5, <1>6 DEF Fine
<1>8. Ranged(t, m, Len(t) + 1, cs, f, v)
  <2>1. \A n \in m + 1 .. Len(t) : t[n] # Comma
    <3>1. m + 1 .. Len(t) = m + 1 .. (Len(t) + 1) - 1
      BY <1>1
    <3> QED
      BY <1>5, <3>1, CharactersApart DEF IsPort
  <2>2. Commas(t, m) = Commas(t, Len(t))
    BY <1>1, <2>1, NoCommaBetween
  <2>3. Len(cs) \in Nat
    BY <1>1
  <2>4. ~(Item(t, m) <= Len(cs))
    BY <1>4, <2>2, <2>3 DEF Item
  <2>5. ~Has(t, m, Dash) => f = v
    BY <1>2, <1>5
  <2> QED
    BY <1>5, <2>4, <2>5 DEF Ranged
<1>9. ClosedRanged(t, cs, f, v)
  BY <1>1, <1>4, AnyLast
<1>10. ASSUME NEW i \in 0 .. Len(t), NEW j \in 1 .. Len(t) + 1, Piece(t, i, j)
       PROVE  Fine(t, i, j) /\ Ranged(t, i, j, cs, f, v)
  <2>1. CASE j = Len(t) + 1
    <3>1. i = m
      BY <1>1, <1>5, <1>10, <2>1, LastPieceOnce
    <3> QED
      BY <1>7, <1>8, <2>1, <3>1
  <2>2. CASE j # Len(t) + 1
    <3>1. j \in 1 .. Len(t)
      BY <1>1, <2>2
    <3> QED
      BY <1>1, <1>9, <1>10, <3>1 DEF ClosedFine, ClosedRanged
  <2> QED
    BY <2>1, <2>2
<1>11. IsList(t)
  BY <1>10 DEF IsList, Fine
<1>12. ASSUME NEW i \in 0 .. Len(t), NEW j \in 1 .. Len(t) + 1, Piece(t, i, j)
       PROVE  InCall(t, i, j, ds)
  <2>1. Ranged(t, i, j, cs, f, v)
    BY <1>10, <1>12
  <2>2. Commas(t, i) <= Commas(t, Len(t))
    BY <1>1, CommasOrdered
  <2>3. Commas(t, i) \in Nat /\ Commas(t, Len(t)) \in Nat
    BY <1>1, ItemTyped
  <2>4. Item(t, i) <= Len(cs) + 1
    BY <1>4, <2>2, <2>3 DEF Item
  <2>5. AllOk(cs)
    BY <1>4 DEF AllOk
  <2> QED
    BY <1>1, <1>3, <2>1, <2>4, <2>5, RangeAdded
<1>13. Len(ds) = Item(t, Len(t))
  <2>1. PICK r \in Calls : r = [from |-> f, to |-> v, ok |-> TRUE]
    BY <1>1 DEF Calls
  <2>2. Len(Append(cs, r)) = Len(cs) + 1
    BY <1>1
  <2> QED
    BY <1>3, <1>4, <2>1, <2>2 DEF Item
<1>14. Added(t, ds)
  BY <1>12, <1>13 DEF Added, InCall
<1> QED
  BY <1>11, <1>14

-----------------------------------------------------------------------------
(* Texts that are no lists, whatever digits follow.                        *)

ClosedWrong(t) ==
    \E i \in 0 .. Len(t), j \in 1 .. Len(t) : Piece(t, i, j) /\ ~Fine(t, i, j)

LastNoNumber(t) ==
    \E m \in 0 .. Len(t) :
        /\ Piece(t, m, Len(t) + 1)
        /\ \E n \in m + 1 .. Len(t) : t[n] \notin Digits

LastTooGreat(t) ==
    \E m \in 0 .. Len(t) :
        /\ Piece(t, m, Len(t) + 1)
        /\ \A n \in m + 1 .. Len(t) : t[n] \in Digits
        /\ Value(t, m, Len(t) + 1) > MaxPort

Hopeless(t) == ClosedWrong(t) \/ LastNoNumber(t) \/ LastTooGreat(t)

LEMMA HopelessIsNoList ==
    ASSUME NEW t \in Seq(Characters), Hopeless(t)
    PROVE  ~IsList(t)
<1> SUFFICES ASSUME IsList(t) PROVE FALSE
  OBVIOUS
<1>1. PICK L \in Nat : L = Len(t)
  OBVIOUS
<1>2. ASSUME NEW i \in 0 .. L, NEW j \in 1 .. L + 1, Piece(t, i, j)
      PROVE  Fine(t, i, j)
  BY <1>1, <1>2 DEF IsList, Fine
<1>3. ~ClosedWrong(t)
  <2>1. \A j \in 1 .. L : j \in 1 .. L + 1
    OBVIOUS
  <2> QED
    BY <1>1, <1>2, <2>1 DEF ClosedWrong
<1>4. L + 1 \in 1 .. L + 1
  OBVIOUS
<1>5. \A m \in 0 .. L : Piece(t, m, L + 1) => IsPort(t, m, L + 1)
  BY <1>2, <1>4 DEF Fine
<1>6. ~LastNoNumber(t)
  <2>1. \A m \in 0 .. L : m + 1 .. L = m + 1 .. (L + 1) - 1
    OBVIOUS
  <2> QED
    BY <1>1, <1>5, <2>1 DEF LastNoNumber, IsPort
<1>7. ~LastTooGreat(t)
  <2> SUFFICES ASSUME NEW m \in 0 .. L, Piece(t, m, L + 1),
                      \A n \in m + 1 .. L : t[n] \in Digits,
                      Value(t, m, L + 1) > MaxPort
               PROVE  FALSE
    BY <1>1 DEF LastTooGreat
  <2>1. Value(t, m, L + 1) <= MaxPort
    BY <1>5 DEF IsPort
  <2>2. m \in Nat /\ L + 1 \in Nat /\ m < L + 1 /\ (L + 1) - 1 = L
    OBVIOUS
  <2>3. Value(t, m, L + 1) \in Nat
    BY <2>2, ValueTyped
  <2>4. MaxPort \in Nat
    BY PortsAssumption
  <2> QED
    BY <2>1, <2>3, <2>4
<1> QED
  BY <1>3, <1>6, <1>7 DEF Hopeless

LEMMA HopelessStays ==
    ASSUME NEW t \in Seq(Characters), Hopeless(t), NEW c \in Digits,
           NEW u \in Seq(Characters), Longer(u, t, c)
    PROVE  Hopeless(u)
<1>1. PICK L \in Nat : L = Len(t)
  OBVIOUS
<1>2. Len(u) = L + 1 /\ u[L + 1] = c /\ \A n \in 1 .. L : u[n] = t[n]
  BY <1>1 DEF Longer
<1>3. c \in Characters /\ c \notin {Comma, Dash} /\ c \in Nat
  BY CharactersApart
<1>4. CASE ClosedWrong(t)
  <2>1. PICK i \in 0 .. L, j \in 1 .. L : Piece(t, i, j) /\ ~Fine(t, i, j)
    BY <1>1, <1>4 DEF ClosedWrong
  <2>2. i < j
    BY <2>1 DEF Piece
  <2>3. Piece(u, i, j) /\ ~Fine(u, i, j)
    BY <1>1, <1>3, <2>1, <2>2, PieceStays
  <2>4. i \in 0 .. L + 1 /\ j \in 1 .. L + 1
    OBVIOUS
  <2>5. ClosedWrong(u)
    BY <1>2, <2>3, <2>4 DEF ClosedWrong
  <2> QED
    BY <2>5 DEF Hopeless
<1>5. CASE LastNoNumber(t)
  <2>1. PICK m \in 0 .. L :
            Piece(t, m, L + 1) /\ \E n \in m + 1 .. L : t[n] \notin Digits
    BY <1>1, <1>5 DEF LastNoNumber
  <2>2. PICK n \in m + 1 .. L : t[n] \notin Digits
    BY <2>1
  <2>3. Piece(u, m, L + 2)
    BY <1>1, <1>3, <2>1, PiecesOfLonger
  <2>4. /\ m \in 0 .. L + 1 /\ n \in m + 1 .. L + 1 /\ n \in 1 .. L
        /\ (L + 1) + 1 = L + 2
    OBVIOUS
  <2>5. LastNoNumber(u)
    BY <1>2, <2>2, <2>3, <2>4 DEF LastNoNumber
  <2> QED
    BY <2>5 DEF Hopeless
<1>6. CASE LastTooGreat(t)
  <2>1. PICK m \in 0 .. L :
            /\ Piece(t, m, L + 1)
            /\ \A n \in m + 1 .. L : t[n] \in Digits
            /\ Value(t, m, L + 1) > MaxPort
    BY <1>1, <1>6 DEF LastTooGreat
  <2>2. /\ Piece(u, m, Len(u) + 1)
        /\ \A n \in m + 1 .. Len(u) : u[n] \in Digits
        /\ Value(u, m, Len(u) + 1) = Value(t, m, L + 1) * PortBase + c
    BY <1>1, <2>1, PortGrows
  <2>3. m \in Nat /\ L + 1 \in Nat /\ m < L + 1 /\ (L + 1) - 1 = L
    OBVIOUS
  <2>4. PICK v \in Nat : v = Value(t, m, L + 1)
    BY <2>1, <2>3, ValueTyped
  <2>5. v * PortBase >= v
    BY CharactersApart, Grows
  <2>6. v * PortBase \in Nat /\ PortBase \in Nat /\ MaxPort \in Nat
    BY CharactersApart, PortsAssumption
  <2>7. PICK w \in Nat : w = v * PortBase
    BY <2>6
  <2>8. w + c > MaxPort
    BY <1>3, <2>1, <2>4, <2>5, <2>6, <2>7
  <2>9. m \in 0 .. Len(u)
    BY <1>2
  <2>10. LastTooGreat(u)
    BY <2>2, <2>4, <2>7, <2>8, <2>9 DEF LastTooGreat
  <2> QED
    BY <2>10 DEF Hopeless
<1> QED
  BY <1>4, <1>5, <1>6 DEF Hopeless

\* What PortsExact says of a text that is rejected before its end.
LEMMA HopelessForGood ==
    ASSUME NEW t \in Seq(Characters), Hopeless(t)
    PROVE  ~IsList(t) /\ ~IsList(Append(t, 1))
<1>1. 1 \in Digits /\ 1 \in Characters
  BY CharactersApart
<1>2. PICK c \in Digits : c = 1
  BY <1>1
<1>3. c \in Characters
  BY <1>1, <1>2
<1>4. Append(t, c) \in Seq(Characters) /\ Longer(Append(t, c), t, c)
  BY <1>3, AppendIsLonger
<1>5. PICK u \in Seq(Characters) : u = Append(t, c)
  BY <1>4
<1>6. Hopeless(u)
  BY <1>4, <1>5, HopelessStays
<1> QED
  BY <1>2, <1>5, <1>6, HopelessIsNoList

\* In these states a port must begin.
LEMMA PortMustBegin ==
    ASSUME NEW t, NEW cs, NEW s \in {0, 2, 4}, NEW f, NEW l,
           Progress(t, cs, s, f, l)
    PROVE  Mark(t, Len(t)) /\ Piece(t, Len(t), Len(t) + 1)
<1>1. t \in Seq(Characters) /\ LastPart(t, s, f, l)
  BY DEF Progress
<1>2. Mark(t, Len(t))
  <2>1. CASE s = 0
    <3>1. Len(t) = 0
      BY <1>1, <2>1 DEF LastPart
    <3> QED
      BY <3>1 DEF Mark
  <2>2. CASE s # 0
    BY <1>1, <2>2 DEF LastPart, Has, Mark
  <2> QED
    BY <2>1, <2>2
<1> QED
  BY <1>1, <1>2, EmptyPiece

LEMMA EndsTooEarly ==
    ASSUME NEW t, NEW cs, NEW s \in {0, 2, 4}, NEW f, NEW l,
           Progress(t, cs, s, f, l)
    PROVE  ~IsList(t)
<1>1. t \in Seq(Characters)
  BY DEF Progress
<1>2. PICK L \in Nat : L = Len(t)
  BY <1>1
<1>3. Piece(t, L, L + 1)
  BY <1>2, PortMustBegin
<1>4. ~IsPort(t, L, L + 1)
  BY DEF IsPort
<1>5. L \in 0 .. L /\ L + 1 \in 1 .. L + 1
  OBVIOUS
<1> QED
  BY <1>2, <1>3, <1>4, <1>5 DEF IsList

LEMMA TooGreatIsHopeless ==
    ASSUME NEW t, NEW cs, NEW s \in {1, 3}, NEW f, NEW l,
           Progress(t, cs, s, f, l),
           NEW c \in Digits, NEW u, Longer(u, t, c),
           (IF s = 1 THEN f ELSE l) * PortBase + c > MaxPort
    PROVE  Hopeless(u)
<1>1. t \in Seq(Characters) /\ f \in Nat /\ l \in Nat /\ LastPart(t, s, f, l)
  BY DEF Progress
<1>2. u \in Seq(Characters) /\ Len(u) = Len(t) + 1
  BY DEF Longer
<1>3. PICK v \in Nat : v = IF s = 1 THEN f ELSE l
  BY <1>1
<1>4. PICK m \in 0 .. Len(t) :
          /\ Piece(t, m, Len(t) + 1)
          /\ IsPort(t, m, Len(t) + 1)
          /\ Value(t, m, Len(t) + 1) = v
  <2>1. LastPort(t, s, v)
    BY <1>1, <1>3 DEF LastPart
  <2> QED
    BY <2>1 DEF LastPort
<1>5. \A n \in m + 1 .. Len(t) : t[n] \in Digits
  <2>1. m + 1 .. Len(t) = m + 1 .. (Len(t) + 1) - 1
    BY <1>1
  <2> QED
    BY <1>4, <2>1 DEF IsPort
<1>6. /\ Piece(u, m, Len(u) + 1)
      /\ \A n \in m + 1 .. Len(u) : u[n] \in Digits
      /\ Value(u, m, Len(u) + 1) = v * PortBase + c
  BY <1>1, <1>2, <1>4, <1>5, PortGrows
<1>7. m \in 0 .. Len(u)
  BY <1>1, <1>2
<1>8. LastTooGreat(u)
  BY <1>3, <1>6, <1>7 DEF LastTooGreat
<1> QED
  BY <1>8 DEF Hopeless

LEMMA OtherIsHopeless ==
    ASSUME NEW t \in Seq(Characters), NEW u \in Seq(Characters),
           Longer(u, t, Other), NEW m \in 0 .. Len(t), Piece(t, m, Len(t) + 1)
    PROVE  Hopeless(u)
<1>1. PICK L \in Nat : L = Len(t)
  OBVIOUS
<1>2. Len(u) = L + 1 /\ u[L + 1] = Other
  BY <1>1 DEF Longer
<1>3. Other \in Characters /\ Other \notin {Comma, Dash} /\ Other \notin Digits
  BY CharactersApart DEF Characters
<1>4. Piece(u, m, L + 2)
  BY <1>1, <1>3, PiecesOfLonger
<1>5. m \in 0 .. L + 1 /\ L + 1 \in m + 1 .. L + 1 /\ (L + 1) + 1 = L + 2
  BY <1>1
<1>6. LastNoNumber(u)
  BY <1>2, <1>3, <1>4, <1>5 DEF LastNoNumber
<1> QED
  BY <1>6 DEF Hopeless

LEMMA SeparatorIsHopeless ==
    ASSUME NEW t \in Seq(Characters), NEW u \in Seq(Characters),
           NEW c \in {Comma, Dash}, Longer(u, t, c),
           NEW m \in 0 .. Len(t), Piece(t, m, Len(t) + 1),
           m = Len(t) \/ (c = Dash /\ Has(t, m, Dash))
    PROVE  Hopeless(u)
<1>1. PICK L \in Nat : L = Len(t)
  OBVIOUS
<1>2. Len(u) = L + 1
  BY <1>1 DEF Longer
<1>3. c \in Characters /\ Dash \in Characters
  BY DEF Characters
<1>4. Piece(u, m, L + 1)
  BY <1>1, <1>3, PiecesOfLonger
<1>5. ~Fine(u, m, L + 1)
  <2>1. CASE m = L
    <3>1. ~IsPort(u, L, L + 1)
      BY DEF IsPort
    <3> QED
      BY <2>1, <3>1 DEF Fine
  <2>2. CASE c = Dash /\ Has(t, m, Dash)
    <3>1. Has(u, m, Dash) /\ Has(u, L + 1, Dash)
      BY <1>1, <1>3, <2>2, MarksOfLonger
    <3> QED
      BY <3>1 DEF Fine
  <2> QED
    BY <1>1, <2>1, <2>2
<1>6. m \in 0 .. L + 1 /\ L + 1 \in 1 .. L + 1
  BY <1>1
<1>7. ClosedWrong(u)
  BY <1>2, <1>4, <1>5, <1>6 DEF ClosedWrong
<1> QED
  BY <1>7 DEF Hopeless

LEMMA BadCharacterIsHopeless ==
    ASSUME NEW t, NEW cs, NEW s, NEW f, NEW l, Progress(t, cs, s, f, l),
           NEW c \in Characters, NEW u, Longer(u, t, c),
           \/ s \in {0, 2, 4} /\ c \notin Digits
           \/ s = 1 /\ c = Other
           \/ s = 3 /\ c \in {Dash, Other}
    PROVE  Hopeless(u)
<1>1. t \in Seq(Characters) /\ LastPart(t, s, f, l) /\ u \in Seq(Characters)
  BY DEF Progress, Longer
<1>2. CASE s \in {0, 2, 4} /\ c \notin Digits
  <2>1. PICK m \in 0 .. Len(t) : m = Len(t)
    BY <1>1
  <2>2. Piece(t, m, Len(t) + 1)
    BY <1>2, <2>1, PortMustBegin
  <2>3. c \in {Comma, Dash} \/ c = Other
    BY <1>2, CharactersApart
  <2>4. CASE c = Other
    BY <1>1, <2>2, <2>4, OtherIsHopeless
  <2>5. CASE c \in {Comma, Dash}
    BY <1>1, <2>1, <2>2, <2>5, SeparatorIsHopeless
  <2> QED
    BY <2>3, <2>4, <2>5
<1>3. CASE s \in {1, 3} /\ c \in {Dash, Other} /\ (s = 1 => c = Other)
  <2>1. PICK m \in 0 .. Len(t) :
            Piece(t, m, Len(t) + 1) /\ (Has(t, m, Dash) <=> s = 3)
    BY <1>1, <1>3 DEF LastPart, LastPort
  <2>2. CASE c = Other
    BY <1>1, <2>1, <2>2, OtherIsHopeless
  <2>3. CASE s = 3 /\ c = Dash
    BY <1>1, <2>1, <2>3, SeparatorIsHopeless
  <2> QED
    BY <1>3, <2>2, <2>3
<1> QED
  BY <1>2, <1>3

-----------------------------------------------------------------------------
\* While the parser reads, Progress tells what it has; when it has finished,
\* PortsExact holds of the text and the calls.
PortsInv ==
    /\ read = "idle" =>
           text = <<>> /\ calls = <<>> /\ state = 0 /\ from = 0 /\ to = 0
    /\ read = "reading" => Progress(text, calls, state, from, to)
    /\ PortsExact

LEMMA PortsInvInit == PortInit => PortsInv
  BY DEF PortInit, PortsInv, PortsExact

\* A call that is refused is the reason why the list is.
LEMMA RefusedCall ==
    ASSUME NEW cs \in Seq(Calls), NEW f, NEW l, NEW ok \in BOOLEAN, ~ok
    PROVE  \E n \in DOMAIN Append(cs, [from |-> f, to |-> l, ok |-> ok]) :
               ~Append(cs, [from |-> f, to |-> l, ok |-> ok])[n].ok
<1>1. PICK r : r = [from |-> f, to |-> l, ok |-> ok]
  OBVIOUS
<1>2. ~r.ok
  BY <1>1
<1>3. Append(cs, r)[Len(cs) + 1] = r /\ Len(cs) + 1 \in DOMAIN Append(cs, r)
  OBVIOUS
<1> QED
  BY <1>1, <1>2, <1>3

LEMMA CharacterKeepsPorts ==
    ASSUME PortsInv, NEW c \in Characters, PortCharacter(c)
    PROVE  PortsInv'
<1>1. Progress(text, calls, state, from, to)
  BY DEF PortsInv, PortCharacter
<1>2. /\ read = "reading"
      /\ text \in Seq(Characters) /\ calls \in Seq(Calls)
      /\ from \in Nat /\ to \in Nat
  BY <1>1 DEF Progress, PortCharacter
<1>3. Longer(text', text, c) /\ text' \in Seq(Characters)
  <2>1. text' = Append(text, c)
    BY DEF PortCharacter
  <2> QED
    BY <1>2, <2>1, AppendIsLonger DEF Longer
<1>4. ASSUME read' = "reading",
             Progress(text', calls', state', from', to')
      PROVE  PortsInv'
  BY <1>4 DEF PortsInv, PortsExact
<1>5. ASSUME read' = "rejected",
             (\E n \in DOMAIN calls' : ~calls'[n].ok) \/ Hopeless(text')
      PROVE  PortsInv'
  <2>1. Hopeless(text') => ~IsList(text') /\ ~IsList(Append(text', 1))
    BY <1>3, HopelessForGood
  <2> QED
    BY <1>5, <2>1 DEF PortsInv, PortsExact
<1>6. CASE FirstDigit(c)
  <2>1. c \in Digits /\ state \in {0, 2} /\ read' = "reading" /\ calls' = calls
    BY <1>2, <1>6 DEF FirstDigit, Go
  <2>2. Progress(text', calls, state + 1, IF state = 0 THEN c ELSE from,
                 IF state = 2 THEN c ELSE to)
    BY <1>1, <1>3, <2>1, FirstDigitProgress
  <2>3. /\ state' = state + 1
        /\ from' = IF state = 0 THEN c ELSE from
        /\ to' = IF state = 2 THEN c ELSE to
    BY <1>6 DEF FirstDigit, Go
  <2> QED
    BY <1>4, <2>1, <2>2, <2>3
<1>7. CASE NextDigit(c)
  <2>1. c \in Digits /\ state \in {1, 3} /\ calls' = calls
    BY <1>7 DEF NextDigit
  <2>2. PICK p : p = (IF state = 1 THEN from ELSE to) * PortBase + c
    OBVIOUS
  <2>3. CASE p > MaxPort
    <3>1. read' = "rejected"
      BY <1>7, <2>2, <2>3 DEF NextDigit, RejectPorts
    <3>2. Hopeless(text')
      BY <1>1, <1>3, <2>1, <2>2, <2>3, TooGreatIsHopeless
    <3> QED
      BY <1>5, <3>1, <3>2
  <2>4. CASE ~(p > MaxPort)
    <3>1. p <= MaxPort
      <4>1. PICK v \in Nat : v = IF state = 1 THEN from ELSE to
        BY <1>2
      <4>2. v * PortBase + c \in Nat /\ MaxPort \in Nat
        BY <2>1, CharactersApart, PortsAssumption
      <4> QED
        BY <2>2, <2>4, <4>1, <4>2
    <3>2. Progress(text', calls, state, IF state = 1 THEN p ELSE from,
                   IF state = 3 THEN p ELSE to)
      BY <1>1, <1>3, <2>1, <2>2, <3>1, NextDigitProgress
    <3>3. /\ read' = "reading" /\ state' = state
          /\ from' = IF state = 1 THEN p ELSE from
          /\ to' = IF state = 3 THEN p ELSE to
      BY <1>2, <1>7, <2>2, <2>4 DEF NextDigit, Go
    <3> QED
      BY <1>4, <2>1, <3>2, <3>3
  <2> QED
    BY <2>3, <2>4
<1>8. CASE Separator(c)
  <2>1. /\ c \in {Comma, Dash} /\ state \in {1, 3} /\ ~(state = 3 /\ c = Dash)
        /\ read' = "reading" /\ calls' = calls /\ from' = from
        /\ state' = IF c = Comma THEN 4 ELSE 2
        /\ to' = IF state = 1 /\ c = Comma THEN from ELSE to
    BY <1>2, <1>8, CharactersApart DEF Separator, Go
  <2>2. Progress(text', calls, IF c = Comma THEN 4 ELSE 2, from,
                 IF state = 1 /\ c = Comma THEN from ELSE to)
    BY <1>1, <1>3, <2>1, SeparatorProgress
  <2> QED
    BY <1>4, <2>1, <2>2
<1>9. CASE NextItem(c)
  <2>1. PICK ok \in BOOLEAN :
            /\ PortRange(from, to, ok)
            /\ IF ok
               THEN from' = c /\ Go(1) /\ UNCHANGED to
               ELSE RejectPorts
    BY <1>9 DEF NextItem
  <2>2. /\ calls' = Append(calls, [from |-> from, to |-> to, ok |-> ok])
        /\ state = 4 /\ c \in Digits
    BY <1>9, <2>1 DEF NextItem, PortRange
  <2>3. CASE ok
    <3>1. calls' = Append(calls, [from |-> from, to |-> to, ok |-> TRUE])
      BY <2>2, <2>3
    <3>2. Progress(text', calls', 1, c, to)
      BY <1>1, <1>3, <2>2, <3>1, NextItemProgress
    <3>3. read' = "reading" /\ state' = 1 /\ from' = c /\ to' = to
      BY <1>2, <2>1, <2>3 DEF Go
    <3> QED
      BY <1>4, <3>2, <3>3
  <2>4. CASE ~ok
    <3>1. \E n \in DOMAIN calls' : ~calls'[n].ok
      BY <1>2, <2>2, <2>4, RefusedCall
    <3>2. read' = "rejected"
      BY <2>1, <2>4 DEF RejectPorts
    <3> QED
      BY <1>5, <3>1, <3>2
  <2> QED
    BY <2>3, <2>4
<1>10. CASE BadCharacter(c)
  <2>1. Hopeless(text')
    BY <1>1, <1>3, <1>10, BadCharacterIsHopeless DEF BadCharacter
  <2>2. read' = "rejected"
    BY <1>10 DEF BadCharacter, RejectPorts
  <2> QED
    BY <1>5, <2>1, <2>2
<1> QED
  BY <1>6, <1>7, <1>8, <1>9, <1>10 DEF PortCharacter

LEMMA EndKeepsPorts ==
    ASSUME PortsInv, EndOfPorts
    PROVE  PortsInv'
<1>1. Progress(text, calls, state, from, to)
  BY DEF PortsInv, EndOfPorts
<1>2. /\ calls \in Seq(Calls)
      /\ text' = text /\ over' = TRUE
      /\ state \in 0 .. 4
  BY <1>1 DEF Progress, EndOfPorts
<1>3. CASE state \in {1, 3}
  <2>1. PICK ok \in BOOLEAN :
            /\ PortRange(from, IF state = 1 THEN from ELSE to, ok)
            /\ read' = IF ok THEN "accepted" ELSE "rejected"
    BY <1>3 DEF EndOfPorts
  <2>2. calls' = Append(calls, [from |-> from,
                                to |-> IF state = 1 THEN from ELSE to,
                                ok |-> ok])
    BY <2>1 DEF PortRange
  <2>3. CASE ok
    <3>1. calls' = Append(calls, [from |-> from,
                                  to |-> IF state = 1 THEN from ELSE to,
                                  ok |-> TRUE])
      BY <2>2, <2>3
    <3>2. IsList(text) /\ Added(text, calls')
      BY <1>1, <1>3, <3>1, ProgressEnds
    <3> QED
      BY <1>2, <2>1, <2>3, <3>2 DEF PortsInv, PortsExact
  <2>4. CASE ~ok
    <3>1. \E n \in DOMAIN calls' : ~calls'[n].ok
      BY <1>2, <2>2, <2>4, RefusedCall
    <3> QED
      BY <2>1, <2>4, <3>1 DEF PortsInv, PortsExact
  <2> QED
    BY <2>3, <2>4
<1>4. CASE state \notin {1, 3}
  <2>1. read' = "rejected"
    BY <1>4 DEF EndOfPorts
  <2>2. ~IsList(text)
    BY <1>1, <1>2, <1>4, EndsTooEarly
  <2> QED
    BY <1>2, <2>1, <2>2 DEF PortsInv, PortsExact
<1> QED
  BY <1>3, <1>4

LEMMA PortsInvNext == PortsInv /\ [PortNext]_portVars => PortsInv'
<1> SUFFICES ASSUME PortsInv, [PortNext]_portVars
             PROVE  PortsInv'
  OBVIOUS
<1>1. CASE BeginPorts
  <2>1. Progress(<<>>, <<>>, 0, 0, 0)
    BY ProgressBegins
  <2>2. /\ text' = <<>> /\ calls' = <<>> /\ state' = 0 /\ from' = 0 /\ to' = 0
        /\ read' = "reading"
    BY <1>1 DEF BeginPorts, PortsInv
  <2> QED
    BY <2>1, <2>2 DEF PortsInv, PortsExact
<1>2. CASE \E c \in Characters : PortCharacter(c)
  BY <1>2, CharacterKeepsPorts
<1>3. CASE EndOfPorts
  BY <1>3, EndKeepsPorts
<1>4. CASE EndPorts
  BY <1>4 DEF EndPorts, PortsInv, PortsExact
<1>5. CASE UNCHANGED portVars
  BY <1>5 DEF portVars, PortsInv, PortsExact
<1> QED
  BY <1>1, <1>2, <1>3, <1>4, <1>5 DEF PortNext

-----------------------------------------------------------------------------
(* The passes over the arguments and the destinations.                     *)

Reading == {"argument", "rx_size", "tx_size", "ports", "workers"}

\* The types of what the first pass fills, and what it waits for.
Typed ==
    /\ at \in Reading \cup {"check", "create", "add", "start", "failed"}
    /\ reception \in 0 .. MaxIndex
    /\ slot \in 0 .. MaxIndex
    /\ interfaces \in Seq(1 .. MaxIndex)
    /\ Len(interfaces) <= MaxInterfaces
    /\ type \in Types
    /\ nworkers \in 1 .. MaxWorkers
    /\ dests \in Seq(Texts)
    /\ at = "tx_size" => slot \in 1 .. MaxIndex /\ Len(interfaces) < MaxInterfaces
    /\ at = "workers" => limits = WorkerLimits
    /\ read # "idle" => at = "ports"
    /\ scan # "idle" => at \in {"rx_size", "tx_size", "workers"}

Bounded ==
    /\ index \in Tables
    /\ options \in 0 .. MaxOptions
    /\ characters \in 0 .. MaxCharacters
    /\ changes \in 0 .. MaxChanges

\* How far the passes over the destinations are, and what they have found.
\* What cannot be checked anew, that the text is good, does not change.
Passes ==
    /\ k \in 1 .. Len(dests) + 1
    /\ handed \in Seq([interface : 1 .. MaxIndex, af : Families])
    /\ added \in Seq([interface : 1 .. MaxIndex, parsed : BOOLEAN])
    /\ \A n \in 1 .. Len(added) : added[n].parsed
    /\ at \in Reading => k = 1 /\ handed = <<>> /\ added = <<>>
    /\ at \in {"check", "create", "add", "start"} =>
           /\ interfaces # <<>>
           /\ dests # <<>>
           /\ handed \in Seq([interface : ToSet(interfaces), af : Families])
    /\ at = "check" => /\ k \in 1 .. Len(dests)
                       /\ Len(handed) = k - 1
                       /\ \A n \in 1 .. k - 1 : dests[n].good
    /\ at \in {"create", "add", "start"} =>
           /\ Len(handed) = Len(dests)
           /\ \A n \in 1 .. Len(dests) : dests[n].good
    /\ at = "create" => k = 1
    /\ at = "add" => k \in 1 .. Len(dests)

CommandInv == NumberInv /\ Typed /\ Bounded /\ Passes

-----------------------------------------------------------------------------
LEMMA CommandInit == Init => CommandInv
<1> SUFFICES ASSUME Init
             PROVE  CommandInv
  OBVIOUS
<1>1. NumberInv
  BY NumberInvInit DEF Init
<1>2. {MaxIndex, MaxInterfaces, MaxOptions, MaxCharacters, MaxChanges}
          \subseteq Nat
  BY CommandLineAssumption
<1>3. Typed
  BY <1>2, MaxWorkersAssumption
     DEF Init, NumberInit, PortInit, Typed, Reading, Types
<1>4. Bounded
  BY <1>2 DEF Init, Bounded
<1>5. Passes
  BY DEF Init, Passes, Reading
<1> QED
  BY <1>1, <1>3, <1>4, <1>5 DEF CommandInv

\* Every step is one of the parser of numbers, or none of its business.
LEMMA NumberPart == [Next]_vars => [NumberNext]_numberVars
<1> SUFFICES ASSUME [Next]_vars
             PROVE  [NumberNext]_numberVars
  OBVIOUS
<1>1. SizeLimits \in Limits /\ WorkerLimits \in Limits
  BY CommandLineAssumption
<1>2. ASSUME NEW name \in Names, NEW sized \in BOOLEAN, Rx(name, sized)
      PROVE  [NumberNext]_numberVars
  BY <1>1, <1>2 DEF Rx, NumberNext
<1>3. ASSUME NEW name \in Names, NEW good \in BOOLEAN, NEW sized \in BOOLEAN,
             Tx(name, good, sized)
      PROVE  [NumberNext]_numberVars
  BY <1>1, <1>3 DEF Tx, NumberNext
<1>4. CASE NumberWorkers
  BY <1>1, <1>4 DEF NumberWorkers, NumberNext
<1>5. CASE NumberCharacter
  BY <1>5 DEF NumberCharacter, NumberNext
<1>6. CASE TakeNumber
  BY <1>6 DEF TakeNumber, NumberNext
<1>7. CASE \E dest \in Texts : Dest(dest)
  BY <1>7 DEF Dest, parsers
<1>8. CASE \E t \in Types : Type(t)
  BY <1>8 DEF Type, parsers
<1>9. CASE Ports \/ PortListStep \/ TakePorts
  BY <1>9 DEF Ports, PortListStep, TakePorts
<1>10. CASE BadOption \/ EndOfArguments \/ Check \/ Create \/ Add \/ Change
  BY <1>10 DEF BadOption, EndOfArguments, Check, Create, Add, Change, parsers
<1>11. CASE UNCHANGED vars
  BY <1>11 DEF vars, parsers
<1> QED
  BY <1>2, <1>3, <1>4, <1>5, <1>6, <1>7, <1>8, <1>9, <1>10, <1>11 DEF Next

\* Likewise for the parser of ports.
LEMMA PortPart == [Next]_vars => [PortNext]_portVars
<1> SUFFICES ASSUME [Next]_vars
             PROVE  [PortNext]_portVars
  OBVIOUS
<1>1. CASE Ports
  BY <1>1 DEF Ports, PortNext
<1>2. CASE PortListStep
  BY <1>2 DEF PortListStep, PortNext
<1>3. CASE TakePorts
  BY <1>3 DEF TakePorts, PortNext
<1>4. ASSUME NEW name \in Names, NEW sized \in BOOLEAN, Rx(name, sized)
      PROVE  UNCHANGED portVars
  BY <1>4 DEF Rx
<1>5. ASSUME NEW name \in Names, NEW good \in BOOLEAN, NEW sized \in BOOLEAN,
             Tx(name, good, sized)
      PROVE  UNCHANGED portVars
  BY <1>5 DEF Tx, parsers
<1>6. CASE NumberWorkers \/ NumberCharacter \/ TakeNumber
  BY <1>6 DEF NumberWorkers, NumberCharacter, TakeNumber
<1>7. CASE \E dest \in Texts : Dest(dest)
  BY <1>7 DEF Dest, parsers
<1>8. CASE \E t \in Types : Type(t)
  BY <1>8 DEF Type, parsers
<1>9. CASE BadOption \/ EndOfArguments \/ Check \/ Create \/ Add \/ Change
  BY <1>9 DEF BadOption, EndOfArguments, Check, Create, Add, Change, parsers
<1>10. CASE UNCHANGED vars
  BY <1>10 DEF vars, parsers
<1> QED
  BY <1>1, <1>2, <1>3, <1>4, <1>5, <1>6, <1>7, <1>8, <1>9, <1>10 DEF Next

LEMMA PortsAlways == Spec => []PortsInv
<1>1. Init => PortsInv
  BY PortsInvInit DEF Init
<1>2. PortsInv /\ [Next]_vars => PortsInv'
  BY PortPart, PortsInvNext
<1> QED
  BY <1>1, <1>2, PTL DEF Spec

-----------------------------------------------------------------------------
(* The pass over the arguments.                                            *)

\* It leaves alone what the later passes work with.
LEMMA ReadingKeepsPasses ==
    ASSUME Passes, at \in Reading, at' \in Reading \cup {"failed"},
           UNCHANGED later, dests' \in Seq(Texts)
    PROVE  Passes'
<1>1. /\ k' = 1 /\ handed' = <<>> /\ added' = <<>>
      /\ Len(dests') \in Nat
  BY DEF Passes, later
<1>2. /\ 1 \in 1 .. Len(dests') + 1
      /\ Len(added') = 0
  BY <1>1
<1>3. /\ k' \in 1 .. Len(dests') + 1
      /\ handed' \in Seq([interface : 1 .. MaxIndex, af : Families])
      /\ added' \in Seq([interface : 1 .. MaxIndex, parsed : BOOLEAN])
      /\ \A n \in 1 .. Len(added') : added'[n].parsed
  BY <1>1, <1>2
<1> QED
  BY <1>1, <1>3 DEF Passes, Reading

LEMMA IndexOfName ==
    ASSUME Bounded, NEW name \in Names
    PROVE  /\ MaxIndex \in Nat
           /\ index[name] \in 0 .. MaxIndex
           /\ index[name] > 0 => index[name] \in 1 .. MaxIndex
<1>1. MaxIndex \in Nat
  BY CommandLineAssumption
<1>2. index \in [Names -> 0 .. MaxIndex]
  BY DEF Bounded, Tables
<1>3. index[name] \in 0 .. MaxIndex
  BY <1>2
<1> QED
  BY <1>1, <1>3

LEMMA OptionKeeps ==
    ASSUME Bounded, Option
    PROVE  Bounded'
<1>1. MaxOptions \in Nat
  BY CommandLineAssumption
<1> QED
  BY <1>1 DEF Option, Bounded, system

LEMMA MoreInterfaces ==
    ASSUME Typed, NEW i \in 1 .. MaxIndex, Len(interfaces) < MaxInterfaces,
           interfaces' = Append(interfaces, i)
    PROVE  interfaces' \in Seq(1 .. MaxIndex) /\ Len(interfaces') <= MaxInterfaces
<1>1. MaxInterfaces \in Nat
  BY CommandLineAssumption
<1>2. interfaces \in Seq(1 .. MaxIndex)
  BY DEF Typed
<1>3. /\ Append(interfaces, i) \in Seq(1 .. MaxIndex)
      /\ Len(Append(interfaces, i)) = Len(interfaces) + 1
      /\ Len(interfaces) \in Nat
  BY <1>2
<1> QED
  BY <1>1, <1>3

LEMMA RxKeeps ==
    ASSUME CommandInv, NEW name \in Names, NEW sized \in BOOLEAN, Rx(name, sized)
    PROVE  Typed' /\ Bounded' /\ Passes'
<1>1. at = "argument" /\ UNCHANGED later /\ Bounded'
  BY OptionKeeps DEF Rx, Option, CommandInv
<1>2. reception' \in 0 .. MaxIndex
  BY IndexOfName DEF Rx, CommandInv
<1>3. at' \in {"argument", "rx_size", "failed"}
  BY DEF Rx
<1>4. scan' # "idle" => at' = "rx_size"
  <2>1. scan = "idle"
    BY <1>1 DEF CommandInv, Typed
  <2> QED
    BY <2>1 DEF Rx, numberVars
<1>5. read' = "idle"
  BY <1>1 DEF Rx, portVars, CommandInv, Typed
<1>6. UNCHANGED <<slot, interfaces, type, nworkers, dests>>
  BY DEF Rx
<1>7. Typed'
  BY <1>2, <1>3, <1>4, <1>5, <1>6 DEF CommandInv, Typed, Reading
<1>8. Passes'
  BY <1>1, <1>3, <1>7, ReadingKeepsPasses DEF CommandInv, Typed, Reading
<1> QED
  BY <1>1, <1>7, <1>8

LEMMA TxKeeps ==
    ASSUME CommandInv, NEW name \in Names, NEW good \in BOOLEAN,
           NEW sized \in BOOLEAN, Tx(name, good, sized)
    PROVE  Typed' /\ Bounded' /\ Passes'
<1>1. at = "argument" /\ UNCHANGED later /\ Bounded'
  BY OptionKeeps DEF Tx, Option, CommandInv
<1>2. at' \in {"argument", "tx_size", "failed"}
  BY DEF Tx
<1>3. slot' \in 0 .. MaxIndex
  BY IndexOfName DEF Tx, CommandInv, Typed
<1>4. at' = "tx_size" =>
          /\ slot' \in 1 .. MaxIndex
          /\ interfaces' = interfaces
          /\ Len(interfaces) < MaxInterfaces
  <2>1. index[name] > 0 => index[name] \in 1 .. MaxIndex
    BY IndexOfName DEF CommandInv
  <2> QED
    BY <1>1, <2>1 DEF Tx
<1>5. interfaces' \in Seq(1 .. MaxIndex) /\ Len(interfaces') <= MaxInterfaces
  <2>1. CASE interfaces' = interfaces
    BY <2>1 DEF CommandInv, Typed
  <2>2. CASE interfaces' # interfaces
    <3>1. /\ Len(interfaces) < MaxInterfaces
          /\ index[name] > 0
          /\ interfaces' = Append(interfaces, index[name])
      BY <2>2 DEF Tx
    <3>2. index[name] \in 1 .. MaxIndex
      BY <3>1, IndexOfName DEF CommandInv
    <3> QED
      BY <3>1, <3>2, MoreInterfaces DEF CommandInv
  <2> QED
    BY <2>1, <2>2
<1>6. scan' # "idle" => at' = "tx_size"
  <2>1. scan = "idle"
    BY <1>1 DEF CommandInv, Typed
  <2> QED
    BY <2>1 DEF Tx, numberVars
<1>7. read' = "idle"
  BY <1>1 DEF Tx, portVars, CommandInv, Typed
<1>8. UNCHANGED <<reception, type, nworkers, dests>>
  BY DEF Tx
<1>9. Typed'
  BY <1>2, <1>3, <1>4, <1>5, <1>6, <1>7, <1>8 DEF CommandInv, Typed, Reading
<1>10. Passes'
  BY <1>1, <1>2, <1>9, ReadingKeepsPasses DEF CommandInv, Typed, Reading
<1> QED
  BY <1>1, <1>9, <1>10

\* The options that are done at once, and those whose value is parsed next.
LEMMA OtherOptionKeeps ==
    ASSUME CommandInv,
           \/ \E dest \in Texts : Dest(dest)
           \/ \E t \in Types : Type(t)
           \/ Ports
           \/ NumberWorkers
           \/ BadOption
    PROVE  Typed' /\ Bounded' /\ Passes'
<1>1. at = "argument" /\ UNCHANGED later /\ Bounded'
  BY OptionKeeps DEF Dest, Type, Ports, NumberWorkers, BadOption, Option, CommandInv
<1>2. scan = "idle" /\ read = "idle"
  BY <1>1 DEF CommandInv, Typed
<1>3. dests' \in Seq(Texts)
  <2>1. dests \in Seq(Texts)
    BY DEF CommandInv, Typed
  <2>2. ASSUME NEW dest \in Texts, Dest(dest)
        PROVE  dests' \in Seq(Texts)
    BY <2>1, <2>2 DEF Dest
  <2> QED
    BY <2>1, <2>2 DEF Type, Ports, NumberWorkers, BadOption, parsed
<1>4. type' \in Types
  BY DEF Dest, Type, Ports, NumberWorkers, BadOption, parsed, CommandInv, Typed
<1>5. UNCHANGED <<reception, slot, interfaces, nworkers>>
  BY DEF Dest, Type, Ports, NumberWorkers, BadOption, parsed
<1>6. /\ at' \in {"argument", "ports", "workers", "failed"}
      /\ at' = "workers" => limits' = WorkerLimits
      /\ read' # "idle" => at' = "ports"
      /\ scan' # "idle" => at' = "workers"
  BY <1>1, <1>2 DEF Dest, Type, Ports, NumberWorkers, BadOption, parsers,
                    numberVars, portVars, BeginNumber, BeginPorts
<1>7. Typed'
  BY <1>3, <1>4, <1>5, <1>6 DEF CommandInv, Typed, Reading
<1>8. Passes'
  BY <1>1, <1>3, <1>6, ReadingKeepsPasses DEF CommandInv, Reading
<1> QED
  BY <1>1, <1>7, <1>8

\* A character of a number or of a list of ports.
LEMMA CharacterKeeps ==
    ASSUME CommandInv, NumberCharacter \/ PortListStep
    PROVE  Typed' /\ Bounded' /\ Passes'
<1>1. UNCHANGED <<at, parsed, later, system>>
  BY DEF NumberCharacter, PortListStep
<1>2. /\ scan' # "idle" => scan # "idle"
      /\ limits' = limits
  BY DEF NumberCharacter, PortListStep, NumberStep, Digit, Unit,
         OtherCharacter, EndOfText, numberVars
<1>3. read' # "idle" => read # "idle"
  BY DEF NumberCharacter, PortListStep, PortCharacter, EndOfPorts, portVars
<1>4. characters' \in 0 .. MaxCharacters /\ options' = options
  <2>1. MaxCharacters \in Nat
    BY CommandLineAssumption
  <2>2. OneCharacter \/ UNCHANGED bounds
    BY DEF NumberCharacter, PortListStep
  <2> QED
    BY <2>1, <2>2 DEF OneCharacter, bounds, CommandInv, Bounded
<1>5. Typed'
  BY <1>1, <1>2, <1>3 DEF CommandInv, Typed, parsed
<1>6. Bounded'
  BY <1>1, <1>4 DEF CommandInv, Bounded, system
<1>7. Passes'
  BY <1>1 DEF CommandInv, Passes, parsed, later
<1> QED
  BY <1>5, <1>6, <1>7

\* A number that was accepted is one that the caller allows.
LEMMA TakeNumberKeeps ==
    ASSUME CommandInv, TakeNumber
    PROVE  Typed' /\ Bounded' /\ Passes'
<1>1. /\ at \in {"rx_size", "tx_size", "workers"}
      /\ scan \in {"accepted", "rejected"}
      /\ scan' = "idle"
      /\ read' = read
      /\ read = "idle"
  BY DEF CommandInv, Typed, TakeNumber, EndNumber, portVars
<1>2. /\ at' \in {"argument", "failed"}
      /\ UNCHANGED <<reception, slot, type, dests, later, system, bounds>>
  BY DEF TakeNumber
<1>3. interfaces' \in Seq(1 .. MaxIndex) /\ Len(interfaces') <= MaxInterfaces
  <2>1. CASE interfaces' = interfaces
    BY <2>1 DEF CommandInv, Typed
  <2>2. CASE interfaces' # interfaces
    <3>1. at = "tx_size" /\ interfaces' = Append(interfaces, slot)
      BY <2>2 DEF TakeNumber
    <3> QED
      BY <3>1, MoreInterfaces DEF CommandInv, Typed
  <2> QED
    BY <2>1, <2>2
<1>4. nworkers' \in 1 .. MaxWorkers
  <2>1. CASE scan = "accepted" /\ at = "workers"
    <3>1. res \in limits.min .. limits.max /\ limits = WorkerLimits
      BY <2>1 DEF CommandInv, NumberInv, NumberExact, Allowed, Typed
    <3>2. WorkerLimits.min = 1 /\ WorkerLimits.max = MaxWorkers
      BY CommandLineAssumption
    <3>3. nworkers' = res
      BY <2>1 DEF TakeNumber
    <3> QED
      BY <3>1, <3>2, <3>3
  <2>2. CASE ~(scan = "accepted" /\ at = "workers")
    BY <2>2 DEF TakeNumber, CommandInv, Typed
  <2> QED
    BY <2>1, <2>2
<1>5. Typed'
  BY <1>1, <1>2, <1>3, <1>4 DEF CommandInv, Typed, Reading
<1>6. Bounded'
  BY <1>2 DEF CommandInv, Bounded, system, bounds
<1>7. Passes'
  BY <1>1, <1>2, <1>5, ReadingKeepsPasses DEF CommandInv, Typed, Reading
<1> QED
  BY <1>5, <1>6, <1>7

LEMMA TakePortsKeeps ==
    ASSUME CommandInv, TakePorts
    PROVE  Typed' /\ Bounded' /\ Passes'
<1>1. /\ at = "ports"
      /\ read' = "idle"
      /\ scan' = "idle"
  BY DEF CommandInv, Typed, TakePorts, EndPorts, numberVars
<1>2. /\ at' \in {"argument", "failed"}
      /\ UNCHANGED <<parsed, later, system, bounds>>
  BY DEF TakePorts
<1>3. Typed'
  BY <1>1, <1>2 DEF CommandInv, Typed, Reading, parsed
<1>4. Bounded'
  BY <1>2 DEF CommandInv, Bounded, system, bounds
<1>5. Passes'
  BY <1>1, <1>2, <1>3, ReadingKeepsPasses DEF CommandInv, Typed, Reading
<1> QED
  BY <1>3, <1>4, <1>5

-----------------------------------------------------------------------------
(* The passes over the destinations.                                       *)

\* From here on only main()'s place and the history change.
LEMMA ParsedStays ==
    ASSUME CommandInv, at \notin {"rx_size", "tx_size", "ports", "workers"},
           at' \in {"check", "create", "add", "start", "failed"},
           UNCHANGED <<parsed, system, bounds, parsers>>
    PROVE  Typed' /\ Bounded'
<1>1. Typed'
  BY DEF CommandInv, Typed, Reading, parsed, parsers, numberVars, portVars
<1>2. Bounded'
  BY DEF CommandInv, Bounded, system, bounds
<1> QED
  BY <1>1, <1>2

LEMMA EndOfArgumentsKeeps ==
    ASSUME CommandInv, EndOfArguments
    PROVE  Typed' /\ Bounded' /\ Passes'
<1>1. /\ at = "argument"
      /\ at' \in {"check", "failed"}
      /\ UNCHANGED <<parsed, later, system, bounds, parsers>>
  BY DEF EndOfArguments
<1>2. Typed' /\ Bounded'
  BY <1>1, ParsedStays
<1>3. Passes'
  <2>1. /\ k = 1 /\ handed = <<>> /\ added = <<>>
        /\ dests \in Seq(Texts)
    BY <1>1 DEF CommandInv, Passes, Typed, Reading
  <2>2. CASE at' = "failed"
    BY <1>1, <2>2 DEF CommandInv, Passes, parsed, later, Reading
  <2>3. CASE at' = "check"
    <3>1. interfaces # <<>> /\ dests # <<>>
      BY <2>3 DEF EndOfArguments
    <3>2. Len(dests) \in Nat \ {0}
      BY <2>1, <3>1
    <3>3. /\ k \in 1 .. Len(dests)
          /\ Len(handed) = k - 1
          /\ \A n \in 1 .. k - 1 : dests[n].good
          /\ handed \in Seq([interface : ToSet(interfaces), af : Families])
      BY <2>1, <3>2
    <3> QED
      BY <1>1, <2>3, <3>1, <3>3 DEF CommandInv, Passes, parsed, later, Reading
  <2> QED
    BY <1>1, <2>2, <2>3
<1> QED
  BY <1>2, <1>3

\* What is known of a destination that parse_destination() has found good.
LEMMA GoodDestination ==
    ASSUME CommandInv, NEW d \in Texts
    PROVE  /\ d.good \in BOOLEAN /\ Destination(d) \in BOOLEAN
           /\ Destination(d) => /\ d.good
                                /\ Dst(d) \in [interface : 1 .. MaxIndex,
                                               af : Families]
                                /\ Dst(d) \in [interface : ToSet(interfaces),
                                               af : Families]
<1>1. d.name \in Names /\ d.good \in BOOLEAN /\ d.af \in Families
  BY CommandLineAssumption
<1>2. index[d.name] > 0 => index[d.name] \in 1 .. MaxIndex
  BY <1>1, IndexOfName DEF CommandInv
<1>3. Destination(d) \in BOOLEAN
  BY <1>1 DEF Destination, Listed
<1> QED
  BY <1>1, <1>2, <1>3 DEF Destination, Listed, Dst

LEMMA CheckKeeps ==
    ASSUME CommandInv, Check
    PROVE  Typed' /\ Bounded' /\ Passes'
<1>1. /\ at = "check"
      /\ UNCHANGED <<parsed, added, system, bounds, parsers>>
  BY DEF Check
<1>2. at' \in {"check", "create", "failed"}
  BY <1>1 DEF Check, NextDestination
<1>3. Typed' /\ Bounded'
  BY <1>1, <1>2, ParsedStays
<1>4. /\ dests \in Seq(Texts) /\ Len(dests) \in Nat
      /\ k \in 1 .. Len(dests)
      /\ Len(handed) = k - 1
      /\ \A n \in 1 .. k - 1 : dests[n].good
      /\ handed \in Seq([interface : 1 .. MaxIndex, af : Families])
      /\ handed \in Seq([interface : ToSet(interfaces), af : Families])
      /\ interfaces # <<>> /\ dests # <<>>
  BY <1>1 DEF CommandInv, Typed, Passes
<1>5. dests[k] \in Texts
  BY <1>4
<1>6. /\ dests' = dests /\ interfaces' = interfaces
      /\ added' \in Seq([interface : 1 .. MaxIndex, parsed : BOOLEAN])
      /\ \A n \in 1 .. Len(added') : added'[n].parsed
  BY <1>1 DEF CommandInv, Passes, parsed
<1>7. CASE Destination(dests[k])
  <2>1. /\ handed' = Append(handed, Dst(dests[k]))
        /\ NextDestination("create")
    BY <1>7 DEF Check
  <2>2. /\ handed' \in Seq([interface : 1 .. MaxIndex, af : Families])
        /\ handed' \in Seq([interface : ToSet(interfaces), af : Families])
        /\ Len(handed') = k
    <3>1. /\ Dst(dests[k]) \in [interface : 1 .. MaxIndex, af : Families]
          /\ Dst(dests[k]) \in [interface : ToSet(interfaces), af : Families]
      BY <1>5, <1>7, GoodDestination
    <3> DEFINE One == [interface : 1 .. MaxIndex, af : Families]
               Two == [interface : ToSet(interfaces), af : Families]
    <3> HIDE DEF One, Two
    <3>2. /\ handed \in Seq(One) /\ handed \in Seq(Two)
          /\ Dst(dests[k]) \in One /\ Dst(dests[k]) \in Two
      BY <1>4, <3>1 DEF One, Two
    <3>3. /\ handed' \in Seq(One) /\ handed' \in Seq(Two)
          /\ Len(handed') = k - 1 + 1
      BY <1>4, <2>1, <3>2
    <3> QED
      BY <1>4, <3>3 DEF One, Two
  <2>3. \A n \in 1 .. k : dests[n].good
    <3>1. dests[k].good
      BY <1>5, <1>7, GoodDestination
    <3> QED
      BY <1>4, <3>1
  <2>4. CASE k < Len(dests)
    <3>1. at' = "check" /\ k' = k + 1
      BY <1>1, <2>1, <2>4 DEF NextDestination
    <3>2. k' \in 1 .. Len(dests) /\ k' \in 1 .. Len(dests) + 1 /\ k' - 1 = k
      BY <1>4, <2>4, <3>1
    <3>3. /\ \A n \in 1 .. k' - 1 : dests[n].good
          /\ Len(handed') = k' - 1
      BY <2>2, <2>3, <3>2
    <3>4. Passes'
      BY <1>4, <1>6, <2>2, <3>1, <3>2, <3>3, Zenon DEF Passes, Reading
    <3> QED
      BY <1>3, <3>4
  <2>5. CASE ~(k < Len(dests))
    <3>1. at' = "create" /\ k' = 1 /\ k = Len(dests)
      BY <1>4, <2>1, <2>5 DEF NextDestination
    <3>2. k' \in 1 .. Len(dests) + 1
      BY <1>4, <3>1
    <3>3. /\ \A n \in 1 .. Len(dests) : dests[n].good
          /\ Len(handed') = Len(dests)
      BY <2>2, <2>3, <3>1
    <3>4. Passes'
      BY <1>4, <1>6, <2>2, <3>1, <3>2, <3>3, Zenon DEF Passes, Reading
    <3> QED
      BY <1>3, <3>4
  <2> QED
    BY <1>3, <2>4, <2>5
<1>8. CASE ~Destination(dests[k])
  <2>1. at' = "failed" /\ UNCHANGED <<k, handed>>
    BY <1>8 DEF Check
  <2> QED
    BY <1>1, <1>3, <2>1 DEF CommandInv, Passes, parsed, Reading
<1> QED
  BY <1>7, <1>8

LEMMA AddKeeps ==
    ASSUME CommandInv, Add
    PROVE  Typed' /\ Bounded' /\ Passes'
<1>1. /\ at = "add"
      /\ UNCHANGED <<parsed, handed, system, bounds, parsers>>
  BY DEF Add
<1>2. at' \in {"add", "start", "failed"}
  BY <1>1 DEF Add, NextDestination
<1>3. Typed' /\ Bounded'
  BY <1>1, <1>2, ParsedStays
<1>4. /\ dests \in Seq(Texts) /\ Len(dests) \in Nat
      /\ k \in 1 .. Len(dests)
      /\ dests[k].good
      /\ added \in Seq([interface : 1 .. MaxIndex, parsed : BOOLEAN])
      /\ \A n \in 1 .. Len(added) : added[n].parsed
  BY <1>1 DEF CommandInv, Typed, Passes
<1>5. dests[k] \in Texts
  BY <1>4
<1>6. /\ dests' = dests /\ interfaces' = interfaces /\ handed' = handed
      /\ handed \in Seq([interface : 1 .. MaxIndex, af : Families])
      /\ handed \in Seq([interface : ToSet(interfaces), af : Families])
      /\ interfaces # <<>> /\ dests # <<>>
      /\ Len(handed) = Len(dests)
      /\ \A n \in 1 .. Len(dests) : dests[n].good
  BY <1>1 DEF CommandInv, Passes, parsed
<1> DEFINE d == dests[k]
           new == [interface |-> index[d.name], parsed |-> Destination(d)]
<1>7. CASE Known(index[d.name])
  <2>1. added' = Append(added, new) /\ NextDestination("start")
    BY <1>7 DEF Add
  <2>2. Destination(d)
    BY <1>4, <1>7 DEF Known, Destination
  <2>3. /\ new \in [interface : 1 .. MaxIndex, parsed : BOOLEAN]
        /\ new.parsed
    <3>1. index[d.name] \in 1 .. MaxIndex
      BY <1>5, <2>2, GoodDestination DEF Dst
    <3>2. Destination(d) \in BOOLEAN
      BY <1>5, GoodDestination
    <3> QED
      BY <2>2, <3>1, <3>2
  <2> HIDE DEF new
  <2>4. /\ added' \in Seq([interface : 1 .. MaxIndex, parsed : BOOLEAN])
        /\ \A n \in 1 .. Len(added') : added'[n].parsed
    <3> DEFINE One == [interface : 1 .. MaxIndex, parsed : BOOLEAN]
    <3>1. added \in Seq(One) /\ new \in One
      BY <1>4, <2>3
    <3> HIDE DEF One
    <3>2. /\ added' \in Seq(One)
          /\ Len(added') = Len(added) + 1
          /\ Len(added) \in Nat
          /\ \A n \in 1 .. Len(added) : added'[n] = added[n]
          /\ added'[Len(added) + 1] = new
      BY <2>1, <3>1
    <3>3. ASSUME NEW n \in 1 .. Len(added')
          PROVE  added'[n].parsed
      <4>1. n \in 1 .. Len(added) \/ n = Len(added) + 1
        BY <3>2
      <4> QED
        BY <1>4, <2>3, <3>2, <4>1
    <3> QED
      BY <3>2, <3>3 DEF One
  <2>5. CASE k < Len(dests)
    <3>1. at' = "add" /\ k' = k + 1
      BY <1>1, <2>1, <2>5 DEF NextDestination
    <3>2. k' \in 1 .. Len(dests) /\ k' \in 1 .. Len(dests) + 1
      BY <1>4, <2>5, <3>1
    <3>3. Passes'
      BY <1>6, <2>4, <3>1, <3>2, Zenon DEF Passes, Reading
    <3> QED
      BY <1>3, <3>3
  <2>6. CASE ~(k < Len(dests))
    <3>1. at' = "start" /\ k' = 1
      BY <2>1, <2>6 DEF NextDestination
    <3>2. k' \in 1 .. Len(dests) + 1
      BY <1>4, <3>1
    <3>3. Passes'
      BY <1>6, <2>4, <3>1, <3>2, Zenon DEF Passes, Reading
    <3> QED
      BY <1>3, <3>3
  <2> QED
    BY <1>3, <2>5, <2>6
<1>8. CASE ~Known(index[d.name])
  <2>1. at' = "failed" /\ UNCHANGED <<k, added>>
    BY <1>8 DEF Add
  <2> QED
    BY <1>1, <1>3, <2>1 DEF CommandInv, Passes, parsed, Reading
<1> QED
  BY <1>7, <1>8

LEMMA CommandNext == CommandInv /\ [Next]_vars => CommandInv'
<1> SUFFICES ASSUME CommandInv, [Next]_vars
             PROVE  Typed' /\ Bounded' /\ Passes'
  BY NumberPart, NumberInvNext DEF CommandInv
<1>1. CASE Create
  <2>1. /\ at = "create"
        /\ at' \in {"add", "failed"}
        /\ UNCHANGED <<parsed, later, system, bounds, parsers>>
    BY <1>1 DEF Create
  <2>2. Typed' /\ Bounded'
    BY <2>1, ParsedStays
  <2>3. k \in 1 .. Len(dests)
    <3>1. k = 1 /\ dests # <<>> /\ dests \in Seq(Texts)
      BY <2>1 DEF CommandInv, Typed, Passes
    <3>2. Len(dests) \in Nat \ {0}
      BY <3>1
    <3> QED
      BY <3>1, <3>2
  <2>4. Passes'
    BY <2>1, <2>3 DEF CommandInv, Passes, parsed, later, Reading
  <2> QED
    BY <2>2, <2>4
<1>2. CASE Change
  <2>1. UNCHANGED <<at, parsed, later, bounds, parsers>> /\ index' \in Tables
    BY <1>2 DEF Change
  <2>2. changes' \in 0 .. MaxChanges
    <3>1. MaxChanges \in Nat
      BY CommandLineAssumption
    <3> QED
      BY <1>2, <3>1 DEF Change, CommandInv, Bounded
  <2>3. Typed'
    BY <2>1 DEF CommandInv, Typed, parsed, parsers, numberVars, portVars
  <2>4. Bounded'
    BY <2>1, <2>2 DEF CommandInv, Bounded, bounds
  <2>5. Passes'
    BY <2>1 DEF CommandInv, Passes, parsed, later
  <2> QED
    BY <2>3, <2>4, <2>5
<1>3. CASE UNCHANGED vars
  BY <1>3 DEF CommandInv, Typed, Bounded, Passes, vars, parsed, later, system,
              bounds, parsers, numberVars, portVars
<1> QED
  BY <1>1, <1>2, <1>3, RxKeeps, TxKeeps, OtherOptionKeeps, CharacterKeeps,
     TakeNumberKeeps, TakePortsKeeps, EndOfArgumentsKeeps, CheckKeeps, AddKeeps
     DEF Next

LEMMA CommandAlways == Spec => []CommandInv
<1> QED
  BY CommandInit, CommandNext, PTL DEF Spec

-----------------------------------------------------------------------------
(* The theorems.                                                           *)

\* For all arguments: the variables of main() have their types, and no
\* interface is written past the end of its array.
THEOREM TypeCorrect == Spec => []TypeOK
<1>1. CommandInv => TypeOK
  BY DEF CommandInv, Typed, Bounded, Passes, TypeOK, Reading
<1> QED
  BY <1>1, CommandAlways, PTL

\* For all arguments in any order, and however the interfaces are renamed
\* meanwhile: what reaches the distributor is what it relies on.
THEOREM HandsOverHolds == Spec => []HandsOver
<1>1. CommandInv => HandsOver
  <2> SUFFICES ASSUME CommandInv, at \in {"create", "add", "start"}
               PROVE  Checked([type |-> type, nworkers |-> nworkers,
                               interfaces |-> interfaces, dests |-> handed])
    BY DEF HandsOver
  <2>1. /\ type \in Types
        /\ nworkers \in 1 .. MaxWorkers
        /\ interfaces # <<>>
        /\ handed \in Seq([interface : ToSet(interfaces), af : Families])
        /\ Len(handed) = Len(dests)
        /\ dests # <<>> /\ dests \in Seq(Texts)
    BY DEF CommandInv, Typed, Passes
  <2>2. handed # <<>>
    BY <2>1
  <2>3. interfaces \in Seq(ToSet(interfaces))
    BY DEF CommandInv, Typed, ToSet
  <2> QED
    BY <2>1, <2>2, <2>3 DEF Checked
<1> QED
  BY <1>1, CommandAlways, PTL

\* For all arguments, and however the interfaces are renamed meanwhile: every
\* destination that is added has been parsed to its end.
THEOREM AddsOnlyParsedHolds == Spec => []AddsOnlyParsed
<1>1. CommandInv => AddsOnlyParsed
  <2> SUFFICES ASSUME CommandInv
               PROVE  AddsOnlyParsed
    OBVIOUS
  <2>1. /\ added \in Seq([interface : 1 .. MaxIndex, parsed : BOOLEAN])
        /\ \A n \in 1 .. Len(added) : added[n].parsed
    BY DEF CommandInv, Passes
  <2>2. DOMAIN added = 1 .. Len(added)
    BY <2>1
  <2> QED
    BY <2>1, <2>2 DEF AddsOnlyParsed
<1> QED
  BY <1>1, CommandAlways, PTL

\* parse_size() and parse_number() accept exactly the numbers that main()
\* allows, although the test for overflow misses numbers that wrap around: for
\* every width of the integer, if the greatest number allowed leaves room for
\* one more digit and, times a unit, does not exceed 2^64.
THEOREM NumberExactHolds == Spec => []NumberExact
<1>1. CommandInv => NumberExact
  BY DEF CommandInv, NumberInv
<1> QED
  BY <1>1, CommandAlways, PTL

\* For every text of an option "--ports", of any length, and whatever the
\* filter refuses: if it is accepted, it is a list of ports, and its items, and
\* nothing else, have been added with the ports they name, in their order; if
\* it is rejected, the filter has refused an item or it is no list and cannot
\* become one.
THEOREM PortsExactHolds == Spec => []PortsExact
<1>1. PortsInv => PortsExact
  BY DEF PortsInv
<1> QED
  BY <1>1, PortsAlways, PTL
=============================================================================
