------------------------- MODULE DistributionProofs -------------------------
(***************************************************************************)
(* Proofs about what UdpDistributor does with destinations and datagrams,  *)
(* for every number of workers, destinations and datagrams: a load         *)
(* balancer spreads its destinations evenly, a broadcaster gives each      *)
(* worker all of them.                                                     *)
(***************************************************************************)
EXTENDS UdpDistributorProofs, FiniteSetTheorems

LoadBalancer == args.type = "load_balancer"

Broadcaster == args.type = "broadcaster"

\* main() has not come to the destinations.
Creating == at \in {"create_ring", "join_fanout", "add_interface"}

\* What the tables hold, however far main() is: destinations of their family,
\* and in a load balancer each at one place.
Placed ==
    /\ Creating => table = [w \in Workers |-> [f \in Families |-> <<>>]]
    /\ \A w \in Workers, f \in Families :
           \A d \in ToSet(table[w][f]) : args.dests[d].af = f
    /\ LoadBalancer =>
           \A w \in Workers, f \in Families :
               /\ IsInjective(table[w][f])
               /\ \A d \in ToSet(table[w][f]) :
                      /\ at = "add_destination" => d < k
                      /\ \A v \in Workers : d \in ToSet(table[v][f]) => v = w

Tables == [Workers -> [Families -> Seq(Nat)]]

\* The first n destinations have been given to the workers, in turn: every
\* worker has had q of them, and those before the next worker one more.
Given(n) ==
    /\ table \in Tables
    /\ idx \in 0 .. nworkers - 1
    /\ \E q \in Nat :
           /\ n = q * nworkers + idx
           /\ \A w \in Created :
                  NumberOfDests(w) = IF w < idx THEN q + 1 ELSE q
    /\ \A d \in 1 .. n :
           \E v \in Workers : \A w \in Workers : Holds(w, d) <=> w = v
    /\ \A d \in n + 1 .. Len(args.dests) : \A w \in Workers : ~Holds(w, d)

Spread ==
    LoadBalancer =>
        /\ k \in Nat \ {0}
        /\ Creating => idx = 0
        /\ at = "add_destination" =>
               \E n \in Nat : n = k - 1 /\ n < Len(args.dests) /\ Given(n)
        /\ at \in {"start", "sigwait"} =>
               \E n \in Nat : n = Len(args.dests) /\ Given(n)

PlacedInv == TypeInv /\ Placed

-----------------------------------------------------------------------------
(* The tables.                                                             *)

\* What a sequence holds when a value is appended to it.
LEMMA OneMoreHeld ==
    ASSUME NEW S, NEW s \in Seq(S), NEW d \in S
    PROVE  \A e : e \in ToSet(Append(s, d)) <=> e \in ToSet(s) \/ e = d
<1>1. /\ Len(s) \in Nat
      /\ DOMAIN s = 1 .. Len(s)
      /\ DOMAIN Append(s, d) = 1 .. Len(s) + 1
      /\ \A n \in 1 .. Len(s) : Append(s, d)[n] = s[n]
      /\ Append(s, d)[Len(s) + 1] = d
  OBVIOUS
<1>2. \A n \in 1 .. Len(s) + 1 : n \in 1 .. Len(s) \/ n = Len(s) + 1
  BY <1>1
<1>3. \A n \in 1 .. Len(s) : n \in 1 .. Len(s) + 1
  BY <1>1
<1>4. Len(s) + 1 \in 1 .. Len(s) + 1
  BY <1>1
<1> QED
  BY <1>1, <1>2, <1>3, <1>4, Zenon DEF ToSet

LEMMA NoneHeld == ToSet(<<>>) = {} /\ IsInjective(<<>>)
BY DEF ToSet, IsInjective

\* The tables after worker v has got destination k.
LEMMA Added ==
    ASSUME ControlInv, Additions, at = "add_destination", NEW v \in Workers,
           AddTo(v)
    PROVE  /\ k \in 1 .. Len(args.dests)
           /\ Dest.af \in Families
           /\ \A w \in Workers, f \in Families :
                  /\ table[w][f] \in Seq(Nat)
                  /\ table'[w][f] = IF w = v /\ f = Dest.af
                                    THEN Append(table[w][f], k)
                                    ELSE table[w][f]
                  /\ \A e : e \in ToSet(table'[w][f]) <=>
                                \/ e \in ToSet(table[w][f])
                                \/ w = v /\ f = Dest.af /\ e = k
<1>1. args \in Args
  BY DEF ControlInv, ControlTypes
<1>2. k \in 1 .. Len(args.dests)
  BY <1>1, SomeArguments DEF Additions
<1>3. Dest.af \in Families /\ k \in Nat
  BY <1>1, <1>2, SomeArguments DEF Dest
<1>4. ASSUME NEW w \in Workers, NEW f \in Families
      PROVE  /\ table[w][f] \in Seq(Nat)
             /\ table'[w][f] = IF w = v /\ f = Dest.af
                               THEN Append(table[w][f], k)
                               ELSE table[w][f]
             /\ \A e : e \in ToSet(table'[w][f]) <=>
                           \/ e \in ToSet(table[w][f])
                           \/ w = v /\ f = Dest.af /\ e = k
  <2>1. table[w][f] \in Seq(Nat)
    <3>1. table[w][f] \in Seq(1 .. Len(args.dests))
      BY <1>1, SomeArguments DEF Additions
    <3> QED
      BY <1>1, <3>1, SomeArguments
  <2>2. table'[w][f] = IF w = v /\ f = Dest.af THEN Append(table[w][f], k)
                                               ELSE table[w][f]
    BY <1>3 DEF AddTo, Additions
  <2>3. \A e : e \in ToSet(Append(table[w][f], k)) <=>
                   e \in ToSet(table[w][f]) \/ e = k
    BY <1>3, <2>1, OneMoreHeld
  <2> QED
    BY <2>1, <2>2, <2>3, Zenon
<1> QED
  BY <1>2, <1>3, <1>4

LEMMA PlacedInit == Init => Placed
BY NoneHeld DEF Init, Placed, Creating

\* Steps of main() that leave the tables.
LEMMA PlacedSame ==
    ASSUME Placed, UNCHANGED <<args, table>>,
           \/ UNCHANGED <<at, k>>
           \/ Creating
           \/ at' \notin {"create_ring", "join_fanout", "add_interface",
                          "add_destination"}
    PROVE  Placed'
<1>1. CASE Creating
  <2>1. \A w \in Workers, f \in Families : table[w][f] = <<>>
    BY <1>1 DEF Placed
  <2>2. table' = [w \in Workers |-> [f \in Families |-> <<>>]]
    BY <1>1 DEF Placed
  <2> QED
    BY <2>1, <2>2, NoneHeld DEF Placed
<1>2. CASE ~Creating
  <2>1. ~Creating' /\ (at' = "add_destination" => UNCHANGED <<at, k>>)
    BY <1>2 DEF Creating
  <2> HIDE DEF Creating
  <2> QED
    BY <2>1 DEF Placed, LoadBalancer
<1> QED
  BY <1>1, <1>2

LEMMA PlacedMore ==
    ASSUME PlacedInv, AddLoadBalanced \/ AddBroadcast, UNCHANGED args
    PROVE  Placed'
<1>1. /\ ControlInv /\ Additions /\ Placed
      /\ at = "add_destination"
      /\ at' \in {"add_destination", "start"}
  BY DEF PlacedInv, TypeInv, AddLoadBalanced, AddBroadcast, NextItem,
         NextWorker
<1>2. /\ nworkers \in 1 .. MaxWorkers
      /\ i \in 0 .. nworkers - 1
  BY <1>1, SomeWorkers DEF ControlInv, ControlTypes, Progress
<1>3. PICK v \in Workers : AddTo(v)
  <2>1. i \in Workers /\ idx \in Workers
    BY <1>1, <1>2, MaxWorkersAssumption DEF Workers, Additions
  <2> QED
    BY <2>1 DEF AddLoadBalanced, AddBroadcast
<1> DEFINE g == Dest.af
<1>4. /\ k \in 1 .. Len(args.dests)
      /\ \A w \in Workers, f \in Families :
             /\ table[w][f] \in Seq(Nat)
             /\ table'[w][f] = IF w = v /\ f = g THEN Append(table[w][f], k)
                                                 ELSE table[w][f]
             /\ \A e : e \in ToSet(table'[w][f]) <=>
                           \/ e \in ToSet(table[w][f])
                           \/ w = v /\ f = g /\ e = k
  BY <1>1, <1>3, Added
<1>5. \A w \in Workers, f \in Families :
          \A d \in ToSet(table'[w][f]) : args'.dests[d].af = f
  <2>1. \A w \in Workers, f \in Families :
            \A d \in ToSet(table[w][f]) : args.dests[d].af = f
    BY <1>1 DEF Placed
  <2>2. g = args.dests[k].af
    BY DEF Dest
  <2>3. ASSUME NEW w \in Workers, NEW f \in Families,
               NEW d \in ToSet(table'[w][f])
        PROVE  args.dests[d].af = f
    <3> HIDE DEF g
    <3>1. d \in ToSet(table[w][f]) \/ (w = v /\ f = g /\ d = k)
      BY <1>4, <2>3
    <3> QED
      BY <2>1, <2>2, <3>1, Zenon
  <2> QED
    BY <2>3
<1>6. ASSUME LoadBalancer', NEW w \in Workers, NEW f \in Families
      PROVE  /\ IsInjective(table'[w][f])
             /\ \A d \in ToSet(table'[w][f]) :
                    /\ at' = "add_destination" => d < k'
                    /\ \A u \in Workers : d \in ToSet(table'[u][f]) => u = w
  <2>1. /\ LoadBalancer
        /\ AddLoadBalanced
        /\ at' = "add_destination" => k' = k + 1
    BY <1>1, <1>6 DEF LoadBalancer, AddLoadBalanced, AddBroadcast, NextItem
  <2>2. \A u \in Workers :
            /\ IsInjective(table[u][f])
            /\ \A d \in ToSet(table[u][f]) :
                   /\ d \in Nat /\ d < k
                   /\ \A x \in Workers : d \in ToSet(table[x][f]) => x = u
    <3>1. \A u \in Workers : \A d \in ToSet(table[u][f]) : d \in Nat
      BY <1>4 DEF ToSet
    <3> QED
      BY <1>1, <2>1, <3>1 DEF Placed
  <2>3. k \in Nat /\ ~(k < k)
    BY <1>4
  <2>4. IsInjective(table'[w][f])
    <3>1. CASE w = v /\ f = g
      <4>1. k \notin ToSet(table[w][f])
        BY <2>2, <2>3
      <4>2. IsInjective(Append(table[w][f], k))
        BY <1>4, <2>2, <2>3, <4>1, InjectiveAppend
      <4> QED
        BY <1>4, <3>1, <4>2
    <3>2. CASE ~(w = v /\ f = g)
      BY <1>4, <2>2, <3>2
    <3> QED
      BY <3>1, <3>2
  <2>5. ASSUME NEW d \in ToSet(table'[w][f])
        PROVE  /\ at' = "add_destination" => d < k'
               /\ \A u \in Workers : d \in ToSet(table'[u][f]) => u = w
    <3>1. d \in ToSet(table[w][f]) \/ (w = v /\ f = g /\ d = k)
      BY <1>4, <2>5
    <3>2. d \in Nat /\ (d < k \/ d = k)
      BY <2>2, <2>3, <3>1
    <3>3. at' = "add_destination" => d < k'
      BY <2>1, <2>3, <3>2
    <3>4. \A u \in Workers : d \in ToSet(table'[u][f]) => u = w
      <4>1. \A u \in Workers : k \notin ToSet(table[u][f])
        BY <2>2, <2>3
      <4>2. \A u \in Workers : d \in ToSet(table'[u][f]) <=>
                \/ d \in ToSet(table[u][f])
                \/ u = v /\ f = g /\ d = k
        BY <1>4
      <4> HIDE DEF g
      <4>3. CASE d = k
        BY <3>1, <4>1, <4>2, <4>3, Zenon
      <4>4. CASE d # k
        BY <2>2, <3>1, <4>2, <4>4, Zenon
      <4> QED
        BY <4>3, <4>4
    <3> QED
      BY <3>3, <3>4
  <2> QED
    BY <2>4, <2>5
<1>7. ~Creating'
  BY <1>1 DEF Creating
<1> QED
  BY <1>5, <1>6, <1>7 DEF Placed

LEMMA PlacedFree ==
    ASSUME PlacedInv, FreeWorker, UNCHANGED args
    PROVE  Placed'
<1>1. /\ at' = "free"
      /\ \A w \in Workers, f \in Families :
             table'[w][f] = table[w][f] \/ table'[w][f] = <<>>
  <2>1. at = "free" /\ i \in Workers /\ ~running[i]
    BY DEF FreeWorker, PlacedInv, TypeInv, ControlInv, Progress, Idle, Workers
  <2>2. /\ at' = at
        /\ table' = [table EXCEPT ![i] = [f \in Families |-> <<>>]]
    BY <2>1 DEF FreeWorker
  <2>3. table \in [Workers -> [Families -> Seq(DOMAIN args.dests)]]
    BY DEF PlacedInv, TypeInv, Additions
  <2> QED
    BY <2>1, <2>2, <2>3
<1>2. Placed
  BY DEF PlacedInv
<1>3. \A w \in Workers, f \in Families :
          /\ ToSet(table'[w][f]) \subseteq ToSet(table[w][f])
          /\ IsInjective(table[w][f]) => IsInjective(table'[w][f])
  BY <1>1, NoneHeld
<1> QED
  BY <1>1, <1>2, <1>3 DEF Placed, Creating, LoadBalancer

LEMMA PlacedNext == PlacedInv /\ [Next]_vars => Placed'
<1> SUFFICES ASSUME PlacedInv, [Next]_vars
             PROVE  Placed'
  OBVIOUS
<1>1. Placed /\ ControlInv
  BY DEF PlacedInv, TypeInv
<1>2. CASE MainStep
  <2>1. UNCHANGED args
    BY <1>2 DEF MainStep
  <2>2. CASE CreateRing \/ JoinFanout \/ AddInterface
    <3>1. Creating /\ UNCHANGED table
      BY <2>2 DEF CreateRing, JoinFanout, AddInterface, Creating, workers
    <3> QED
      BY <1>1, <2>1, <3>1, PlacedSame
  <2>3. CASE Start \/ Fail \/ Sigwait \/ StopWorker \/ Join \/ Stopped \/ Exit
    <3>1. /\ at' \notin {"create_ring", "join_fanout", "add_interface",
                         "add_destination"}
          /\ UNCHANGED table
      BY <2>3 DEF Start, Fail, Sigwait, StopWorker, Join, Stopped, Exit, main,
                  workers
    <3> QED
      BY <1>1, <2>1, <3>1, PlacedSame
  <2> QED
    BY <1>2, <2>1, <2>2, <2>3, PlacedMore, PlacedFree DEF MainStep
<1>3. ASSUME NEW w \in Workers, ThreadStep(w)
      PROVE  Placed'
  <2>1. UNCHANGED <<args, at, k, table>>
    BY <1>1, <1>3, ThreadChanges DEF ThreadStep, main
  <2> QED
    BY <1>1, <2>1, PlacedSame
<1>4. CASE Environment
  <2>1. UNCHANGED <<args, at, k, table>>
    BY <1>4 DEF Environment, main, workers, Arrive
  <2> QED
    BY <1>1, <2>1, PlacedSame
<1>5. CASE UNCHANGED vars
  <2>1. UNCHANGED <<args, at, k, table>>
    BY <1>5 DEF vars, main, workers
  <2> QED
    BY <1>1, <2>1, PlacedSame
<1> QED
  BY <1>2, <1>3, <1>4, <1>5 DEF Next

LEMMA PlacedAlways ==
    /\ Init => PlacedInv
    /\ PlacedInv /\ [Next]_vars => PlacedInv'
<1>1. Init => PlacedInv
  BY TypeInit, PlacedInit DEF PlacedInv
<1>2. PlacedInv /\ [Next]_vars => PlacedInv'
  BY TypeNext, PlacedNext DEF PlacedInv
<1> QED
  BY <1>1, <1>2

-----------------------------------------------------------------------------
(* One destination more.                                                   *)

LEMMA NextInTurn ==
    ASSUME NEW n \in Nat \ {0}, NEW x \in 0 .. n - 1
    PROVE  (x + 1) % n = IF x + 1 < n THEN x + 1 ELSE 0
<1>1. CASE x + 1 < n
  BY <1>1
<1>2. CASE ~(x + 1 < n)
  <2>1. x + 1 = n
    BY <1>2
  <2>2. n % n = 0
    OBVIOUS
  <2> QED
    BY <1>2, <2>1, <2>2
<1> QED
  BY <1>1, <1>2

LEMMA NothingGiven ==
    ASSUME args \in Args, nworkers \in 1 .. MaxWorkers, idx = 0,
           table \in Tables,
           \A w \in Workers, f \in Families : table[w][f] = <<>>
    PROVE  Given(0)
<1>1. table \in Tables
  OBVIOUS
<1>2. idx \in 0 .. nworkers - 1
  BY MaxWorkersAssumption
<1>3. ASSUME NEW w \in Created
      PROVE  NumberOfDests(w) = 0
  <2>1. w \in Workers
    BY MaxWorkersAssumption DEF Created, Workers
  <2>2. table[w]["ipv4"] = <<>> /\ table[w]["ipv6"] = <<>>
    BY <2>1 DEF Families
  <2>3. Len(table[w]["ipv4"]) = 0 /\ Len(table[w]["ipv6"]) = 0
    BY <2>2
  <2> QED
    BY <2>3 DEF NumberOfDests
<1>4. ASSUME NEW d \in 1 .. Len(args.dests), NEW w \in Workers
      PROVE  ~Holds(w, d)
  <2>1. table[w][args.dests[d].af] = <<>>
    BY SomeArguments
  <2> QED
    BY <2>1 DEF Holds, ToSet
<1>5. \A w \in Created : w >= 0
  BY DEF Created
<1>6. \E q \in Nat : /\ 0 = q * nworkers + idx
                     /\ \A w \in Created :
                            NumberOfDests(w) = IF w < idx THEN q + 1 ELSE q
  <2>1. 0 = 0 * nworkers + idx
    BY MaxWorkersAssumption
  <2>2. \A w \in Created : NumberOfDests(w) = IF w < idx THEN 0 + 1 ELSE 0
    BY <1>3, <1>5 DEF Created
  <2> QED
    BY <2>1, <2>2
<1> QED
  BY <1>1, <1>2, <1>4, <1>6 DEF Given

\* How many worker w holds then.
LEMMA OneMoreCounted ==
    ASSUME table \in Tables, NEW v \in Workers, NEW f \in Families,
           NEW d \in Nat, table' = [table EXCEPT ![v][f] = Append(@, d)],
           NEW w \in Workers
    PROVE  /\ NumberOfDests(w) \in Nat
           /\ NumberOfDests(w)' = NumberOfDests(w) + IF w = v THEN 1 ELSE 0
<1>1. /\ "ipv4" \in Families /\ "ipv6" \in Families
      /\ f = "ipv4" \/ f = "ipv6"
  BY DEF Families
<1>2. ASSUME NEW g \in Families
      PROVE  /\ Len(table[w][g]) \in Nat
             /\ Len(table'[w][g]) = Len(table[w][g])
                                        + IF w = v /\ g = f THEN 1 ELSE 0
  <2>1. table'[w][g] = IF w = v /\ g = f THEN Append(table[w][g], d)
                                          ELSE table[w][g]
    BY DEF Tables
  <2>2. table[w][g] \in Seq(Nat)
    BY DEF Tables
  <2>3. Len(table[w][g]) \in Nat
    BY <2>2
  <2>4. Len(Append(table[w][g], d)) = Len(table[w][g]) + 1
    BY <2>2
  <2>5. CASE w = v /\ g = f
    BY <2>1, <2>3, <2>4, <2>5
  <2>6. CASE ~(w = v /\ g = f)
    <3>1. table'[w][g] = table[w][g]
      BY <2>1, <2>6, Zenon
    <3> DEFINE more == IF w = v /\ g = f THEN 1 ELSE 0
    <3>2. more = 0
      BY <2>6, Zenon
    <3>3. Len(table[w][g]) = Len(table[w][g]) + more
      <4> HIDE DEF more
      <4> QED
        BY <2>3, <3>2
    <3> QED
      BY <2>3, <3>1, <3>3, Zenon
  <2> QED
    BY <2>5, <2>6
<1> DEFINE a == Len(table[w]["ipv4"])
           b == Len(table[w]["ipv6"])
<1>3. /\ a \in Nat /\ b \in Nat
      /\ a' = a + IF w = v /\ "ipv4" = f THEN 1 ELSE 0
      /\ b' = b + IF w = v /\ "ipv6" = f THEN 1 ELSE 0
  BY <1>1, <1>2
<1>4. NumberOfDests(w) = a + b /\ NumberOfDests(w)' = a' + b'
  BY DEF NumberOfDests
<1> HIDE DEF a, b
<1> QED
  BY <1>1, <1>3, <1>4

LEMMA GivenMore ==
    ASSUME args \in Args, nworkers \in 1 .. MaxWorkers,
           UNCHANGED <<args, nworkers>>,
           NEW n \in Nat, n < Len(args.dests), Given(n),
           NEW v \in Workers, v = idx,
           NEW f \in Families, f = args.dests[n + 1].af,
           table' = [table EXCEPT ![v][f] = Append(@, n + 1)],
           idx' = (idx + 1) % nworkers
    PROVE  Given(n + 1)'
<1>1. /\ table \in Tables
      /\ idx \in 0 .. nworkers - 1
      /\ nworkers \in Nat \ {0}
      /\ n + 1 \in Nat
  BY MaxWorkersAssumption DEF Given
<1>2. idx' = IF idx + 1 < nworkers THEN idx + 1 ELSE 0
  BY <1>1, NextInTurn
<1>3. idx' \in 0 .. nworkers' - 1
  BY <1>1, <1>2
<1>4. table' \in Tables
  <2>1. Append(table[v][f], n + 1) \in Seq(Nat)
    <3>1. table[v][f] \in Seq(Nat)
      BY <1>1 DEF Tables
    <3> QED
      BY <1>1, <3>1
  <2> QED
    BY <1>1, <2>1 DEF Tables
<1>5. \A w \in Workers :
          /\ NumberOfDests(w) \in Nat
          /\ NumberOfDests(w)' = NumberOfDests(w) + IF w = v THEN 1 ELSE 0
  BY <1>1, OneMoreCounted
<1>6. \E q \in Nat :
          /\ n + 1 = q * nworkers' + idx'
          /\ \A w \in Created' :
                 NumberOfDests(w)' = IF w < idx' THEN q + 1 ELSE q
  <2>1. PICK q \in Nat :
            /\ n = q * nworkers + idx
            /\ \A w \in Created :
                   NumberOfDests(w) = IF w < idx THEN q + 1 ELSE q
    BY DEF Given
  <2>2. /\ Created' = Created
        /\ \A w \in Created : w \in Workers /\ w \in Nat /\ w < nworkers
    BY <1>1, MaxWorkersAssumption DEF Created, Workers
  <2>3. \A w \in Created : NumberOfDests(w)' = IF w <= idx THEN q + 1 ELSE q
    <3> SUFFICES ASSUME NEW w \in Created
                 PROVE  NumberOfDests(w)' = IF w <= idx THEN q + 1 ELSE q
      OBVIOUS
    <3> DEFINE c == NumberOfDests(w)
    <3>1. c = IF w < idx THEN q + 1 ELSE q
      BY <2>1
    <3>2. NumberOfDests(w)' = c + IF w = idx THEN 1 ELSE 0
      BY <1>5, <2>2
    <3> HIDE DEF c
    <3> QED
      BY <1>1, <2>2, <3>1, <3>2
  <2>4. CASE idx + 1 < nworkers
    <3>1. n + 1 = q * nworkers' + idx'
      BY <1>1, <1>2, <2>1, <2>4
    <3>2. \A w \in Created : w <= idx <=> w < idx'
      BY <1>1, <1>2, <2>2, <2>4
    <3> QED
      BY <2>2, <2>3, <3>1, <3>2
  <2>5. CASE ~(idx + 1 < nworkers)
    <3>1. idx' = 0 /\ idx + 1 = nworkers
      BY <1>1, <1>2, <2>5
    <3>2. q * nworkers + nworkers = (q + 1) * nworkers
      BY <1>1
    <3>3. n + 1 = (q + 1) * nworkers' + idx'
      <4> DEFINE rounds == q * nworkers
                 more == (q + 1) * nworkers
      <4>1. rounds \in Nat /\ n = rounds + idx
        BY <1>1, <2>1
      <4> HIDE DEF rounds
      <4>2. n + 1 = rounds + nworkers
        BY <1>1, <3>1, <4>1
      <4>3. nworkers' = nworkers /\ idx' = 0
        BY <3>1
      <4>4. more = rounds + nworkers
        BY <3>2 DEF rounds
      <4> HIDE DEF more
      <4>5. n + 1 = more + 0
        BY <1>1, <4>1, <4>2, <4>4
      <4> QED
        BY <4>3, <4>5 DEF more
    <3>4. \A w \in Created : w <= idx /\ ~(w < idx')
      BY <1>1, <2>2, <3>1
    <3>5. \A w \in Created : NumberOfDests(w)' = q + 1
      BY <2>3, <3>4
    <3> QED
      BY <2>1, <2>2, <3>3, <3>4, <3>5
  <2> QED
    BY <2>4, <2>5
<1>7. ASSUME NEW d \in 1 .. Len(args.dests), NEW w \in Workers
      PROVE  Holds(w, d)' <=> Holds(w, d) \/ (w = v /\ d = n + 1)
  <2>1. args.dests[d].af \in Families
    BY SomeArguments
  <2>2. d \in ToSet(table'[w][args.dests[d].af]) <=>
            \/ d \in ToSet(table[w][args.dests[d].af])
            \/ w = v /\ args.dests[d].af = f /\ d = n + 1
    <3> DEFINE g == args.dests[d].af
    <3>1. table[w][g] \in Seq(Nat)
      BY <1>1, <2>1 DEF Tables
    <3>2. table'[w][g] = IF w = v /\ g = f THEN Append(table[w][g], n + 1)
                                            ELSE table[w][g]
      BY <1>1, <2>1 DEF Tables
    <3>3. d \in ToSet(Append(table[w][g], n + 1)) <=>
              d \in ToSet(table[w][g]) \/ d = n + 1
      <4> DEFINE t == table[w][g]
      <4>1. t \in Seq(Nat) /\ n + 1 \in Nat
        BY <1>1, <3>1
      <4> HIDE DEF t
      <4>2. \A e : e \in ToSet(Append(t, n + 1)) <=> e \in ToSet(t) \/ e = n + 1
        BY <4>1, OneMoreHeld
      <4> QED
        BY <4>2 DEF t
    <3> HIDE DEF g
    <3>4. d \in ToSet(table'[w][g]) <=> \/ d \in ToSet(table[w][g])
                                        \/ w = v /\ g = f /\ d = n + 1
      BY <3>2, <3>3, Zenon
    <3> QED
      BY <3>4 DEF g
  <2>3. Holds(w, d)' <=> d \in ToSet(table'[w][args.dests[d].af])
    BY DEF Holds
  <2>4. Holds(w, d) <=> d \in ToSet(table[w][args.dests[d].af])
    BY DEF Holds
  <2>5. d = n + 1 => args.dests[d].af = f
    OBVIOUS
  <2> HIDE DEF Holds
  <2>6. CASE d = n + 1
    BY <2>2, <2>3, <2>4, <2>5, <2>6, Zenon
  <2>7. CASE d # n + 1
    BY <2>2, <2>3, <2>4, <2>7, Zenon
  <2> QED
    BY <2>6, <2>7
<1>8. Len(args.dests) \in Nat \ {0} /\ args'.dests = args.dests
  BY SomeArguments
<1>9. ASSUME NEW d \in 1 .. n + 1
      PROVE  \E u \in Workers : \A w \in Workers : Holds(w, d)' <=> w = u
  <2>1. d \in 1 .. Len(args.dests)
    BY <1>8
  <2>2. CASE d = n + 1
    <3>1. \A w \in Workers : ~Holds(w, d)
      BY <1>8, <2>1, <2>2 DEF Given
    <3> QED
      BY <1>7, <2>1, <2>2, <3>1
  <2>3. CASE d # n + 1
    <3>1. d \in 1 .. n
      BY <2>3
    <3>2. PICK u \in Workers : \A w \in Workers : Holds(w, d) <=> w = u
      BY <3>1 DEF Given
    <3>3. \A w \in Workers : Holds(w, d)' <=> w = u
      BY <1>7, <2>1, <2>3, <3>2, Zenon
    <3> QED
      BY <3>3
  <2> QED
    BY <2>2, <2>3
<1>10. ASSUME NEW d \in n + 1 + 1 .. Len(args.dests), NEW w \in Workers
       PROVE  ~Holds(w, d)'
  <2>1. d \in 1 .. Len(args.dests) /\ d \in n + 1 .. Len(args.dests) /\ d # n + 1
    BY <1>8
  <2>2. ~Holds(w, d)
    BY <2>1 DEF Given
  <2> QED
    BY <1>7, <2>1, <2>2
<1> QED
  BY <1>3, <1>4, <1>6, <1>8, <1>9, <1>10 DEF Given

LEMMA GivenKept ==
    ASSUME UNCHANGED <<args, nworkers, idx, table>>, NEW n \in Nat, Given(n)
    PROVE  Given(n)'
BY DEF Given, Created, NumberOfDests, Holds

-----------------------------------------------------------------------------
(* The steps.                                                              *)

SpreadInv == PlacedInv /\ Spread

LEMMA SpreadInit == Init => Spread
<1> SUFFICES ASSUME Init
             PROVE  Spread
  OBVIOUS
<1> QED
  BY DEF Init, Spread, Creating

\* Steps that leave what is given, and where main() is in giving it.
LEMMA SpreadKept ==
    ASSUME Spread, UNCHANGED <<args, at, k, nworkers, idx, table>>
    PROVE  Spread'
<1> SUFFICES ASSUME LoadBalancer'
             PROVE  Spread'
  BY DEF Spread, Creating
<1>1. LoadBalancer
  BY DEF LoadBalancer
<1>2. \A n \in Nat : Given(n) => Given(n)'
  BY GivenKept
<1>3. CASE at = "add_destination"
  <2>1. PICK n \in Nat : n = k - 1 /\ n < Len(args.dests) /\ Given(n)
    BY <1>1, <1>3 DEF Spread, Creating
  <2> QED
    BY <1>1, <1>2, <1>3, <2>1 DEF Spread, Creating
<1>4. CASE at \in {"start", "sigwait"}
  <2>1. PICK n \in Nat : n = Len(args.dests) /\ Given(n)
    BY <1>1, <1>4 DEF Spread, Creating
  <2> QED
    BY <1>1, <1>2, <1>4, <2>1 DEF Spread, Creating
<1>5. CASE at \notin {"add_destination", "start", "sigwait"}
  BY <1>1, <1>5 DEF Spread, Creating
<1> QED
  BY <1>3, <1>4, <1>5

LEMMA SpreadCreation ==
    ASSUME Spread, CreateRing \/ JoinFanout, UNCHANGED args
    PROVE  Spread'
<1>1. /\ at \in {"create_ring", "join_fanout"}
      /\ at' \in {"create_ring", "join_fanout", "add_interface"}
      /\ UNCHANGED <<k, idx, table>>
  BY DEF CreateRing, JoinFanout, setup
<1> QED
  BY <1>1 DEF Spread, Creating, LoadBalancer

LEMMA SpreadInterface ==
    ASSUME SpreadInv, AddInterface, UNCHANGED args
    PROVE  Spread'
<1> SUFFICES ASSUME LoadBalancer'
             PROVE  Spread'
  BY DEF Spread, Creating
<1>1. LoadBalancer /\ at = "add_interface"
  BY DEF LoadBalancer, AddInterface
<1>2. /\ k \in Nat \ {0}
      /\ idx = 0
      /\ table = [w \in Workers |-> [f \in Families |-> <<>>]]
      /\ UNCHANGED <<nworkers, idx, table>>
  BY <1>1 DEF SpreadInv, PlacedInv, TypeInv, Additions, Placed, Spread,
              Creating, AddInterface, workers
<1>3. args \in Args /\ nworkers \in 1 .. MaxWorkers
  BY <1>1, SomeWorkers DEF SpreadInv, PlacedInv, TypeInv, ControlInv,
                          ControlTypes, Progress
<1>4. Given(0)'
  <2>1. table \in Tables
    BY <1>2 DEF Tables
  <2>2. \A w \in Workers, f \in Families : table[w][f] = <<>>
    BY <1>2
  <2>3. Given(0)
    BY <1>2, <1>3, <2>1, <2>2, NothingGiven
  <2> QED
    BY <1>2, <2>3, GivenKept
<1>5. Len(args'.dests) \in Nat \ {0}
  BY <1>3, SomeArguments
<1>6. \/ at' = "add_interface" /\ k' \in Nat \ {0}
      \/ at' = "add_destination" /\ k' = 1
  BY <1>1, <1>2 DEF AddInterface, NextWorker
<1>7. CASE at' = "add_interface" /\ k' \in Nat \ {0}
  BY <1>2, <1>7 DEF Spread, Creating
<1>8. CASE at' = "add_destination" /\ k' = 1
  <2>1. 0 = k' - 1 /\ 0 < Len(args'.dests)
    BY <1>5, <1>8
  <2> QED
    BY <1>4, <1>8, <2>1 DEF Spread, Creating
<1> QED
  BY <1>6, <1>7, <1>8

LEMMA SpreadDestination ==
    ASSUME SpreadInv, AddLoadBalanced, UNCHANGED args
    PROVE  Spread'
<1>1. LoadBalancer /\ at = "add_destination"
  BY DEF LoadBalancer, AddLoadBalanced
<1>2. args \in Args /\ nworkers \in 1 .. MaxWorkers
  BY <1>1, SomeWorkers DEF SpreadInv, PlacedInv, TypeInv, ControlInv,
                          ControlTypes, Progress
<1>3. PICK n \in Nat : n = k - 1 /\ n < Len(args.dests) /\ Given(n)
  BY <1>1 DEF SpreadInv, Spread
<1>4. k = n + 1 /\ k \in Nat \ {0}
  BY <1>1, <1>3 DEF SpreadInv, Spread
<1>5. Len(args.dests) \in Nat \ {0}
  BY <1>2, SomeArguments
<1>6. Given(n + 1)'
  <2>1. PICK v \in Workers : v = idx
    BY <1>2, <1>3, MaxWorkersAssumption DEF Given, Workers
  <2>2. PICK f \in Families : f = args.dests[n + 1].af
    BY <1>2, <1>3, <1>5, SomeArguments
  <2>3. /\ table' = [table EXCEPT ![v][f] = Append(@, n + 1)]
        /\ idx' = (idx + 1) % nworkers
        /\ UNCHANGED nworkers
    BY <1>4, <2>1, <2>2 DEF AddLoadBalanced, AddTo, Dest
  <2> QED
    BY <1>2, <1>3, <2>1, <2>2, <2>3, GivenMore
<1>7. CASE k < Len(args.dests)
  <2>1. at' = "add_destination" /\ k' = k + 1
    BY <1>1, <1>7 DEF AddLoadBalanced, NextItem
  <2>2. /\ n + 1 \in Nat
        /\ n + 1 = k' - 1
        /\ n + 1 < Len(args'.dests)
        /\ k' \in Nat \ {0}
    BY <1>4, <1>5, <1>7, <2>1
  <2> QED
    BY <1>6, <2>1, <2>2 DEF Spread, Creating
<1>8. CASE ~(k < Len(args.dests))
  <2>1. at' = "start" /\ k' = 1
    BY <1>1, <1>8 DEF AddLoadBalanced, NextItem
  <2>2. n + 1 \in Nat /\ n + 1 = Len(args'.dests)
    BY <1>3, <1>4, <1>5, <1>8
  <2> QED
    BY <1>6, <2>1, <2>2 DEF Spread, Creating
<1> QED
  BY <1>7, <1>8

LEMMA SpreadStart ==
    ASSUME Spread, Start, UNCHANGED args
    PROVE  Spread'
<1> SUFFICES ASSUME LoadBalancer'
             PROVE  Spread'
  BY DEF Spread, Creating
<1>1. /\ LoadBalancer
      /\ at = "start"
      /\ at' \in {"start", "sigwait"}
      /\ UNCHANGED <<k, nworkers, idx, table>>
  BY DEF LoadBalancer, Start, setup
<1>2. PICK n \in Nat : n = Len(args.dests) /\ Given(n)
  BY <1>1 DEF Spread, Creating
<1>3. Given(n)'
  BY <1>1, <1>2, GivenKept
<1> QED
  BY <1>1, <1>2, <1>3 DEF Spread, Creating

\* From here on there is nothing to keep.
LEMMA SpreadEnd ==
    ASSUME Spread, Fail \/ Sigwait \/ StopWorker \/ Join \/ Stopped
                       \/ FreeWorker \/ Exit,
           UNCHANGED args
    PROVE  Spread'
<1>1. at' \in {"stop", "join", "free"} /\ UNCHANGED k
  BY DEF Fail, Sigwait, StopWorker, Join, Stopped, FreeWorker, Exit, main
<1> QED
  BY <1>1 DEF Spread, Creating, LoadBalancer

LEMMA SpreadNext == SpreadInv /\ [Next]_vars => Spread'
<1> SUFFICES ASSUME SpreadInv, [Next]_vars
             PROVE  Spread'
  OBVIOUS
<1>1. Spread /\ ControlInv
  BY DEF SpreadInv, PlacedInv, TypeInv
<1>2. CASE MainStep
  <2>1. UNCHANGED args
    BY <1>2 DEF MainStep
  <2>2. CASE AddBroadcast
    BY <1>1, <2>1, <2>2 DEF AddBroadcast, Spread, LoadBalancer
  <2> QED
    BY <1>1, <1>2, <2>1, <2>2, SpreadCreation, SpreadInterface,
       SpreadDestination, SpreadStart, SpreadEnd DEF MainStep
<1>3. ASSUME NEW w \in Workers, ThreadStep(w)
      PROVE  Spread'
  <2>1. UNCHANGED <<args, at, k, nworkers, idx, table>>
    BY <1>1, <1>3, ThreadChanges DEF ThreadStep, main, setup
  <2> QED
    BY <1>1, <2>1, SpreadKept
<1>4. CASE Environment
  <2>1. UNCHANGED <<args, at, k, nworkers, idx, table>>
    BY <1>4 DEF Environment, main, setup, workers, Arrive
  <2> QED
    BY <1>1, <2>1, SpreadKept
<1>5. CASE UNCHANGED vars
  <2>1. UNCHANGED <<args, at, k, nworkers, idx, table>>
    BY <1>5 DEF vars, main, setup, workers
  <2> QED
    BY <1>1, <2>1, SpreadKept
<1> QED
  BY <1>2, <1>3, <1>4, <1>5 DEF Next

-----------------------------------------------------------------------------

\* Whatever the number of workers and of destinations, a load balancer that is
\* configured has given every destination to one worker, every worker at least
\* one, and none two more than another (udp_distributor::add_destination()).
THEOREM LoadSpreadHolds == Spec => []LoadSpread
<1>1. SpreadInv => LoadSpread
  <2> SUFFICES ASSUME SpreadInv, Configured, LoadBalancer
               PROVE  /\ \A d \in DOMAIN args.dests :
                             Cardinality({w \in Workers : Holds(w, d)}) = 1
                      /\ \A w \in Created : NumberOfDests(w) >= 1
                      /\ \A v, w \in Created :
                             NumberOfDests(v) - NumberOfDests(w) <= 1
    BY DEF LoadSpread, LoadBalancer
  <2>1. /\ args \in Args
        /\ nworkers = NumberOfWorkers
        /\ nworkers \in 1 .. MaxWorkers
    BY SomeWorkers DEF SpreadInv, PlacedInv, TypeInv, ControlInv,
                          ControlTypes, Progress,
                       Configured
  <2>2. /\ DOMAIN args.dests = 1 .. Len(args.dests)
        /\ Len(args.dests) \in Nat \ {0}
    BY <2>1, SomeArguments, ArgsAssumption DEF Checked
  <2>3. Given(Len(args.dests))
    BY DEF SpreadInv, Spread, Configured
  <2>4. ASSUME NEW d \in DOMAIN args.dests
        PROVE  Cardinality({w \in Workers : Holds(w, d)}) = 1
    <3>1. PICK v \in Workers : \A w \in Workers : Holds(w, d) <=> w = v
      BY <2>2, <2>3 DEF Given
    <3>2. {w \in Workers : Holds(w, d)} = {v}
      BY <3>1, Zenon
    <3> QED
      BY <3>2, FS_Singleton
  <2>5. PICK q \in Nat :
            /\ Len(args.dests) = q * nworkers + idx
            /\ \A w \in Created :
                   NumberOfDests(w) = IF w < idx THEN q + 1 ELSE q
    BY <2>3 DEF Given
  <2>6. idx \in 0 .. nworkers - 1
    BY <2>3 DEF Given
  <2>7. nworkers <= Len(args.dests)
    BY <2>1, <2>2, ArgsAssumption DEF NumberOfWorkers, LoadBalancer, Checked
  <2>8. q >= 1
    <3>1. SUFFICES ASSUME q = 0 PROVE FALSE
      OBVIOUS
    <3>2. q * nworkers = 0
      BY <2>1, <3>1
    <3> QED
      BY <2>1, <2>5, <2>6, <2>7, <3>2
  <2>9. \A w \in Created : NumberOfDests(w) \in {q, q + 1}
    BY <2>5
  <2> QED
    BY <2>4, <2>8, <2>9
<1>2. Init => SpreadInv
  BY PlacedAlways, SpreadInit DEF SpreadInv
<1>3. SpreadInv /\ [Next]_vars => SpreadInv'
  BY PlacedAlways, SpreadNext DEF SpreadInv
<1> QED
  BY <1>1, <1>2, <1>3, PTL DEF Spec

-----------------------------------------------------------------------------
(* The broadcaster.                                                        *)

Ascending(s) == \A l, m \in DOMAIN s : l < m => s[l] < s[m]

\* Worker w has the first n destinations, each once and in order.
Filled(w, n) ==
    \A f \in Families :
        /\ ToSet(table[w][f]) = {d \in 1 .. n : args.dests[d].af = f}
        /\ Ascending(table[w][f])

\* The workers before i have been given destination k.  A worker whose thread
\* lives has had all of them, wherever main() is.
Replication ==
    Broadcaster =>
        /\ at = "add_destination" =>
               \A w \in Created : Filled(w, IF w < i THEN k ELSE k - 1)
        /\ Configured => \A w \in Created : Filled(w, Len(args.dests))
        /\ \A w \in Workers : Alive(w) => Filled(w, Len(args.dests))

ReplicationInv == PlacedInv /\ Replication

LEMMA FilledSame ==
    ASSUME NEW w \in Workers, UNCHANGED <<args, table[w]>>, NEW n,
           Filled(w, n)
    PROVE  Filled(w, n)'
BY DEF Filled

LEMMA NothingFilled ==
    ASSUME NEW w \in Workers, \A f \in Families : table[w][f] = <<>>
    PROVE  Filled(w, 0)
<1>1. ToSet(<<>>) = {} /\ Ascending(<<>>)
  BY NoneHeld DEF Ascending
<1>2. \A f \in Families : {d \in 1 .. 0 : args.dests[d].af = f} = {}
  OBVIOUS
<1> QED
  BY <1>1, <1>2 DEF Filled

LEMMA AscendingAppend ==
    ASSUME NEW s \in Seq(Nat), Ascending(s), NEW d \in Nat,
           \A e \in ToSet(s) : e < d
    PROVE  Ascending(Append(s, d))
<1>1. /\ Len(s) \in Nat
      /\ DOMAIN s = 1 .. Len(s)
      /\ DOMAIN Append(s, d) = 1 .. Len(s) + 1
      /\ \A n \in 1 .. Len(s) : Append(s, d)[n] = s[n] /\ s[n] < d
      /\ Append(s, d)[Len(s) + 1] = d
  BY DEF ToSet
<1> SUFFICES ASSUME NEW l \in 1 .. Len(s) + 1, NEW m \in 1 .. Len(s) + 1, l < m
             PROVE  Append(s, d)[l] < Append(s, d)[m]
  BY <1>1 DEF Ascending
<1>2. l \in 1 .. Len(s)
  BY <1>1
<1>3. CASE m \in 1 .. Len(s)
  BY <1>1, <1>2, <1>3 DEF Ascending
<1>4. CASE m = Len(s) + 1
  BY <1>1, <1>2, <1>4
<1> QED
  BY <1>1, <1>3, <1>4

\* Destination n + 1 is put at the end of the table of its family.
LEMMA FilledMore ==
    ASSUME ControlInv, Additions, at = "add_destination", NEW v \in Workers,
           AddTo(v), NEW n \in Nat, k = n + 1, Filled(v, n), UNCHANGED args
    PROVE  Filled(v, n + 1)'
<1> SUFFICES ASSUME NEW f \in Families
             PROVE  /\ ToSet(table'[v][f]) =
                           {d \in 1 .. n + 1 : args.dests[d].af = f}
                    /\ Ascending(table'[v][f])
  BY DEF Filled
<1> DEFINE g == args.dests[n + 1].af
           s == table[v][f]
<1>1. /\ s \in Seq(Nat)
      /\ table'[v][f] = IF f = g THEN Append(s, n + 1) ELSE s
      /\ \A e : e \in ToSet(table'[v][f]) <=>
                    e \in ToSet(s) \/ (f = g /\ e = n + 1)
  <2>1. Dest.af = g
    BY DEF Dest
  <2> HIDE DEF g, s
  <2>2. /\ table[v][f] \in Seq(Nat)
        /\ table'[v][f] = IF f = Dest.af THEN Append(table[v][f], k)
                                         ELSE table[v][f]
        /\ \A e : e \in ToSet(table'[v][f]) <=>
                      e \in ToSet(table[v][f]) \/ (f = Dest.af /\ e = k)
    BY Added
  <2> QED
    BY <2>1, <2>2 DEF s
<1>2. ToSet(s) = {d \in 1 .. n : args.dests[d].af = f} /\ Ascending(s)
  BY DEF Filled
<1>3. ToSet(table'[v][f]) = {d \in 1 .. n + 1 : args.dests[d].af = f}
  <2>1. \A d : d \in 1 .. n + 1 <=> d \in 1 .. n \/ d = n + 1
    OBVIOUS
  <2>2. \A d : /\ d \in 1 .. n => args.dests[d].af = f <=> d \in ToSet(s)
               /\ d \in ToSet(s) => d \in 1 .. n
    BY <1>2
  <2>3. \A d : d = n + 1 => (args.dests[d].af = f <=> f = g)
    OBVIOUS
  <2> HIDE DEF s, g
  <2> DEFINE T == ToSet(table'[v][f])
  <2>4. \A e : e \in T <=> e \in ToSet(s) \/ (f = g /\ e = n + 1)
    BY <1>1
  <2> HIDE DEF T
  <2>5. \A e : e \in T <=> e \in 1 .. n + 1 /\ args.dests[e].af = f
    BY <2>1, <2>2, <2>3, <2>4, Zenon
  <2>6. T = {d \in 1 .. n + 1 : args.dests[d].af = f}
    BY <2>5, Zenon
  <2> QED
    BY <2>6 DEF T
<1>4. Ascending(table'[v][f])
  <2>1. \A e \in ToSet(s) : e < n + 1
    BY <1>2
  <2>2. Ascending(Append(s, n + 1))
    BY <1>1, <1>2, <2>1, AscendingAppend
  <2> QED
    BY <1>1, <1>2, <2>2
<1> QED
  BY <1>3, <1>4

LEMMA ReplicationInit == Init => Replication
BY DEF Init, Replication, Configured, Alive

\* Steps that leave the tables of the workers with threads.
LEMMA ReplicationKept ==
    ASSUME Replication, UNCHANGED args,
           \A w \in Workers : Alive(w)' => Alive(w) /\ UNCHANGED table[w],
           \/ UNCHANGED <<at, i, k, nworkers, table>>
           \/ at' \notin {"add_destination", "start", "sigwait"}
    PROVE  Replication'
<1> SUFFICES ASSUME Broadcaster
             PROVE  Replication'
  BY DEF Replication, Broadcaster
<1>1. ASSUME NEW w \in Workers, Alive(w)'
      PROVE  Filled(w, Len(args.dests))'
  BY <1>1, FilledSame DEF Replication
<1>2. CASE at' \notin {"add_destination", "start", "sigwait"}
  BY <1>1, <1>2 DEF Replication, Configured
<1>3. CASE UNCHANGED <<at, i, k, nworkers, table>>
  <2>1. Created' = Created
    BY <1>3 DEF Created
  <2>2. \A w, n : Filled(w, n) => Filled(w, n)'
    BY <1>3 DEF Filled
  <2> QED
    BY <1>1, <1>3, <2>1, <2>2 DEF Replication, Configured, Filled
<1> QED
  BY <1>2, <1>3

LEMMA ReplicationInterface ==
    ASSUME ReplicationInv, AddInterface, UNCHANGED args
    PROVE  Replication'
<1>1. /\ Replication
      /\ k \in Nat \ {0}
      /\ UNCHANGED <<table, thread, nworkers>>
      /\ \A w \in Workers : ~Alive(w)
      /\ \A w \in Workers, f \in Families : table[w][f] = <<>>
  BY DEF ReplicationInv, PlacedInv, TypeInv, ControlInv, Progress, Idle, Alive,
         Additions, Placed, Creating, AddInterface, workers
<1>2. \A w \in Workers : ~Alive(w)'
  BY <1>1 DEF Alive
<1>3. CASE at' \notin {"add_destination", "start", "sigwait"}
  BY <1>1, <1>2, <1>3, ReplicationKept
<1>4. CASE at' \in {"add_destination", "start", "sigwait"}
  <2>1. at' = "add_destination" /\ k' = 1 /\ i' = 0
    BY <1>4 DEF AddInterface, NextWorker
  <2>2. ASSUME NEW w \in Created'
        PROVE  Filled(w, IF w < i THEN k ELSE k - 1)'
    <3>1. w \in Workers /\ ~(w < i')
      <4>1. nworkers \in 0 .. MaxWorkers
        <5>1. args \in Args /\ nworkers \in {0, NumberOfWorkers}
          BY DEF ReplicationInv, PlacedInv, TypeInv, ControlInv, ControlTypes
        <5> QED
          BY <5>1, SomeWorkers, MaxWorkersAssumption
      <4> QED
        BY <1>1, <2>1, <4>1, MaxWorkersAssumption DEF Created, Workers
    <3>2. Filled(w, 0)
      BY <1>1, <3>1, NothingFilled
    <3>3. Filled(w, 0)'
      BY <1>1, <3>2 DEF Filled
    <3> QED
      BY <2>1, <3>1, <3>3
  <2> QED
    BY <1>2, <2>1, <2>2 DEF Replication, Configured
<1> QED
  BY <1>3, <1>4

LEMMA ReplicationMore ==
    ASSUME ReplicationInv, AddBroadcast, UNCHANGED args
    PROVE  Replication'
<1>1. /\ Replication /\ ControlInv /\ Additions
      /\ Broadcaster
      /\ at = "add_destination"
      /\ UNCHANGED <<thread, nworkers>>
  BY DEF ReplicationInv, PlacedInv, TypeInv, AddBroadcast, Broadcaster, setup
<1>2. /\ args \in Args
      /\ nworkers \in 1 .. MaxWorkers
      /\ i \in 0 .. nworkers - 1
      /\ \A w \in Workers : ~Alive(w)
  BY <1>1, SomeWorkers DEF ControlInv, ControlTypes, Progress, Idle, Alive
<1>3. \A w \in Created : w \in Workers /\ w \in 0 .. nworkers - 1
  BY <1>2, MaxWorkersAssumption DEF Created, Workers
<1>4. PICK v \in Workers : v = i
  BY <1>2, MaxWorkersAssumption DEF Workers
<1>5. PICK n \in Nat : k = n + 1
  BY <1>1 DEF Additions
<1>6. AddTo(v)
  BY <1>4 DEF AddBroadcast
<1>7. k \in 1 .. Len(args.dests) /\ Len(args.dests) \in Nat
  BY <1>1, <1>2, <1>6, Added, SomeArguments
<1>8. \A w \in Created : Filled(w, IF w < i THEN n + 1 ELSE n)
  BY <1>1, <1>5 DEF Replication
<1>9. ASSUME NEW w \in Created
      PROVE  IF w <= i THEN Filled(w, n + 1)' ELSE Filled(w, n)'
  <2>1. CASE w = i
    <3>1. Filled(v, n)
      BY <1>2, <1>4, <1>8, <2>1
    <3>2. Filled(v, n + 1)'
      BY <1>1, <1>5, <1>6, <3>1, FilledMore
    <3> QED
      BY <1>2, <1>4, <2>1, <3>2
  <2>2. CASE w # i
    <3>1. UNCHANGED table[w]
      BY <1>1, <1>3, <1>4, <1>6, <2>2 DEF AddTo, Additions
    <3>2. \A m : Filled(w, m) => Filled(w, m)'
      BY <3>1 DEF Filled
    <3>3. w <= i <=> w < i
      BY <1>2, <1>3, <2>2
    <3> QED
      BY <1>8, <3>2, <3>3
  <2> QED
    BY <2>1, <2>2
<1>10. \A w \in Workers : ~Alive(w)'
  BY <1>1, <1>2 DEF Alive
<1>11. Created' = Created
  BY <1>1 DEF Created
<1>12. CASE i + 1 < nworkers
  <2>1. at' = "add_destination" /\ k' = n + 1 /\ i' = i + 1
    BY <1>1, <1>5, <1>12 DEF AddBroadcast, NextWorker
  <2>2. ASSUME NEW w \in Created'
        PROVE  Filled(w, IF w < i THEN k ELSE k - 1)'
    <3>1. w \in Created /\ (w < i' <=> w <= i)
      BY <1>2, <1>3, <1>11, <2>1
    <3>2. k' - 1 = n
      BY <2>1
    <3> QED
      BY <1>9, <2>1, <3>1, <3>2 DEF Filled
  <2> QED
    BY <1>10, <2>1, <2>2 DEF Replication, Configured
<1>13. CASE ~(i + 1 < nworkers)
  <2>1. \A w \in Created : Filled(w, n + 1)'
    <3>1. \A w \in Created : w <= i
      BY <1>2, <1>3, <1>13
    <3> QED
      BY <1>9, <3>1
  <2>2. CASE k < Len(args.dests)
    <3>1. at' = "add_destination" /\ k' = n + 1 + 1 /\ i' = 0
      BY <1>1, <1>5, <1>13, <2>2 DEF AddBroadcast, NextWorker
    <3>2. ASSUME NEW w \in Created'
          PROVE  Filled(w, IF w < i THEN k ELSE k - 1)'
      <4>1. w \in Created /\ ~(w < i') /\ k' - 1 = n + 1
        BY <1>3, <1>11, <3>1
      <4> QED
        BY <2>1, <4>1 DEF Filled
    <3> QED
      BY <1>10, <3>1, <3>2 DEF Replication, Configured
  <2>3. CASE ~(k < Len(args.dests))
    <3>1. at' = "start" /\ n + 1 = Len(args'.dests)
      BY <1>1, <1>5, <1>7, <1>13, <2>3 DEF AddBroadcast, NextWorker
    <3>2. \A w \in Created' : Filled(w, Len(args.dests))'
      BY <1>11, <2>1, <3>1 DEF Filled
    <3> QED
      BY <1>10, <3>1, <3>2 DEF Replication, Configured
  <2> QED
    BY <2>2, <2>3
<1> QED
  BY <1>12, <1>13

\* The thread that is started finds its tables complete.
LEMMA ReplicationStart ==
    ASSUME ReplicationInv, Start, UNCHANGED args
    PROVE  Replication'
<1>1. /\ Replication /\ ControlInv
      /\ at = "start"
      /\ at' \in {"start", "sigwait"}
      /\ UNCHANGED <<table, nworkers>>
      /\ thread' = [thread EXCEPT ![i] = "recv"]
  BY DEF ReplicationInv, PlacedInv, TypeInv, Start, setup
<1>2. i \in Created
  BY <1>1 DEF ControlInv, Progress, Created
<1>3. Created' = Created
  BY <1>1 DEF Created
<1>4. \A w, n : Filled(w, n) => Filled(w, n)'
  BY <1>1 DEF Filled
<1>5. \A w \in Workers : Alive(w)' => Alive(w) \/ w = i
  BY <1>1 DEF Alive, ControlInv, ControlTypes
<1> SUFFICES ASSUME Broadcaster
             PROVE  Replication'
  BY DEF Replication, Broadcaster
<1>6. \A w \in Created : Filled(w, Len(args.dests))
  BY <1>1 DEF Replication, Configured
<1>7. \A w \in Created : Filled(w, Len(args.dests))'
  <2>1. ASSUME NEW w \in Created
        PROVE  Filled(w, Len(args.dests))'
    <3>1. PICK n : n = Len(args.dests)
      OBVIOUS
    <3>2. Filled(w, n)'
      BY <1>4, <1>6, <3>1
    <3> QED
      BY <3>1, <3>2 DEF Filled
  <2> QED
    BY <2>1
<1>8. \A w \in Workers : Alive(w)' => Filled(w, Len(args.dests))'
  BY <1>1, <1>2, <1>4, <1>5, <1>7 DEF Replication, Filled
<1> QED
  BY <1>1, <1>3, <1>7, <1>8 DEF Replication, Configured

LEMMA ReplicationNext == ReplicationInv /\ [Next]_vars => Replication'
<1> SUFFICES ASSUME ReplicationInv, [Next]_vars
             PROVE  Replication'
  OBVIOUS
<1>1. Replication /\ ControlInv
  BY DEF ReplicationInv, PlacedInv, TypeInv
<1>2. CASE MainStep
  <2>1. UNCHANGED args
    BY <1>2 DEF MainStep
  <2>2. CASE AddLoadBalanced
    BY <2>1, <2>2 DEF AddLoadBalanced, Replication, Broadcaster
  <2>3. CASE \/ CreateRing \/ JoinFanout \/ Fail \/ Sigwait \/ StopWorker
             \/ Join \/ Stopped \/ Exit
    <3>1. /\ at' \notin {"add_destination", "start", "sigwait"}
          /\ UNCHANGED table
          /\ thread' = thread \/ thread' = [thread EXCEPT ![i] = "none"]
      BY <2>3 DEF CreateRing, JoinFanout, Fail, Sigwait, StopWorker, Join,
                  Stopped, Exit, main, workers
    <3>2. \A w \in Workers : Alive(w)' => Alive(w)
      BY <1>1, <3>1 DEF Alive, ControlInv, ControlTypes
    <3> QED
      BY <1>1, <2>1, <3>1, <3>2, ReplicationKept
  <2>4. CASE FreeWorker
    <3>1. /\ at' \notin {"add_destination", "start", "sigwait"}
          /\ \A w \in Workers : ~Alive(w)
          /\ UNCHANGED thread
      BY <1>1, <2>4 DEF FreeWorker, ControlInv, Progress, Idle, Alive
    <3>2. \A w \in Workers : ~Alive(w)'
      BY <3>1 DEF Alive
    <3> QED
      BY <1>1, <2>1, <3>1, <3>2, ReplicationKept
  <2> QED
    BY <1>2, <2>1, <2>2, <2>3, <2>4, ReplicationInterface, ReplicationMore,
       ReplicationStart DEF MainStep
<1>3. ASSUME NEW w \in Workers, ThreadStep(w)
      PROVE  Replication'
  <2>1. UNCHANGED <<args, at, i, k, nworkers, table>>
    BY <1>1, <1>3, ThreadChanges DEF ThreadStep, main
  <2>2. \A v \in Workers : Alive(v)' => Alive(v)
    BY <1>1, <1>3, ThreadChanges DEF Alive, ControlInv, ControlTypes
  <2> QED
    BY <1>1, <2>1, <2>2, ReplicationKept
<1>4. CASE Environment \/ UNCHANGED vars
  <2>1. UNCHANGED <<args, at, i, k, nworkers, table, thread>>
    BY <1>4 DEF Environment, vars, main, setup, workers, Arrive
  <2>2. \A v \in Workers : Alive(v)' => Alive(v)
    BY <2>1 DEF Alive
  <2> QED
    BY <1>1, <2>1, <2>2, ReplicationKept
<1> QED
  BY <1>2, <1>3, <1>4 DEF Next

LEMMA ReplicationAlways ==
    /\ Init => ReplicationInv
    /\ ReplicationInv /\ [Next]_vars => ReplicationInv'
<1>1. Init => ReplicationInv
  BY PlacedAlways, ReplicationInit DEF ReplicationInv
<1>2. ReplicationInv /\ [Next]_vars => ReplicationInv'
  BY PlacedAlways, ReplicationNext DEF ReplicationInv
<1> QED
  BY <1>1, <1>2

LEMMA FilledLists ==
    ASSUME args \in Args, NEW w, NEW f \in Families,
           Filled(w, Len(args.dests))
    PROVE  Lists(table[w][f], f)
BY SomeArguments DEF Filled, Ascending, Lists, DestsOf

\* Whatever the number of workers and of destinations, a broadcaster that is
\* configured has given each worker all destinations, each once and in the
\* order of the command line (udp_distributor::add_destination()).
THEOREM ReplicatedHolds == Spec => []Replicated
<1>1. ReplicationInv => Replicated
  <2> SUFFICES ASSUME ReplicationInv, Configured, Broadcaster,
                      NEW w \in Created, NEW f \in Families
               PROVE  Lists(table[w][f], f)
    BY DEF Replicated, Broadcaster
  <2>1. args \in Args
    BY DEF ReplicationInv, PlacedInv, TypeInv, ControlInv, ControlTypes
  <2>2. Filled(w, Len(args.dests))
    BY DEF ReplicationInv, Replication
  <2> QED
    BY <2>1, <2>2, FilledLists
<1> QED
  BY <1>1, ReplicationAlways, PTL DEF Spec

-----------------------------------------------------------------------------
(* The datagrams: where each of them is.                                   *)

\* The sockets that are in the fanout group, and the one that is about to be.
Group ==
    /\ at = "create_ring" =>
           \A w \in Workers : sock[w] = IF w < i THEN "joined" ELSE "none"
    /\ at = "join_fanout" =>
           \A w \in Workers : sock[w] = IF w < i THEN "joined"
                                        ELSE IF w = i THEN "bound" ELSE "none"
    /\ nworkers # 0 /\ at # "free" =>
           \A w \in Workers : sock[w] = IF w < nworkers THEN "joined"
                                                        ELSE "none"

LEMMA GroupInit == Init => Group
BY MaxWorkersAssumption DEF Init, Group, Workers

LEMMA GroupNext == ControlInv /\ Group /\ [Next]_vars => Group'
<1> SUFFICES ASSUME ControlInv, Group, [Next]_vars
             PROVE  Group'
  OBVIOUS
<1>1. /\ args \in Args
      /\ sock \in [Workers -> {"none", "bound", "joined"}]
      /\ NumberOfWorkers \in 1 .. MaxWorkers
      /\ \A w \in Workers : w \in Int
  BY SomeWorkers DEF ControlInv, ControlTypes, Workers
<1>2. CASE MainStep
  <2>1. CASE CreateRing
    <3>1. /\ at = "create_ring" /\ at' = "join_fanout"
          /\ i \in Int
          /\ nworkers = 0
          /\ sock' = [sock EXCEPT ![i] = "bound"]
          /\ UNCHANGED <<i, nworkers>>
      BY <2>1 DEF CreateRing, ControlInv, ControlTypes, Progress, setup
    <3> QED
      BY <1>1, <3>1 DEF Group
  <2>2. CASE JoinFanout
    <3>1. /\ at = "join_fanout"
          /\ i \in 0 .. NumberOfWorkers - 1
          /\ nworkers = 0
          /\ sock' = [sock EXCEPT ![i] = "joined"]
      BY <2>2 DEF JoinFanout, ControlInv, Progress
    <3>2. \A w \in Workers :
              sock'[w] = IF w < i + 1 THEN "joined" ELSE "none"
      BY <1>1, <3>1 DEF Group
    <3>3. CASE i + 1 < NumberOfWorkers
      <4>1. at' = "create_ring" /\ i' = i + 1 /\ nworkers' = 0
        BY <2>2, <3>1, <3>3 DEF JoinFanout
      <4> QED
        BY <3>2, <4>1 DEF Group
    <3>4. CASE ~(i + 1 < NumberOfWorkers)
      <4>1. at' = "add_interface" /\ nworkers' = i + 1
        BY <1>1, <2>2, <3>1, <3>4 DEF JoinFanout
      <4> QED
        BY <3>2, <4>1 DEF Group
    <3> QED
      BY <3>3, <3>4
  <2>3. CASE FreeWorker
    <3>1. at' = "free"
      BY <2>3 DEF FreeWorker, ControlInv, Progress, Idle, Workers
    <3> QED
      BY <3>1 DEF Group
  <2>4. CASE \/ AddInterface \/ AddLoadBalanced \/ AddBroadcast \/ Start
             \/ Fail \/ Sigwait \/ StopWorker \/ Join \/ Stopped \/ Exit
    <3>1. /\ UNCHANGED <<sock, nworkers>>
          /\ at' \notin {"create_ring", "join_fanout"}
          /\ at = "free" => at' = "free"
      BY <2>4 DEF AddInterface, AddLoadBalanced, AddBroadcast, Start, Fail,
                  Sigwait, StopWorker, Join, Stopped, Exit, main, setup,
                  workers, NextWorker, NextItem
    <3> QED
      BY <3>1 DEF Group
  <2> QED
    BY <1>2, <2>1, <2>2, <2>3, <2>4 DEF MainStep
<1>3. ASSUME NEW w \in Workers, ThreadStep(w)
      PROVE  Group'
  <2>1. UNCHANGED <<at, i, nworkers, sock>>
    BY <1>3, ThreadChanges
  <2> QED
    BY <2>1 DEF Group
<1>4. CASE Environment \/ UNCHANGED vars
  <2>1. UNCHANGED <<at, i, nworkers, sock>>
    BY <1>4 DEF Environment, vars, main, setup, workers, Arrive
  <2> QED
    BY <2>1 DEF Group
<1> QED
  BY <1>2, <1>3, <1>4 DEF Next

\* A thread that waits has nothing in hand, and no worker has a datagram twice.
Queues ==
    \A w \in Workers :
        /\ thread[w] # "deliver" => batch[w] = <<>>
        /\ IsInjective(batch[w])
        /\ IsInjective(rxq[w])
        /\ \A p \in ToSet(batch[w]) : p \notin ToSet(rxq[w])

Has(w, p) == p \in ToSet(rxq[w]) \/ p \in ToSet(batch[w])

LEMMA QueuesInit == Init => Queues
BY NoneHeld DEF Init, Queues

\* A block is cut off from what the ring holds.
LEMMA CutInTwo ==
    ASSUME NEW S, NEW s \in Seq(S), IsInjective(s), NEW n \in 1 .. Len(s)
    PROVE  /\ IsInjective(SubSeq(s, 1, n))
           /\ IsInjective(SubSeq(s, n + 1, Len(s)))
           /\ \A e : e \in ToSet(s) <=> \/ e \in ToSet(SubSeq(s, 1, n))
                                        \/ e \in ToSet(SubSeq(s, n + 1, Len(s)))
           /\ \A e \in ToSet(SubSeq(s, 1, n)) :
                  e \notin ToSet(SubSeq(s, n + 1, Len(s)))
<1> DEFINE a == SubSeq(s, 1, n)
           b == SubSeq(s, n + 1, Len(s))
<1>1. /\ Len(s) \in Nat /\ DOMAIN s = 1 .. Len(s)
      /\ DOMAIN a = 1 .. n
      /\ \A m \in 1 .. n : a[m] = s[m]
      /\ DOMAIN b = 1 .. Len(s) - n
      /\ \A m \in 1 .. Len(s) - n : b[m] = s[n + m]
  OBVIOUS
<1> HIDE DEF a, b
<1>2. /\ \A m \in 1 .. n : m \in 1 .. Len(s)
      /\ \A m \in 1 .. Len(s) - n : n + m \in 1 .. Len(s)
      /\ \A l, m \in 1 .. Len(s) - n : n + l = n + m => l = m
      /\ \A l \in 1 .. n, m \in 1 .. Len(s) - n : l # n + m
  BY <1>1
<1>3. \A m \in 1 .. Len(s) :
          m \in 1 .. n \/ \E l \in 1 .. Len(s) - n : m = n + l
  <2>1. ASSUME NEW m \in 1 .. Len(s), m \notin 1 .. n
        PROVE  m - n \in 1 .. Len(s) - n /\ m = n + (m - n)
    BY <1>1, <2>1
  <2> QED
    BY <2>1
<1>4. IsInjective(a)
  BY <1>1, <1>2, Zenon DEF IsInjective
<1>5. IsInjective(b)
  <2> SUFFICES ASSUME NEW l \in 1 .. Len(s) - n, NEW m \in 1 .. Len(s) - n,
                      b[l] = b[m]
               PROVE  l = m
    BY <1>1 DEF IsInjective
  <2>1. s[n + l] = s[n + m]
    BY <1>1
  <2>2. n + l = n + m
    BY <1>1, <1>2, <2>1 DEF IsInjective
  <2> QED
    BY <1>2, <2>2
<1>6. \A e : e \in ToSet(s) <=> e \in ToSet(a) \/ e \in ToSet(b)
  <2>1. ASSUME NEW e \in ToSet(s)
        PROVE  e \in ToSet(a) \/ e \in ToSet(b)
    <3>1. PICK m \in 1 .. Len(s) : e = s[m]
      BY <1>1 DEF ToSet
    <3>2. CASE m \in 1 .. n
      BY <1>1, <3>1, <3>2 DEF ToSet
    <3>3. ASSUME NEW l \in 1 .. Len(s) - n, m = n + l
          PROVE  e \in ToSet(b)
      BY <1>1, <3>1, <3>3 DEF ToSet
    <3> QED
      BY <1>3, <3>2, <3>3
  <2>2. ASSUME NEW e \in ToSet(a)
        PROVE  e \in ToSet(s)
    <3>1. PICK m \in 1 .. n : e = s[m]
      BY <1>1 DEF ToSet
    <3> QED
      BY <1>1, <1>2, <3>1 DEF ToSet
  <2>3. ASSUME NEW e \in ToSet(b)
        PROVE  e \in ToSet(s)
    <3>1. PICK m \in 1 .. Len(s) - n : e = s[n + m]
      BY <1>1 DEF ToSet
    <3> QED
      BY <1>1, <1>2, <3>1 DEF ToSet
  <2> QED
    BY <2>1, <2>2, <2>3
<1>7. \A e \in ToSet(a) : e \notin ToSet(b)
  <2> SUFFICES ASSUME NEW l \in 1 .. n, NEW m \in 1 .. Len(s) - n, a[l] = b[m]
               PROVE  FALSE
    BY <1>1 DEF ToSet
  <2>1. s[l] = s[n + m]
    BY <1>1
  <2> QED
    BY <1>1, <1>2, <2>1, Zenon DEF IsInjective
<1> QED
  BY <1>4, <1>5, <1>6, <1>7 DEF a, b

LEMMA HeadIsTaken ==
    ASSUME NEW S, NEW s \in Seq(S), IsInjective(s), s # <<>>
    PROVE  /\ IsInjective(Tail(s))
           /\ Head(s) \in ToSet(s)
           /\ \A e : e \in ToSet(Tail(s)) <=> e \in ToSet(s) /\ e # Head(s)
<1> DEFINE t == Tail(s)
<1>1. /\ Len(s) \in Nat \ {0} /\ DOMAIN s = 1 .. Len(s)
      /\ DOMAIN t = 1 .. Len(s) - 1
      /\ \A m \in 1 .. Len(s) - 1 : t[m] = s[m + 1]
      /\ Head(s) = s[1]
  OBVIOUS
<1> HIDE DEF t
<1>2. /\ \A m \in 1 .. Len(s) - 1 : m + 1 \in 1 .. Len(s) /\ m + 1 # 1
      /\ \A l, m \in 1 .. Len(s) - 1 : l + 1 = m + 1 => l = m
      /\ 1 \in 1 .. Len(s)
  BY <1>1
<1>3. \A m \in 1 .. Len(s) : m = 1 \/ \E l \in 1 .. Len(s) - 1 : m = l + 1
  <2>1. ASSUME NEW m \in 1 .. Len(s), m # 1
        PROVE  m - 1 \in 1 .. Len(s) - 1 /\ m = (m - 1) + 1
    BY <1>1, <2>1
  <2> QED
    BY <2>1
<1>4. IsInjective(t)
  <2> SUFFICES ASSUME NEW l \in DOMAIN t, NEW m \in DOMAIN t, t[l] = t[m]
               PROVE  l = m
    BY DEF IsInjective
  <2>1. s[l + 1] = s[m + 1] /\ l + 1 \in DOMAIN s /\ m + 1 \in DOMAIN s
    BY <1>1, <1>2
  <2>2. l + 1 = m + 1
    BY <2>1, Zenon DEF IsInjective
  <2> QED
    BY <1>1, <2>2
<1>5. Head(s) \in ToSet(s)
  BY <1>1, <1>2 DEF ToSet
<1>6. ASSUME NEW e \in ToSet(t)
      PROVE  e \in ToSet(s) /\ e # Head(s)
  <2>1. PICK m \in 1 .. Len(s) - 1 : e = s[m + 1]
    BY <1>1 DEF ToSet
  <2> QED
    BY <1>1, <1>2, <2>1, Zenon DEF ToSet, IsInjective
<1>7. ASSUME NEW e \in ToSet(s), e # Head(s)
      PROVE  e \in ToSet(t)
  <2>1. PICK m \in 1 .. Len(s) : e = s[m]
    BY <1>1 DEF ToSet
  <2>2. PICK l \in 1 .. Len(s) - 1 : m = l + 1
    BY <1>1, <1>3, <1>7, <2>1
  <2> QED
    BY <1>1, <2>1, <2>2 DEF ToSet
<1> QED
  BY <1>4, <1>5, <1>6, <1>7 DEF t

\* Steps that leave what the workers have, or throw it away.
LEMMA QueuesKept ==
    ASSUME Queues, UNCHANGED batch,
           \A w \in Workers :
               /\ rxq'[w] = rxq[w] \/ rxq'[w] = <<>>
               /\ thread'[w] # "deliver" =>
                      thread[w] # "deliver" \/ batch[w] = <<>>
    PROVE  Queues'
BY NoneHeld DEF Queues

\* recv() takes a block from the ring, and has nothing else in hand.
LEMMA QueuesTake ==
    ASSUME ControlInv, Datagrams, Queues, NEW w \in Workers, TakeBlock(w)
    PROVE  /\ Queues'
           /\ \A v \in Workers : \A p : Has(v, p)' <=> Has(v, p)
<1>1. /\ batch[w] = <<>> /\ IsInjective(rxq[w])
      /\ rxq[w] \in Seq(Packets)
      /\ thread' = [thread EXCEPT ![w] = "deliver"]
  BY DEF TakeBlock, Queues, Datagrams
<1>2. PICK n \in 1 .. Len(rxq[w]) :
          /\ batch' = [batch EXCEPT ![w] = SubSeq(rxq[w], 1, n)]
          /\ rxq' = [rxq EXCEPT ![w] = SubSeq(@, n + 1, Len(@))]
  BY DEF TakeBlock
<1>3. /\ batch'[w] = SubSeq(rxq[w], 1, n)
      /\ rxq'[w] = SubSeq(rxq[w], n + 1, Len(rxq[w]))
      /\ thread'[w] = "deliver"
      /\ \A v \in Workers : v # w => /\ batch'[v] = batch[v]
                                     /\ rxq'[v] = rxq[v]
                                     /\ thread'[v] = thread[v]
  BY <1>1, <1>2 DEF Datagrams, ControlInv, ControlTypes
<1>4. /\ IsInjective(batch'[w])
      /\ IsInjective(rxq'[w])
      /\ \A e : e \in ToSet(rxq[w]) <=>
                    e \in ToSet(batch'[w]) \/ e \in ToSet(rxq'[w])
      /\ \A e \in ToSet(batch'[w]) : e \notin ToSet(rxq'[w])
  BY <1>1, <1>3, CutInTwo
<1>5. Queues'
  <2> SUFFICES ASSUME NEW v \in Workers
               PROVE  /\ thread'[v] # "deliver" => batch'[v] = <<>>
                      /\ IsInjective(batch'[v])
                      /\ IsInjective(rxq'[v])
                      /\ \A p \in ToSet(batch'[v]) : p \notin ToSet(rxq'[v])
    BY DEF Queues
  <2>1. CASE v = w
    BY <1>3, <1>4, <2>1
  <2>2. CASE v # w
    BY <1>3, <2>2 DEF Queues
  <2> QED
    BY <2>1, <2>2
<1>6. ASSUME NEW v \in Workers
      PROVE  \A p : Has(v, p)' <=> Has(v, p)
  <2>1. CASE v = w
    BY <1>1, <1>4, <2>1, NoneHeld DEF Has
  <2>2. CASE v # w
    BY <1>3, <2>2 DEF Has
  <2> QED
    BY <2>1, <2>2
<1> QED
  BY <1>5, <1>6

\* fnpacket() hands on the datagram at the head of the block.
LEMMA QueuesHand ==
    ASSUME Datagrams, Queues, NEW w \in Workers, Deliver(w),
           batch' = [batch EXCEPT ![w] = Tail(@)], UNCHANGED <<rxq, thread>>
    PROVE  /\ Queues'
           /\ Has(w, Current(w))
           /\ \A v \in Workers : \A p :
                  Has(v, p)' <=> Has(v, p) /\ ~(v = w /\ p = Current(w))
<1>1. /\ batch[w] \in Seq(Packets) /\ batch[w] # <<>> /\ IsInjective(batch[w])
      /\ thread[w] = "deliver"
      /\ \A p \in ToSet(batch[w]) : p \notin ToSet(rxq[w])
      /\ batch'[w] = Tail(batch[w])
      /\ \A v \in Workers : v # w => batch'[v] = batch[v]
  BY DEF Deliver, Queues, Datagrams
<1>2. /\ IsInjective(batch'[w])
      /\ Current(w) \in ToSet(batch[w])
      /\ \A e : e \in ToSet(batch'[w]) <=>
                    e \in ToSet(batch[w]) /\ e # Current(w)
  BY <1>1, HeadIsTaken DEF Current
<1>3. Queues'
  BY <1>1, <1>2 DEF Queues
<1>4. ASSUME NEW v \in Workers
      PROVE  \A p : Has(v, p)' <=> Has(v, p) /\ ~(v = w /\ p = Current(w))
  <2>1. CASE v = w
    BY <1>1, <1>2, <2>1 DEF Has
  <2>2. CASE v # w
    BY <1>1, <2>2 DEF Has
  <2> QED
    BY <2>1, <2>2
<1> QED
  BY <1>2, <1>3, <1>4 DEF Has

\* A datagram arrives at the sockets that are alone and at one of the group.
LEMMA QueuesArrive ==
    ASSUME Datagrams, Queues, NEW datagram \in Kinds, Arrive(datagram)
    PROVE  /\ Queues'
           /\ \E chosen \in SUBSET {w \in Workers : sock[w] = "joined"} :
                  /\ Cardinality(chosen) =
                         IF {w \in Workers : sock[w] = "joined"} = {}
                         THEN 0 ELSE 1
                  /\ \A v \in Workers : \A p :
                         Has(v, p)' <=>
                             \/ Has(v, p)
                             \/ /\ p = Len(kind) + 1
                                /\ sock[v] = "bound" \/ v \in chosen
<1> DEFINE new == Len(kind) + 1
           group == {w \in Workers : sock[w] = "joined"}
<1>1. PICK chosen \in SUBSET group :
          /\ Cardinality(chosen) = IF group = {} THEN 0 ELSE 1
          /\ rxq' = [w \in Workers |->
                        IF w \in {v \in Workers : sock[v] = "bound"} \cup chosen
                        THEN Append(rxq[w], new) ELSE rxq[w]]
  BY DEF Arrive, Captured
<1>2. UNCHANGED <<batch, thread>>
  BY DEF Arrive, workers
<1>3. ASSUME NEW w \in Workers
      PROVE  /\ IsInjective(rxq'[w])
             /\ \A p \in ToSet(batch[w]) : p \notin ToSet(rxq'[w])
             /\ \A p : p \in ToSet(rxq'[w]) <=>
                           \/ p \in ToSet(rxq[w])
                           \/ p = new /\ (sock[w] = "bound" \/ w \in chosen)
  <2>1. /\ rxq[w] \in Seq(Nat) /\ new \in Nat
        /\ new \notin ToSet(rxq[w]) /\ new \notin ToSet(batch[w])
    <3>1. rxq[w] \in Seq(Packets) /\ batch[w] \in Seq(Packets)
          /\ Len(kind) \in Nat
      BY DEF Datagrams
    <3>2. new \notin Packets /\ Packets \subseteq Nat
      BY <3>1 DEF Packets
    <3> HIDE DEF new, Packets
    <3>3. \A p \in ToSet(rxq[w]) \cup ToSet(batch[w]) : p \in Packets
      BY <3>1 DEF ToSet
    <3>4. rxq[w] \in Seq(Nat)
      BY <3>1 DEF Packets
    <3>5. new \in Nat
      BY <3>1 DEF new
    <3> QED
      BY <3>2, <3>3, <3>4, <3>5
  <2>2. /\ IsInjective(rxq[w])
        /\ \A p \in ToSet(batch[w]) : p \notin ToSet(rxq[w])
    BY DEF Queues
  <2> HIDE DEF new
  <2>3. /\ IsInjective(Append(rxq[w], new))
        /\ \A e : e \in ToSet(Append(rxq[w], new)) <=>
                      e \in ToSet(rxq[w]) \/ e = new
    BY <2>1, <2>2, InjectiveAppend, OneMoreHeld
  <2>4. CASE sock[w] = "bound" \/ w \in chosen
    <3>1. rxq'[w] = Append(rxq[w], new)
      BY <1>1, <2>4
    <3> QED
      BY <2>1, <2>2, <2>3, <2>4, <3>1
  <2>5. CASE ~(sock[w] = "bound" \/ w \in chosen)
    <3>1. rxq'[w] = rxq[w]
      BY <1>1, <2>5
    <3> QED
      BY <2>2, <2>5, <3>1
  <2> QED
    BY <2>4, <2>5
<1>4. Queues'
  BY <1>2, <1>3 DEF Queues
<1>5. \A v \in Workers : \A p :
          Has(v, p)' <=> \/ Has(v, p)
                         \/ p = new /\ (sock[v] = "bound" \/ v \in chosen)
  BY <1>2, <1>3 DEF Has
<1> QED
  BY <1>1, <1>4, <1>5

LEMMA QueuesMain ==
    ASSUME ControlInv, Datagrams, Queues, MainStep
    PROVE  /\ Queues'
           /\ UNCHANGED <<args, kind, early, batch, log>>
           /\ proc = "running"
           /\ at' # "free" => at # "free" /\ UNCHANGED rxq
<1>1. /\ UNCHANGED <<args, kind, early, batch, log>>
      /\ proc = "running"
  BY DEF MainStep, CreateRing, JoinFanout, AddInterface, AddLoadBalanced,
         AddBroadcast, Start, Fail, StopWorker, Join, Stopped, FreeWorker,
         Sigwait, Exit, flow
<1>2. CASE Start
  <2>1. /\ i \in Workers
        /\ thread[i] = "none"
    BY <1>2, SomeWorkers, MaxWorkersAssumption
       DEF Start, ControlInv, ControlTypes, Progress, Idle, Workers
  <2>2. /\ UNCHANGED <<rxq, batch>> /\ at # "free"
        /\ thread' = [thread EXCEPT ![i] = "recv"]
    BY <1>2 DEF Start, flow
  <2>3. \A w \in Workers : thread'[w] # "deliver" => thread[w] # "deliver"
    BY <2>1, <2>2 DEF ControlInv, ControlTypes
  <2> QED
    BY <1>1, <2>2, <2>3, QueuesKept
<1>3. CASE Join
  <2>1. /\ UNCHANGED <<rxq, batch>> /\ at # "free"
        /\ thread[i] = "ended"
        /\ thread' = [thread EXCEPT ![i] = "none"]
    BY <1>3 DEF Join, flow
  <2>2. \A w \in Workers : thread'[w] # "deliver" => thread[w] # "deliver"
    BY <2>1 DEF ControlInv, ControlTypes
  <2> QED
    BY <1>1, <2>1, <2>2, QueuesKept
<1>4. CASE FreeWorker
  <2>1. at' = "free" /\ UNCHANGED <<batch, thread>>
    BY <1>4 DEF FreeWorker, ControlInv, Progress, Idle, Workers
  <2>2. rxq' = rxq \/ rxq' = [rxq EXCEPT ![i] = <<>>]
    BY <1>4 DEF FreeWorker
  <2>3. \A w \in Workers : rxq'[w] = rxq[w] \/ rxq'[w] = <<>>
    BY <2>2 DEF Datagrams
  <2> QED
    BY <1>1, <2>1, <2>3, QueuesKept
<1>5. CASE \/ CreateRing \/ JoinFanout \/ AddInterface \/ AddLoadBalanced
           \/ AddBroadcast \/ Fail \/ Sigwait \/ StopWorker \/ Stopped \/ Exit
  <2>1. /\ UNCHANGED <<rxq, batch, thread>>
        /\ at = "free" => at' = "free"
    BY <1>5 DEF CreateRing, JoinFanout, AddInterface, AddLoadBalanced,
                AddBroadcast, Fail, Sigwait, StopWorker, Stopped, Exit, main,
                workers, flow
  <2> QED
    BY <1>1, <2>1, QueuesKept
<1> QED
  BY <1>2, <1>3, <1>4, <1>5 DEF MainStep

\* Datagram p waits at one worker, or has been distributed.
Exactly(p) ==
    \/ /\ \E w \in Workers : \A v \in Workers : Has(v, p) <=> v = w
       /\ log[p] = <<>>
    \/ (\A v \in Workers : ~Has(v, p)) /\ Distributed(p)

Steady ==
    proc = "running" /\ at # "free" =>
        \A p \in early + 1 .. Len(kind) : Exactly(p)

SteadyInv == ReplicationInv /\ Group /\ Queues /\ Steady

LEMMA SteadyInit == Init => Steady
<1> SUFFICES ASSUME Init
             PROVE  Steady
  OBVIOUS
<1>1. early = 0 /\ Len(kind) = 0
  BY DEF Init
<1> QED
  BY <1>1 DEF Steady

\* Steps that leave the datagrams where they are.
LEMMA SteadyKept ==
    ASSUME Steady, UNCHANGED <<args, kind, early, log>>,
           \A v \in Workers : \A p : Has(v, p)' <=> Has(v, p),
           proc' = "running" /\ at' # "free" => proc = "running" /\ at # "free"
    PROVE  Steady'
<1> SUFFICES ASSUME proc' = "running", at' # "free",
                    NEW p \in early + 1 .. Len(kind)
             PROVE  Exactly(p)'
  BY DEF Steady
<1>1. Exactly(p)
  BY DEF Steady
<1>2. Distributed(p)' <=> Distributed(p)
  BY DEF Distributed, Lists, DestsOf
<1>3. log'[p] = log[p]
  OBVIOUS
<1> HIDE DEF Has, Distributed
<1>4. CASE (\E w \in Workers : \A v \in Workers : Has(v, p) <=> v = w)
           /\ log[p] = <<>>
  BY <1>3, <1>4 DEF Exactly
<1>5. CASE (\A v \in Workers : ~Has(v, p)) /\ Distributed(p)
  BY <1>2, <1>5 DEF Exactly
<1> QED
  BY <1>1, <1>4, <1>5 DEF Exactly

\* What forward() or broadcast() does with the datagram of a thread is all that
\* is to be done with it.
LEMMA SteadyHand ==
    ASSUME ControlInv, Additions, Datagrams, Queues, Steady,
           NEW w \in Workers, Deliver(w),
           NEW dests \in Seq(DOMAIN args.dests), HandedTo(w, dests),
           IF args.type = "broadcaster"
           THEN Lists(dests, kind[Current(w)].af)
           ELSE Len(dests) = 1 /\ dests[1] \in DestsOf(kind[Current(w)].af),
           UNCHANGED <<args, at, proc, kind, early, rxq, thread>>
    PROVE  Queues' /\ Steady'
<1> DEFINE c == Current(w)
<1>1. /\ log \in Seq(Seq(DOMAIN args.dests))
      /\ c \in 1 .. Len(log)
      /\ log' = [log EXCEPT ![c] = @ \o dests]
      /\ batch' = [batch EXCEPT ![w] = Tail(@)]
  BY CurrentDatagram DEF HandedTo, Datagrams
<1>2. /\ Queues'
      /\ Has(w, c)
      /\ \A v \in Workers : \A p : Has(v, p)' <=> Has(v, p) /\ ~(v = w /\ p = c)
  BY <1>1, QueuesHand
<1>3. Steady'
  <2> SUFFICES ASSUME proc = "running", at # "free",
                      NEW p \in early + 1 .. Len(kind)
               PROVE  Exactly(p)'
    BY DEF Steady
  <2>1. Exactly(p)
    BY DEF Steady
  <2>2. CASE p = c
    <3>1. /\ log[p] = <<>>
          /\ \A v \in Workers : Has(v, p) <=> v = w
      BY <1>2, <2>1, <2>2 DEF Exactly
    <3>2. \A v \in Workers : ~Has(v, p)'
      BY <1>2, <2>2, <3>1
    <3>3. log'[p] = dests
      <4>1. log'[p] = log[p] \o dests
        BY <1>1, <2>2
      <4>2. <<>> \o dests = dests
        OBVIOUS
      <4> QED
        BY <3>1, <4>1, <4>2
    <3>4. Distributed(p)'
      BY <2>2, <3>3 DEF Distributed, Lists, DestsOf
    <3> QED
      BY <3>2, <3>4 DEF Exactly
  <2>3. CASE p # c
    <3>1. \A v \in Workers : Has(v, p)' <=> Has(v, p)
      BY <1>2, <2>3
    <3>2. log'[p] = log[p]
      BY <1>1, <2>3
    <3>3. Distributed(p)' <=> Distributed(p)
      BY <3>2 DEF Distributed, Lists, DestsOf
    <3> HIDE DEF Has, Distributed
    <3>4. CASE (\E v \in Workers : \A u \in Workers : Has(u, p) <=> u = v)
               /\ log[p] = <<>>
      BY <3>1, <3>2, <3>4 DEF Exactly
    <3>5. CASE (\A v \in Workers : ~Has(v, p)) /\ Distributed(p)
      BY <3>1, <3>3, <3>5 DEF Exactly
    <3> QED
      BY <2>1, <3>4, <3>5 DEF Exactly
  <2> QED
    BY <2>2, <2>3
<1> QED
  BY <1>2, <1>3

LEMMA SteadyThread ==
    ASSUME SteadyInv, NEW w \in Workers, ThreadStep(w)
    PROVE  Queues' /\ Steady'
<1>1. /\ ControlInv /\ Additions /\ Turn /\ Datagrams /\ Placed
      /\ Replication /\ Queues /\ Steady
  BY DEF SteadyInv, ReplicationInv, PlacedInv, TypeInv
<1>2. /\ UNCHANGED <<args, at>> /\ proc = "running"
      /\ thread \in [Workers -> {"none", "recv", "deliver", "ended"}]
  BY <1>1, ThreadChanges DEF ThreadStep, ControlInv, ControlTypes
<1>3. CASE TakeBlock(w)
  <2>1. Queues' /\ \A v \in Workers : \A p : Has(v, p)' <=> Has(v, p)
    BY <1>1, <1>3, QueuesTake
  <2>2. UNCHANGED <<kind, early, log>>
    BY <1>3 DEF TakeBlock
  <2> QED
    BY <1>1, <1>2, <2>1, <2>2, SteadyKept
<1>4. CASE RecvTimeout(w) \/ EndOfBlock(w) \/ ForwardToNobody(w)
  <2>1. UNCHANGED <<rxq, batch, kind, early, log>>
    BY <1>4 DEF RecvTimeout, EndOfBlock, ForwardToNobody, flow
  <2>2. ASSUME NEW v \in Workers, thread'[v] # "deliver"
        PROVE  thread[v] # "deliver" \/ batch[v] = <<>>
    <3>1. CASE RecvTimeout(w)
      BY <1>2, <2>2, <3>1 DEF RecvTimeout, Loop
    <3>2. CASE EndOfBlock(w)
      BY <1>2, <2>2, <3>2 DEF EndOfBlock, Loop
    <3>3. CASE ForwardToNobody(w)
      BY <2>2, <3>3 DEF ForwardToNobody, workers
    <3> QED
      BY <1>4, <3>1, <3>2, <3>3
  <2>3. Queues'
    BY <1>1, <2>1, <2>2, QueuesKept
  <2>4. \A v \in Workers : \A p : Has(v, p)' <=> Has(v, p)
    BY <2>1 DEF Has
  <2> QED
    BY <1>1, <1>2, <2>1, <2>3, <2>4, SteadyKept
<1>5. ASSUME Deliver(w)
      PROVE  /\ TableFor(w) \in Seq(DOMAIN args.dests)
             /\ kind[Current(w)].af \in Families
             /\ Alive(w)
  BY <1>1, <1>5, CurrentDatagram DEF Deliver, Alive
<1>6. CASE Forward(w)
  <2> DEFINE t == TableFor(w)
             af == kind[Current(w)].af
             turn == next[w][af]
  <2>1. /\ Deliver(w) /\ t # <<>>
        /\ args.type = "load_balancer"
        /\ HandedTo(w, <<t[turn + 1]>>)
        /\ UNCHANGED <<kind, early, rxq, thread>>
    BY <1>6 DEF Forward, workers
  <2>2. UNCHANGED proc
    BY <1>6, <2>1 DEF ThreadStep, ForwardToNobody, TakeBlock, RecvTimeout,
                      EndOfBlock, Broadcast
  <2>3. t \in Seq(DOMAIN args.dests) /\ af \in Families /\ at # "free"
    BY <1>1, <1>5, <2>1 DEF ControlInv, Progress, Idle, Alive
  <2>4. turn \in Nat /\ (turn = 0 \/ turn < Len(t))
    BY <1>1, <2>3 DEF Turn, TableFor
  <2>5. turn + 1 \in DOMAIN t /\ t[turn + 1] \in DOMAIN args.dests
    <3> HIDE DEF t, turn
    <3>1. turn + 1 \in 1 .. Len(t)
      BY <2>1, <2>3, <2>4
    <3> QED
      BY <2>3, <3>1
  <2>6. t[turn + 1] \in DestsOf(af)
    <3>1. t[turn + 1] \in ToSet(table[w][af])
      BY <2>5 DEF ToSet, TableFor
    <3>2. args.dests[t[turn + 1]].af = af
      BY <1>1, <2>3, <3>1 DEF Placed
    <3> QED
      BY <2>5, <3>2 DEF DestsOf
  <2> DEFINE dests == <<t[turn + 1]>>
  <2>7. /\ dests \in Seq(DOMAIN args.dests)
        /\ Len(dests) = 1 /\ dests[1] \in DestsOf(af)
    <3> DEFINE d == t[turn + 1]
               D == DOMAIN args.dests
    <3>1. d \in D /\ d \in DestsOf(af)
      BY <2>5, <2>6
    <3> HIDE DEF d, D, af
    <3>2. <<d>> \in Seq(D)
      BY <3>1
    <3>3. Len(<<d>>) = 1 /\ <<d>>[1] = d
      OBVIOUS
    <3> QED
      BY <3>1, <3>2, <3>3 DEF d, D
  <2>8. HandedTo(w, dests)
    BY <2>1
  <2> HIDE DEF dests
  <2> QED
    BY <1>1, <1>2, <2>1, <2>2, <2>7, <2>8, SteadyHand
<1>7. CASE Broadcast(w)
  <2>1. /\ Deliver(w)
        /\ args.type = "broadcaster"
        /\ HandedTo(w, TableFor(w))
        /\ UNCHANGED <<kind, early, rxq, thread>>
    BY <1>7 DEF Broadcast, workers
  <2>2. UNCHANGED proc
    BY <1>7, <2>1 DEF ThreadStep, ForwardToNobody, TakeBlock, RecvTimeout,
                      EndOfBlock, Forward
  <2>3. Lists(TableFor(w), kind[Current(w)].af)
    <3>1. Filled(w, Len(args.dests))
      BY <1>1, <1>5, <2>1 DEF Replication, Broadcaster
    <3>2. args \in Args
      BY <1>1 DEF ControlInv, ControlTypes
    <3> QED
      BY <1>5, <2>1, <3>1, <3>2, FilledLists DEF TableFor
  <2> QED
    BY <1>1, <1>2, <1>5, <2>1, <2>2, <2>3, SteadyHand
<1> QED
  BY <1>3, <1>4, <1>6, <1>7 DEF ThreadStep

\* Once every worker is in the group, one worker gets what arrives.
LEMMA SteadyArrive ==
    ASSUME SteadyInv, NEW datagram \in Kinds, Arrive(datagram),
           UNCHANGED <<args, at, proc, nworkers>>
    PROVE  Queues' /\ Steady'
<1>1. ControlInv /\ Datagrams /\ Group /\ Queues /\ Steady
  BY DEF SteadyInv, ReplicationInv, PlacedInv, TypeInv
<1> DEFINE new == Len(kind) + 1
           group == {w \in Workers : sock[w] = "joined"}
<1>2. /\ Len(kind) \in Nat /\ early \in 0 .. Len(kind)
      /\ Len(kind') = new
      /\ \A p \in 1 .. Len(kind) : kind'[p] = kind[p]
  BY <1>1 DEF Datagrams, Arrive
<1>3. /\ \A p \in 1 .. Len(kind) : log'[p] = log[p]
      /\ log'[new] = <<>>
      /\ early' = IF nworkers = 0 THEN new ELSE early
  BY <1>1 DEF Datagrams, Arrive
<1>4. PICK chosen \in SUBSET group :
          /\ Cardinality(chosen) = IF group = {} THEN 0 ELSE 1
          /\ \A v \in Workers : \A p :
                 Has(v, p)' <=> \/ Has(v, p)
                                \/ p = new /\ (sock[v] = "bound" \/ v \in chosen)
  BY <1>1, QueuesArrive
<1>5. Queues'
  BY <1>1, QueuesArrive
<1>6. Steady'
  <2> SUFFICES ASSUME proc = "running", at # "free",
                      NEW p \in early' + 1 .. Len(kind')
               PROVE  Exactly(p)'
    BY DEF Steady
  <2>1. nworkers # 0 /\ early' = early
    BY <1>2, <1>3
  <2>2. CASE p = new
    <3>1. \A v \in Workers : ~Has(v, p)
      <4>1. \A v \in Workers : rxq[v] \in Seq(Packets) /\ batch[v] \in Seq(Packets)
        BY <1>1 DEF Datagrams
      <4>2. p \notin Packets
        BY <1>2, <2>2 DEF Packets
      <4>3. \A v \in Workers :
                p \notin ToSet(rxq[v]) /\ p \notin ToSet(batch[v])
        <5> HIDE DEF Packets
        <5> QED
          BY <4>1, <4>2 DEF ToSet
      <4> QED
        BY <4>3 DEF Has
    <3>2. \A v \in Workers :
              sock[v] = IF v < nworkers THEN "joined" ELSE "none"
      BY <1>1, <2>1 DEF Group
    <3>3. group # {}
      <4>1. 0 \in Workers /\ 0 < nworkers
        BY <1>1, <2>1, SomeWorkers, MaxWorkersAssumption
           DEF ControlInv, ControlTypes, Workers
      <4> QED
        BY <3>2, <4>1
    <3>4. PICK u : chosen = {u}
      <4>1. Cardinality(chosen) = 1
        BY <1>4, <3>3
      <4>2. IsFiniteSet(chosen)
        <5>1. IsFiniteSet(Workers)
          BY FS_Interval, MaxWorkersAssumption DEF Workers
        <5>2. chosen \subseteq Workers
          OBVIOUS
        <5> QED
          BY <5>1, <5>2, FS_Subset
      <4> QED
        BY <4>1, <4>2, FS_Singleton
    <3>5. u \in Workers
      BY <3>4
    <3>6. \A v \in Workers : Has(v, p)' <=> v = u
      BY <1>4, <2>2, <3>1, <3>2, <3>4
    <3>7. log'[p] = <<>>
      BY <1>3, <2>2
    <3> QED
      BY <3>5, <3>6, <3>7 DEF Exactly
  <2>3. CASE p # new
    <3>1. p \in early + 1 .. Len(kind) /\ p \in 1 .. Len(kind)
      BY <1>2, <2>1, <2>3
    <3>2. Exactly(p)
      BY <1>1, <3>1 DEF Steady
    <3>3. \A v \in Workers : Has(v, p)' <=> Has(v, p)
      BY <1>4, <2>3
    <3>4. log'[p] = log[p] /\ kind'[p] = kind[p]
      BY <1>2, <1>3, <3>1
    <3>5. Distributed(p)' <=> Distributed(p)
      BY <3>4 DEF Distributed, Lists, DestsOf
    <3> HIDE DEF Has, Distributed
    <3>6. CASE (\E v \in Workers : \A u \in Workers : Has(u, p) <=> u = v)
               /\ log[p] = <<>>
      BY <3>3, <3>4, <3>6 DEF Exactly
    <3>7. CASE (\A v \in Workers : ~Has(v, p)) /\ Distributed(p)
      BY <3>3, <3>5, <3>7 DEF Exactly
    <3> QED
      BY <3>2, <3>6, <3>7 DEF Exactly
  <2> QED
    BY <2>2, <2>3
<1> QED
  BY <1>5, <1>6

LEMMA SteadyNext == SteadyInv /\ [Next]_vars => Queues' /\ Steady'
<1> SUFFICES ASSUME SteadyInv, [Next]_vars
             PROVE  Queues' /\ Steady'
  OBVIOUS
<1>1. ControlInv /\ Datagrams /\ Queues /\ Steady
  BY DEF SteadyInv, ReplicationInv, PlacedInv, TypeInv
<1>2. CASE MainStep
  <2>1. /\ Queues'
        /\ UNCHANGED <<args, kind, early, batch, log>>
        /\ proc = "running"
        /\ at' # "free" => at # "free" /\ UNCHANGED rxq
    BY <1>1, <1>2, QueuesMain
  <2>2. CASE at' = "free"
    BY <2>1, <2>2 DEF Steady
  <2>3. CASE at' # "free"
    <3>1. \A v \in Workers : \A p : Has(v, p)' <=> Has(v, p)
      BY <2>1, <2>3 DEF Has
    <3> QED
      BY <1>1, <2>1, <2>3, <3>1, SteadyKept
  <2> QED
    BY <2>2, <2>3
<1>3. ASSUME NEW w \in Workers, ThreadStep(w)
      PROVE  Queues' /\ Steady'
  BY <1>3, SteadyThread
<1>4. CASE Environment
  <2>1. UNCHANGED <<args, at, proc, nworkers>>
    BY <1>4 DEF Environment, main, setup
  <2>2. CASE \E datagram \in Kinds : Arrive(datagram)
    BY <2>1, <2>2, SteadyArrive
  <2>3. CASE UNCHANGED <<workers, flow>>
    <3>1. UNCHANGED <<thread, rxq, batch, kind, early, log>>
      BY <2>3 DEF workers, flow
    <3>2. \A v \in Workers : \A p : Has(v, p)' <=> Has(v, p)
      BY <3>1 DEF Has
    <3>3. Queues'
      BY <1>1, <3>1, QueuesKept
    <3> QED
      BY <1>1, <2>1, <3>1, <3>2, <3>3, SteadyKept
  <2> QED
    BY <1>4, <2>2, <2>3 DEF Environment
<1>5. CASE UNCHANGED vars
  <2>1. UNCHANGED <<args, at, proc, thread, rxq, batch, kind, early, log>>
    BY <1>5 DEF vars, main, workers, flow
  <2>2. \A v \in Workers : \A p : Has(v, p)' <=> Has(v, p)
    BY <2>1 DEF Has
  <2>3. Queues'
    BY <1>1, <2>1, QueuesKept
  <2> QED
    BY <1>1, <2>1, <2>2, <2>3, SteadyKept
<1> QED
  BY <1>2, <1>3, <1>4, <1>5 DEF Next

LEMMA SteadyAlways ==
    /\ Init => SteadyInv
    /\ SteadyInv /\ [Next]_vars => SteadyInv'
<1>1. Init => SteadyInv
  BY ReplicationAlways, GroupInit, QueuesInit, SteadyInit DEF SteadyInv
<1>2. SteadyInv /\ [Next]_vars => SteadyInv'
  <2> SUFFICES ASSUME SteadyInv, [Next]_vars
               PROVE  SteadyInv'
    OBVIOUS
  <2>1. ReplicationInv' /\ Group'
    BY ReplicationAlways, GroupNext
       DEF SteadyInv, ReplicationInv, PlacedInv, TypeInv
  <2> QED
    BY <2>1, SteadyNext DEF SteadyInv
<1> QED
  BY <1>1, <1>2

LEMMA TwoInOne ==
    ASSUME NEW S, NEW s \in Seq(S), NEW t \in Seq(S)
    PROVE  ToSet(s \o t) = ToSet(s) \cup ToSet(t)
<1>1. /\ Len(s) \in Nat /\ DOMAIN s = 1 .. Len(s)
      /\ Len(t) \in Nat /\ DOMAIN t = 1 .. Len(t)
      /\ DOMAIN (s \o t) = 1 .. Len(s) + Len(t)
      /\ \A n \in 1 .. Len(s) : (s \o t)[n] = s[n]
      /\ \A n \in 1 .. Len(t) : (s \o t)[Len(s) + n] = t[n]
  OBVIOUS
<1>2. ASSUME NEW e \in ToSet(s \o t)
      PROVE  e \in ToSet(s) \cup ToSet(t)
  <2>1. PICK n \in 1 .. Len(s) + Len(t) : e = (s \o t)[n]
    BY <1>1 DEF ToSet
  <2>2. CASE n \in 1 .. Len(s)
    BY <1>1, <2>1, <2>2 DEF ToSet
  <2>3. CASE n \notin 1 .. Len(s)
    <3>1. PICK m \in 1 .. Len(t) : n = Len(s) + m
      <4>1. n - Len(s) \in 1 .. Len(t) /\ n = Len(s) + (n - Len(s))
        BY <1>1, <2>1, <2>3
      <4> QED
        BY <4>1
    <3> QED
      BY <1>1, <2>1, <3>1 DEF ToSet
  <2> QED
    BY <2>2, <2>3
<1>3. /\ \A n \in 1 .. Len(s) : n \in 1 .. Len(s) + Len(t)
      /\ \A n \in 1 .. Len(t) : Len(s) + n \in 1 .. Len(s) + Len(t)
  BY <1>1
<1>4. ASSUME NEW e \in ToSet(s)
      PROVE  e \in ToSet(s \o t)
  BY <1>1, <1>3 DEF ToSet
<1>5. ASSUME NEW e \in ToSet(t)
      PROVE  e \in ToSet(s \o t)
  BY <1>1, <1>3 DEF ToSet
<1> QED
  BY <1>2, <1>4, <1>5

\* However the threads interleave, and with any number of workers: a datagram
\* that arrives once the fanout group is complete is waiting at one worker, or
\* one worker has distributed it, to one destination of its family or to all.
THEOREM SteadyExactlyOnceHolds == Spec => []SteadyExactlyOnce
<1>1. SteadyInv => SteadyExactlyOnce
  <2> SUFFICES ASSUME SteadyInv, proc = "running", at # "free",
                      NEW p \in early + 1 .. Len(kind)
               PROVE  \/ /\ \E w \in Workers : Holders(p) = {w}
                         /\ log[p] = <<>>
                      \/ Holders(p) = {} /\ Distributed(p)
    BY DEF SteadyExactlyOnce
  <2>1. \A w \in Workers : p \in ToSet(Waiting(w)) <=> Has(w, p)
    <3> SUFFICES ASSUME NEW w \in Workers
                 PROVE  p \in ToSet(Waiting(w)) <=> Has(w, p)
      OBVIOUS
    <3>1. rxq[w] \in Seq(Packets) /\ batch[w] \in Seq(Packets)
      BY DEF SteadyInv, ReplicationInv, PlacedInv, TypeInv, Datagrams
    <3>2. ToSet(rxq[w] \o batch[w]) = ToSet(rxq[w]) \cup ToSet(batch[w])
      BY <3>1, TwoInOne
    <3> QED
      BY <3>2 DEF Waiting, Has
  <2>2. Exactly(p)
    BY DEF SteadyInv, Steady
  <2>3. Holders(p) = {w \in Workers : Has(w, p)}
    BY <2>1 DEF Holders
  <2> HIDE DEF Has, Distributed
  <2>4. CASE \A v \in Workers : ~Has(v, p)
    BY <2>2, <2>3, <2>4 DEF Exactly
  <2>5. ASSUME NEW w \in Workers, \A v \in Workers : Has(v, p) <=> v = w
        PROVE  Holders(p) = {w}
    BY <2>3, <2>5
  <2> QED
    BY <2>2, <2>4, <2>5 DEF Exactly
<1> QED
  BY <1>1, SteadyAlways, PTL DEF Spec

-----------------------------------------------------------------------------
(* The load balancer: the destinations of a worker take turns.             *)

\* main() has not come to the threads.
Unstarted == Creating \/ at = "add_destination"

\* Nobody has handed on anything by then.
NoneSent ==
    /\ \A w \in Workers, f \in Families : next[w][f] = 0
    /\ \A p \in 1 .. Len(log) : log[p] = <<>>

Silent == Unstarted => NoneSent

\* A datagram that waits at a worker was not handed to a destination of this
\* worker, even if there are copies of it at several workers.
NotYet ==
    LoadBalancer =>
        \A w \in Workers, f \in Families, p \in Packets :
            Has(w, p) => \A d \in ToSet(table[w][f]) : d \notin ToSet(log[p])

\* The destinations before the next one are one datagram ahead.
InTurn ==
    LoadBalancer =>
        \A w \in Workers, f \in Families :
            \E q \in Nat :
                \A m \in DOMAIN table[w][f] :
                    Turns(table[w][f][m]) =
                        IF m <= next[w][f] THEN q + 1 ELSE q

Sent(d) == {p \in Packets : d \in ToSet(log[p])}

TurnsInv == SteadyInv /\ Silent /\ NotYet /\ InTurn

LEMMA NothingSent ==
    ASSUME Datagrams, \A p \in 1 .. Len(log) : log[p] = <<>>
    PROVE  \A d : Turns(d) = 0
<1>1. \A p \in Packets : log[p] = <<>>
  BY DEF Datagrams, Packets
<1>2. \A d : {p \in Packets : d \in ToSet(log[p])} = {}
  BY <1>1, NoneHeld
<1> QED
  BY <1>2, FS_EmptySet DEF Turns

\* As long as nobody has handed on anything, the tables may change.
LEMMA SilentIsInTurn ==
    Additions /\ Datagrams /\ NoneSent => NotYet /\ InTurn
<1> SUFFICES ASSUME Additions, Datagrams, NoneSent
             PROVE  NotYet /\ InTurn
  OBVIOUS
<1>1. \A d : Turns(d) = 0
  BY NothingSent DEF NoneSent
<1>2. NotYet
  BY NoneHeld DEF NotYet, Datagrams, Packets, NoneSent
<1>3. InTurn
  <2>1. ASSUME NEW w \in Workers, NEW f \in Families
        PROVE  \A m \in DOMAIN table[w][f] :
                   Turns(table[w][f][m]) = IF m <= next[w][f] THEN 0 + 1 ELSE 0
    <3>1. \A m \in DOMAIN table[w][f] : ~(m <= next[w][f])
      <4>1. table[w][f] \in Seq(DOMAIN args.dests)
        BY DEF Additions
      <4>2. DOMAIN table[w][f] = 1 .. Len(table[w][f])
        BY <4>1
      <4> QED
        BY <4>2 DEF NoneSent
    <3> QED
      BY <1>1, <3>1
  <2> QED
    BY <2>1 DEF InTurn
<1> QED
  BY <1>2, <1>3

LEMMA SilentNextInTurn ==
    Additions' /\ Datagrams' /\ NoneSent' => NotYet' /\ InTurn'
BY SilentIsInTurn, PTL

LEMMA TurnsInit == Init => Silent /\ NotYet /\ InTurn
<1> SUFFICES ASSUME Init
             PROVE  Silent /\ NotYet /\ InTurn
  OBVIOUS
<1>1. Datagrams /\ Additions
  BY TypeInit DEF TypeInv
<1>2. NoneSent
  BY DEF Init, NoneSent
<1> QED
  BY <1>1, <1>2, SilentIsInTurn DEF Silent

\* Steps that hand on nothing and leave the tables, or free them.
LEMMA TurnsKept ==
    ASSUME Silent, NotYet, InTurn,
           UNCHANGED <<args, kind, log, next>>,
           Unstarted' => Unstarted,
           \A w \in Workers, f \in Families :
               table'[w][f] = table[w][f] \/ table'[w][f] = <<>>,
           \A w \in Workers : \A p : Has(w, p)' => Has(w, p)
    PROVE  Silent' /\ NotYet' /\ InTurn'
<1>1. Silent'
  <2> HIDE DEF Unstarted
  <2> QED
    BY DEF Silent, NoneSent
<1>2. Packets' = Packets
  BY DEF Packets
<1>3. NotYet'
  <2> SUFFICES ASSUME LoadBalancer, NEW w \in Workers, NEW f \in Families,
                      NEW p \in Packets, Has(w, p)',
                      NEW d \in ToSet(table'[w][f])
               PROVE  d \notin ToSet(log[p])
    BY <1>2 DEF NotYet, LoadBalancer
  <2>1. Has(w, p) /\ d \in ToSet(table[w][f])
    BY NoneHeld
  <2> QED
    BY <2>1 DEF NotYet
<1>4. InTurn'
  <2>1. \A d : Turns(d)' = Turns(d)
    BY <1>2 DEF Turns
  <2> SUFFICES ASSUME LoadBalancer, NEW w \in Workers, NEW f \in Families
               PROVE  \E q \in Nat :
                          \A m \in DOMAIN table'[w][f] :
                              Turns(table[w][f][m])' =
                                  IF m <= next[w][f] THEN q + 1 ELSE q
    BY DEF InTurn, LoadBalancer
  <2>2. CASE table'[w][f] = <<>>
    <3>1. DOMAIN table'[w][f] = {}
      BY <2>2
    <3> QED
      BY <3>1
  <2>3. CASE table'[w][f] = table[w][f]
    <3>1. PICK q \in Nat :
              \A m \in DOMAIN table[w][f] :
                  Turns(table[w][f][m]) = IF m <= next[w][f] THEN q + 1 ELSE q
      BY DEF InTurn
    <3>2. \A m \in DOMAIN table[w][f] :
              Turns(table[w][f][m])' = Turns(table[w][f][m])
      BY <1>2, <2>3 DEF Turns
    <3> QED
      BY <2>3, <3>1, <3>2
  <2> QED
    BY <2>2, <2>3
<1> QED
  BY <1>1, <1>3, <1>4

LEMMA TurnsMain ==
    ASSUME TurnsInv, MainStep, TypeInv'
    PROVE  Silent' /\ NotYet' /\ InTurn'
<1>1. /\ ControlInv /\ Additions /\ Datagrams /\ Queues
      /\ Silent /\ NotYet /\ InTurn
  BY DEF TurnsInv, SteadyInv, ReplicationInv, PlacedInv, TypeInv
<1>2. /\ UNCHANGED <<args, kind, early, batch, log, next>>
      /\ at' # "free" => UNCHANGED rxq
  BY <1>1, QueuesMain, TablesGrow
<1>3. Unstarted' => Unstarted
  BY DEF Unstarted, Creating, MainStep, CreateRing, JoinFanout, AddInterface,
         AddLoadBalanced, AddBroadcast, Start, Fail, StopWorker, Join,
         Stopped, FreeWorker, Sigwait, Exit, main, NextWorker, NextItem
<1>4. CASE Unstarted
  <2>1. NoneSent'
    BY <1>1, <1>2, <1>4 DEF Silent, NoneSent
  <2>2. Datagrams' /\ Additions'
    BY DEF TypeInv
  <2>3. NotYet' /\ InTurn'
    BY <2>1, <2>2, SilentNextInTurn
  <2> QED
    BY <2>1, <2>3 DEF Silent
<1>5. CASE ~Unstarted
  <2>1. \A w \in Workers, f \in Families :
            table'[w][f] = table[w][f] \/ table'[w][f] = <<>>
    <3>1. CASE FreeWorker
      <4>1. \/ UNCHANGED table
            \/ table' = [table EXCEPT ![i] = [f \in Families |-> <<>>]]
        BY <3>1 DEF FreeWorker
      <4> QED
        BY <1>1, <4>1 DEF Additions
    <3>2. CASE ~FreeWorker
      <4>1. UNCHANGED table
        BY <1>5, <3>2
           DEF Unstarted, Creating, MainStep, CreateRing, JoinFanout,
               AddInterface, AddLoadBalanced, AddBroadcast, Start, Fail,
               StopWorker, Join, Stopped, Sigwait, Exit, workers
      <4> QED
        BY <4>1
    <3> QED
      BY <3>1, <3>2
  <2>2. \A w \in Workers : \A p : Has(w, p)' => Has(w, p)
    <3>1. \/ UNCHANGED rxq
          \/ rxq' = [rxq EXCEPT ![i] = <<>>]
      BY DEF MainStep, CreateRing, JoinFanout, AddInterface, AddLoadBalanced,
             AddBroadcast, Start, Fail, StopWorker, Join, Stopped, FreeWorker,
             Sigwait, Exit, flow
    <3>2. \A w \in Workers : rxq'[w] = rxq[w] \/ rxq'[w] = <<>>
      BY <1>1, <3>1 DEF Datagrams
    <3> QED
      BY <1>2, <3>2, NoneHeld DEF Has
  <2> QED
    BY <1>1, <1>2, <1>3, <2>1, <2>2, TurnsKept
<1> QED
  BY <1>4, <1>5

\* One more datagram has been handed to d, and to no other destination.
LEMMA OneMoreTurn ==
    ASSUME NEW c \in Packets, NEW d, d \notin ToSet(log[c]),
           UNCHANGED kind, kind \in Seq(Kinds),
           \A p \in Packets : p # c => log'[p] = log[p],
           \A e : e \in ToSet(log'[c]) <=> e \in ToSet(log[c]) \/ e = d
    PROVE  /\ Turns(d) \in Nat
           /\ Turns(d)' = Turns(d) + 1
           /\ \A e : e # d => Turns(e)' = Turns(e)
<1>1. Packets' = Packets
  BY DEF Packets
<1>2. IsFiniteSet(Packets)
  BY FS_Interval DEF Packets
<1>3. IsFiniteSet(Sent(d))
  <2>1. Sent(d) \subseteq Packets
    BY DEF Sent
  <2> QED
    BY <1>2, <2>1, FS_Subset
<1>4. Sent(d)' = Sent(d) \cup {c} /\ c \notin Sent(d)
  <2>1. ASSUME NEW p \in Packets
        PROVE  d \in ToSet(log'[p]) <=> d \in ToSet(log[p]) \/ p = c
    BY Zenon
  <2> QED
    BY <1>1, <2>1 DEF Sent
<1>5. /\ Cardinality(Sent(d)) \in Nat
      /\ Cardinality(Sent(d) \cup {c}) = Cardinality(Sent(d)) + 1
  BY <1>3, <1>4, FS_AddElement, FS_CardinalityType
<1>6. ASSUME NEW e, e # d
      PROVE  Sent(e)' = Sent(e)
  <2>1. ASSUME NEW p \in Packets
        PROVE  e \in ToSet(log'[p]) <=> e \in ToSet(log[p])
    BY <1>6, Zenon
  <2> QED
    BY <1>1, <2>1 DEF Sent
<1>7. \A e : Turns(e) = Cardinality(Sent(e))
  BY DEF Turns, Sent
<1>8. /\ Turns(d)' = Cardinality(Sent(d)')
      /\ \A e : Turns(e)' = Cardinality(Sent(e)')
  BY DEF Turns, Sent
<1> QED
  BY <1>4, <1>5, <1>6, <1>7, <1>8

LEMMA TurnsForward ==
    ASSUME TurnsInv, NEW w \in Workers, ThreadStep(w), Forward(w)
    PROVE  NotYet' /\ InTurn'
<1>given. PICK c, af, t, turn, d :
              /\ c = Current(w)
              /\ af = kind[c].af
              /\ t = table[w][af]
              /\ turn = next[w][af]
              /\ d = t[turn + 1]
  OBVIOUS
<1>1. /\ ControlInv /\ Additions /\ Turn /\ Datagrams /\ Placed /\ Queues
      /\ NotYet /\ InTurn
  BY DEF TurnsInv, SteadyInv, ReplicationInv, PlacedInv, TypeInv
<1>2. /\ UNCHANGED <<args, at, kind, rxq, table, thread>>
      /\ LoadBalancer
      /\ Deliver(w)
      /\ t # <<>>
      /\ log' = [log EXCEPT ![c] = @ \o <<d>>]
      /\ batch' = [batch EXCEPT ![w] = Tail(@)]
      /\ next' = [next EXCEPT ![w][af] = (turn + 1) % Len(t)]
  BY <1>given
     DEF ThreadStep, Forward, HandedTo, TableFor, LoadBalancer, main, workers
<1>3. /\ c \in 1 .. Len(log) /\ c \in Packets
      /\ af \in Families
      /\ t \in Seq(DOMAIN args.dests)
      /\ log \in Seq(Seq(DOMAIN args.dests))
  BY <1>given, <1>1, <1>2, CurrentDatagram DEF Datagrams, Packets, TableFor
<1>4. Len(t) \in Nat \ {0} /\ DOMAIN t = 1 .. Len(t)
  BY <1>2, <1>3
<1>5. turn \in Nat /\ turn < Len(t)
  <2>1. at # "free"
    BY <1>1, <1>2 DEF Deliver, ControlInv, Progress, Idle
  <2>2. turn \in Nat /\ (turn = 0 \/ turn < Len(t))
    BY <1>given, <1>1, <1>3, <2>1 DEF Turn
  <2> QED
    BY <1>4, <2>2
<1>6. turn + 1 \in DOMAIN t /\ d \in DOMAIN args.dests /\ d \in ToSet(t)
  <2>1. turn + 1 \in DOMAIN t
    BY <1>4, <1>5
  <2>2. d \in DOMAIN args.dests
    <3> DEFINE D == DOMAIN args.dests
    <3>1. t \in Seq(D)
      BY <1>3
    <3> HIDE DEF D
    <3>2. t[turn + 1] \in D
      BY <2>1, <3>1
    <3> QED
      BY <1>given, <3>2 DEF D
  <2> QED
    BY <1>given, <2>1, <2>2 DEF ToSet
\* Where d is, and where it is not.
<1>7. /\ \A m \in DOMAIN t : t[m] = d <=> m = turn + 1
      /\ \A v \in Workers, f \in Families :
             d \in ToSet(table[v][f]) => v = w /\ f = af
  <2>1. IsInjective(t)
    BY <1>given, <1>1, <1>2, <1>3 DEF Placed
  <2>2. \A m \in DOMAIN t : t[m] = d <=> m = turn + 1
    BY <1>given, <1>6, <2>1 DEF IsInjective
  <2>3. args.dests[d].af = af
    BY <1>given, <1>1, <1>3, <1>6 DEF Placed
  <2>4. ASSUME NEW v \in Workers, NEW f \in Families,
               d \in ToSet(table[v][f])
        PROVE  v = w /\ f = af
    <3>1. f = af
      BY <1>1, <2>3, <2>4 DEF Placed
    <3>2. v = w
      BY <1>given, <1>1, <1>2, <1>3, <1>6, <2>4, <3>1 DEF Placed
    <3> QED
      BY <3>1, <3>2
  <2> QED
    BY <2>2, <2>4
<1>8. /\ Has(w, c)
      /\ \A v \in Workers : \A p : Has(v, p)' <=> Has(v, p) /\ ~(v = w /\ p = c)
  BY <1>given, <1>1, <1>2, QueuesHand
<1>9. d \notin ToSet(log[c])
  BY <1>given, <1>1, <1>2, <1>3, <1>6, <1>8 DEF NotYet
<1>10. /\ \A p \in Packets : p # c => log'[p] = log[p]
       /\ \A e : e \in ToSet(log'[c]) <=> e \in ToSet(log[c]) \/ e = d
  <2>1. log'[c] = log[c] \o <<d>>
    BY <1>2, <1>3
  <2>2. /\ log[c] \in Seq(DOMAIN args.dests)
        /\ log[c] \o <<d>> = Append(log[c], d)
    <3> DEFINE D == DOMAIN args.dests
    <3>1. log[c] \in Seq(D) /\ d \in D
      BY <1>3, <1>6
    <3> HIDE DEF D
    <3>2. log[c] \o <<d>> = Append(log[c], d)
      BY <3>1
    <3> QED
      BY <3>1, <3>2 DEF D
  <2>3. \A e : e \in ToSet(log'[c]) <=> e \in ToSet(log[c]) \/ e = d
    <3> DEFINE D == DOMAIN args.dests
    <3>1. log[c] \in Seq(D) /\ d \in D
      BY <1>6, <2>2
    <3> HIDE DEF D
    <3>2. \A e : e \in ToSet(Append(log[c], d)) <=> e \in ToSet(log[c]) \/ e = d
      BY <3>1, OneMoreHeld
    <3> QED
      BY <2>1, <2>2, <3>2
  <2>4. \A p \in Packets : p # c => log'[p] = log[p]
    BY <1>2, <1>3
  <2> QED
    BY <2>3, <2>4
<1>11. NotYet'
  <2>1. Packets' = Packets
    BY <1>2 DEF Packets
  <2> SUFFICES ASSUME NEW v \in Workers, NEW f \in Families,
                      NEW p \in Packets, Has(v, p)', NEW e \in ToSet(table[v][f])
               PROVE  e \notin ToSet(log'[p])
    BY <1>2, <2>1 DEF NotYet
  <2>2. Has(v, p) /\ ~(v = w /\ p = c)
    BY <1>8
  <2>3. e \notin ToSet(log[p])
    BY <1>1, <1>2, <2>2 DEF NotYet
  <2>4. CASE p # c
    BY <1>10, <2>3, <2>4
  <2>5. CASE p = c
    <3>1. e # d
      BY <1>7, <2>2, <2>5
    <3> QED
      BY <1>10, <2>3, <2>5, <3>1
  <2> QED
    BY <2>4, <2>5
<1>12. /\ Turns(d) \in Nat
       /\ Turns(d)' = Turns(d) + 1
       /\ \A e : e # d => Turns(e)' = Turns(e)
  <2>1. UNCHANGED kind /\ kind \in Seq(Kinds)
    BY <1>1, <1>2 DEF Datagrams
  <2> QED
    BY <1>3, <1>9, <1>10, <2>1, OneMoreTurn
<1>13. ASSUME NEW v \in Workers, NEW f \in Families
       PROVE  \E q \in Nat :
                  \A m \in DOMAIN table[v][f] :
                      Turns(table[v][f][m])' =
                          IF m <= next'[v][f] THEN q + 1 ELSE q
  <2>1. PICK q \in Nat :
            \A m \in DOMAIN table[v][f] :
                Turns(table[v][f][m]) = IF m <= next[v][f] THEN q + 1 ELSE q
    BY <1>1, <1>2 DEF InTurn
  <2>2. CASE ~(v = w /\ f = af)
    <3>1. next'[v][f] = next[v][f]
      BY <1>1, <1>2, <1>3, <2>2 DEF Turn
    <3>2. \A m \in DOMAIN table[v][f] : table[v][f][m] # d
      BY <1>7, <2>2 DEF ToSet
    <3>3. \A m \in DOMAIN table[v][f] :
              Turns(table[v][f][m])' = Turns(table[v][f][m])
      BY <1>2, <1>12, <3>2
    <3> QED
      BY <2>1, <3>1, <3>3
  <2>3. CASE v = w /\ f = af
    <3>1. /\ table[v][f] = t /\ table'[v][f] = t
          /\ next[v][f] = turn
          /\ next'[v][f] = (turn + 1) % Len(t)
      BY <1>given, <1>1, <1>2, <1>3, <2>3 DEF Turn
    <3> DEFINE A == [m \in DOMAIN t |-> Turns(t[m])]
               B == [m \in DOMAIN t |-> Turns(t[m])']
    <3>2. \A m \in DOMAIN t : A[m] = IF m <= turn THEN q + 1 ELSE q
      BY <2>1, <3>1
    <3>3. \A m \in DOMAIN t : B[m] = IF m = turn + 1 THEN A[m] + 1 ELSE A[m]
      <4>1. \A m \in DOMAIN t : m = turn + 1 => Turns(t[m])' = Turns(t[m]) + 1
        BY <1>7, <1>12
      <4>2. \A m \in DOMAIN t : m # turn + 1 => Turns(t[m])' = Turns(t[m])
        BY <1>7, <1>12
      <4> QED
        BY <4>1, <4>2
    <3>4. \A m \in DOMAIN t : B[m] = Turns(t[m])'
      OBVIOUS
    <3> HIDE DEF A, B
    <3>5. PICK r \in Nat :
              \A m \in 1 .. Len(t) :
                  B[m] = IF m <= (turn + 1) % Len(t) THEN r + 1 ELSE r
      <4>1. /\ \A m \in 1 .. Len(t) : A[m] = IF m <= turn THEN q + 1 ELSE q
            /\ \A m \in 1 .. Len(t) :
                   B[m] = IF m = turn + 1 THEN A[m] + 1 ELSE A[m]
        BY <1>4, <3>2, <3>3
      <4>2. Len(t) \in Nat
        BY <1>4
      <4> QED
        <5> DEFINE n == Len(t)
        <5>1. /\ n \in Nat /\ turn \in Nat /\ turn < n
              /\ \A m \in 1 .. n : A[m] = IF m <= turn THEN q + 1 ELSE q
              /\ \A m \in 1 .. n : B[m] = IF m = turn + 1 THEN A[m] + 1 ELSE A[m]
          BY <1>5, <4>1, <4>2
        <5> HIDE DEF n
        <5>2. \E r \in Nat :
                  \A m \in 1 .. n :
                      B[m] = IF m <= (turn + 1) % n THEN r + 1 ELSE r
          <6>1. \A m \in 1 .. n : B[m] = IF m <= turn + 1 THEN q + 1 ELSE q
            BY <5>1
          <6>2. CASE turn + 1 < n
            <7>1. (turn + 1) % n = turn + 1
              BY <5>1, <6>2
            <7> QED
              BY <6>1, <7>1
          <6>3. CASE turn + 1 = n
            <7>1. (turn + 1) % n = 0
              BY <5>1, <6>3
            <7>2. \A m \in 1 .. n : B[m] = q + 1
              BY <6>1, <6>3
            <7>3. \A m \in 1 .. n :
                      B[m] = IF m <= (turn + 1) % n
                             THEN (q + 1) + 1 ELSE q + 1
              BY <7>1, <7>2
            <7> QED
              BY <7>3
          <6> QED
            BY <5>1, <6>2, <6>3
        <5> QED
          BY <5>2 DEF n
    <3> QED
      BY <1>2, <1>4, <3>1, <3>4, <3>5
  <2> QED
    BY <2>2, <2>3
<1>14. InTurn'
  BY <1>2, <1>13 DEF InTurn
<1> QED
  BY <1>11, <1>14

LEMMA TurnsThread ==
    ASSUME TurnsInv, NEW w \in Workers, ThreadStep(w)
    PROVE  Silent' /\ NotYet' /\ InTurn'
<1>1. /\ ControlInv /\ Datagrams /\ Queues
      /\ Silent /\ NotYet /\ InTurn
  BY DEF TurnsInv, SteadyInv, ReplicationInv, PlacedInv, TypeInv
<1>2. UNCHANGED <<args, at, table>>
  <2>1. UNCHANGED <<args, at>>
    BY DEF ThreadStep, main
  <2>2. UNCHANGED table
    BY DEF ThreadStep, TakeBlock, RecvTimeout, EndOfBlock, Forward, Broadcast,
           ForwardToNobody, workers
  <2> QED
    BY <2>1, <2>2
<1>3. Unstarted' <=> Unstarted
  BY <1>2 DEF Unstarted, Creating
<1>4. Deliver(w) => ~Unstarted
  BY <1>1 DEF Deliver, ControlInv, Progress, Idle, Unstarted, Creating
<1>5. CASE TakeBlock(w)
  <2>1. \A v \in Workers : \A p : Has(v, p)' <=> Has(v, p)
    BY <1>1, <1>5, QueuesTake
  <2>2. UNCHANGED <<kind, log, next>>
    BY <1>5 DEF TakeBlock
  <2> QED
    BY <1>1, <1>2, <1>3, <2>1, <2>2, TurnsKept
<1>6. CASE RecvTimeout(w) \/ EndOfBlock(w) \/ ForwardToNobody(w)
  <2>1. UNCHANGED <<rxq, batch, kind, log, next>>
    BY <1>6 DEF RecvTimeout, EndOfBlock, ForwardToNobody, flow
  <2>2. \A v \in Workers : \A p : Has(v, p)' <=> Has(v, p)
    BY <2>1 DEF Has
  <2> QED
    BY <1>1, <1>2, <1>3, <2>1, <2>2, TurnsKept
<1>7. CASE Forward(w)
  <2>1. Silent'
    BY <1>3, <1>4, <1>7 DEF Silent, Forward
  <2> QED
    BY <1>7, <2>1, TurnsForward
<1>8. CASE Broadcast(w)
  <2>1. Silent'
    BY <1>3, <1>4, <1>8 DEF Silent, Broadcast
  <2>2. ~LoadBalancer /\ ~LoadBalancer'
    BY <1>2, <1>8 DEF Broadcast, LoadBalancer
  <2> QED
    BY <2>1, <2>2 DEF NotYet, InTurn
<1> QED
  BY <1>5, <1>6, <1>7, <1>8 DEF ThreadStep

\* What arrives was not handed to anyone.
LEMMA TurnsArrive ==
    ASSUME TurnsInv, NEW datagram \in Kinds, Arrive(datagram),
           UNCHANGED <<args, at>>
    PROVE  Silent' /\ NotYet' /\ InTurn'
<1>1. Datagrams /\ Queues /\ Silent /\ NotYet /\ InTurn
  BY DEF TurnsInv, SteadyInv, ReplicationInv, PlacedInv, TypeInv
<1> DEFINE new == Len(kind) + 1
<1>2. /\ UNCHANGED <<table, next>>
      /\ Len(kind) \in Nat /\ Len(log) = Len(kind)
      /\ Packets' = 1 .. new /\ Packets = 1 .. Len(kind)
      /\ Len(log') = new
      /\ \A p \in Packets : log'[p] = log[p]
      /\ log'[new] = <<>>
  <2>1. UNCHANGED <<table, next>>
    BY DEF Arrive, workers
  <2>2. Len(kind) \in Nat /\ Len(log) = Len(kind) /\ Packets = 1 .. Len(kind)
    BY <1>1 DEF Datagrams, Packets
  <2>3. Len(kind') = new /\ Len(log') = new
    BY <1>1 DEF Datagrams, Arrive
  <2>4. /\ \A p \in 1 .. Len(kind) : log'[p] = log[p]
        /\ log'[new] = <<>>
    BY <1>1 DEF Datagrams, Arrive
  <2> QED
    BY <2>1, <2>2, <2>3, <2>4 DEF Packets
<1>3. Silent'
  <2>1. Unstarted' <=> Unstarted
    BY DEF Unstarted, Creating
  <2> HIDE DEF Unstarted
  <2>2. NoneSent => NoneSent'
    BY <1>2 DEF NoneSent
  <2> QED
    BY <1>1, <2>1, <2>2 DEF Silent
<1>4. NotYet'
  <2> SUFFICES ASSUME LoadBalancer, NEW w \in Workers, NEW f \in Families,
                      NEW p \in Packets', Has(w, p)',
                      NEW d \in ToSet(table[w][f])
               PROVE  d \notin ToSet(log'[p])
    BY <1>2 DEF NotYet, LoadBalancer
  <2>1. CASE p = new
    BY <1>2, <2>1, NoneHeld
  <2>2. CASE p # new
    <3>1. p \in Packets
      BY <1>2, <2>2
    <3>2. Has(w, p)
      BY <1>1, <2>2, QueuesArrive
    <3> QED
      BY <1>1, <1>2, <3>1, <3>2 DEF NotYet
  <2> QED
    BY <2>1, <2>2
<1>5. \A d : Turns(d)' = Turns(d)
  <2>1. ASSUME NEW d
        PROVE  {p \in Packets : d \in ToSet(log[p])}'
                   = {p \in Packets : d \in ToSet(log[p])}
    BY <1>2, NoneHeld
  <2> QED
    BY <2>1 DEF Turns
<1>6. InTurn'
  <2> SUFFICES ASSUME LoadBalancer, NEW w \in Workers, NEW f \in Families
               PROVE  \E q \in Nat :
                          \A m \in DOMAIN table[w][f] :
                              Turns(table[w][f][m])' =
                                  IF m <= next[w][f] THEN q + 1 ELSE q
    BY <1>2 DEF InTurn, LoadBalancer
  <2>1. PICK t : t = table[w][f]
    OBVIOUS
  <2>2. \A m \in DOMAIN t : Turns(t[m])' = Turns(t[m])
    BY <1>5
  <2>3. PICK q \in Nat :
            \A m \in DOMAIN t : Turns(t[m]) = IF m <= next[w][f] THEN q + 1 ELSE q
    BY <1>1, <2>1 DEF InTurn
  <2>4. table'[w][f] = t
    BY <1>2, <2>1
  <2> QED
    BY <2>1, <2>2, <2>3, <2>4
<1> QED
  BY <1>3, <1>4, <1>6

LEMMA TurnsNext ==
    ASSUME TurnsInv, [Next]_vars, TypeInv'
    PROVE  Silent' /\ NotYet' /\ InTurn'
<1>1. Silent /\ NotYet /\ InTurn
  BY DEF TurnsInv
<1>2. CASE MainStep
  BY <1>2, TurnsMain
<1>3. ASSUME NEW w \in Workers, ThreadStep(w)
      PROVE  Silent' /\ NotYet' /\ InTurn'
  BY <1>3, TurnsThread
<1>4. CASE Environment
  <2>1. UNCHANGED <<args, at>>
    BY <1>4 DEF Environment, main
  <2>2. CASE \E datagram \in Kinds : Arrive(datagram)
    BY <2>1, <2>2, TurnsArrive
  <2>3. CASE UNCHANGED <<workers, flow>>
    <3>1. UNCHANGED <<table, rxq, batch, kind, log, next>>
      BY <2>3 DEF workers, flow
    <3>2. /\ \A w \in Workers : \A p : Has(w, p)' => Has(w, p)
          /\ Unstarted' => Unstarted
      BY <2>1, <3>1 DEF Has, Unstarted, Creating
    <3> QED
      BY <1>1, <2>1, <3>1, <3>2, TurnsKept
  <2> QED
    BY <1>4, <2>2, <2>3 DEF Environment
<1>5. CASE UNCHANGED vars
  <2>1. UNCHANGED <<args, at, table, rxq, batch, kind, log, next>>
    BY <1>5 DEF vars, main, workers, flow
  <2>2. /\ \A w \in Workers : \A p : Has(w, p)' => Has(w, p)
        /\ Unstarted' => Unstarted
    BY <2>1 DEF Has, Unstarted, Creating
  <2> QED
    BY <1>1, <2>1, <2>2, TurnsKept
<1> QED
  BY <1>2, <1>3, <1>4, <1>5 DEF Next

\* The load balancer takes its destinations in turn (worker.cpp, forward() and
\* _M_idx): whatever arrives, in whatever order the threads run, of two
\* destinations of a worker the first has been handed at most one datagram
\* more than the second, and never fewer.
THEOREM TakeTurnsHolds == Spec => []TakeTurns
<1>1. Init => TurnsInv
  BY SteadyAlways, TurnsInit DEF TurnsInv
<1>2. TurnsInv /\ [Next]_vars => TurnsInv'
  <2> SUFFICES ASSUME TurnsInv, [Next]_vars
               PROVE  TurnsInv'
    OBVIOUS
  <2>1. SteadyInv'
    BY SteadyAlways DEF TurnsInv
  <2>2. TypeInv'
    BY <2>1 DEF SteadyInv, ReplicationInv, PlacedInv
  <2> QED
    BY <2>1, <2>2, TurnsNext DEF TurnsInv
<1>3. TurnsInv => TakeTurns
  <2> SUFFICES ASSUME TurnsInv, LoadBalancer,
                      NEW w \in Created, NEW f \in Families
               PROVE  \A m, n \in DOMAIN table[w][f] :
                          m < n => Turns(table[w][f][m]) - Turns(table[w][f][n])
                                       \in {0, 1}
    BY DEF TakeTurns, LoadBalancer
  <2>1. w \in Workers
    <3>1. args \in Args /\ nworkers \in {0, NumberOfWorkers}
      BY DEF TurnsInv, SteadyInv, ReplicationInv, PlacedInv, TypeInv,
             ControlInv, ControlTypes
    <3>2. nworkers \in 0 .. MaxWorkers
      BY <3>1, SomeWorkers, MaxWorkersAssumption
    <3> QED
      BY <3>2, MaxWorkersAssumption DEF Created, Workers
  <2>2. PICK q \in Nat :
            \A m \in DOMAIN table[w][f] :
                Turns(table[w][f][m]) = IF m <= next[w][f] THEN q + 1 ELSE q
    BY <2>1 DEF TurnsInv, InTurn
  <2>3. DOMAIN table[w][f] = 1 .. Len(table[w][f])
    <3>1. table[w][f] \in Seq(DOMAIN args.dests)
      BY <2>1 DEF TurnsInv, SteadyInv, ReplicationInv, PlacedInv, TypeInv,
                  Additions
    <3> QED
      BY <3>1
  <2>4. next[w][f] \in Nat
    BY <2>1 DEF TurnsInv, SteadyInv, ReplicationInv, PlacedInv, TypeInv, Turn
  <2> SUFFICES ASSUME NEW m \in DOMAIN table[w][f],
                      NEW n \in DOMAIN table[w][f], m < n
               PROVE  Turns(table[w][f][m]) - Turns(table[w][f][n]) \in {0, 1}
    OBVIOUS
  <2>5. m \in Int /\ n \in Int
    BY <2>3
  <2> QED
    BY <2>2, <2>4, <2>5
<1> QED
  BY <1>1, <1>2, <1>3, PTL DEF Spec

===============================================================================
