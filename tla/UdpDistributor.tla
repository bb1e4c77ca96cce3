--------------------------- MODULE UdpDistributor ---------------------------
(***************************************************************************)
(* The program as a whole: main() from the checked command line to its     *)
(* end, net::udp_distributor, the net::worker objects and their threads,   *)
(* and the fanout group of packet sockets through which the datagrams      *)
(* reach them.                                                             *)
(*                                                                         *)
(* main() creates the workers' RX rings one after the other, adds the TX   *)
(* interfaces and the destinations, starts one thread per worker, waits    *)
(* for a signal and stops and joins the threads; whenever a step fails it  *)
(* returns and the destructors stop what was started.  Packets arrive from *)
(* the first bind() on, long before there is a thread to process them.     *)
(*                                                                         *)
(* The RX ring is a queue here and a TX ring takes whatever it is given:   *)
(* their own behaviour is that of the ring modules.                        *)
(***************************************************************************)
EXTENDS Arguments, FiniteSets

CONSTANTS
    Args,        \* the command lines: [type, nworkers, interfaces, dests]
    Kinds,       \* the datagrams' [af, padded]
    MaxPackets,  \* bound: how many datagrams are told apart
    Faults       \* TRUE if system calls and allocations may fail

\* main() has parsed and checked them: CommandLine's HandsOver.
ASSUME ArgsAssumption == \A a \in Args : Checked(a)

ASSUME KindsAssumption == Kinds \subseteq [af : Families, padded : BOOLEAN]

ASSUME BoundsAssumption == MaxPackets \in Nat /\ Faults \in BOOLEAN

VARIABLES
    args,        \* the command line
    at,          \* where main() is
    i,           \* ... the worker it is at
    k,           \* ... the interface or the destination it is at
    caller,      \* ... whose call of stop() it is in
    nworkers,    \* _M_nworkers: 0 until create() has succeeded
    idx,         \* _M_idx of the distributor
    sock,        \* each worker's RX socket
    interfaces,  \* each worker's TX interfaces
    table,       \* each worker's destinations of each family
    next,        \* _M_idx of each of these tables
    running,     \* each worker's _M_running
    thread,      \* each worker's thread
    rxq,         \* what each RX ring holds
    batch,       \* the rest of the block each thread is processing
    signal,      \* SIGINT or SIGTERM is pending
    proc,        \* the process: running, exited or crashed
    kind,        \* the datagrams that have arrived
    early,       \* how many of them arrived before create() was done
    log          \* the destinations each was handed to, in order

main == <<at, i, k, caller>>
setup == <<nworkers, idx, interfaces>>
workers == <<sock, table, running, thread>>
flow == <<next, rxq, batch, kind, early, log>>
vars == <<args, main, setup, workers, flow, signal, proc>>

Workers == 0 .. MaxWorkers - 1

Packets == 1 .. Len(kind)

\* Mutant: as many workers as the user asks for.
NumberOfWorkersUnchecked == args.nworkers

\* main() does not create more load-balancing workers than destinations.
NumberOfWorkers ==
    IF args.type = "load_balancer" /\ args.nworkers > Len(args.dests)
    THEN Len(args.dests)
    ELSE args.nworkers

Init ==
    /\ args \in Args
    /\ at = "create_ring"
    /\ i = 0
    /\ k = 1
    /\ caller = "main"
    /\ nworkers = 0
    /\ idx = 0
    /\ sock = [w \in Workers |-> "none"]
    /\ interfaces = [w \in Workers |-> <<>>]
    /\ table = [w \in Workers |-> [f \in Families |-> <<>>]]
    /\ next = [w \in Workers |-> [f \in Families |-> 0]]
    /\ running = [w \in Workers |-> FALSE]
    /\ thread = [w \in Workers |-> "none"]
    /\ rxq = [w \in Workers |-> <<>>]
    /\ batch = [w \in Workers |-> <<>>]
    /\ signal = FALSE
    /\ proc = "running"
    /\ kind = <<>>
    /\ early = 0
    /\ log = <<>>

-----------------------------------------------------------------------------
(* main() and the distributor: creation.                                   *)

\* setup_socket(), setup_ring(), mmap_ring() and bind_ring(): from here on the
\* socket captures every datagram of the interface.
CreateRing ==
    /\ at = "create_ring"
    /\ sock' = [sock EXCEPT ![i] = "bound"]
    /\ at' = "join_fanout"
    /\ UNCHANGED <<i, k, caller, setup, table, running, thread, flow>>

\* The end of ring_buffer::create(), and of worker::create().
JoinFanout ==
    /\ at = "join_fanout"
    /\ sock' = [sock EXCEPT ![i] = "joined"]
    /\ IF i + 1 < NumberOfWorkers
       THEN /\ at' = "create_ring"
            /\ i' = i + 1
            /\ UNCHANGED nworkers
       ELSE /\ at' = "add_interface"
            /\ i' = 0
            /\ nworkers' = NumberOfWorkers
    /\ UNCHANGED <<k, caller, idx, interfaces, table, running, thread, flow>>

\* The loops over the workers, inside those over the interfaces (or over the
\* destinations): the next worker, the next item or the next part of main().
NextWorker(items, then) ==
    IF i + 1 < nworkers
    THEN i' = i + 1 /\ UNCHANGED <<k, at>>
    ELSE /\ i' = 0
         /\ IF k < Len(items)
            THEN k' = k + 1 /\ UNCHANGED at
            ELSE k' = 1 /\ at' = then

NextItem(items, then) ==
    /\ UNCHANGED i
    /\ IF k < Len(items)
       THEN k' = k + 1 /\ UNCHANGED at
       ELSE k' = 1 /\ at' = then

\* Mutant: the interface is not searched for first.
AddInterfaceTwice ==
    /\ at = "add_interface"
    /\ interfaces' = [interfaces EXCEPT ![i] = Append(@, args.interfaces[k])]
    /\ NextWorker(args.interfaces, "add_destination")
    /\ UNCHANGED <<caller, nworkers, idx, workers, flow>>

\* worker::add_interface(): an interface defined twice has one TX ring.
AddInterface ==
    /\ at = "add_interface"
    /\ LET interface == args.interfaces[k]
       IN  interfaces' =
               IF interface \in ToSet(interfaces[i])
               THEN interfaces
               ELSE [interfaces EXCEPT ![i] = Append(@, interface)]
    /\ NextWorker(args.interfaces, "add_destination")
    /\ UNCHANGED <<caller, nworkers, idx, workers, flow>>

Dest == args.dests[k]

\* worker::add_destination() finds the interface only if it was added.
Known(w) == Dest.interface \in ToSet(interfaces[w])

AddTo(w) == table' = [table EXCEPT ![w][Dest.af] = Append(@, k)]

\* One worker gets the destination, and the next one the next.
AddLoadBalanced ==
    /\ at = "add_destination"
    /\ args.type = "load_balancer"
    /\ Known(idx)
    /\ AddTo(idx)
    /\ idx' = (idx + 1) % nworkers
    /\ NextItem(args.dests, "start")
    /\ UNCHANGED <<caller, nworkers, interfaces, sock, running, thread, flow>>

\* Mutant: only the first worker gets it.
AddBroadcastOnce ==
    /\ at = "add_destination"
    /\ args.type = "broadcaster"
    /\ Known(i)
    /\ AddTo(i)
    /\ NextItem(args.dests, "start")
    /\ UNCHANGED <<caller, setup, sock, running, thread, flow>>

\* Every worker gets it.
AddBroadcast ==
    /\ at = "add_destination"
    /\ args.type = "broadcaster"
    /\ Known(i)
    /\ AddTo(i)
    /\ NextWorker(args.dests, "start")
    /\ UNCHANGED <<caller, setup, sock, running, thread, flow>>

\* Mutant: _M_running is not set.
StartUnmarked ==
    /\ at = "start"
    /\ thread' = [thread EXCEPT ![i] = "recv"]
    /\ IF i + 1 < nworkers
       THEN i' = i + 1 /\ UNCHANGED at
       ELSE i' = 0 /\ at' = "sigwait"
    /\ UNCHANGED <<k, caller, setup, sock, table, running, flow>>

\* worker::start(): _M_running is set before there is a thread to read it.
Start ==
    /\ at = "start"
    /\ running' = [running EXCEPT ![i] = TRUE]
    /\ thread' = [thread EXCEPT ![i] = "recv"]
    /\ IF i + 1 < nworkers
       THEN i' = i + 1 /\ UNCHANGED at
       ELSE i' = 0 /\ at' = "sigwait"
    /\ UNCHANGED <<k, caller, setup, sock, table, flow>>

\* A step of the creation fails: main() returns, and ~udp_distributor() runs.
Fail ==
    /\ at \in {"create_ring", "join_fanout", "add_interface",
               "add_destination", "start"}
    /\ \/ Faults
       \/ at = "add_destination" /\ ~Known(IF args.type = "load_balancer"
                                           THEN idx ELSE i)
    /\ at' = "stop"
    /\ caller' = "distributor"
    /\ i' = 0
    /\ UNCHANGED <<k, setup, workers, flow>>

-----------------------------------------------------------------------------
(* main() and the distributor: the end.                                    *)

Sigwait ==
    /\ at = "sigwait"
    /\ signal
    /\ signal' = FALSE
    /\ at' = "stop"
    /\ i' = 0
    /\ UNCHANGED <<k, caller, setup, workers, flow>>

\* Mutant: the thread is told to stop and not joined.
StopWorkerWithoutJoin ==
    /\ at = "stop"
    /\ i < nworkers
    /\ running' = [running EXCEPT ![i] = FALSE]
    /\ i' = i + 1
    /\ UNCHANGED <<at, k, caller, setup, sock, table, thread, flow>>

\* udp_distributor::stop() and worker::stop() of worker i: tell it to stop, ...
StopWorker ==
    /\ at = "stop"
    /\ i < nworkers
    /\ IF running[i]
       THEN /\ running' = [running EXCEPT ![i] = FALSE]
            /\ at' = "join"
            /\ UNCHANGED i
       ELSE /\ i' = i + 1
            /\ UNCHANGED <<running, at>>
    /\ UNCHANGED <<k, caller, setup, sock, table, thread, flow>>

\* ... and wait for its thread.
Join ==
    /\ at = "join"
    /\ thread[i] = "ended"
    /\ thread' = [thread EXCEPT ![i] = "none"]
    /\ IF caller = "worker"
       THEN at' = "free" /\ UNCHANGED i
       ELSE at' = "stop" /\ i' = i + 1
    /\ UNCHANGED <<k, caller, setup, sock, table, running, flow>>

\* main() called stop(): ~udp_distributor() calls it again.  The workers are
\* then destroyed, the last one first.
Stopped ==
    /\ at = "stop"
    /\ i = nworkers
    /\ IF caller = "main"
       THEN caller' = "distributor" /\ i' = 0 /\ UNCHANGED at
       ELSE caller' = "worker" /\ i' = MaxWorkers - 1 /\ at' = "free"
    /\ UNCHANGED <<k, setup, workers, flow>>

\* ~worker(): stop(), the tables, the TX rings and the RX ring with what it
\* still holds.
FreeWorker ==
    /\ at = "free"
    /\ i >= 0
    /\ IF running[i]
       THEN /\ running' = [running EXCEPT ![i] = FALSE]
            /\ at' = "join"
            /\ UNCHANGED <<i, interfaces, table, sock, rxq>>
       ELSE /\ interfaces' = [interfaces EXCEPT ![i] = <<>>]
            /\ table' = [table EXCEPT ![i] = [f \in Families |-> <<>>]]
            /\ sock' = [sock EXCEPT ![i] = "none"]
            /\ rxq' = [rxq EXCEPT ![i] = <<>>]
            /\ i' = i - 1
            /\ UNCHANGED <<running, at>>
    /\ UNCHANGED <<k, caller, nworkers, idx, thread, next, batch, kind, early,
                   log>>

Exit ==
    /\ at = "free"
    /\ i = -1
    /\ proc' = "exited"
    /\ UNCHANGED <<main, setup, workers, flow>>

-----------------------------------------------------------------------------
(* A worker's thread.                                                      *)

\* Mutant: _M_running is looked at only when nothing is waiting.
LoopWhileBusy(w) ==
    thread' = [thread EXCEPT ![w] = IF running[w] \/ rxq[w] # <<>>
                                    THEN "recv" ELSE "ended"]

\* do { recv } while (_M_running), at the end of recv().
Loop(w) ==
    thread' = [thread EXCEPT ![w] = IF running[w] THEN "recv" ELSE "ended"]

\* recv() finds a block: the datagrams that the ring has held longest.
TakeBlock(w) ==
    /\ thread[w] = "recv"
    /\ \E n \in 1 .. Len(rxq[w]) :
           /\ batch' = [batch EXCEPT ![w] = SubSeq(rxq[w], 1, n)]
           /\ rxq' = [rxq EXCEPT ![w] = SubSeq(@, n + 1, Len(@))]
    /\ thread' = [thread EXCEPT ![w] = "deliver"]
    /\ UNCHANGED <<sock, table, running, next, kind, early, log>>

\* Mutant: while (recv && _M_running).
RecvTimeoutEnds(w) ==
    /\ thread[w] = "recv"
    /\ rxq[w] = <<>>
    /\ thread' = [thread EXCEPT ![w] = "ended"]
    /\ UNCHANGED <<sock, table, running, flow>>

\* Nothing within the timeout of recv().  It is longer than the time after
\* which the kernel hands over a block that is not full.
RecvTimeout(w) ==
    /\ thread[w] = "recv"
    /\ rxq[w] = <<>>
    /\ Loop(w)
    /\ UNCHANGED <<sock, table, running, flow>>

EndOfBlock(w) ==
    /\ thread[w] = "deliver"
    /\ batch[w] = <<>>
    /\ Loop(w)
    /\ UNCHANGED <<sock, table, running, flow>>

\* fnpacket() hands the next datagram of the block to the table of its family.
Deliver(w) == thread[w] = "deliver" /\ batch[w] # <<>>

Current(w) == Head(batch[w])

TableFor(w) == table[w][kind[Current(w)].af]

HandedTo(w, dests) ==
    /\ log' = [log EXCEPT ![Current(w)] = @ \o dests]
    /\ batch' = [batch EXCEPT ![w] = Tail(@)]

\* Mutant: _M_idx does not move on.
ForwardToSame(w) ==
    /\ Deliver(w)
    /\ args.type = "load_balancer"
    /\ TableFor(w) # <<>>
    /\ HandedTo(w, <<TableFor(w)[next[w][kind[Current(w)].af] + 1]>>)
    /\ UNCHANGED <<workers, next, rxq, kind, early>>

\* destinations::forward(): the next destination, whether or not it is sent.
Forward(w) ==
    /\ Deliver(w)
    /\ args.type = "load_balancer"
    /\ TableFor(w) # <<>>
    /\ LET af == kind[Current(w)].af
           turn == next[w][af]
       IN  /\ HandedTo(w, <<TableFor(w)[turn + 1]>>)
           /\ next' = [next EXCEPT ![w][af] = (turn + 1) % Len(TableFor(w))]
    /\ UNCHANGED <<workers, rxq, kind, early>>

\* Mutant: the loop ends after its first destination.
BroadcastToFirst(w) ==
    /\ Deliver(w)
    /\ args.type = "broadcaster"
    /\ HandedTo(w, SubSeq(TableFor(w), 1, 1))
    /\ UNCHANGED <<workers, next, rxq, kind, early>>

\* destinations::broadcast(): all of them.
Broadcast(w) ==
    /\ Deliver(w)
    /\ args.type = "broadcaster"
    /\ HandedTo(w, TableFor(w))
    /\ UNCHANGED <<workers, next, rxq, kind, early>>

\* forward() with an empty table: a null destination, and a division by zero.
ForwardToNobody(w) ==
    /\ Deliver(w)
    /\ args.type = "load_balancer"
    /\ TableFor(w) = <<>>
    /\ proc' = "crashed"
    /\ UNCHANGED <<workers, flow>>

\* The sanity checks of send_ipv4() and send_ipv6(): the frame must be exactly
\* as long as the datagram.  A shorter one was padded to the Ethernet minimum.
SanityCheck(p) == ~kind[p].padded

\* The destinations to which datagram p was sent.
SentTo(p) == IF SanityCheck(p) THEN log[p] ELSE <<>>

-----------------------------------------------------------------------------
(* The network, the kernel's fanout group and the user.                    *)

Waiting(w) == rxq[w] \o batch[w]

Holders(p) == {w \in Workers : p \in ToSet(Waiting(w))}

\* A copy of a datagram for every socket that is bound and not yet in the group,
\* and one for some member of the group.
Captured(p) ==
    LET alone == {w \in Workers : sock[w] = "bound"}
        group == {w \in Workers : sock[w] = "joined"}
    IN  \E chosen \in SUBSET group :
            /\ Cardinality(chosen) = IF group = {} THEN 0 ELSE 1
            /\ rxq' = [w \in Workers |->
                          IF w \in alone \cup chosen
                          THEN Append(rxq[w], p) ELSE rxq[w]]

\* A datagram arrives.
Arrive(datagram) ==
    /\ Len(kind) < MaxPackets
    /\ \E w \in Workers : sock[w] # "none"
    /\ Captured(Len(kind) + 1)
    /\ early' = IF nworkers = 0 THEN Len(kind) + 1 ELSE early
    /\ kind' = Append(kind, datagram)
    /\ log' = Append(log, <<>>)
    /\ UNCHANGED <<workers, next, batch>>

\* Another datagram arrives in the place of one that no ring holds any more, and
\* what became of that one is forgotten: so the traffic outlasts MaxPackets.
ArriveInPlaceOf(p) ==
    /\ \E w \in Workers : sock[w] # "none"
    /\ Holders(p) = {}
    /\ Captured(p)
    /\ log' = [log EXCEPT ![p] = <<>>]
    /\ UNCHANGED <<workers, next, batch, kind, early>>

Signal ==
    /\ ~signal
    /\ signal' = TRUE

-----------------------------------------------------------------------------
MainStep ==
    /\ proc = "running"
    /\ \/ /\ \/ CreateRing
             \/ JoinFanout
             \/ AddInterface
             \/ AddLoadBalanced
             \/ AddBroadcast
             \/ Start
             \/ Fail
             \/ StopWorker
             \/ Join
             \/ Stopped
             \/ FreeWorker
          /\ UNCHANGED <<args, signal, proc>>
       \/ Sigwait /\ UNCHANGED <<args, proc>>
       \/ Exit /\ UNCHANGED <<args, signal>>

ThreadStep(w) ==
    /\ proc = "running"
    /\ \/ /\ \/ TakeBlock(w)
             \/ RecvTimeout(w)
             \/ EndOfBlock(w)
             \/ Forward(w)
             \/ Broadcast(w)
          /\ UNCHANGED proc
       \/ ForwardToNobody(w)
    /\ UNCHANGED <<args, main, setup, signal>>

Environment ==
    /\ proc = "running"
    /\ \/ /\ \E datagram \in Kinds : Arrive(datagram)
          /\ UNCHANGED signal
       \/ Signal /\ UNCHANGED <<workers, flow>>
    /\ UNCHANGED <<args, main, setup, proc>>

Next ==
    \/ MainStep
    \/ \E w \in Workers : ThreadStep(w)
    \/ Environment

Spec == Init /\ [][Next]_vars

\* Threads run.  Nothing is assumed of datagrams and signals.
Fairness ==
    /\ WF_vars(MainStep)
    /\ \A w \in Workers : WF_vars(ThreadStep(w))

FairSpec == Spec /\ Fairness

\* The datagrams need not come to an end.
Unceasing ==
    /\ proc = "running"
    /\ \E p \in Packets : ArriveInPlaceOf(p)
    /\ UNCHANGED <<args, main, setup, signal, proc>>

UnceasingSpec == Init /\ [][Next \/ Unceasing]_vars /\ Fairness

-----------------------------------------------------------------------------
(* Safety.                                                                 *)

\* Every variable keeps its type; and forward() finds its index inside the
\* table, until the tables are freed.
TypeOK ==
    /\ args \in Args
    /\ at \in {"create_ring", "join_fanout", "add_interface",
               "add_destination", "start", "sigwait", "stop", "join", "free"}
    /\ i \in -1 .. MaxWorkers
    /\ k \in Nat \ {0}
    /\ caller \in {"main", "distributor", "worker"}
    /\ nworkers \in {0, NumberOfWorkers}
    /\ idx \in Workers
    /\ sock \in [Workers -> {"none", "bound", "joined"}]
    /\ \A w \in Workers : /\ IsInjective(interfaces[w])
                          /\ ToSet(interfaces[w]) \subseteq
                                 ToSet(args.interfaces)
                          /\ \A f \in Families :
                                 ToSet(table[w][f]) \subseteq
                                     DOMAIN args.dests
    /\ next \in [Workers -> [Families -> Nat]]
    /\ at # "free" =>
           \A w \in Workers, f \in Families :
               next[w][f] = 0 \/ next[w][f] < Len(table[w][f])
    /\ running \in [Workers -> BOOLEAN]
    /\ thread \in [Workers -> {"none", "recv", "deliver", "ended"}]
    /\ rxq \in [Workers -> Seq(Packets)]
    /\ batch \in [Workers -> Seq(Packets)]
    /\ signal \in BOOLEAN
    /\ proc \in {"running", "exited", "crashed"}
    /\ kind \in Seq(Kinds)
    /\ early \in 0 .. Len(kind)
    /\ Len(log) = Len(kind)
    /\ \A p \in Packets : ToSet(log[p]) \subseteq DOMAIN args.dests

Configured == at \in {"start", "sigwait"}

Created == 0 .. nworkers - 1

Holds(w, d) == d \in ToSet(table[w][args.dests[d].af])

NumberOfDests(w) == Len(table[w]["ipv4"]) + Len(table[w]["ipv6"])

\* A load balancer that is configured has given every destination to exactly
\* one worker, has left no worker without any, and has spread them evenly.
LoadSpread ==
    Configured /\ args.type = "load_balancer" =>
        /\ \A d \in DOMAIN args.dests :
               Cardinality({w \in Workers : Holds(w, d)}) = 1
        /\ \A w \in Created : NumberOfDests(w) >= 1
        /\ \A v, w \in Created : NumberOfDests(v) - NumberOfDests(w) <= 1

DestsOf(f) == {d \in DOMAIN args.dests : args.dests[d].af = f}

\* All destinations of family f, each once and in the order of the command line.
Lists(dests, f) ==
    /\ ToSet(dests) = DestsOf(f)
    /\ \A m, n \in DOMAIN dests : m < n => dests[m] < dests[n]

\* A broadcaster that is configured has given every worker all destinations,
\* each once and in the order of the command line.
Replicated ==
    Configured /\ args.type = "broadcaster" =>
        \A w \in Created, f \in Families : Lists(table[w][f], f)

Alive(w) == thread[w] \in {"recv", "deliver"}

\* Nothing is locked, and nothing needs to be: while a worker's thread is
\* alive, nobody adds a destination or an interface to the worker, and nobody
\* closes its rings or frees its tables, however main() came to its end.
ThreadsOwnWorkers ==
    [][\A w \in Workers :
           Alive(w) => UNCHANGED <<table[w], interfaces[w], sock[w]>>]_vars

\* When the process exits no thread is left and every ring is closed, also
\* when the creation failed half way.
CleanExit ==
    proc = "exited" =>
        \A w \in Workers : /\ thread[w] = "none"
                           /\ ~running[w]
                           /\ sock[w] = "none"

\* What the type of distribution asks for datagram p: one destination of its
\* family, or all of them.
Distributed(p) ==
    IF args.type = "broadcaster"
    THEN Lists(log[p], kind[p].af)
    ELSE Len(log[p]) = 1 /\ log[p][1] \in DestsOf(kind[p].af)

\* A datagram that arrives once every worker is in the fanout group waits at
\* one worker, or was distributed: once, by one worker, and not in part.
SteadyExactlyOnce ==
    proc = "running" /\ at # "free" =>
        \A p \in early + 1 .. Len(kind) :
            \/ /\ \E w \in Workers : Holders(p) = {w}
               /\ log[p] = <<>>
            \/ Holders(p) = {} /\ Distributed(p)

Turns(d) == Cardinality({p \in Packets : d \in ToSet(log[p])})

\* The destinations of a worker take turns: no two of a family are ever more
\* than one datagram apart, and the one added first is never behind.
TakeTurns ==
    args.type = "load_balancer" =>
        \A w \in Created, f \in Families :
            \A m, n \in DOMAIN table[w][f] :
                m < n => Turns(table[w][f][m]) - Turns(table[w][f][n])
                             \in {0, 1}

-----------------------------------------------------------------------------
(* Liveness.                                                               *)

\* After a signal the process ends, whatever its threads are doing and even
\* if datagrams keep coming without a pause (UnceasingSpec).
Terminates == signal ~> proc # "running"

\* A datagram in an RX ring is processed, or the process ends.
Processed ==
    \A p \in 1 .. MaxPackets :
        (p \in Packets /\ Holders(p) # {})
            ~> (Holders(p) = {} \/ proc # "running")

-----------------------------------------------------------------------------
(* What the README says and the code does not keep.                        *)

\* "<ip-address> is the IP address of the destination (either IPv4 or IPv6)"
\* (README.md:58): any of them may be given, and the program serves them.
NeverCrashes == proc # "crashed"

\* "Should the packets be load balanced or sent to all destinations?"
\* (README.md:68): a load-balanced packet is not sent to two of them.
OneDestination ==
    args.type = "load_balancer" => \A p \in Packets : Len(log[p]) <= 1

\* "receiving UDP datagrams and can distribute them to several destinations"
\* (README.md:5): a datagram that is processed is sent to some destination.
NoDatagramIgnored ==
    proc = "running" /\ at # "free" =>
        \A p \in Packets : Holders(p) = {} => SentTo(p) # <<>>
=============================================================================
