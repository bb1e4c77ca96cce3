# Verification of udp_distributor

TLA+ models of `udp_distributor`, a program that captures UDP datagrams from a
network interface with memory-mapped packet sockets and sends them on, changed
headers and all, to one destination (load balancer) or to all of them
(broadcaster). TLC checks the models on small instances, and TLAPS proves the
most important invariants for every value of the constants.

## 1. The system

| component | source | state | operations |
|---|---|---|---|
| main() | `main.cpp` | arguments, blocked signals | parse, create, add, start, wait for a signal, stop |
| command-line parser | `main.cpp` | position and state of each automaton | `parse_*()` |
| socket filter | `net/socket_filter.*` | port ranges, families, program | `ipv4()`, `ipv6()`, `port_range()`, `compile()` |
| distributor | `net/udp_distributor.*` | workers, their number, the worker of the next destination | `create()`, `add_interface()`, `add_destination()`, `start()`, `stop()` |
| worker | `net/worker.*` | RX ring, TX interfaces, a table of destinations per family with the index of the next one, thread, `_M_running` | the same, and the thread's `run()` |
| packet composition | `net/worker.cpp` | none | `send_ipv4()`, `send_ipv6()` |
| ring buffer, RX | `net/ring_buffer.*` | blocks shared with the kernel, `_M_rx_idx` | `recv()` |
| ring buffer, TX | `net/ring_buffer.*` | frames shared with the kernel, `_M_tx_idx` | `send()`, `sendmmsg()` |
| ring buffer, creation | `net/ring_buffer.*` | descriptor, mapping, frame arrays | `create()`, `clear()` |

How they interact. `main()` compiles the filter and creates the distributor,
which creates the workers' RX rings one after the other; each is bound to the
interface, with the filter attached, and then joins one fanout group, through
which the kernel spreads the datagrams. `main()` adds the TX interfaces (a TX
ring for each, in every worker) and the destinations (in one worker, in turn,
for a load balancer; in every worker for a broadcaster) and starts the threads.
A thread calls `recv()` with a timeout until `_M_running` is false; `recv()`
calls back with the datagrams of a block, and each is composed anew and sent
through the TX ring of its destination's interface. A signal makes `main()`
stop and join the threads; destructors do the rest, and also the whole end if
a step of the creation failed.

What is hard here:

* the two rings are shared with the kernel without locks: status words say who
  owns a frame or a block, and two indexes, one on either side, must stay in
  step although neither side sees the other's;
* `sendto()` fails after a frame was marked, `poll()` wakes up for nothing, and
  `send()` retries;
* threads and `main()` share tables, rings and a flag without locks, and every
  step of the creation may fail;
* datagrams arrive while the program is still creating its sockets;
* the filter is a program with forward jumps patched after the fact.

What makes each component correct:

* TX ring: a bounded FIFO; nothing is sent twice or overtaken, no frame is
  overwritten while the kernel has it, `true` means that nothing is left, and
  what is marked is eventually taken. The code keeps this for packets that fit
  in a frame (finding 5), and the last until the ring wedges (finding 1);
* RX ring: a stream; nothing stored is lost, duplicated or overtaken, a block
  goes back only when it has been read, and a full ring recovers;
* distributor and workers: destinations are spread evenly or replicated
  completely, a datagram is distributed once, by one worker, in full; nobody
  touches a worker while its thread lives; the process ends when it is told to,
  with nothing left running or open;
* filter: the ranges are exactly the ports asked for, in their shortest form,
  and the program accepts exactly the datagrams to them;
* parser: what reaches the distributor has been checked, in whatever order the
  options come; a number or a list of ports is accepted exactly when it should
  be, although the test for overflow misses numbers that wrap around;
* composition: the checksums are those of what is sent, the receiver accepts the
  datagram, and nothing outside the captured frame is read. The code keeps the
  second but for a zero checksum over IPv6, and the third for frames that are
  what they say (end of section 3);
* creation: what is acquired is released once (not modelled, see 6).

## 2. Modules

| module | models | runs |
|---|---|---|
| `TxRing` | sending half of `ring_buffer` and the kernel's side of it | `tx_ring`, `tx_wedge`, `tx_overrun` (through `MCTxRing`) |
| `TxQueue` | what a TX ring promises: a bounded FIFO | refined by `TxRing` |
| `TxRingProofs` | theorems about `TxRing` | |
| `RxRing` | receiving half of `ring_buffer` and the kernel's side | `rx_ring` |
| `PacketStream` | what an RX ring promises: a stream in batches | refined by `RxRing` |
| `RxRingProofs` | theorems about `RxRing` | |
| `Numbers` | `parse_size()`, `parse_number()` | `command_line` |
| `PortList` | `parse_port_list()` | `command_line` |
| `Arguments` | what the parser owes to the distributor: `Checked` | |
| `CommandLine` | `main()` before it starts the distributor; extends the three above | `command_line` (through `MCCommandLine`) |
| `CommandLineProofs` | theorems about `CommandLine`, `Numbers` and `PortList` | |
| `UdpDistributor` | `main()` from the creation on, `udp_distributor`, `worker`, threads, fanout group; extends `Arguments` | `control`, `data`, `families`, `startup`, `padding` (through `MCUdpDistributor`) |
| `UdpDistributorProofs` | theorems about `UdpDistributor` | |
| `DistributionProofs` | theorems about what `UdpDistributor` does with destinations and datagrams; uses `UdpDistributorProofs` | |
| `Datagram` | `send_ipv4()`, `send_ipv6()` | `datagram` (through `MCDatagram`) |
| `DatagramProofs` | theorems about `Datagram` | |
| `SocketFilter` | `socket_filter` and the kernel's filter machine | `socket_filter` (through `MCSocketFilter`) |
| `SocketFilterProofs` | theorems about `SocketFilter` | |
| `Counting` | lemmas that the proofs share: induction by counting, least and greatest elements, recursive functions | |

Definitions marked "Mutant" are faulty variants of the definition that follows
them. No specification uses them; each shows that some property notices a
plausible bug at that place (PROJECT.json, "mutants").

### TxRing

`status` and `data` are the frames' `tp_status` and contents, `txIdx` is
`_M_tx_idx`, and `pc`, `op`, `pkts`, `i`, `retried` are the progress of the call
in execution. `Call` begins a call, `Place` fills a frame and marks it,
`WaitWritable`, `PollReady`, `PollTimeout` and `GiveUp` are the waiting for a
free frame, and `SendtoReturns`, `SendtoFails` and `KernelReject` end it.
`send()` and `sendv()` differ in how bytes are copied, and V1, V2 and V3 in the
frame's header and in `PACKET_LOSS`; one set of actions stands for them all, and
`version`, any of `Versions`, decides on `PACKET_LOSS`. The map names the lines of one
variant for each definition: mostly those of V2, which the program sends with.

`Place` is for a packet that fits in its frame. The code copies a packet of any
length: `Extent` says how many frames its bytes reach into, and when they are more
than one, `Overrun` overwrites the status and the contents of the frames behind, and
what is past the last frame is lost, or the process is killed (`Fault`). What the bytes
make of a status word is any status, and of a packet, one that the kernel can send or
not. `spilt`, a history variable, says that this has happened. The model goes on
from there, and what it promises of the indexes and of the order holds until then:
`Window`, `TrueMeansFlushed`, `ImplementsTxQueue` and `FlushedUnlessWedged` each say so.
`SendReturns` holds in any case, and so do the types.

The kernel is external. `head` is its next frame. It takes frames only within
`sendto()`, in ring order, while the device is `ready`; it fails without moving
when the device is down or its queue is full (ENETDOWN, ENOBUFS), frames that
wait are left marked; it releases frames in any order, and it remembers which ones the
device has (`held`), whatever their status words say by then. `poll()` may report
POLLOUT with no free frame, because it reports the socket as writable too. A
blocking socket without a send timeout does not fail with EAGAIN
(`ErrnosAssumption`): this is what makes the retry of `send()` safe.

### RxRing

`status` and `block` are the blocks, `current` and `frozen` the kernel's side,
`rxIdx` is `_M_rx_idx`, `done` and `pkts` are the progress through a block and
the array of `recv_v3()`, and `last` is what the callback was given last. A
packet is stored in the open block, which is handed over when it is full or its
timer fires; if the next one is still the worker's, the ring freezes and
packets are lost until it is given back. `recv_v1()` and `recv_v2()`, which the
program does not use, are the instance with `BlockCap = MaxPkts = 1`.

### UdpDistributor

`at`, `i`, `k` and `caller` are where `main()` is, in which worker, at which
argument, and in which of the calls of `stop()`. A failure at any step goes to
the destructors (`Fail`). Threads take any number of datagrams from their ring
(`TakeBlock`), process them one at a time (`Forward`, `Broadcast`) and look at
`running` only at the end of a block. `Arrive` is the network and the kernel: a
socket that is bound and not in the group gets a copy of its own, and one member
of the group gets one. A RX ring is a queue here, and a TX ring takes what it is
given: their own behaviour is that of the ring modules. `log` records for each
datagram the destinations whose send function was called, and `SentTo` those to
which it really was sent. `Unceasing`, which `UnceasingSpec` adds to the steps, is a
network that never pauses: a datagram takes the place of one that no ring holds any
more (`ArriveInPlaceOf`), so that more arrive than `MaxPackets`. What became of the old one
is forgotten, and therefore the properties of single datagrams are checked without it.

`RecvTimeout` needs an empty ring. The kernel hands over a block that is not
full after 64 ms (`tp_retire_blk_tov`, `ring_buffer.cpp:331`), and `recv()` waits for
250 ms (`worker.cpp:439`).

### SocketFilter

`ranges` is `_M_portranges` and `families` are the two flags. `Insert`, `Merge`
and `Refuse` are the ways through `port_range()`. `Compile` builds the program
instruction by instruction, with `Ignore` and `Accept` for the jumps that are
patched at the end. `Accepts` runs the program on a packet, which is what the
program loads from it. Ports stop at `MaxPort`; the code computes `to + 1` in
`size_t`, which does not wrap at 65535, and neither does the model.

### Datagram

One call of `send_ipv4()` or `send_ipv6()`, for a destination and a captured
frame. `sum`, `check` and `udpcheck` are the code's variables with their widths;
`todo` is what its loops still have to add, so that one `Add` is one turn of any of
them; `Fold` is a turn of `while (sum > USHRT_MAX)`. `exact`, a history variable, is
what the sum would be without a width. `Sent` is what the vector of pieces makes
up. A byte has `Byte` values and a word `Byte * Byte`: the arithmetic is that of 8
and 16 bits with another base, and a small one carries with two or three words.
Bytes beyond the frame are not modelled: for a well-formed frame none are read
(`InsideFrame`), and a loop that would read them ends in `RunAway`.

A frame has three things that may disagree: its EtherType (`type`), which the filter
looks at; the version nibble (`af`), by which `fnpacket()` chooses the function; and the
nibble with the length of an IPv4 header (`ihl`). `WellFormed` frames have the version of
their EtherType and an IPv4 header of at least 20 bytes. The code checks neither. For
a frame of EtherType IPv4 and version 6 the filter's minimum length is too small, so
that `udplen - 8` may wrap and the loop over the data runs out of the frame until it
meets an address that cannot be read (`RunAway`). When `ihl` is less than 5,
`iphdrlen - sizeof(struct iphdr)` wraps, and `tx.send()` copies a piece of that length
(`CopyTooMuch`), unless the ring is full (`Send`). `FilterAssumption` is what the filter
guarantees (`FilterExact`), a minimum length by the EtherType, and
`LengthAssumption` that a datagram whose length fits 16 bits has less than 32800
words. That the last odd byte is summed as `ntohs()` of a byte is right on a
little-endian machine, which `LastByte` takes for granted.

### CommandLine, Numbers, PortList and Arguments

`CommandLine` is `main()` up to `start()`: one action per option, in any order,
then the check of the destinations (`Check`), the creation (`Create`, all of it one
step here) and the second pass over the destinations (`Add`). The arguments are
chosen as they are read; of a destination, which is read twice, the text is kept,
as the name of its interface, whether the rest is good, and the family. MAC and IP
addresses are good or bad. `index` is what the system's names stand for, and
`Change` renames, adds or removes an interface at any time.

`Numbers` is the loop of `parse_size()` and of `parse_number()`: `res` wraps at
`Width`, a character is an action, and `exact` is the number without a width. Where
the parser returns before it has read the whole text, `exact` and `malformed` say
what the text is so far. `PortList` is the automaton of `parse_port_list()`, with
`state`, `from` and `to` as in the code; `calls` are the calls of `port_range()`,
which may refuse any. Its reference definitions look at the whole text: what stands
between two commas or dashes (`Piece`), the number it writes (`Value`), the item it
belongs to, which is the number of commas before it (`Item`); `IsList` says which texts
are lists and `Added` which calls are theirs.

`Arguments` holds `Checked`, what `CommandLine` hands over (`HandsOver`) and
`UdpDistributor` assumes of its `Args` (`ArgsAssumption`): the two modules meet there.

## 3. What the runs show

| run | bounds | what it shows |
|---|---|---|
| `tx_ring` | 3 frames; a good packet, one that is refused, and one that is longer than a frame; V1 with `send()` of the good and the long one, V2 with batches up to 4 of those that fit, V3 with batches up to 2 | types, `Window`, `TrueMeansFlushed` and, with `PACKET_LOSS`, implements `TxQueue`, until a packet is written beyond its frame; `SendReturns`, `FlushedUnlessWedged`, also for V3, where the ring stops at a refused packet and goes on a lap later |
| `rx_ring` | 2 blocks of at most 4 packets, array of 2, 2 packets | types, `InStep`, `ReadsOwnBlock`; implements `PacketStream`; `BlocksReturn`, `Thaws` |
| `control` | 3 workers, 2 datagrams at a time and no end of them, any step may fail | types, `LoadSpread`, `Replicated`, `CleanExit`, `ThreadsOwnWorkers`; `Terminates` |
| `data` | 2 workers, 4 datagrams, 3 destinations | `SteadyExactlyOnce`, `TakeTurns`; `Processed` |
| `socket_filter` | 9 ports, 3 places | `Canonical`, `Exact`, `RefusesOnlyWhenFull`, `FilterExact` |
| `datagram` | bytes of 5 values, up to 3 bytes of data, frames that fit and that do not, and frames that are not well-formed | types, `Completes`, `Verifies`, `InsideFrame`; `CallEnds` |
| `command_line` | 4 options, 4 characters, 2 names, 1 interface, 1 change | types, `HandsOver`, `AddsOnlyParsed`, `NumberExact`, `PortsExact` |
| `tx_wedge` | 2 frames | finding 1 |
| `families`, `startup`, `padding` | 1 or 2 workers, 1 datagram | findings 2 to 4 |
| `tx_overrun` | 3 frames, `send()` of a good packet and of one longer than a frame | finding 5 |

Why the bounds are enough. A batch of four packets is longer than the ring of
three frames, so that it must wait inside a call, wrap around and meet frames
that wait, that are being sent and that are free. A packet that reaches into two frames
meets any frame behind its own, and the end of the ring. V1 and V2 are the same code;
they share the bounds out, because long packets and long batches together make too
many states. Two datagrams at a time are enough for traffic that never pauses: whenever
a worker has taken one from its ring, another may come, forever. Four packets per block and an
array of two fill the array exactly, twice and in part, and two blocks are
enough to freeze. Three workers with three destinations and with one, and two
workers with three, cover a full turn, an uneven one and the limit. Four
datagrams over three destinations wrap the index. Nine ports have up to five
separate ranges, two more than there are places, and the packets of
`MCSocketFilter` miss each test by the least that is possible (a byte too short,
one flag, the port next to a range). Words of 0, 24 and little in between, with 24
the greatest, make the sum carry several times; the data have an even and an odd
number of bytes, and UDP lengths are below 8, at 8, and off the frame's either way.
IPv4 headers of 12 and 16 bytes, and frames of EtherType IPv4 and version 6 with UDP
lengths of 0, 7 and 8, are on both sides of what makes a length wrap.
Four options are the three that are required and one more. Four digits of base 3
overflow an integer of 32 values, noticed (2222, which is 16 after 26) and unnoticed
(1222, which is 21 after 17), and the greatest size, 8, times the greatest unit, 4,
is just `Width`, as 2^34 times 2^30 is 2^64 in the code. Four characters of ports
make two items, a range, or a port that is too large; a range with another item behind
it takes five, and is left to the proof, which is about texts of any length. The bounds on options and
characters are shared by all arguments, so that a long number goes with few
others; the parsers do not depend on each other.

Fairness. A worker thread runs and a system call ends (`WF` of the worker's and
of the kernel's steps), a device completes what it took (`WF` of `Complete`), a
block's timer fires (`WF` of `Retire`), and calls keep coming (`WF` of `Call`), which
`FlushedUnlessWedged` and `Flushed` need. Nothing is assumed of the device, of the network or
of the user: the properties that need a device say so in their antecedent
(`<>[]ready`), and a network that pauses is not needed (`UnceasingSpec`). `main()` and each thread are scheduled (`WF` of `MainStep` and
`ThreadStep`). The main thread's weak fairness is enough because its steps stay
enabled until they are taken: a joined thread stays ended. `CallEnds` needs only that
the thread of the call runs (`WF` of `Step`). `CommandLine` and `SocketFilter` state no
liveness and no fairness.

Deadlock is checked for the rings, which never stop (where the worker was killed, the
device goes on). The other runs do not check it: the process exits or is killed, no call
follows `compile()`, and the parser ends.

### Findings

1. **A TX ring wedges** (`tx_wedge`, `Flushed`). Each `sendto()` that fails leaves
   a marked frame behind. When all are marked, every call finds its frame taken
   and returns before `sendto()`, so nobody tells the kernel to look at the ring
   again, even when the device is back. With 256 MB and 2 KB frames this takes
   131072 failures in a row, which an interface that is down for a while yields.
2. **A load balancer with one family** (`families`, `NeverCrashes`). `forward()` of
   a table without destinations computes `% 0`.
3. **Start-up** (`startup`, `OneDestination`). Between `bind()` and `PACKET_FANOUT`
   a socket captures everything, so the first datagrams may be distributed once
   per worker.
4. **Padding** (`padding`, `NoDatagramIgnored`). Datagrams with fewer than 18 bytes
   arrive in padded frames over IPv4 and are dropped by the check on the length.
5. **Packets longer than a frame** (`tx_overrun`, `WritesOnlyFree`). The copy into the
   TX ring is not bounded by the frame's 2048 bytes, while a block of the RX ring has
   16 KB. A longer datagram, which an interface with a large MTU delivers, overwrites
   the frames behind it, status words included, while they wait or are being sent.

Met while modelling, without a run:

* the filter reads the port of an IPv4 packet where it is without options
  (`socket_filter.cpp:250`), so that a packet with options is accepted or not by
  whatever bytes are there, while `send_ipv4()` does look at the header's length;
* an IPv4 header with `ihl` less than 5 passes the checks and makes the length of
  the options wrap (`worker.cpp:309`), and a short frame of EtherType IPv4 and version 6
  makes the length of the data wrap (`worker.cpp:377`). Both are in `Datagram`, and
  `InsideFrame` excepts them by `WellFormed`;
* with `ipv6()` alone the filter's type test is not patched (the program never
  does that);
* V3 rings, which the program does not send with, do not set `PACKET_LOSS`, and
  `Window` does not hold for them;
* a UDP checksum that comes out as zero is sent as zero (`worker.cpp:392`). Over IPv6 the
  checksum is mandatory, as the comment at `worker.cpp:348` says, and zero means that
  there is none, so the receiver discards about one in 65535 datagrams. `Verifies`
  names this as the one datagram that is not accepted;
* a destination is parsed twice (`main.cpp:187`, `main.cpp:242`). If its interface was
  renamed in between, and the name now belongs to another interface of the list,
  the destination is added there. `AddsOnlyParsed` says that it never is rubbish.

## 4. What is proved

`TxRingProofs` (assumptions of `TxRing` on its constants; where `PACKET_LOSS` is
needed, the invariants speak of the versions that set it):

* `TypeCorrect`: `TypeOK`, by one step per action. `TypeOK` is inductive because it
  says where `i` may be: below the number of packets while placing, at it in
  `sendto()`; and that until a packet is written beyond its frame the frames of the
  device are those whose status says so.
* `WindowHolds`: `Window`, for any number of frames. `Window` alone is inductive
  with `TypeOK`; the argument is arithmetic modulo `NFrames`. `Place` makes the
  window one frame longer at its end: the frame at `txIdx` is free, so it is not in
  the window, and the window was not the whole ring. `KernelTransmit` and
  `KernelDiscard` make it one shorter at its start.
* `TrueMeansFlushedHolds`: `TrueMeansFlushed`. `result` becomes true only where the
  frame at the head does not wait, and then by `Window` none does. That an idle
  worker's ring does not change is the rest of it: the kernel takes frames only
  within `sendto()`.
* `RefinesTxQueue`: `ImplementsTxQueue`, step by step. `Queue`, the packets of the frames
  that wait, is a function of the distance from `head`, which `Window` makes a prefix
  of the ring: `Place` appends to it, `KernelTransmit` and `KernelDiscard` take its head,
  a completion leaves it alone although it clears a frame in the middle of the ring,
  and what remains to be placed of a call is `Todo`. All else stutters. `Window`, and with
  it the argument, ends where a packet is written beyond its frame: what the property
  claims is every step up to that one.
* `FittingIsTxQueue` and `FittingWritesOnlyFree`: if every packet fits in a frame
  (`AllFit`), that never happens. The ring then implements `TxQueue` without an exception,
  and `WritesOnlyFree` holds, which `tx_overrun` violates with a longer packet.

`RxRingProofs` (assumptions of `RxRing`):

* `TypeCorrect`: `TypeOK`, in its three parts: indexes, blocks, and the batch, whose
  length is what keeps `recv_v3()` inside its array.
* `InStepHolds`: `InStep`, strengthened by `OwnsBlock` (a block that is read is the
  worker's), without which a release might move the window's start away from it.
* `ReadsOwnBlockHolds`: `ReadsOwnBlock`, from `InStep`: the kernel writes to blocks that
  are not the worker's only.
* `RefinesPacketStream`: `ImplementsPacketStream`, step by step. The packets on their way
  are those of the batch, the rest of its block, and the blocks behind it in ring
  order, put together by the recursive function `Stored`; a packet that arrives goes to
  its end, and a delivery takes a batch from its beginning. It needs `NothingEmpty`, that
  the kernel hands over no empty block: otherwise the callback might be given an
  empty batch, which the stream does not allow.

`UdpDistributorProofs` (assumptions of `UdpDistributor`: any number of workers, any
`Checked` arguments, any packets):

* `CleanExitHolds`: `CleanExit`, and `ThreadsOwnWorkersHolds`: `ThreadsOwnWorkers`. The
  inductive invariant, `ControlInv`, ties where `main()` is to what it has done: the
  threads from `i` on do not exist while it starts them; a thread that has been told
  to stop is the one that `main()` joins; sockets above `i` are closed in the
  destructors. Neither property is inductive without it: after `Fail`, `main()` may
  go to the destructors from any place.
* `TypeCorrect`: `TypeOK`. With `ControlInv`, the invariant has three more parts:
  `Additions` (what the tables can hold), `Turn` (`_M_idx` of a table stays inside it,
  because tables only grow until they are freed, after the threads have been joined;
  `TypeOK` says so) and `Datagrams` (what
  waits in rings and blocks has arrived, and `log` has an entry for it).

`DistributionProofs` (the same assumptions):

* `LoadSpreadHolds`: `LoadSpread`, for any number of workers and destinations. The
  invariant, `Spread`, says what `Given(n)` the first n destinations makes of the
  tables: n is q rounds and the `_M_idx` workers of the next one, who have one
  destination more than the others, and each destination is at one worker. Whether
  a step ends a round (`% nworkers`) is the case to get right. That no worker goes
  without follows from `main()`'s cap on the number of workers, by which q is at
  least 1.
* `ReplicatedHolds`: `Replicated`. The invariant, `Replication`, has the workers before
  the one that `main()` is at one destination ahead of the others.
* `SteadyExactlyOnceHolds`: `SteadyExactlyOnce`. `Group` says that no socket is outside
  the group once the workers count, and so no datagram is copied; `Queues` that a
  worker has a datagram at most once, in its ring or in its block; and `Steady` that
  each datagram is with one worker and untouched, or with none and distributed.
* `TakeTurnsHolds`: `TakeTurns`. It covers datagrams that were copied during start-up,
  too: `NotYet` says that a datagram which waits at a worker was handed to none of this
  worker's destinations, because destinations are not shared (`LoadSpread`). `InTurn`
  has the destinations before `_M_idx` one datagram ahead, and `Silent` that there are
  none as long as the tables change.

`SocketFilterProofs` (any number of ports and places):

* `TypeCorrect`, `CanonicalHolds` and `ExactHolds`: `TypeOK`, `Canonical` and `Exact`. The
  invariant has the order between any two ranges, not only neighbours, because a
  merge takes a run of them away, and what the list holds as a set. `TakesPlace` is
  the step for all: a range that contains the ones whose place it takes, and touches
  no other. What `First()` and `Last()` find is from the well-foundedness of the
  natural numbers, since `Min` and `Max` are `CHOOSE`s.
* `RefusesOnlyWhenFullHolds`: `RefusesOnlyWhenFull`, under `Room`: 4 instructions for each
  place and 19 others fit into the program (`4 * MaxPortRanges + 19 <= MaxFilters`; the
  code has 147 for its 32 places, and 255 of them). When `port_range()` refuses, the
  places are taken and the new range touches none, so that the ports make up one
  range more than there are places, as `Canonical` ranges are the runs of what they
  hold. `compile()` then never runs out of instructions, which is the
  other way to fail.
* `FilterExactHolds`: `FilterExact`, for programs of at most 256 instructions (the jumps of
  the filter machine have 8 bits and `max_filters` is 255, `socket_filter.h:40`), packets
  without IPv4 options or the reserved bit (`Regular`; with options the filter looks at
  the wrong place, section 3), and unless `ipv6()` alone was called
  (`socket_filter.cpp:216`; `main()` calls neither `ipv4()` nor `ipv6()`). The patched program is
  taken apart into its parts, and each is run symbolically: where the type tests lead
  to, that a part is left at its end or for one of the two patched targets, and that
  the ports' tests accept a port if and only if one of the ranges holds it, by
  induction over the ranges.

`DatagramProofs` (any number of values of a byte, any destinations and frames that
satisfy the assumptions):

* `TypeCorrect`: `TypeOK`; in particular the sum stays below 2^32.
* `CompletesHolds`: `Completes`. Invariant: `sum` and `exact` are the same modulo
  `Word - 1`, and at most `Word` words are added, each below `Word`, so that the
  addition does not wrap; a fold takes away a multiple of `Word - 1`.
* `VerifiesHolds`: `Verifies`. The invariant, `Sums`, says that what was added and what
  is left are the words of the header, or of the datagram with its pseudo-header,
  whose order and parting into words does not matter to `Total`; and that a checksum,
  once stored, makes the receiver's total a positive multiple of `Word - 1`. It is
  positive because the complement of nothing is 0xffff, and not 0. That makes the
  receiver accept what is not zero; what is zero it takes over IPv4 only.
* `InsideFrameHolds`: `InsideFrame`, from the equality of the lengths and the filter's
  minimum, which is that of the function that is called because the frame is
  well-formed. `RunAway` and `CopyTooMuch` are then never taken.

`CommandLineProofs`, the parsers (any width, base, units and limits with room for one
more digit above the limit, `max * Base + Base <= Width`, and for the greatest unit;
any greatest port, if a single digit does not exceed it, `PortBase <= MaxPort + 1`, as
10 <= 65536: the code does not compare a first digit with it):

* `NumberExactHolds`: `NumberExact`. The argument that the code does not make: as long
  as no digit was rejected, either `res` is the exact number, or both are above
  everything that the limits allow. At or below the limit a digit cannot wrap; above
  it `tmp >= res` keeps what wraps above it, too.

* `PortsExactHolds`: `PortsExact`, for texts of any length. The invariant, `Progress`, says
  what the automaton knows in each of its states: all pieces that a separator has
  closed are right and are in their call or still in `from` and `to`; the last one is a
  port in states 1 and 3, and has not begun in the others; and there is a call for
  each item before the last, except that in state 4 the last one's is yet to come.
  What is rejected is `Hopeless`: a closed piece is wrong, the last one has a character
  that is no digit, or its number is too great, none of which another digit mends.

`CommandLineProofs`, `main()` (assumptions of `CommandLine`, `Numbers` and `PortList`; any
arguments in any order, any interfaces renamed at any time):

* `TypeCorrect`: `TypeOK`; `HandsOverHolds`: `HandsOver`; `AddsOnlyParsedHolds`:
  `AddsOnlyParsed`. The invariant, `CommandInv`, takes the numbers' limits from
  the parsers' (`NumberInv`) and adds how far the two passes over the destinations are: whose
  text is good was seen by the first pass and cannot change, whereas what its
  interface's name stands for can; that is why the second pass may fail, and why it
  cannot add what its parser left unfilled. `HandsOver` is `Checked`, the assumption
  of `UdpDistributor` on its `Args`: for what `CommandLine` can produce it is a theorem.

How induction is done. The provers cannot instantiate the library's induction
theorems, which take an operator as a parameter. `Counting` does without: a set of
numbers that holds 0, and with each number below n the next, holds all up to n
(`CountUp`, from the well-foundedness of the natural numbers), and a proof applies it
to the set of the numbers that have its property. A recursive function is a `CHOOSE`, so
that the proofs first count up to its existence and then unfold it. Modules that are
proved about declare no `RECURSIVE` operator.

Only model-checked: the liveness properties, since fairness is out of the prover's
reach (`SendReturns`, `FlushedUnlessWedged`, `BlocksReturn`, `Thaws`, `Terminates`,
`Processed`, `CallEnds`), and the runs that expect a violation. Each invariant, step
property and refinement that a passing run checks is a theorem.

## 5. Plan

1. `Datapath`: a worker composed of an RX stream, its table and its TX queues.
2. Theorems about how the modules meet: that the frames which `SocketFilter` accepts
   satisfy `FilterAssumption` of `Datagram`, and that the steps which `UdpDistributor`
   takes on its rings are those of `PacketStream` and `TxQueue`.

## 6. Not modelled

`show_statistics()`, `print()` and `usage()` print, and the first two are never
called. The creation of a ring (`create()`, `clear()`, the setup functions) is a
straight line of system calls: its order and its failures are in `UdpDistributor`,
`PACKET_LOSS` and the number of frames in the ring modules, and the rest, the
release of descriptor, mapping and arrays, happens once per object and has no
interleaving. The bytes of packets are abstracted to what guards and properties tell
apart. VLAN tags, host names (`inet_pton`) and the contents of the interface's
addresses play no part in the properties. The memory model: status words are read
and written at once and in program order, which the code's `__sync_synchronize()`
and x86 give it; `_M_running`, a plain `bool`, is read anew in every turn of the
loop, because `recv()` is called through a pointer that the compiler cannot see
through.
