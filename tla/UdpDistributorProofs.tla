------------------------- MODULE UdpDistributorProofs -------------------------
(***************************************************************************)
(* Proofs about UdpDistributor: for every number of workers and every      *)
(* command line, with any step of the creation failing, nobody touches a   *)
(* worker whose thread lives, the process exits clean, and the variables   *)
(* keep their types.                                                       *)
(***************************************************************************)
EXTENDS UdpDistributor, TLAPS

Idle(w) == ~running[w] /\ thread[w] = "none"

\* The types of what main() and the threads steer by.
ControlTypes ==
    /\ args \in Args
    /\ at \in {"create_ring", "join_fanout", "add_interface",
               "add_destination", "start", "sigwait", "stop", "join", "free"}
    /\ i \in Int
    /\ caller \in {"main", "distributor", "worker"}
    /\ nworkers \in {0, NumberOfWorkers}
    /\ running \in [Workers -> BOOLEAN]
    /\ thread \in [Workers -> {"none", "recv", "deliver", "ended"}]
    /\ sock \in [Workers -> {"none", "bound", "joined"}]

\* A thread that runs has been told to, and one that has been told to stop is
\* the one that main() waits for.  Only workers of the distributor have one.
Threads ==
    \A w \in Workers :
        /\ running[w] => Alive(w) /\ w < nworkers
        /\ ~running[w] /\ thread[w] # "none" => at = "join" /\ w = i

\* Where main() is, and what it has done up to there.
Progress ==
    /\ at \in {"create_ring", "join_fanout"} =>
           nworkers = 0 /\ i \in 0 .. NumberOfWorkers - 1
    /\ at \in {"add_interface", "add_destination", "start", "sigwait"} =>
           nworkers = NumberOfWorkers /\ i \in 0 .. nworkers - 1
    /\ at \in {"create_ring", "join_fanout", "add_interface",
               "add_destination", "free"} => \A w \in Workers : Idle(w)
    /\ at = "start" => \A w \in Workers : w >= i => Idle(w)
    /\ at = "stop" => /\ i \in 0 .. nworkers
                      /\ \A w \in Workers : w < i => ~running[w]
    /\ at = "join" => /\ i \in 0 .. nworkers - 1
                      /\ \A w \in Workers : w <= i => ~running[w]
    /\ caller = "worker" => at = "free"
    /\ at = "free" => /\ i \in -1 .. MaxWorkers - 1
                      /\ \A w \in Workers : w > i => sock[w] = "none"
    /\ proc = "exited" => at = "free" /\ i = -1

ControlInv == ControlTypes /\ Threads /\ Progress

\* main() creates at least one worker, and not more than there are places for.
LEMMA SomeWorkers ==
    ASSUME args \in Args
    PROVE  NumberOfWorkers \in 1 .. MaxWorkers
<1>1. /\ args.nworkers \in 1 .. MaxWorkers
      /\ args.dests # <<>>
      /\ args.dests \in Seq([interface : ToSet(args.interfaces), af : Families])
  BY ArgsAssumption DEF Checked
<1>2. Len(args.dests) \in Nat \ {0}
  BY <1>1
<1> QED
  BY <1>1, <1>2, MaxWorkersAssumption, SMT DEF NumberOfWorkers

LEMMA ControlInit == Init => ControlInv
<1> SUFFICES ASSUME Init
             PROVE  ControlInv
  OBVIOUS
<1>1. NumberOfWorkers \in 1 .. MaxWorkers
  BY SomeWorkers DEF Init
<1>2. ControlTypes
  BY <1>1 DEF Init, ControlTypes
<1>3. Threads
  BY DEF Init, Threads
<1>4. Progress
  BY <1>1 DEF Init, Progress, Idle
<1> QED
  BY <1>2, <1>3, <1>4 DEF ControlInv

-----------------------------------------------------------------------------
(* The steps of main().                                                    *)

LEMMA CreateRingInv ==
    ASSUME ControlInv, CreateRing, UNCHANGED <<args, signal, proc>>
    PROVE  ControlInv'
<1> USE DEF ControlInv
<1>1. NumberOfWorkers' = NumberOfWorkers
  BY DEF NumberOfWorkers
<1>2. ControlTypes'
  BY <1>1 DEF ControlTypes, CreateRing, setup, flow
<1>3. Threads'
  BY DEF Threads, Alive, CreateRing, Progress, Idle, setup
<1>4. Progress'
  BY <1>1 DEF Progress, Idle, CreateRing, setup, ControlTypes
<1> QED
  BY <1>2, <1>3, <1>4

LEMMA JoinFanoutInv ==
    ASSUME ControlInv, JoinFanout, UNCHANGED <<args, signal, proc>>
    PROVE  ControlInv'
<1> USE DEF ControlInv
<1>1. /\ NumberOfWorkers' = NumberOfWorkers
      /\ NumberOfWorkers \in 1 .. MaxWorkers
  BY SomeWorkers DEF NumberOfWorkers, ControlTypes
<1>2. ControlTypes'
  <2>1. /\ i' \in Int
        /\ at' \in {"create_ring", "add_interface"}
        /\ nworkers' \in {0, NumberOfWorkers}
    BY DEF ControlTypes, JoinFanout
  <2>2. sock' \in [Workers -> {"none", "bound", "joined"}]
    BY DEF ControlTypes, JoinFanout
  <2>3. UNCHANGED <<caller, running, thread>>
    BY DEF JoinFanout
  <2> QED
    BY <1>1, <2>1, <2>2, <2>3 DEF ControlTypes
<1>3. Threads'
  BY DEF Threads, Alive, JoinFanout, Progress, Idle
<1>4. Progress'
  BY <1>1, MaxWorkersAssumption DEF Progress, Idle, JoinFanout, ControlTypes
<1> QED
  BY <1>2, <1>3, <1>4

\* The loops keep i among the workers.
LEMMA NextWorkerInv ==
    ASSUME ControlInv, NEW items, NEW then, NextWorker(items, then),
           at \in {"add_interface", "add_destination"},
           <<at, then>> \in {<<"add_interface", "add_destination">>,
                             <<"add_destination", "start">>},
           UNCHANGED <<args, proc, caller, nworkers, sock, running, thread>>
    PROVE  ControlInv'
<1> USE DEF ControlInv
<1>1. /\ NumberOfWorkers' = NumberOfWorkers
      /\ NumberOfWorkers \in 1 .. MaxWorkers
  BY SomeWorkers DEF NumberOfWorkers, ControlTypes
<1>2. /\ i' \in 0 .. nworkers - 1
      /\ at' \in {"add_interface", "add_destination", "start"}
  BY <1>1 DEF NextWorker, Progress
<1>3. ControlTypes'
  BY <1>1, <1>2 DEF ControlTypes
<1>4. Threads'
  BY <1>2 DEF Threads, Alive, Progress, Idle
<1>5. Progress'
  BY <1>1, <1>2 DEF Progress, Idle
<1> QED
  BY <1>3, <1>4, <1>5

LEMMA AddInv ==
    ASSUME ControlInv, AddInterface \/ AddLoadBalanced \/ AddBroadcast,
           UNCHANGED <<args, signal, proc>>
    PROVE  ControlInv'
<1>1. CASE AddInterface
  BY <1>1, NextWorkerInv DEF AddInterface, workers
<1>2. CASE AddBroadcast
  BY <1>2, NextWorkerInv DEF AddBroadcast, setup
<1>3. CASE AddLoadBalanced
  <2> USE DEF ControlInv
  <2>1. /\ NumberOfWorkers' = NumberOfWorkers
        /\ i' = i
        /\ at = "add_destination"
        /\ at' \in {"add_destination", "start"}
        /\ UNCHANGED <<caller, nworkers, sock, running, thread>>
    BY <1>3 DEF AddLoadBalanced, NextItem, NumberOfWorkers
  <2>2. ControlTypes'
    BY <2>1 DEF ControlTypes
  <2>3. Threads'
    BY <2>1 DEF Threads, Alive, Progress, Idle
  <2>4. Progress'
    BY <2>1 DEF Progress, Idle
  <2> QED
    BY <2>2, <2>3, <2>4
<1> QED
  BY <1>1, <1>2, <1>3

LEMMA StartInv ==
    ASSUME ControlInv, Start, UNCHANGED <<args, signal, proc>>
    PROVE  ControlInv'
<1> USE DEF ControlInv
<1>1. /\ NumberOfWorkers' = NumberOfWorkers
      /\ NumberOfWorkers \in 1 .. MaxWorkers
      /\ i \in 0 .. nworkers - 1
      /\ nworkers = NumberOfWorkers
      /\ i \in Workers
  <2>1. NumberOfWorkers' = NumberOfWorkers
    BY DEF NumberOfWorkers
  <2>2. NumberOfWorkers \in 1 .. MaxWorkers
    BY SomeWorkers DEF ControlTypes
  <2>3. nworkers = NumberOfWorkers /\ i \in 0 .. nworkers - 1
    BY DEF Progress, Start
  <2> QED
    BY <2>1, <2>2, <2>3, MaxWorkersAssumption DEF Workers
<1>2. /\ at' \in {"start", "sigwait"}
      /\ at' = "start" => i' = i + 1 /\ i + 1 < nworkers
      /\ at' = "sigwait" => i' = 0
      /\ running' = [running EXCEPT ![i] = TRUE]
      /\ thread' = [thread EXCEPT ![i] = "recv"]
      /\ UNCHANGED <<caller, nworkers, sock>>
      /\ at = "start"
  BY DEF Start, setup
<1>3. ControlTypes'
  BY <1>1, <1>2 DEF ControlTypes
<1>4. Threads'
  BY <1>1, <1>2 DEF Threads, Alive, ControlTypes
<1>5. Progress'
  BY <1>1, <1>2 DEF Progress, Idle, ControlTypes, Workers
<1> QED
  BY <1>3, <1>4, <1>5

LEMMA FailInv ==
    ASSUME ControlInv, Fail, UNCHANGED <<args, signal, proc>>
    PROVE  ControlInv'
<1> USE DEF ControlInv
<1>1. /\ NumberOfWorkers' = NumberOfWorkers
      /\ NumberOfWorkers \in 1 .. MaxWorkers
  BY SomeWorkers DEF NumberOfWorkers, ControlTypes
<1>2. /\ at' = "stop" /\ caller' = "distributor" /\ i' = 0
      /\ at \notin {"join", "free"}
      /\ UNCHANGED <<nworkers, sock, running, thread>>
  BY DEF Fail, setup, workers
<1>3. ControlTypes'
  BY <1>1, <1>2 DEF ControlTypes
<1>4. Threads'
  BY <1>2 DEF Threads, Alive
<1>5. Progress'
  BY <1>1, <1>2 DEF Progress, Idle, ControlTypes, Workers
<1> QED
  BY <1>3, <1>4, <1>5

LEMMA SigwaitInv ==
    ASSUME ControlInv, Sigwait, UNCHANGED <<args, proc>>
    PROVE  ControlInv'
<1> USE DEF ControlInv
<1>1. /\ NumberOfWorkers' = NumberOfWorkers
      /\ NumberOfWorkers \in 1 .. MaxWorkers
  BY SomeWorkers DEF NumberOfWorkers, ControlTypes
<1>2. /\ at' = "stop" /\ i' = 0
      /\ at = "sigwait"
      /\ UNCHANGED <<caller, nworkers, sock, running, thread>>
  BY DEF Sigwait, setup, workers
<1>3. ControlTypes'
  BY <1>1, <1>2 DEF ControlTypes
<1>4. Threads'
  BY <1>2 DEF Threads, Alive
<1>5. Progress'
  BY <1>1, <1>2 DEF Progress, Idle, ControlTypes, Workers
<1> QED
  BY <1>3, <1>4, <1>5

\* Stopping worker i: what it changes, whoever calls it.
LEMMA StopOne ==
    ASSUME ControlInv, i \in Workers, running[i],
           at = "stop" /\ i < nworkers,
           running' = [running EXCEPT ![i] = FALSE],
           at' = "join",
           UNCHANGED <<args, proc, i, caller, nworkers, sock, thread>>
    PROVE  ControlInv'
<1> USE DEF ControlInv
<1>1. NumberOfWorkers' = NumberOfWorkers
  BY DEF NumberOfWorkers
<1>2. ControlTypes'
  BY <1>1 DEF ControlTypes
<1>3. Threads'
  BY DEF Threads, Alive, ControlTypes
<1>4. Progress'
  BY <1>1 DEF Progress, Idle, ControlTypes, Workers
<1> QED
  BY <1>2, <1>3, <1>4

LEMMA StopWorkerInv ==
    ASSUME ControlInv, StopWorker, UNCHANGED <<args, signal, proc>>
    PROVE  ControlInv'
<1> USE DEF ControlInv
<1>1. /\ NumberOfWorkers' = NumberOfWorkers
      /\ NumberOfWorkers \in 1 .. MaxWorkers
  BY SomeWorkers DEF NumberOfWorkers, ControlTypes
<1>2. /\ at = "stop" /\ i < nworkers /\ i \in 0 .. nworkers
      /\ UNCHANGED <<caller, nworkers, sock, thread>>
  BY DEF StopWorker, setup, Progress
<1>3. i \in Workers
  BY <1>1, <1>2, MaxWorkersAssumption DEF ControlTypes, Workers
<1>4. CASE running[i]
  BY <1>2, <1>3, <1>4, StopOne DEF StopWorker
<1>5. CASE ~running[i]
  <2>1. i' = i + 1 /\ UNCHANGED <<running, at>>
    BY <1>5 DEF StopWorker
  <2>2. ControlTypes'
    BY <1>1, <1>2, <2>1 DEF ControlTypes
  <2>3. Threads'
    BY <1>2, <2>1 DEF Threads, Alive
  <2>4. Progress'
    BY <1>1, <1>2, <1>5, <2>1 DEF Progress, Idle, ControlTypes, Workers
  <2> QED
    BY <2>2, <2>3, <2>4
<1> QED
  BY <1>4, <1>5

LEMMA JoinInv ==
    ASSUME ControlInv, Join, UNCHANGED <<args, signal, proc>>
    PROVE  ControlInv'
<1> USE DEF ControlInv
<1>1. /\ NumberOfWorkers' = NumberOfWorkers
      /\ NumberOfWorkers \in 1 .. MaxWorkers
  BY SomeWorkers DEF NumberOfWorkers, ControlTypes
<1>2. /\ at = "join" /\ i \in 0 .. nworkers - 1 /\ caller # "worker"
      /\ thread' = [thread EXCEPT ![i] = "none"]
      /\ at' = "stop" /\ i' = i + 1
      /\ UNCHANGED <<caller, nworkers, sock, running>>
  BY DEF Join, setup, Progress
<1>3. ControlTypes'
  <2>1. thread' \in [Workers -> {"none", "recv", "deliver", "ended"}]
    BY <1>2 DEF ControlTypes
  <2>2. i' \in Int /\ nworkers' \in {0, NumberOfWorkers}
    BY <1>2 DEF ControlTypes
  <2> QED
    BY <1>1, <1>2, <2>1, <2>2 DEF ControlTypes
<1>4. Threads'
  BY <1>2 DEF Threads, Alive, ControlTypes, Progress
<1>5. Progress'
  BY <1>1, <1>2 DEF Progress, Idle, ControlTypes, Workers
<1> QED
  BY <1>3, <1>4, <1>5

LEMMA StoppedInv ==
    ASSUME ControlInv, Stopped, UNCHANGED <<args, signal, proc>>
    PROVE  ControlInv'
<1> USE DEF ControlInv
<1>1. /\ NumberOfWorkers' = NumberOfWorkers
      /\ NumberOfWorkers \in 1 .. MaxWorkers
  BY SomeWorkers DEF NumberOfWorkers, ControlTypes
<1>2. /\ at = "stop" /\ i = nworkers
      /\ UNCHANGED <<nworkers, sock, running, thread>>
  BY DEF Stopped, setup, workers
<1>3. \A w \in Workers : Idle(w)
  <2> SUFFICES ASSUME NEW w \in Workers
               PROVE  Idle(w)
    OBVIOUS
  <2>1. ~running[w]
    <3>1. CASE w < nworkers
      BY <1>2, <3>1 DEF Progress
    <3>2. CASE ~(w < nworkers)
      BY <3>2 DEF Threads
    <3> QED
      BY <3>1, <3>2
  <2> QED
    BY <1>2, <2>1 DEF Threads, Idle
<1>4. CASE caller = "main"
  <2>1. caller' = "distributor" /\ i' = 0 /\ at' = at
    BY <1>4 DEF Stopped
  <2>2. ControlTypes'
    BY <1>1, <1>2, <2>1 DEF ControlTypes
  <2>3. Threads'
    BY <1>2, <1>3, <2>1 DEF Threads, Alive, Idle
  <2>4. Progress'
    BY <1>1, <1>2, <1>3, <2>1 DEF Progress, Idle, ControlTypes, Workers
  <2> QED
    BY <2>2, <2>3, <2>4
<1>5. CASE caller # "main"
  <2>1. caller' = "worker" /\ i' = MaxWorkers - 1 /\ at' = "free"
    BY <1>5 DEF Stopped
  <2>2. ControlTypes'
    BY <1>1, <1>2, <2>1, MaxWorkersAssumption DEF ControlTypes
  <2>3. Threads'
    BY <1>2, <1>3, <2>1 DEF Threads, Alive, Idle
  <2>4. Progress'
    BY <1>2, <1>3, <2>1, MaxWorkersAssumption DEF Progress, Idle, Workers
  <2> QED
    BY <2>2, <2>3, <2>4
<1> QED
  BY <1>4, <1>5

LEMMA FreeWorkerInv ==
    ASSUME ControlInv, FreeWorker, UNCHANGED <<args, signal>>, UNCHANGED proc,
           proc = "running"
    PROVE  ControlInv'
<1> USE DEF ControlInv
<1>1. NumberOfWorkers' = NumberOfWorkers
  BY DEF NumberOfWorkers
<1>2. /\ at = "free" /\ i \in 0 .. MaxWorkers - 1
      /\ \A w \in Workers : Idle(w)
      /\ i \in Workers
  BY MaxWorkersAssumption DEF FreeWorker, Progress, ControlTypes, Workers
<1>3. /\ sock' = [sock EXCEPT ![i] = "none"]
      /\ i' = i - 1
      /\ UNCHANGED <<caller, nworkers, running, thread, at>>
  BY <1>2 DEF FreeWorker, Idle
<1>4. ControlTypes'
  BY <1>1, <1>2, <1>3 DEF ControlTypes
<1>5. Threads'
  BY <1>2, <1>3 DEF Threads, Idle
<1>6. Progress'
  BY <1>2, <1>3, MaxWorkersAssumption DEF Progress, Idle, ControlTypes, Workers
<1> QED
  BY <1>4, <1>5, <1>6

LEMMA ExitInv ==
    ASSUME ControlInv, Exit, UNCHANGED <<args, signal>>
    PROVE  ControlInv'
<1> USE DEF ControlInv
<1>1. /\ at = "free" /\ i = -1
      /\ NumberOfWorkers' = NumberOfWorkers
      /\ UNCHANGED <<at, i, caller, nworkers, running, thread, sock>>
  BY DEF Exit, main, setup, workers, NumberOfWorkers
<1>2. ControlTypes'
  BY <1>1 DEF ControlTypes
<1>3. Threads'
  BY <1>1 DEF Threads, Alive
<1>4. Progress'
  BY <1>1 DEF Progress, Idle
<1> QED
  BY <1>2, <1>3, <1>4

-----------------------------------------------------------------------------
(* The threads and the environment.                                        *)

\* A step of a thread moves the thread, and ends it only if it was told to
\* stop; it changes nothing else that main() steers by.
LEMMA ThreadChanges ==
    ASSUME ControlInv, NEW w \in Workers, ThreadStep(w)
    PROVE  /\ UNCHANGED <<args, at, i, caller, nworkers, sock, running, table,
                          interfaces>>
           /\ proc' # "exited"
           /\ \/ UNCHANGED thread
              \/ /\ Alive(w)
                 /\ \E t \in {"recv", "deliver", "ended"} :
                        /\ thread' = [thread EXCEPT ![w] = t]
                        /\ t = "ended" => ~running[w]
<1> USE DEF ControlInv
<1>1. /\ UNCHANGED <<args, at, i, caller, nworkers, interfaces>>
      /\ proc' # "exited"
  <2>1. UNCHANGED <<args, at, i, caller, nworkers, interfaces>>
    BY DEF ThreadStep, main, setup
  <2>2. proc = "running" /\ (proc' = proc \/ proc' = "crashed")
    BY DEF ThreadStep, ForwardToNobody
  <2> QED
    BY <2>1, <2>2
<1>2. CASE TakeBlock(w)
  BY <1>1, <1>2 DEF TakeBlock, Alive
<1>3. CASE RecvTimeout(w)
  BY <1>1, <1>3 DEF RecvTimeout, Loop, Alive
<1>4. CASE EndOfBlock(w)
  BY <1>1, <1>4 DEF EndOfBlock, Loop, Alive
<1>5. CASE Forward(w)
  BY <1>1, <1>5 DEF Forward, workers
<1>6. CASE Broadcast(w)
  BY <1>1, <1>6 DEF Broadcast, workers
<1>7. CASE ForwardToNobody(w)
  BY <1>1, <1>7 DEF ForwardToNobody, workers
<1> QED
  BY <1>2, <1>3, <1>4, <1>5, <1>6, <1>7 DEF ThreadStep

LEMMA ThreadStepInv ==
    ASSUME ControlInv, NEW w \in Workers, ThreadStep(w)
    PROVE  ControlInv'
<1> USE DEF ControlInv
<1>1. /\ UNCHANGED <<args, at, i, caller, nworkers, sock, running>>
      /\ NumberOfWorkers' = NumberOfWorkers
      /\ proc' # "exited"
  BY ThreadChanges DEF NumberOfWorkers
<1>2. CASE UNCHANGED thread
  <2>1. ControlTypes'
    BY <1>1, <1>2 DEF ControlTypes
  <2>2. Threads' /\ Progress'
    BY <1>1, <1>2 DEF Threads, Alive, Progress, Idle
  <2> QED
    BY <2>1, <2>2
<1>3. ASSUME Alive(w),
             NEW t \in {"recv", "deliver", "ended"},
             thread' = [thread EXCEPT ![w] = t],
             t = "ended" => ~running[w]
      PROVE  ControlInv'
  <2>1. ControlTypes'
    BY <1>1, <1>3 DEF ControlTypes
  <2>2. Threads'
    BY <1>1, <1>3 DEF Threads, Alive, ControlTypes
  <2>3. ~Idle(w)
    BY <1>3 DEF Idle, Alive
  <2>4. \A v \in Workers : Idle(v) => Idle(v)'
    BY <1>1, <1>3, <2>3 DEF Idle, ControlTypes
  <2>5. Progress'
    BY <1>1, <2>4 DEF Progress, Idle
  <2> QED
    BY <2>1, <2>2, <2>5
<1> QED
  BY <1>2, <1>3, ThreadChanges

LEMMA UnchangedInv ==
    ASSUME ControlInv, proc' = proc,
           UNCHANGED <<args, at, i, caller, nworkers, sock, running, thread>>
    PROVE  ControlInv'
BY DEF ControlInv, ControlTypes, Threads, Alive, Progress, Idle,
       NumberOfWorkers

LEMMA ControlNext == ControlInv /\ [Next]_vars => ControlInv'
<1> SUFFICES ASSUME ControlInv, [Next]_vars
             PROVE  ControlInv'
  OBVIOUS
<1>1. CASE MainStep
  BY <1>1, CreateRingInv, JoinFanoutInv, AddInv, StartInv, FailInv, SigwaitInv,
     StopWorkerInv, JoinInv, StoppedInv, FreeWorkerInv, ExitInv DEF MainStep
<1>2. ASSUME NEW w \in Workers, ThreadStep(w)
      PROVE  ControlInv'
  BY <1>2, ThreadStepInv
<1>3. CASE Environment
  <2>1. /\ UNCHANGED <<args, at, i, caller, nworkers, proc>>
        /\ UNCHANGED <<sock, running, thread>>
    BY <1>3 DEF Environment, main, setup, workers, Arrive
  <2> QED
    BY <2>1, UnchangedInv
<1>4. CASE UNCHANGED vars
  <2>1. UNCHANGED <<args, at, i, caller, nworkers, sock, running, thread, proc>>
    BY <1>4 DEF vars, main, setup, workers
  <2> QED
    BY <2>1, UnchangedInv
<1> QED
  BY <1>1, <1>2, <1>3, <1>4 DEF Next

-----------------------------------------------------------------------------

\* Whatever fails and whenever the signal comes, the process exits with every
\* thread joined and every ring closed (~udp_distributor(), ~worker()).
THEOREM CleanExitHolds == Spec => []CleanExit
<1>1. ControlInv => CleanExit
  <2> SUFFICES ASSUME ControlInv, proc = "exited", NEW w \in Workers
               PROVE  thread[w] = "none" /\ ~running[w] /\ sock[w] = "none"
    BY DEF CleanExit
  <2>1. at = "free" /\ i = -1
    BY DEF ControlInv, Progress
  <2>2. w > i
    BY <2>1, MaxWorkersAssumption DEF Workers
  <2> QED
    BY <2>1, <2>2 DEF ControlInv, Progress, Idle
<1> QED
  BY ControlInit, ControlNext, <1>1, PTL DEF Spec

\* The worker's tables, TX interfaces and socket do not change while its thread
\* lives: main() adds to workers that have no thread yet, and frees them when
\* their threads have been joined.
THEOREM ThreadsOwnWorkersHolds == Spec => ThreadsOwnWorkers
<1> DEFINE Owns ==
        \A w \in Workers :
            Alive(w) => UNCHANGED <<table[w], interfaces[w], sock[w]>>
<1>1. ControlInv /\ [Next]_vars => [Owns]_vars
  <2> SUFFICES ASSUME ControlInv, Next, NEW w \in Workers, Alive(w)
               PROVE  UNCHANGED <<table[w], interfaces[w], sock[w]>>
    OBVIOUS
  <2>1. at \notin {"create_ring", "join_fanout", "add_interface",
                   "add_destination", "free"}
    BY DEF ControlInv, Progress, Idle, Alive
  <2>2. CASE MainStep
    <3>1. UNCHANGED <<table, interfaces, sock>>
      BY <2>1, <2>2
         DEF MainStep, CreateRing, JoinFanout, AddInterface, AddLoadBalanced,
             AddBroadcast, Start, Fail, StopWorker, Join, Stopped, FreeWorker,
             Sigwait, Exit, setup, workers
    <3> QED
      BY <3>1
  <2>3. ASSUME NEW v \in Workers, ThreadStep(v)
        PROVE  UNCHANGED <<table[w], interfaces[w], sock[w]>>
    BY <2>3, ThreadChanges
  <2>4. CASE Environment
    BY <2>4 DEF Environment, setup, workers, Arrive
  <2> QED
    BY <2>2, <2>3, <2>4 DEF Next
<1>2. ThreadsOwnWorkers <=> [][Owns]_vars
  BY DEF ThreadsOwnWorkers
<1> QED
  BY ControlInit, ControlNext, <1>1, <1>2, PTL DEF Spec

-----------------------------------------------------------------------------
(* The types of all the variables.                                         *)

\* What main() adds, and where it is in adding.
Additions ==
    /\ k \in Nat \ {0}
    /\ at \in {"create_ring", "join_fanout"} => k = 1
    /\ at = "add_interface" => k <= Len(args.interfaces)
    /\ at = "add_destination" => k <= Len(args.dests)
    /\ idx \in Workers
    /\ interfaces \in [Workers -> Seq(ToSet(args.interfaces))]
    /\ \A w \in Workers : IsInjective(interfaces[w])
    /\ table \in [Workers -> [Families -> Seq(DOMAIN args.dests)]]

\* Whose turn it is in a table: the tables only grow until they are freed.
Turn ==
    /\ next \in [Workers -> [Families -> Nat]]
    /\ at # "free" =>
           \A w \in Workers, f \in Families :
               next[w][f] = 0 \/ next[w][f] < Len(table[w][f])

\* The datagrams, and where they are.
Datagrams ==
    /\ kind \in Seq(Kinds)
    /\ early \in 0 .. Len(kind)
    /\ rxq \in [Workers -> Seq(Packets)]
    /\ batch \in [Workers -> Seq(Packets)]
    /\ log \in Seq(Seq(DOMAIN args.dests))
    /\ Len(log) = Len(kind)
    /\ signal \in BOOLEAN
    /\ proc \in {"running", "exited", "crashed"}

TypeInv == ControlInv /\ Additions /\ Turn /\ Datagrams

LEMMA SomeArguments ==
    ASSUME args \in Args
    PROVE  /\ Len(args.interfaces) \in Nat \ {0}
           /\ \A n \in 1 .. Len(args.interfaces) :
                  args.interfaces[n] \in ToSet(args.interfaces)
           /\ Len(args.dests) \in Nat \ {0}
           /\ DOMAIN args.dests = 1 .. Len(args.dests)
           /\ \A n \in 1 .. Len(args.dests) : args.dests[n].af \in Families
<1> DEFINE names == ToSet(args.interfaces)
           Dests == [interface : names, af : Families]
<1>1. /\ args.interfaces \in Seq(names)
      /\ args.interfaces # <<>>
      /\ args.dests # <<>>
      /\ args.dests \in Seq(Dests)
  BY ArgsAssumption DEF Checked
<1>2. \A d \in Dests : d.af \in Families
  OBVIOUS
<1> HIDE DEF names, Dests
<1>3. /\ Len(args.interfaces) \in Nat \ {0}
      /\ \A n \in 1 .. Len(args.interfaces) : args.interfaces[n] \in names
      /\ Len(args.dests) \in Nat \ {0}
      /\ DOMAIN args.dests = 1 .. Len(args.dests)
      /\ \A n \in 1 .. Len(args.dests) : args.dests[n] \in Dests
  BY <1>1
<1> QED
  BY <1>2, <1>3 DEF names

LEMMA TypeInit == Init => TypeInv
<1> SUFFICES ASSUME Init
             PROVE  TypeInv
  OBVIOUS
<1>1. Additions
  <2>1. \A w \in Workers : IsInjective(interfaces[w])
    BY DEF Init, IsInjective
  <2> QED
    BY <2>1, MaxWorkersAssumption DEF Init, Additions, Workers
<1>2. Turn
  BY DEF Init, Turn
<1>3. Datagrams
  <2>1. kind = <<>> /\ log = <<>> /\ early = 0
    BY DEF Init
  <2>2. kind \in Seq(Kinds) /\ log \in Seq(Seq(DOMAIN args.dests))
    BY <2>1
  <2>3. Len(kind) = 0 /\ Len(log) = Len(kind) /\ early \in 0 .. Len(kind)
    BY <2>1
  <2>4. rxq \in [Workers -> Seq(Packets)] /\ batch \in [Workers -> Seq(Packets)]
    BY DEF Init
  <2>5. signal \in BOOLEAN /\ proc \in {"running", "exited", "crashed"}
    BY DEF Init
  <2> QED
    BY <2>2, <2>3, <2>4, <2>5 DEF Datagrams
<1> QED
  BY <1>1, <1>2, <1>3, ControlInit DEF TypeInv

LEMMA AdditionsKept ==
    ASSUME Additions, UNCHANGED <<args, k, idx, interfaces, table>>,
           \/ at' = at
           \/ at' \notin {"create_ring", "join_fanout", "add_interface",
                          "add_destination"}
    PROVE  Additions'
BY DEF Additions

\* A list without repetitions that does not hold x may get it.
LEMMA InjectiveAppend ==
    ASSUME NEW S, NEW s \in Seq(S), IsInjective(s), NEW x \in S,
           x \notin ToSet(s)
    PROVE  Append(s, x) \in Seq(S) /\ IsInjective(Append(s, x))
<1>1. /\ Len(s) \in Nat
      /\ DOMAIN s = 1 .. Len(s)
      /\ DOMAIN Append(s, x) = 1 .. Len(s) + 1
      /\ \A n \in 1 .. Len(s) : Append(s, x)[n] = s[n] /\ s[n] # x
      /\ Append(s, x)[Len(s) + 1] = x
      /\ Append(s, x) \in Seq(S)
  BY DEF ToSet
<1>2. \A n \in 1 .. Len(s) + 1 : n \in 1 .. Len(s) \/ n = Len(s) + 1
  BY <1>1
<1> QED
  BY <1>1, <1>2, Zenon DEF IsInjective

LEMMA AdditionsInterface ==
    ASSUME ControlInv, Additions, AddInterface, UNCHANGED args
    PROVE  Additions'
<1>1. /\ args \in Args
      /\ i \in 0 .. nworkers - 1
      /\ nworkers \in 1 .. MaxWorkers
  BY SomeWorkers DEF AddInterface, ControlInv, ControlTypes, Progress
<1>2. PICK w \in Workers : w = i
  BY <1>1, MaxWorkersAssumption DEF Workers
<1> DEFINE S == ToSet(args.interfaces)
           x == args.interfaces[k]
<1>3. x \in S /\ k \in 1 .. Len(args.interfaces)
  BY <1>1, SomeArguments DEF Additions, AddInterface
<1>4. /\ interfaces' \in [Workers -> Seq(S)]
      /\ \A v \in Workers : IsInjective(interfaces'[v])
  <2>1. interfaces \in [Workers -> Seq(S)]
    BY DEF Additions
  <2>2. \A v \in Workers : IsInjective(interfaces[v])
    BY DEF Additions
  <2>3. interfaces' = IF x \in ToSet(interfaces[w])
                      THEN interfaces
                      ELSE [interfaces EXCEPT ![w] = Append(@, x)]
    BY <1>2 DEF AddInterface
  <2> HIDE DEF S, x
  <2>4. CASE x \in ToSet(interfaces[w])
    BY <2>1, <2>2, <2>3, <2>4
  <2>5. CASE x \notin ToSet(interfaces[w])
    <3>1. /\ Append(interfaces[w], x) \in Seq(S)
          /\ IsInjective(Append(interfaces[w], x))
      BY <1>3, <2>1, <2>2, <2>5, InjectiveAppend
    <3>2. interfaces' = [interfaces EXCEPT ![w] = Append(interfaces[w], x)]
      BY <2>3, <2>5
    <3> QED
      BY <2>1, <2>2, <3>1, <3>2
  <2> QED
    BY <2>4, <2>5
<1>5. UNCHANGED <<idx, table>>
  BY DEF AddInterface, workers
<1>6. \/ at' = "add_interface" /\ k' \in 1 .. Len(args.interfaces)
      \/ at' = "add_destination" /\ k' = 1
  BY <1>1, <1>3, SomeArguments DEF AddInterface, NextWorker
<1> QED
  BY <1>1, <1>4, <1>5, <1>6, SomeArguments DEF Additions

\* One destination more in the table of a worker.
LEMMA AdditionsAddTo ==
    ASSUME ControlInv, Additions, at = "add_destination", NEW w \in Workers,
           AddTo(w)
    PROVE  /\ table' \in [Workers -> [Families -> Seq(DOMAIN args.dests)]]
           /\ k \in 1 .. Len(args.dests)
           /\ \A v \in Workers, f \in Families :
                  Len(table[v][f]) <= Len(table'[v][f])
<1>1. args \in Args
  BY DEF ControlInv, ControlTypes
<1>2. k \in 1 .. Len(args.dests)
  BY <1>1, SomeArguments DEF Additions
<1> DEFINE D == DOMAIN args.dests
<1>3. k \in D
  BY <1>1, <1>2, SomeArguments
<1>4. PICK g \in Families : g = args.dests[k].af
  BY <1>1, <1>2, SomeArguments
<1>5. table \in [Workers -> [Families -> Seq(D)]]
  BY DEF Additions
<1>6. table' = [table EXCEPT ![w][g] = Append(@, k)]
  BY <1>4 DEF AddTo, Dest
<1> HIDE DEF D
<1>7. table[w][g] \in Seq(D)
  BY <1>5
<1>8. Append(table[w][g], k) \in Seq(D)
  BY <1>3, <1>7
<1>9. table' \in [Workers -> [Families -> Seq(D)]]
  BY <1>5, <1>6, <1>8
<1>10. ASSUME NEW v \in Workers, NEW f \in Families
       PROVE  Len(table[v][f]) <= Len(table'[v][f])
  <2>1. Len(table[v][f]) \in Nat
    BY <1>5
  <2>2. CASE v = w /\ f = g
    <3>1. table'[v][f] = Append(table[w][g], k)
      BY <1>5, <1>6, <2>2
    <3>2. Len(Append(table[w][g], k)) = Len(table[w][g]) + 1
      BY <1>7
    <3> QED
      BY <2>1, <2>2, <3>1, <3>2
  <2>3. CASE ~(v = w /\ f = g)
    <3>1. table'[v][f] = table[v][f]
      BY <1>5, <1>6, <2>3
    <3> QED
      BY <2>1, <3>1
  <2> QED
    BY <2>2, <2>3
<1> QED
  BY <1>2, <1>9, <1>10 DEF D

LEMMA AdditionsDestination ==
    ASSUME ControlInv, Additions, AddLoadBalanced \/ AddBroadcast, UNCHANGED args
    PROVE  /\ Additions'
           /\ \A v \in Workers, f \in Families :
                  Len(table[v][f]) <= Len(table'[v][f])
<1>1. /\ at = "add_destination"
      /\ UNCHANGED interfaces
  BY DEF AddLoadBalanced, AddBroadcast, setup
<1>2. /\ args \in Args
      /\ i \in 0 .. nworkers - 1
      /\ nworkers \in 1 .. MaxWorkers
  BY <1>1, SomeWorkers DEF ControlInv, ControlTypes, Progress
<1>3. PICK w \in Workers : w = i
  BY <1>2, MaxWorkersAssumption DEF Workers
<1>4. /\ table' \in [Workers -> [Families -> Seq(DOMAIN args.dests)]]
      /\ k \in 1 .. Len(args.dests)
      /\ \A v \in Workers, f \in Families :
             Len(table[v][f]) <= Len(table'[v][f])
  <2>1. CASE AddLoadBalanced
    <3>1. PICK v \in Workers : v = idx
      BY DEF Additions
    <3>2. AddTo(v)
      BY <2>1, <3>1 DEF AddLoadBalanced
    <3> QED
      BY <1>1, <3>2, AdditionsAddTo
  <2>2. CASE AddBroadcast
    <3>1. AddTo(w)
      BY <1>3, <2>2 DEF AddBroadcast
    <3> QED
      BY <1>1, <3>1, AdditionsAddTo
  <2> QED
    BY <2>1, <2>2
<1>5. idx' \in Workers
  <2>1. CASE AddLoadBalanced
    <3>1. idx' = (idx + 1) % nworkers /\ idx \in Nat
      BY <2>1, MaxWorkersAssumption DEF AddLoadBalanced, Additions, Workers
    <3>2. (idx + 1) % nworkers \in 0 .. nworkers - 1
      BY <1>2, <3>1, MaxWorkersAssumption
    <3> QED
      BY <1>2, <3>1, <3>2, MaxWorkersAssumption DEF Workers
  <2>2. CASE AddBroadcast
    BY <2>2 DEF AddBroadcast, setup, Additions
  <2> QED
    BY <2>1, <2>2
<1>6. \/ at' = "add_destination" /\ k' \in 1 .. Len(args.dests)
      \/ at' = "start" /\ k' = 1
  <2>1. CASE AddLoadBalanced
    BY <1>1, <1>2, <1>4, <2>1, SomeArguments DEF AddLoadBalanced, NextItem
  <2>2. CASE AddBroadcast
    BY <1>1, <1>2, <1>4, <2>2, SomeArguments DEF AddBroadcast, NextWorker
  <2> QED
    BY <2>1, <2>2
<1> QED
  BY <1>1, <1>2, <1>4, <1>5, <1>6, SomeArguments DEF Additions

LEMMA AdditionsFree ==
    ASSUME ControlInv, Additions, FreeWorker, UNCHANGED args
    PROVE  Additions'
<1>1. /\ at = "free" /\ at' = "free"
      /\ i \in Workers
      /\ interfaces' = [interfaces EXCEPT ![i] = <<>>]
      /\ table' = [table EXCEPT ![i] = [f \in Families |-> <<>>]]
      /\ UNCHANGED <<k, idx>>
  <2>1. at = "free" /\ i \in 0 .. MaxWorkers - 1
    BY DEF FreeWorker, ControlInv, Progress
  <2>2. i \in Workers
    BY <2>1 DEF Workers
  <2>3. ~running[i]
    BY <2>1, <2>2 DEF ControlInv, Progress, Idle
  <2> QED
    BY <2>1, <2>2, <2>3 DEF FreeWorker
<1>2. IsInjective(<<>>)
  BY DEF IsInjective
<1>3. \A v \in Workers : IsInjective(interfaces'[v])
  BY <1>1, <1>2 DEF Additions
<1>4. /\ interfaces' \in [Workers -> Seq(ToSet(args.interfaces))]
      /\ table' \in [Workers -> [Families -> Seq(DOMAIN args.dests)]]
  BY <1>1 DEF Additions
<1> QED
  BY <1>1, <1>3, <1>4 DEF Additions

\* The steps of main() that neither add nor free anything.
LEMMA AdditionsOther ==
    ASSUME Additions, UNCHANGED args,
           \/ CreateRing \/ Start \/ Fail \/ Sigwait \/ StopWorker \/ Join
           \/ Stopped \/ Exit
    PROVE  Additions'
<1>1. /\ UNCHANGED <<k, idx, interfaces, table>>
      /\ \/ at' = at
         \/ at' \notin {"create_ring", "join_fanout", "add_interface",
                        "add_destination"}
         \/ at = "create_ring" /\ at' = "join_fanout"
  BY DEF CreateRing, Start, Fail, Sigwait, StopWorker, Join, Stopped, Exit,
         main, setup, workers
<1> QED
  BY <1>1, AdditionsKept DEF Additions

LEMMA AdditionsNext == ControlInv /\ Additions /\ [Next]_vars => Additions'
<1> SUFFICES ASSUME ControlInv, Additions, [Next]_vars
             PROVE  Additions'
  OBVIOUS
<1>1. CASE MainStep
  <2>1. UNCHANGED args
    BY <1>1 DEF MainStep
  <2>2. CASE JoinFanout
    <3>1. /\ at' \in {"create_ring", "add_interface"}
          /\ k = 1
          /\ UNCHANGED <<k, idx, interfaces, table>>
      BY <2>2 DEF JoinFanout, Additions
    <3>2. 1 <= Len(args.interfaces)
      BY SomeArguments DEF ControlInv, ControlTypes
    <3> QED
      BY <2>1, <3>1, <3>2 DEF Additions
  <2> QED
    BY <1>1, <2>1, <2>2, AdditionsInterface, AdditionsDestination, AdditionsFree,
       AdditionsOther DEF MainStep
<1>2. ASSUME NEW w \in Workers, ThreadStep(w)
      PROVE  Additions'
  <2>1. UNCHANGED <<args, at, k, idx, interfaces, table>>
    BY <1>2, ThreadChanges DEF ThreadStep, main, setup
  <2> QED
    BY <2>1, AdditionsKept
<1>3. CASE Environment
  <2>1. UNCHANGED <<args, at, k, idx, interfaces, table>>
    BY <1>3 DEF Environment, main, setup, workers, Arrive
  <2> QED
    BY <2>1, AdditionsKept
<1>4. CASE UNCHANGED vars
  <2>1. UNCHANGED <<args, at, k, idx, interfaces, table>>
    BY <1>4 DEF vars, main, setup, workers
  <2> QED
    BY <2>1, AdditionsKept
<1> QED
  BY <1>1, <1>2, <1>3, <1>4 DEF Next

\* The tables only grow until the workers are freed.
LEMMA TablesGrow ==
    ASSUME ControlInv, Additions, MainStep
    PROVE  /\ UNCHANGED next
           /\ at' # "free" =>
                  /\ at # "free"
                  /\ \A v \in Workers, f \in Families :
                         Len(table[v][f]) <= Len(table'[v][f])
<1>1. UNCHANGED args
  BY DEF MainStep
<1>2. \A v \in Workers, f \in Families : Len(table[v][f]) \in Nat
  BY DEF Additions
<1>3. CASE FreeWorker
  <2>1. at = "free" /\ i \in 0 .. MaxWorkers - 1
    BY <1>3 DEF FreeWorker, ControlInv, Progress
  <2>2. ~running[i]
    BY <2>1 DEF ControlInv, Progress, Idle, Workers
  <2> QED
    BY <1>3, <2>1, <2>2 DEF FreeWorker
<1>4. CASE AddLoadBalanced \/ AddBroadcast
  <2>1. UNCHANGED next /\ at # "free"
    BY <1>4 DEF AddLoadBalanced, AddBroadcast, flow
  <2> QED
    BY <1>1, <1>4, <2>1, AdditionsDestination
<1>5. CASE \/ CreateRing \/ JoinFanout \/ AddInterface \/ Start \/ Fail
           \/ Sigwait \/ StopWorker \/ Join \/ Stopped \/ Exit
  <2>1. /\ UNCHANGED <<next, table>>
        /\ at = "free" => at' = "free"
    BY <1>5 DEF CreateRing, JoinFanout, AddInterface, Start, Fail, Sigwait,
                StopWorker, Join, Stopped, Exit, main, workers, flow
  <2> QED
    BY <1>2, <2>1
<1> QED
  BY <1>3, <1>4, <1>5 DEF MainStep

LEMMA TurnNext == ControlInv /\ Additions /\ Turn /\ [Next]_vars => Turn'
<1> SUFFICES ASSUME ControlInv, Additions, Turn, [Next]_vars
             PROVE  Turn'
  OBVIOUS
<1>1. \A v \in Workers, f \in Families : Len(table[v][f]) \in Nat
  BY DEF Additions
<1>2. CASE MainStep
  <2>1. UNCHANGED next
    BY <1>2, TablesGrow
  <2>2. ASSUME at' # "free", NEW v \in Workers, NEW f \in Families
        PROVE  next'[v][f] = 0 \/ next'[v][f] < Len(table'[v][f])
    <3>1. at # "free" /\ Len(table[v][f]) <= Len(table'[v][f])
      BY <1>2, <2>2, TablesGrow
    <3>2. next[v][f] \in Nat /\ Len(table[v][f]) \in Nat
      BY <1>1 DEF Turn
    <3>3. Len(table'[v][f]) \in Nat
      BY <1>2, AdditionsNext DEF Additions, Next
    <3>4. next[v][f] = 0 \/ next[v][f] < Len(table[v][f])
      BY <3>1 DEF Turn
    <3> QED
      BY <2>1, <3>1, <3>2, <3>3, <3>4
  <2> QED
    BY <2>1, <2>2 DEF Turn
<1>3. ASSUME NEW w \in Workers, ThreadStep(w)
      PROVE  Turn'
  <2>1. UNCHANGED <<at, table>>
    BY <1>3, ThreadChanges
  <2>2. CASE Forward(w)
    <3> DEFINE af == kind[Current(w)].af
               n == Len(table[w][af])
    <3>1. /\ next' = [next EXCEPT ![w][af] = (@ + 1) % n]
          /\ table[w][af] # <<>>
      BY <2>2 DEF Forward, TableFor
    <3> HIDE DEF af
    <3>2. CASE af \in Families
      <4>1. n \in Nat \ {0} /\ next[w][af] \in Nat
        <5>1. table[w][af] \in Seq(DOMAIN args.dests)
          BY <3>2 DEF Additions
        <5> QED
          BY <3>1, <3>2, <5>1 DEF Turn
      <4> HIDE DEF n
      <4>2. /\ (next[w][af] + 1) % n \in Nat
            /\ (next[w][af] + 1) % n < n
        BY <4>1
      <4>3. next' \in [Workers -> [Families -> Nat]]
        BY <3>1, <4>2 DEF Turn
      <4>4. ASSUME at # "free", NEW v \in Workers, NEW f \in Families
            PROVE  next'[v][f] = 0 \/ next'[v][f] < Len(table[v][f])
        <5>1. CASE v = w /\ f = af
          BY <3>1, <3>2, <4>2, <5>1 DEF Turn, n
        <5>2. CASE ~(v = w /\ f = af)
          <6>1. next'[v][f] = next[v][f]
            BY <3>1, <3>2, <5>2 DEF Turn
          <6> QED
            BY <4>4, <6>1 DEF Turn
        <5> QED
          BY <5>1, <5>2
      <4> QED
        BY <2>1, <4>3, <4>4 DEF Turn
    <3>3. CASE af \notin Families
      <4>1. UNCHANGED next
        BY <3>1, <3>3 DEF Turn
      <4> QED
        BY <2>1, <4>1 DEF Turn
    <3> QED
      BY <3>2, <3>3
  <2>3. CASE ~Forward(w)
    <3>1. UNCHANGED next
      BY <1>3, <2>3 DEF ThreadStep, TakeBlock, RecvTimeout, EndOfBlock,
                        Broadcast, ForwardToNobody, flow
    <3> QED
      BY <2>1, <3>1 DEF Turn
  <2> QED
    BY <2>2, <2>3
<1>4. CASE Environment
  <2>1. UNCHANGED <<at, table, next>>
    BY <1>4 DEF Environment, main, workers, flow, Arrive
  <2> QED
    BY <2>1 DEF Turn
<1>5. CASE UNCHANGED vars
  <2>1. UNCHANGED <<at, table, next>>
    BY <1>5 DEF vars, main, workers, flow
  <2> QED
    BY <2>1 DEF Turn
<1> QED
  BY <1>2, <1>3, <1>4, <1>5 DEF Next

LEMMA DatagramsMain ==
    ASSUME Datagrams, MainStep
    PROVE  Datagrams'
<1>1. UNCHANGED <<args, kind, early, batch, log>>
  BY DEF MainStep, CreateRing, JoinFanout, AddInterface, AddLoadBalanced,
         AddBroadcast, Start, Fail, StopWorker, Join, Stopped, FreeWorker,
         Sigwait, Exit, flow
<1>2. rxq' = rxq \/ rxq' = [rxq EXCEPT ![i] = <<>>]
  BY DEF MainStep, CreateRing, JoinFanout, AddInterface, AddLoadBalanced,
         AddBroadcast, Start, Fail, StopWorker, Join, Stopped, FreeWorker,
         Sigwait, Exit, flow
<1>3. rxq' \in [Workers -> Seq(Packets)]
  <2>1. rxq \in [Workers -> Seq(Packets)] /\ <<>> \in Seq(Packets)
    BY DEF Datagrams
  <2> QED
    BY <1>2, <2>1, Zenon
<1>4. signal' \in BOOLEAN /\ proc' \in {"running", "exited", "crashed"}
  BY DEF MainStep, Sigwait, Exit, Datagrams
<1>5. Packets' = Packets
  BY <1>1 DEF Packets
<1> QED
  BY <1>1, <1>3, <1>4, <1>5 DEF Datagrams

\* The datagram that a thread hands on, and the table it looks at.
LEMMA CurrentDatagram ==
    ASSUME Additions, Datagrams, NEW w \in Workers, Deliver(w)
    PROVE  /\ Current(w) \in 1 .. Len(log)
           /\ Tail(batch[w]) \in Seq(Packets)
           /\ kind[Current(w)].af \in Families
           /\ TableFor(w) \in Seq(DOMAIN args.dests)
<1>1. batch[w] \in Seq(Packets) /\ batch[w] # <<>>
  BY DEF Datagrams, Deliver
<1>2. Current(w) \in Packets /\ Tail(batch[w]) \in Seq(Packets)
  <2> HIDE DEF Packets
  <2> QED
    BY <1>1 DEF Current
<1>3. kind[Current(w)] \in Kinds
  BY <1>2 DEF Datagrams, Packets
<1>4. kind[Current(w)].af \in Families
  BY <1>3, KindsAssumption
<1> QED
  BY <1>2, <1>4 DEF Datagrams, Additions, TableFor, Packets

LEMMA HandedOn ==
    ASSUME Additions, Datagrams, NEW w \in Workers, Deliver(w),
           NEW dests \in Seq(DOMAIN args.dests), HandedTo(w, dests)
    PROVE  /\ log' \in Seq(Seq(DOMAIN args.dests))
           /\ Len(log') = Len(log)
           /\ batch' \in [Workers -> Seq(Packets)]
<1> DEFINE D == DOMAIN args.dests
           p == Current(w)
<1>1. /\ log \in Seq(Seq(D))
      /\ p \in 1 .. Len(log)
      /\ dests \in Seq(D)
      /\ log' = [log EXCEPT ![p] = @ \o dests]
  BY CurrentDatagram DEF Datagrams, HandedTo
<1>2. batch' \in [Workers -> Seq(Packets)]
  BY CurrentDatagram DEF Datagrams, HandedTo
<1> HIDE DEF D, p
<1>3. log[p] \in Seq(D)
  BY <1>1
<1>4. log[p] \o dests \in Seq(D)
  BY <1>1, <1>3
<1>5. log' \in Seq(Seq(D)) /\ Len(log') = Len(log)
  BY <1>1, <1>4
<1> QED
  BY <1>2, <1>5 DEF D

LEMMA DatagramsThread ==
    ASSUME ControlInv, Additions, Turn, Datagrams, NEW w \in Workers, ThreadStep(w)
    PROVE  Datagrams'
<1>1. /\ UNCHANGED <<args, signal, kind, early>>
      /\ Packets' = Packets
      /\ proc' \in {"running", "exited", "crashed"}
  BY DEF ThreadStep, TakeBlock, RecvTimeout, EndOfBlock, Forward, Broadcast,
         ForwardToNobody, flow, Packets, Datagrams
<1>2. CASE TakeBlock(w)
  <2>1. PICK n \in 1 .. Len(rxq[w]) :
            /\ batch' = [batch EXCEPT ![w] = SubSeq(rxq[w], 1, n)]
            /\ rxq' = [rxq EXCEPT ![w] = SubSeq(@, n + 1, Len(@))]
    BY <1>2 DEF TakeBlock
  <2>2. rxq[w] \in Seq(Packets)
    BY DEF Datagrams
  <2>3. /\ SubSeq(rxq[w], 1, n) \in Seq(Packets)
        /\ SubSeq(rxq[w], n + 1, Len(rxq[w])) \in Seq(Packets)
    <3> HIDE DEF Packets
    <3> QED
      BY <2>1, <2>2
  <2>4. UNCHANGED log
    BY <1>2 DEF TakeBlock
  <2> QED
    BY <1>1, <2>1, <2>3, <2>4 DEF Datagrams
<1>3. CASE RecvTimeout(w) \/ EndOfBlock(w) \/ ForwardToNobody(w)
  <2>1. UNCHANGED <<rxq, batch, log>>
    BY <1>3 DEF RecvTimeout, EndOfBlock, ForwardToNobody, flow
  <2> QED
    BY <1>1, <2>1 DEF Datagrams
<1>4. CASE Forward(w)
  <2> DEFINE D == DOMAIN args.dests
             t == TableFor(w)
             turn == next[w][kind[Current(w)].af]
  <2>1. /\ Deliver(w)
        /\ t # <<>>
        /\ HandedTo(w, <<t[turn + 1]>>)
        /\ UNCHANGED rxq
    BY <1>4 DEF Forward
  <2>2. t \in Seq(D) /\ kind[Current(w)].af \in Families
    BY <2>1, CurrentDatagram
  <2>3. turn \in Nat /\ (turn = 0 \/ turn < Len(t))
    <3>1. at # "free"
      BY <2>1 DEF Deliver, ControlInv, Progress, Idle
    <3> QED
      BY <2>2, <3>1 DEF Turn, TableFor
  <2>4. <<t[turn + 1]>> \in Seq(D)
    <3> HIDE DEF D, t, turn
    <3>1. turn + 1 \in 1 .. Len(t)
      BY <2>1, <2>2, <2>3
    <3> QED
      BY <2>2, <3>1
  <2> QED
    BY <1>1, <2>1, <2>4, HandedOn DEF Datagrams
<1>5. CASE Broadcast(w)
  <2>1. Deliver(w) /\ HandedTo(w, TableFor(w)) /\ UNCHANGED rxq
    BY <1>5 DEF Broadcast
  <2>2. TableFor(w) \in Seq(DOMAIN args.dests)
    BY <2>1, CurrentDatagram
  <2> QED
    BY <1>1, <2>1, <2>2, HandedOn DEF Datagrams
<1> QED
  BY <1>2, <1>3, <1>4, <1>5 DEF ThreadStep

LEMMA DatagramsArrive ==
    ASSUME Datagrams, NEW datagram \in Kinds, Arrive(datagram),
           UNCHANGED <<args, proc>>, signal' \in BOOLEAN
    PROVE  Datagrams'
<1> DEFINE p == Len(kind) + 1
<1>1. /\ kind \in Seq(Kinds) /\ Len(kind) \in Nat
      /\ kind' = Append(kind, datagram)
      /\ log' = Append(log, <<>>)
      /\ early' = IF nworkers = 0 THEN p ELSE early
      /\ UNCHANGED batch
  BY DEF Datagrams, Arrive
<1>2. kind' \in Seq(Kinds) /\ Len(kind') = p
  BY <1>1
<1>3. log' \in Seq(Seq(DOMAIN args.dests)) /\ Len(log') = p
  <2>1. log \in Seq(Seq(DOMAIN args.dests)) /\ Len(log) = Len(kind)
    BY DEF Datagrams
  <2>2. <<>> \in Seq(DOMAIN args.dests)
    OBVIOUS
  <2> QED
    BY <1>1, <2>1, <2>2
<1>4. early' \in 0 .. Len(kind')
  BY <1>1, <1>2 DEF Datagrams
<1>5. p \in Packets' /\ \A n \in Packets : n \in Packets'
  BY <1>1, <1>2 DEF Packets
<1>6. \A q \in Seq(Packets) : q \in Seq(Packets')
  BY <1>5
<1>7. batch' \in [Workers -> Seq(Packets')]
  BY <1>1, <1>6 DEF Datagrams
<1>8. rxq' \in [Workers -> Seq(Packets')]
  <2>1. PICK receivers \in SUBSET Workers :
            rxq' = [w \in Workers |-> IF w \in receivers
                                      THEN Append(rxq[w], p) ELSE rxq[w]]
    <3> DEFINE alone == {w \in Workers : sock[w] = "bound"}
               group == {w \in Workers : sock[w] = "joined"}
    <3>1. PICK chosen \in SUBSET group :
              rxq' = [w \in Workers |-> IF w \in alone \cup chosen
                                        THEN Append(rxq[w], p) ELSE rxq[w]]
      BY DEF Arrive, Captured
    <3>2. alone \cup chosen \in SUBSET Workers
      OBVIOUS
    <3> QED
      BY <3>1, <3>2
  <2>2. ASSUME NEW w \in Workers
        PROVE  rxq[w] \in Seq(Packets') /\ Append(rxq[w], p) \in Seq(Packets')
    <3>1. rxq[w] \in Seq(Packets')
      BY <1>6 DEF Datagrams
    <3> HIDE DEF Packets, p
    <3> QED
      BY <1>5, <3>1
  <2> QED
    BY <2>1, <2>2
<1> QED
  BY <1>2, <1>3, <1>4, <1>7, <1>8 DEF Datagrams

LEMMA DatagramsNext ==
    ControlInv /\ Additions /\ Turn /\ Datagrams /\ [Next]_vars => Datagrams'
<1> SUFFICES ASSUME ControlInv, Additions, Turn, Datagrams, [Next]_vars
             PROVE  Datagrams'
  OBVIOUS
<1>1. CASE Environment
  <2>1. CASE \E datagram \in Kinds : Arrive(datagram)
    <3>1. UNCHANGED <<args, proc>> /\ signal' \in BOOLEAN
      BY <1>1 DEF Environment, Signal, Datagrams
    <3> QED
      BY <2>1, <3>1, DatagramsArrive
  <2>2. CASE Signal /\ UNCHANGED <<workers, flow>>
    BY <1>1, <2>2 DEF Environment, Signal, flow, Datagrams, Packets
  <2> QED
    BY <1>1, <2>1, <2>2 DEF Environment
<1>2. CASE UNCHANGED vars
  BY <1>2 DEF vars, flow, Datagrams, Packets
<1> QED
  BY <1>1, <1>2, DatagramsMain, DatagramsThread DEF Next

LEMMA TypeNext == TypeInv /\ [Next]_vars => TypeInv'
BY ControlNext, AdditionsNext, TurnNext, DatagramsNext DEF TypeInv

-----------------------------------------------------------------------------

\* Whatever main(), the threads, the network and the user do, every variable
\* keeps its type.  In particular forward() takes the destination of a turn that
\* is within its table: the tables only grow until the threads are joined.
THEOREM TypeCorrect == Spec => []TypeOK
<1>1. TypeInv => TypeOK
  <2> SUFFICES ASSUME TypeInv
               PROVE  TypeOK
    OBVIOUS
  <2>1. ControlTypes /\ Progress /\ Additions /\ Turn /\ Datagrams
    BY DEF TypeInv, ControlInv
  <2>2. i \in -1 .. MaxWorkers
    <3>1. NumberOfWorkers \in 1 .. MaxWorkers
      BY <2>1, SomeWorkers DEF ControlTypes
    <3> QED
      BY <2>1, <3>1, MaxWorkersAssumption DEF ControlTypes, Progress
  <2>3. ASSUME NEW w \in Workers
        PROVE  /\ IsInjective(interfaces[w])
               /\ ToSet(interfaces[w]) \subseteq ToSet(args.interfaces)
               /\ \A f \in Families :
                      ToSet(table[w][f]) \subseteq DOMAIN args.dests
    <3>1. interfaces[w] \in Seq(ToSet(args.interfaces))
      BY <2>1 DEF Additions
    <3>2. ToSet(interfaces[w]) \subseteq ToSet(args.interfaces)
      <4> DEFINE S == ToSet(args.interfaces)
      <4>1. \A n \in DOMAIN interfaces[w] : interfaces[w][n] \in S
        <5> HIDE DEF S
        <5> QED
          BY <3>1 DEF S
      <4> HIDE DEF S
      <4>2. ToSet(interfaces[w]) \subseteq S
        BY <4>1 DEF ToSet
      <4> QED
        BY <4>2 DEF S
    <3>3. \A f \in Families : table[w][f] \in Seq(DOMAIN args.dests)
      BY <2>1 DEF Additions
    <3>4. \A f \in Families : ToSet(table[w][f]) \subseteq DOMAIN args.dests
      BY <3>3 DEF ToSet
    <3> QED
      BY <2>1, <3>2, <3>4 DEF Additions
  <2>4. ASSUME NEW p \in Packets
        PROVE  ToSet(log[p]) \subseteq DOMAIN args.dests
    <3>1. log[p] \in Seq(DOMAIN args.dests)
      BY <2>1 DEF Datagrams, Packets
    <3> QED
      BY <3>1 DEF ToSet
  <2> QED
    BY <2>1, <2>2, <2>3, <2>4
       DEF TypeOK, ControlTypes, Additions, Turn, Datagrams
<1> QED
  BY TypeInit, TypeNext, <1>1, PTL DEF Spec

=============================================================================
