----------------------------- MODULE Arguments -----------------------------
(***************************************************************************)
(* What main() hands to the distributor once it has parsed and checked the *)
(* command line: CommandLine shows that it does, UdpDistributor starts     *)
(* from it.                                                                *)
(***************************************************************************)
EXTENDS Integers, Sequences, SequencesExt

CONSTANT MaxWorkers  \* max_workers

ASSUME MaxWorkersAssumption == MaxWorkers \in Nat \ {0}

Families == {"ipv4", "ipv6"}

Types == {"load_balancer", "broadcaster"}

\* A number of workers in range, at least one interface and one destination,
\* and the interface of every destination is one of the interfaces.
Checked(a) ==
    /\ a.type \in Types
    /\ a.nworkers \in 1 .. MaxWorkers
    /\ a.interfaces \in Seq(ToSet(a.interfaces))
    /\ a.interfaces # <<>>
    /\ a.dests # <<>>
    /\ a.dests \in Seq([interface : ToSet(a.interfaces), af : Families])
=============================================================================
