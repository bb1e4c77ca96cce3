---------------------------- MODULE MCCommandLine ----------------------------
(***************************************************************************)
(* CommandLine for TLC: numbers of base 3 in an integer of 32 values, with *)
(* the greatest size times the greatest unit just 32.                      *)
(***************************************************************************)
EXTENDS CommandLine

UnitsOfSizes == [K |-> 2, M |-> 4]

Sizes == [min |-> 4, max |-> 8, sized |-> TRUE]

WorkerNumbers == [min |-> 1, max |-> 2, sized |-> FALSE]

CONSTANTS a, b

Destinations ==
    {[name |-> a, good |-> TRUE, af |-> "ipv4"],
     [name |-> b, good |-> TRUE, af |-> "ipv6"],
     [name |-> a, good |-> FALSE, af |-> "ipv4"]}

AllLimits == {Sizes, WorkerNumbers}
=============================================================================
