----------------------------- MODULE CommandLine -----------------------------
(***************************************************************************)
(* main() before the distributor runs: the pass over the arguments, the    *)
(* check of the destinations, which have had to wait for the interfaces,   *)
(* and the pass that parses the destinations again to add them.            *)
(*                                                                         *)
(* The arguments are chosen as they are read.  The text of a destination   *)
(* is read twice and kept: the name of its interface, whether the rest     *)
(* (MAC address, address, port) is good, and the family of the address.    *)
(* What a name stands for is the system's to change at any time.           *)
(***************************************************************************)
EXTENDS Arguments, Numbers, PortList

CONSTANTS
    Names,          \* the names of interfaces
    Texts,          \* the destinations: [name, good, af]
    MaxIndex,       \* bound: the interface indices of the system
    MaxInterfaces,  \* max_interfaces
    MaxOptions,     \* bound: how many options the arguments have
    MaxCharacters,  \* bound: the characters of their numbers and ports
    MaxChanges,     \* bound: how often the system's interfaces change
    SizeLimits,     \* the limits of a ring size
    WorkerLimits    \* the limits of the number of workers

ASSUME CommandLineAssumption ==
    /\ {MaxIndex, MaxInterfaces, MaxOptions, MaxCharacters, MaxChanges}
           \subseteq Nat
    /\ Texts \subseteq [name : Names, good : BOOLEAN, af : Families]
    /\ {SizeLimits, WorkerLimits} \subseteq Limits
    /\ SizeLimits.sized /\ ~WorkerLimits.sized
    /\ WorkerLimits.min = 1 /\ WorkerLimits.max = MaxWorkers

VARIABLES
    at,          \* where main() is
    reception,   \* reception.ifindex
    slot,        \* the index that parse_interface() has written, not yet counted
    interfaces,  \* the indices of the first ninterfaces interfaces
    type,
    nworkers,
    dests,       \* the texts of the --dest arguments: [name, good, af]
    k,           \* the destination that is being checked or added
    handed,      \* history: what the check has found the destinations to be
    added,       \* history: the destinations added: [interface, parsed]
    index,       \* the system's interfaces: the index of each name, 0 if none
    options,     \* how many options the arguments have had
    characters,  \* how many characters their numbers and ports have had
    changes      \* how often the system's interfaces have changed

parsed == <<reception, slot, interfaces, type, nworkers, dests>>
later == <<k, handed, added>>
system == <<index, changes>>
bounds == <<options, characters>>
parsers == <<numberVars, portVars>>
vars == <<at, parsed, later, system, bounds, parsers>>

\* No two names have the same index.
Tables == {t \in [Names -> 0 .. MaxIndex] :
               \A m, n \in Names : m # n /\ t[m] = t[n] => t[m] = 0}

Init ==
    /\ at = "argument"
    /\ reception = 0
    /\ slot = 0
    /\ interfaces = <<>>
    /\ type = "load_balancer"
    /\ nworkers = 1
    /\ dests = <<>>
    /\ k = 1
    /\ handed = <<>>
    /\ added = <<>>
    /\ index \in Tables
    /\ options = 0
    /\ characters = 0
    /\ changes = 0
    /\ NumberInit
    /\ PortInit

OneCharacter ==
    /\ characters < MaxCharacters
    /\ characters' = characters + 1
    /\ UNCHANGED options

-----------------------------------------------------------------------------
(* The pass over the arguments.                                            *)

Option ==
    /\ at = "argument"
    /\ options < MaxOptions
    /\ options' = options + 1
    /\ UNCHANGED <<characters, later, system>>

\* parse_reception(): the size is optional.
Rx(name, sized) ==
    /\ Option
    /\ reception' = index[name]
    /\ IF index[name] > 0 /\ sized
       THEN at' = "rx_size" /\ BeginNumber(SizeLimits)
       ELSE /\ at' = IF index[name] > 0 THEN "argument" ELSE "failed"
            /\ UNCHANGED numberVars
    /\ UNCHANGED <<slot, interfaces, type, nworkers, dests, portVars>>

\* parse_interface(); good: the MAC address and the addresses.
Tx(name, good, sized) ==
    /\ Option
    /\ IF Len(interfaces) < MaxInterfaces
       THEN /\ slot' = index[name]
            /\ IF index[name] > 0 /\ good /\ sized
               THEN /\ at' = "tx_size"
                    /\ BeginNumber(SizeLimits)
                    /\ UNCHANGED interfaces
               ELSE /\ IF index[name] > 0 /\ good
                       THEN /\ at' = "argument"
                            /\ interfaces' = Append(interfaces, index[name])
                       ELSE at' = "failed" /\ UNCHANGED interfaces
                    /\ UNCHANGED numberVars
       ELSE at' = "failed" /\ UNCHANGED <<slot, interfaces, numberVars>>
    /\ UNCHANGED <<reception, type, nworkers, dests, portVars>>

\* The destinations are processed later.
Dest(dest) ==
    /\ Option
    /\ dests' = Append(dests, dest)
    /\ UNCHANGED <<at, reception, slot, interfaces, type, nworkers, parsers>>

Type(t) ==
    /\ Option
    /\ type' = t
    /\ UNCHANGED <<at, reception, slot, interfaces, nworkers, dests, parsers>>

Ports ==
    /\ Option
    /\ at' = "ports"
    /\ BeginPorts
    /\ UNCHANGED <<parsed, numberVars>>

NumberWorkers ==
    /\ Option
    /\ at' = "workers"
    /\ BeginNumber(WorkerLimits)
    /\ UNCHANGED <<parsed, portVars>>

\* An unknown option, one without its value, or an unknown type.
BadOption ==
    /\ Option
    /\ at' = "failed"
    /\ UNCHANGED <<parsed, parsers>>

\* A step of parse_size() or parse_number().
NumberCharacter ==
    /\ NumberStep
    /\ IF exact' = exact /\ res' = res /\ some' = some
       THEN UNCHANGED bounds
       ELSE OneCharacter
    /\ UNCHANGED <<at, parsed, later, system, portVars>>

PortListStep ==
    /\ \/ OneCharacter /\ \E c \in Characters : PortCharacter(c)
       \/ UNCHANGED bounds /\ EndOfPorts
    /\ UNCHANGED <<at, parsed, later, system, numberVars>>

\* Mutant: an interface counts before its ring size is known to be good.
TakeNumberAnyway ==
    /\ EndNumber
    /\ at' = "argument"
    /\ interfaces' = IF at = "tx_size" THEN Append(interfaces, slot)
                                       ELSE interfaces
    /\ nworkers' = IF at = "workers" THEN res ELSE nworkers
    /\ UNCHANGED <<reception, slot, type, dests, later, system, bounds, portVars>>

\* The caller of parse_size() or parse_number() gets its result.
TakeNumber ==
    /\ EndNumber
    /\ at' = IF scan = "accepted" THEN "argument" ELSE "failed"
    /\ interfaces' = IF scan = "accepted" /\ at = "tx_size"
                     THEN Append(interfaces, slot)
                     ELSE interfaces
    /\ nworkers' = IF scan = "accepted" /\ at = "workers" THEN res
                                                          ELSE nworkers
    /\ UNCHANGED <<reception, slot, type, dests, later, system, bounds, portVars>>

TakePorts ==
    /\ EndPorts
    /\ at' = IF read = "accepted" THEN "argument" ELSE "failed"
    /\ UNCHANGED <<parsed, later, system, bounds, numberVars>>

\* The arguments are complete if there is what is needed, and if the filter
\* compiles.
EndOfArguments ==
    /\ at = "argument"
    /\ \/ at' = "failed"
       \/ reception > 0 /\ interfaces # <<>> /\ dests # <<>> /\ at' = "check"
    /\ UNCHANGED <<parsed, later, system, bounds, parsers>>

-----------------------------------------------------------------------------
(* The passes over the destinations.                                       *)

Dst(d) == [interface |-> index[d.name], af |-> d.af]

Listed(ifindex) == ifindex \in ToSet(interfaces)

\* Mutant: the interface need only exist.
DestinationOfAny(d) == index[d.name] > 0 /\ d.good

\* parse_destination(): the name, the search in the list, the rest.
Destination(d) == index[d.name] > 0 /\ Listed(index[d.name]) /\ d.good

NextDestination(then) ==
    IF k < Len(dests) THEN k' = k + 1 /\ UNCHANGED at
                      ELSE k' = 1 /\ at' = then

Check ==
    /\ at = "check"
    /\ IF Destination(dests[k])
       THEN handed' = Append(handed, Dst(dests[k])) /\ NextDestination("create")
       ELSE at' = "failed" /\ UNCHANGED <<k, handed>>
    /\ UNCHANGED <<parsed, added, system, bounds, parsers>>

\* create() and the calls of add_interface(): the distributor's own module.
Create ==
    /\ at = "create"
    /\ at' \in {"add", "failed"}
    /\ UNCHANGED <<parsed, later, system, bounds, parsers>>

\* Mutant: add_destination() takes any interface.
KnownAny(ifindex) == TRUE

\* add_destination(): the distributor refuses the index 0, and the workers an
\* interface that has not been added.
Known(ifindex) == ifindex > 0 /\ Listed(ifindex)

\* Parses the destination again, without looking at the result: where the
\* parsing stops, dest keeps the index that the name has now, 0 if none, and
\* for the rest what was there before.
Add ==
    /\ at = "add"
    /\ LET d == dests[k]
       IN  IF Known(index[d.name])
           THEN /\ added' = Append(added, [interface |-> index[d.name],
                                           parsed |-> Destination(d)])
                /\ NextDestination("start")
           ELSE at' = "failed" /\ UNCHANGED <<k, added>>
    /\ UNCHANGED <<parsed, handed, system, bounds, parsers>>

\* The system's: an interface goes, comes, or is renamed.
Change ==
    /\ changes < MaxChanges
    /\ changes' = changes + 1
    /\ index' \in Tables \ {index}
    /\ UNCHANGED <<at, parsed, later, bounds, parsers>>

Next ==
    \/ \E name \in Names, sized \in BOOLEAN : Rx(name, sized)
    \/ \E name \in Names, good, sized \in BOOLEAN : Tx(name, good, sized)
    \/ \E dest \in Texts : Dest(dest)
    \/ \E t \in Types : Type(t)
    \/ Ports
    \/ NumberWorkers
    \/ BadOption
    \/ NumberCharacter
    \/ PortListStep
    \/ TakeNumber
    \/ TakePorts
    \/ EndOfArguments
    \/ Check
    \/ Create
    \/ Add
    \/ Change

Spec == Init /\ [][Next]_vars

-----------------------------------------------------------------------------

TypeOK ==
    /\ at \in {"argument", "rx_size", "tx_size", "ports", "workers", "check",
               "create", "add", "start", "failed"}
    /\ {reception, slot} \subseteq 0 .. MaxIndex
    /\ interfaces \in Seq(1 .. MaxIndex)
    /\ Len(interfaces) <= MaxInterfaces
    /\ type \in Types
    /\ nworkers \in 1 .. MaxWorkers
    /\ dests \in Seq(Texts)
    /\ k \in 1 .. Len(dests) + 1
    /\ handed \in Seq([interface : 1 .. MaxIndex, af : Families])
    /\ added \in Seq([interface : 1 .. MaxIndex, parsed : BOOLEAN])
    /\ index \in Tables
    /\ options \in 0 .. MaxOptions
    /\ characters \in 0 .. MaxCharacters
    /\ changes \in 0 .. MaxChanges
    /\ read # "idle" => at = "ports"
    /\ scan # "idle" => at \in {"rx_size", "tx_size", "workers"}

\* Nothing but a checked command line reaches the distributor, however the
\* arguments are ordered and whatever becomes of the interfaces meanwhile:
\* the premise of UdpDistributor, whose Args are Checked.
HandsOver ==
    at \in {"create", "add", "start"} =>
        Checked([type |-> type, nworkers |-> nworkers,
                 interfaces |-> interfaces, dests |-> handed])

\* The destinations are parsed a second time and the result is ignored, so
\* that dest may hold rubbish when the name of the interface means something
\* else than in the check.  No such destination is added: the parser and
\* add_destination() look for the same interfaces.
AddsOnlyParsed == \A n \in DOMAIN added : added[n].parsed
=============================================================================
