------------------------------ MODULE PortList ------------------------------
(***************************************************************************)
(* parse_port_list(): the automaton that reads the ports of the filter,    *)
(* "5000-5010,6000", and calls socket_filter::port_range() for each item   *)
(* when it sees the first digit of the next one, or the end of the text.   *)
(*                                                                         *)
(* A character is a number: a digit is its value, and there are the comma, *)
(* the dash and one that is none of these.                                 *)
(***************************************************************************)
EXTENDS Integers, Sequences, FiniteSets

CONSTANTS
    PortBase,  \* 10
    MaxPort    \* the last port

\* A single digit is no port too great.
ASSUME PortsAssumption ==
    /\ PortBase \in Nat \ {0, 1}
    /\ MaxPort \in Nat
    /\ PortBase <= MaxPort + 1

VARIABLES
    read,   \* where the parser is: idle, reading, accepted or rejected
    state,  \* the state of the automaton
    from,   \* the first port of the item
    to,     \* ... and the last
    text,   \* history: the characters read
    over,   \* history: they are the whole text
    calls   \* history: the calls of port_range() and what they returned

portVars == <<read, state, from, to, text, over, calls>>

Comma == PortBase
Dash == PortBase + 1
Other == PortBase + 2

Digits == 0 .. PortBase - 1
Characters == Digits \cup {Comma, Dash, Other}

PortInit ==
    /\ read = "idle"
    /\ state = 0
    /\ from = 0
    /\ to = 0
    /\ text = <<>>
    /\ over = FALSE
    /\ calls = <<>>

BeginPorts ==
    /\ read = "idle"
    /\ read' = "reading"
    /\ UNCHANGED <<state, from, to, text, over, calls>>

\* The result is main()'s, the parser's variables are gone.
EndPorts ==
    /\ read \in {"accepted", "rejected"}
    /\ read' = "idle"
    /\ state' = 0
    /\ from' = 0
    /\ to' = 0
    /\ text' = <<>>
    /\ over' = FALSE
    /\ calls' = <<>>

\* port_range() refuses the port 0 and a range that ends before it begins,
\* and may refuse any other when the filter is full.
PortRange(a, b, ok) ==
    /\ ok => a > 0 /\ a <= b
    /\ calls' = Append(calls, [from |-> a, to |-> b, ok |-> ok])

RejectPorts ==
    /\ read' = "rejected"
    /\ UNCHANGED <<state, from, to>>

Go(s) ==
    /\ state' = s
    /\ UNCHANGED read

\* A digit where a port begins: state 0, and state 2 for the second port.
FirstDigit(c) ==
    /\ c \in Digits
    /\ \/ state = 0 /\ from' = c /\ Go(1) /\ UNCHANGED to
       \/ state = 2 /\ to' = c /\ Go(3) /\ UNCHANGED from
    /\ UNCHANGED calls

NextDigit(c) ==
    /\ c \in Digits
    /\ state \in {1, 3}
    /\ LET port == (IF state = 1 THEN from ELSE to) * PortBase + c
       IN  IF port > MaxPort
           THEN RejectPorts
           ELSE /\ from' = IF state = 1 THEN port ELSE from
                /\ to' = IF state = 3 THEN port ELSE to
                /\ Go(state)
    /\ UNCHANGED calls

Separator(c) ==
    /\ \/ state = 1 /\ c = Comma /\ Go(4) /\ to' = from
       \/ state = 3 /\ c = Comma /\ Go(4) /\ UNCHANGED to
       \/ state = 1 /\ c = Dash /\ Go(2) /\ UNCHANGED to
    /\ UNCHANGED <<from, calls>>

\* The first digit after a comma: only now is the item before it added.
NextItem(c) ==
    /\ state = 4
    /\ c \in Digits
    /\ \E ok \in BOOLEAN :
           /\ PortRange(from, to, ok)
           /\ IF ok
              THEN from' = c /\ Go(1) /\ UNCHANGED to
              ELSE RejectPorts

BadCharacter(c) ==
    /\ \/ state \in {0, 2, 4} /\ c \notin Digits
       \/ state = 1 /\ c = Other
       \/ state = 3 /\ c \in {Dash, Other}
    /\ RejectPorts
    /\ UNCHANGED calls

PortCharacter(c) ==
    /\ read = "reading"
    /\ text' = Append(text, c)
    /\ \/ FirstDigit(c)
       \/ NextDigit(c)
       \/ Separator(c)
       \/ NextItem(c)
       \/ BadCharacter(c)
    /\ UNCHANGED over

\* Mutant: a comma may end the list, and takes the last item with it.
EndAfterComma ==
    /\ read = "reading"
    /\ over' = TRUE
    /\ IF state \in {1, 3}
       THEN \E ok \in BOOLEAN :
                /\ PortRange(from, IF state = 1 THEN from ELSE to, ok)
                /\ read' = IF ok THEN "accepted" ELSE "rejected"
       ELSE /\ read' = IF state = 4 THEN "accepted" ELSE "rejected"
            /\ UNCHANGED calls
    /\ UNCHANGED <<state, from, to, text>>

\* The last item is added; port(from) is port_range(from, from).
EndOfPorts ==
    /\ read = "reading"
    /\ over' = TRUE
    /\ IF state \in {1, 3}
       THEN \E ok \in BOOLEAN :
                /\ PortRange(from, IF state = 1 THEN from ELSE to, ok)
                /\ read' = IF ok THEN "accepted" ELSE "rejected"
       ELSE read' = "rejected" /\ UNCHANGED calls
    /\ UNCHANGED <<state, from, to, text>>

PortNext ==
    \/ BeginPorts
    \/ \E c \in Characters : PortCharacter(c)
    \/ EndOfPorts
    \/ EndPorts

-----------------------------------------------------------------------------
(* What a list of ports is: items between commas, each a port or two ports *)
(* with a dash between them.                                               *)

Has(s, n, c) == n \in 1 .. Len(s) /\ s[n] = c

\* Where a piece of s begins or ends: outside s, at a comma or at a dash.
Mark(s, n) == n \in 1 .. Len(s) => s[n] \in {Comma, Dash}

\* The characters of s between i and j are what stands between two marks.
Piece(s, i, j) ==
    /\ i < j
    /\ Mark(s, i) /\ Mark(s, j)
    /\ \A n \in i + 1 .. j - 1 : ~Mark(s, n)

\* The number that the digits of s between i and j write.
Value(s, i, j) ==
    LET upTo[n \in 0 .. j - i - 1] ==
            IF n = 0 THEN 0 ELSE upTo[n - 1] * PortBase + s[i + n]
    IN  upTo[j - i - 1]

IsPort(s, i, j) ==
    /\ i + 1 < j
    /\ \A n \in i + 1 .. j - 1 : s[n] \in Digits
    /\ Value(s, i, j) <= MaxPort

IsList(s) ==
    \A i \in 0 .. Len(s), j \in 1 .. Len(s) + 1 :
        Piece(s, i, j) =>
            IsPort(s, i, j) /\ ~(Has(s, i, Dash) /\ Has(s, j, Dash))

\* How many commas there are up to n.
Commas(s, n) == Cardinality({m \in 1 .. n : s[m] = Comma})

\* The number of the item that what follows n belongs to.
Item(s, n) == Commas(s, n) + 1

\* The range of each item of s, in their order: what follows its comma, or
\* the beginning, is its first port, and what precedes the next comma, or the
\* end, is its last.
Added(s, ranges) ==
    /\ Len(ranges) = Item(s, Len(s))
    /\ \A i \in 0 .. Len(s), j \in 1 .. Len(s) + 1 :
           Piece(s, i, j) =>
               /\ ranges[Item(s, i)].ok
               /\ ~Has(s, i, Dash) => ranges[Item(s, i)].from = Value(s, i, j)
               /\ ~Has(s, j, Dash) => ranges[Item(s, i)].to = Value(s, i, j)

\* A list is accepted only if all of its items, and nothing else, have been
\* added to the filter, in their order.  It is rejected only if the filter
\* has refused an item, if the text is no list or if it cannot become one,
\* whatever follows.
PortsExact ==
    /\ read = "accepted" => IsList(text) /\ Added(text, calls)
    /\ read = "rejected" =>
           \/ \E n \in DOMAIN calls : ~calls[n].ok
           \/ ~IsList(text) /\ (over \/ ~IsList(Append(text, 1)))
=============================================================================
