------------------------------ MODULE TxQueue ------------------------------
(***************************************************************************)
(* What a TX ring promises its worker, without frames, indexes or polls:   *)
(* a bounded FIFO.  The packets of a call are accepted in order, each at   *)
(* most once; what was accepted leaves in order, sent or discarded, never  *)
(* twice; and a call that answers TRUE leaves nothing behind it unsent.    *)
(***************************************************************************)
EXTENDS Naturals, Sequences

CONSTANTS
    Capacity,   \* packets that may be accepted and not yet released
    Packets,    \* the packets
    Batches     \* the sequences of packets that one call may carry

VARIABLES
    queue,      \* accepted packets that the kernel has not taken
    inflight,   \* packets the kernel has taken and not released
    todo,       \* packets of the current call that are not yet accepted
    busy,       \* a call is in progress
    result      \* what the last call answered

vars == <<queue, inflight, todo, busy, result>>

Init ==
    /\ queue = <<>>
    /\ inflight = 0
    /\ todo = <<>>
    /\ busy = FALSE
    /\ result = TRUE

Begin(batch) ==
    /\ ~busy
    /\ busy' = TRUE
    /\ todo' = batch
    /\ UNCHANGED <<queue, inflight, result>>

Accept ==
    /\ busy
    /\ todo # <<>>
    /\ Len(queue) + inflight < Capacity
    /\ queue' = Append(queue, Head(todo))
    /\ todo' = Tail(todo)
    /\ UNCHANGED <<inflight, busy, result>>

Transmit ==
    /\ busy
    /\ queue # <<>>
    /\ queue' = Tail(queue)
    /\ inflight' = inflight + 1
    /\ UNCHANGED <<todo, busy, result>>

\* A packet the device cannot send is dropped; the packets behind it are not.
Discard ==
    /\ busy
    /\ queue # <<>>
    /\ queue' = Tail(queue)
    /\ UNCHANGED <<inflight, todo, busy, result>>

Complete ==
    /\ inflight > 0
    /\ inflight' = inflight - 1
    /\ UNCHANGED <<queue, todo, busy, result>>

\* A refused call forgets the packets it had not accepted.  The ones it had
\* accepted stay in the queue: FALSE does not say that nothing was taken.
Return(ok) ==
    /\ busy
    /\ ok => todo = <<>> /\ queue = <<>>
    /\ busy' = FALSE
    /\ todo' = <<>>
    /\ result' = ok
    /\ UNCHANGED <<queue, inflight>>

Next ==
    \/ \E batch \in Batches : Begin(batch)
    \/ Accept
    \/ Transmit
    \/ Discard
    \/ Complete
    \/ \E ok \in BOOLEAN : Return(ok)

Spec == Init /\ [][Next]_vars
=============================================================================
