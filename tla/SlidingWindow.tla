---------------------------- MODULE SlidingWindow ---------------------------
(***************************************************************************)
(* What an ordered reliable stream promises: packets are numbered          *)
(* 1, 2, 3, ... by the sender and come out in that order.  The sender      *)
(* holds at most Window packets, lets one go silently only after it came   *)
(* out, and nothing comes out past a packet whose first transmission was   *)
(* refused.                                                                *)
(***************************************************************************)
EXTENDS Integers, Sequences, FiniteSets

CONSTANT Window

VARIABLES
    numbered,   \* how many packets were given a number
    held,       \* numbered packets the sender still answers for
    refused,    \* packets that never reached the link
    dropped,    \* packets the sender stopped retransmitting
    output      \* what came out, in order

vars == <<numbered, held, refused, dropped, output>>

Init ==
    /\ numbered = 0
    /\ held = {}
    /\ refused = {}
    /\ dropped = {}
    /\ output = << >>

Accept ==
    /\ Cardinality(held) < Window
    /\ numbered' = numbered + 1
    /\ held' = held \cup {numbered + 1}
    /\ UNCHANGED <<refused, dropped, output>>

Refuse ==
    /\ numbered' = numbered + 1
    /\ refused' = refused \cup {numbered + 1}
    /\ UNCHANGED <<held, dropped, output>>

(* k packets come out in one step: an early packet waits for the gap. *)
Deliver(k) ==
    /\ Len(output) + k <= numbered
    /\ \A i \in 1 .. k : Len(output) + i \notin refused
    /\ output' = output \o [i \in 1 .. k |-> Len(output) + i]
    /\ UNCHANGED <<numbered, held, refused, dropped>>

Settle(S) ==
    /\ \A p \in S : p \in 1 .. Len(output)
    /\ held' = held \ S
    /\ UNCHANGED <<numbered, refused, dropped, output>>

GiveUp(S) ==
    /\ held' = held \ S
    /\ dropped' = dropped \cup S
    /\ UNCHANGED <<numbered, refused, output>>

Next ==
    \/ Accept \/ Refuse
    \/ \E k \in 1 .. numbered - Len(output) : Deliver(k)
    \/ \E S \in SUBSET held : Settle(S) \/ GiveUp(S)

Spec == Init /\ [][Next]_vars

=============================================================================
