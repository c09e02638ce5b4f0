----------------------------- MODULE TicketFifo -----------------------------
(***************************************************************************)
(* What a queue of base/ring.h promises its users.  Producers append to a  *)
(* single sequence; consumers draw numbered tickets, possibly before there *)
(* is anything to take; the holder of ticket k is handed the k-th value    *)
(* produced, once.                                                         *)
(***************************************************************************)
EXTENDS Integers, Sequences

CONSTANT Values

VARIABLES
    produced,       \* values in the order of their production
    tickets,        \* number of tickets drawn so far
    delivered       \* pairs <<ticket, value>> handed to consumers

vars == <<produced, tickets, delivered>>

Init == produced = <<>> /\ tickets = 0 /\ delivered = {}

Append1(v) ==
    /\ produced' = Append(produced, v)
    /\ UNCHANGED <<tickets, delivered>>

Draw ==
    /\ tickets' = tickets + 1
    /\ UNCHANGED <<produced, delivered>>

Deliver(k) ==
    /\ k < tickets /\ k < Len(produced)
    /\ \A d \in delivered : d[1] # k
    /\ delivered' = delivered \cup {<<k, produced[k + 1]>>}
    /\ UNCHANGED <<produced, tickets>>

Next ==
    \/ \E v \in Values : Append1(v)
    \/ Draw
    \/ \E k \in 0 .. tickets - 1 : Deliver(k)

Spec == Init /\ [][Next]_vars

=============================================================================
