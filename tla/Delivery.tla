------------------------------- MODULE Delivery -------------------------------
(***************************************************************************)
(* What publishers of outbound messages may rely on, whatever happens to   *)
(* the channels: messages are settled one at a time in the order they were *)
(* published, each of them once.  A message for a channel nobody           *)
(* registered is dropped; any other is handed to its channel, which        *)
(* delivers it, fails, or refuses it because it is not running.            *)
(***************************************************************************)
EXTENDS Naturals, Sequences

CONSTANT Destinations

VARIABLES
    registered,   \* the channels of the configuration
    pending,      \* messages published and not settled, oldest first
    settled       \* messages with what became of them, in order

vars == <<registered, pending, settled>>

Fates == {"delivered", "failed", "refused", "unrouted"}

Init ==
    /\ registered \subseteq Destinations
    /\ pending = <<>>
    /\ settled = <<>>

Publish(d) ==
    /\ pending' = Append(pending, [id |-> Len(settled) + Len(pending) + 1, to |-> d])
    /\ UNCHANGED <<registered, settled>>

Settle(fate) ==
    /\ pending # <<>>
    /\ (fate = "unrouted") <=> (Head(pending).to \notin registered)
    /\ settled' = Append(settled, [msg |-> Head(pending), fate |-> fate])
    /\ pending' = Tail(pending)
    /\ UNCHANGED registered

Next == (\E d \in Destinations : Publish(d)) \/ (\E f \in Fates : Settle(f))

Spec == Init /\ [][Next]_vars

=============================================================================
