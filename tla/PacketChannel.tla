--------------------------- MODULE PacketChannel ---------------------------
(***************************************************************************)
(* What the receive path promises Storm of each peer's packets: they come  *)
(* in the order in which they were received from the network, none comes   *)
(* twice, and any of them may not come at all.                             *)
(***************************************************************************)
EXTENDS Naturals, Sequences

CONSTANT Peers

VARIABLES
    received,   \* of each peer, how many packets have come from the network
    handed      \* of each peer, the numbers of those given to Storm, in order

vars == <<received, handed>>

Init ==
    /\ received = [p \in Peers |-> 0]
    /\ handed = [p \in Peers |-> <<>>]

Receive(p) ==
    /\ received' = [received EXCEPT ![p] = @ + 1]
    /\ UNCHANGED handed

\* Storm is given a packet that is newer than all it was given before.
Hand(p) ==
    /\ \E n \in 1..received[p] :
         /\ \A i \in 1..Len(handed[p]) : handed[p][i] < n
         /\ handed' = [handed EXCEPT ![p] = Append(@, n)]
    /\ UNCHANGED received

Next == \E p \in Peers : Receive(p) \/ Hand(p)

Spec == Init /\ [][Next]_vars

=============================================================================
