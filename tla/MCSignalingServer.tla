------------------------ MODULE MCSignalingServer ------------------------
(* Successive connections c1, c2, c3 of client k1, and c4 of client k2. *)
EXTENDS SignalingServer, TLC

CONSTANTS c1, c2, c3, c4, k1, k2, u1, u2, u3, u4

MCOwner == c1 :> k1 @@ c2 :> k1 @@ c3 :> k1 @@ c4 :> k2
MCUuid == c1 :> u1 @@ c2 :> u2 @@ c3 :> u3 @@ c4 :> u4

\* The connections of k1 are interchangeable, each together with its uuid.
Carried(p, u) == MCUuid[p[CHOOSE c \in DOMAIN p : MCUuid[c] = u]]
MCSymmetry ==
    {p @@ [u \in {u1, u2, u3} |-> Carried(p, u)] : p \in Permutations({c1, c2, c3})}

=============================================================================
