-------------------------- MODULE MCLobbySession --------------------------
(* One client and its successive connections. *)
EXTENDS LobbySession, TLC

CONSTANTS c1, c2, c3, u1, u2, u3

MCUuid2 == c1 :> u1 @@ c2 :> u2
MCUuid3 == c1 :> u1 @@ c2 :> u2 @@ c3 :> u3

=============================================================================
