---------------------------- MODULE MCGameList ----------------------------
(* Two hosts, whose lobbies are of our version and of either CrownLink mode; *)
(* a tick count that wraps within a few ticks.                               *)
EXTENDS GameList, TLC

CONSTANTS h1, h2

MCAds == {[version_id |-> 1, crownlink_mode |-> "CLNK"],
          [version_id |-> 1, crownlink_mode |-> "DBCL"]}
MCOneAd == {[version_id |-> 1, crownlink_mode |-> "CLNK"]}

=============================================================================
