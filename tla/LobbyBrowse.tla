---------------------------- MODULE LobbyBrowse ----------------------------
(***************************************************************************)
(* How lobbies get from their hosts to a player who browses.  About once a *)
(* second Storm asks the browser's CrownLink for the game list.  That      *)
(* drops what it has not heard of for 2 s, asks the server who advertises, *)
(* and solicits an ad from everybody it was last told of.  The server relays*)
(* the solicitations to the hosts, whose signaling threads answer with     *)
(* m_ad_data, and relays the answers back.                                 *)
(*                                                                         *)
(* A host's game thread writes m_ad_data, and the signaling thread reads   *)
(* it, without a common lock: a copy is two steps, one for each half.      *)
(* A host's process may end at any time, and a client loses the packets    *)
(* that recv cuts.  Reconnects are in LobbySession, indices and the walk   *)
(* of the list in GameList.                                                *)
(***************************************************************************)
EXTENDS Naturals, SequencesExt

CONSTANTS
    Browser,     \* the player who browses
    Hosts,       \* the players who may host, and whose lobbies are followed
    Others,      \* players who advertise throughout, or not at all
    None,        \* no entry, no answer begun
    MaxLobbies,  \* bound: lobbies a host creates, one after the other
    MaxBrowsing  \* bound: packets the browser's connection carries when it asks again

ASSUME BrowseAssumption ==
    /\ Browser \notin Hosts \cup Others /\ Hosts \cap Others = {}
    /\ IsFiniteSet(Hosts)
    /\ None \notin Nat \cup [ad : Nat \X Nat, recent : BOOLEAN]
    /\ {MaxLobbies, MaxBrowsing} \subseteq Nat

VARIABLES
    registered,           \* players in the server's CONNECTIONS
    advertising,          \* players whose connection has advertising set
    toServer, toClient,   \* packets under way on each player's connection
    alive,                \* hosts whose process runs
    m_is_advertising, m_ad_data,   \* of each host
    game,                 \* where a host's game thread is
    answer,               \* of each host, the half of its ad it has copied
    m_known_advertisers, listed,   \* of the browser: known hosts, their entries
    storm                 \* where the browser's game thread is

serverVars == <<registered, advertising>>
hostVars == <<alive, m_is_advertising, m_ad_data, game, answer>>
browserVars == <<m_known_advertisers, listed, storm>>
vars == <<serverVars, toServer, toClient, hostVars, browserVars>>

Players == Hosts \cup {Browser}   \* whose connections are followed

\* A lobby is a number, an AdFile the lobby each of its halves is of.
Ads == (0..MaxLobbies) \X (0..MaxLobbies)
Lobby(h) == m_ad_data[h][1]

Request == [type |-> "RequestAdvertisers"]
Solicit(peer) == [type |-> "SolicitAds", peer |-> peer]
GameAd(peer, ad) == [type |-> "GameAd", peer |-> peer, ad |-> ad]
ServerPackets == [type : {"StartAdvertising", "StopAdvertising", "RequestAdvertisers"}]
PeerPackets ==
    [type : {"SolicitAds"}, peer : Players] \cup [type : {"GameAd"}, peer : Players, ad : Ads]
Advertisers == [type : {"RequestAdvertisers"}, ids : SUBSET (Hosts \cup Others)]

Init ==
    /\ registered = Hosts \cup Others \cup {Browser}
    /\ advertising \in SUBSET Others
    /\ toServer = [p \in Players |-> <<>>] /\ toClient = [p \in Players |-> <<>>]
    /\ alive = Hosts
    /\ m_is_advertising = [h \in Hosts |-> FALSE]
    /\ m_ad_data = [h \in Hosts |-> <<0, 0>>]
    /\ game = [h \in Hosts |-> "idle"]
    /\ answer = [h \in Hosts |-> None]
    /\ m_known_advertisers = {}
    /\ listed = [h \in Hosts |-> None]
    /\ storm = "idle"

UnderWay == MapThenSumSet(LAMBDA p : Len(toServer[p]) + Len(toClient[p]), Players)
Send(p, packets) == toServer' = [toServer EXCEPT ![p] = @ \o packets]

-----------------------------------------------------------------------------
(* A host's game thread: spi_start_advertising_ladder_game and                *)
(* spi_stop_advertising_game.  Storm starts again whenever the lobby changes. *)

\* start_advertising: the first half of m_ad_data = ad_data.
CreateLobby(h) ==
    /\ h \in alive /\ game[h] = "idle" /\ Lobby(h) < MaxLobbies
    /\ m_ad_data' = [m_ad_data EXCEPT ![h][1] = @ + 1]
    /\ game' = [game EXCEPT ![h] = "copying"]
    /\ UNCHANGED <<serverVars, toServer, toClient, alive, m_is_advertising, answer, browserVars>>

\* The other half, and m_is_advertising.
SetAdvertising(h) ==
    /\ h \in alive /\ game[h] = "copying"
    /\ m_ad_data' = [m_ad_data EXCEPT ![h][2] = Lobby(h)]
    /\ m_is_advertising' = [m_is_advertising EXCEPT ![h] = TRUE]
    /\ game' = [game EXCEPT ![h] = "start"]
    /\ UNCHANGED <<serverVars, toServer, toClient, alive, answer, browserVars>>

\* stop_advertising, up to its packet.
ClearAdvertising(h) ==
    /\ h \in alive /\ game[h] = "idle" /\ m_is_advertising[h]
    /\ m_is_advertising' = [m_is_advertising EXCEPT ![h] = FALSE]
    /\ game' = [game EXCEPT ![h] = "stop"]
    /\ UNCHANGED <<serverVars, toServer, toClient, alive, m_ad_data, answer, browserVars>>

SendGame(h) ==
    /\ h \in alive /\ game[h] \in {"start", "stop"}
    /\ Send(h, <<[type |-> IF game[h] = "start" THEN "StartAdvertising" ELSE "StopAdvertising"]>>)
    /\ game' = [game EXCEPT ![h] = "idle"]
    /\ UNCHANGED <<serverVars, toClient, alive, m_is_advertising, m_ad_data, answer, browserVars>>

-----------------------------------------------------------------------------
(* A host's signaling thread: the SolicitAds case of handle_signal_packets.  *)

\* Variant: every solicitation is answered.
SolicitedAlways(h) ==
    /\ h \in alive /\ answer[h] = None /\ toClient[h] # <<>>
    /\ toClient' = [toClient EXCEPT ![h] = Tail(@)]
    /\ answer' = [answer EXCEPT ![h] = m_ad_data[h][1]]
    /\ UNCHANGED <<serverVars, toServer, alive, m_is_advertising, m_ad_data, game, browserVars>>

\* A solicitation is taken up and, if there is a lobby, half of it copied.
Solicited(h) ==
    /\ h \in alive /\ answer[h] = None /\ toClient[h] # <<>>
    /\ toClient' = [toClient EXCEPT ![h] = Tail(@)]
    /\ IF m_is_advertising[h]
       THEN answer' = [answer EXCEPT ![h] = m_ad_data[h][1]]
       ELSE UNCHANGED answer
    /\ UNCHANGED <<serverVars, toServer, alive, m_is_advertising, m_ad_data, game, browserVars>>

\* Variant: only the first half is sent.
SendAdCut(h) ==
    /\ h \in alive /\ answer[h] # None
    /\ Send(h, <<GameAd(Browser, <<answer[h]>>)>>)
    /\ answer' = [answer EXCEPT ![h] = None]
    /\ UNCHANGED <<serverVars, toClient, alive, m_is_advertising, m_ad_data, game, browserVars>>

\* The other half is copied and the ad sent.
SendAd(h) ==
    /\ h \in alive /\ answer[h] # None
    /\ Send(h, <<GameAd(Browser, <<answer[h], m_ad_data[h][2]>>)>>)
    /\ answer' = [answer EXCEPT ![h] = None]
    /\ UNCHANGED <<serverVars, toClient, alive, m_is_advertising, m_ad_data, game, browserVars>>

\* The process ends, and its socket is closed; what it wrote may still arrive.
Crash(h) ==
    /\ h \in alive
    /\ alive' = alive \ {h}
    /\ toClient' = [toClient EXCEPT ![h] = <<>>]
    /\ m_is_advertising' = [m_is_advertising EXCEPT ![h] = FALSE]
    /\ m_ad_data' = [m_ad_data EXCEPT ![h] = <<0, 0>>]
    /\ game' = [game EXCEPT ![h] = "idle"]
    /\ answer' = [answer EXCEPT ![h] = None]
    /\ UNCHANGED <<serverVars, toServer, browserVars>>

-----------------------------------------------------------------------------
(* The server.                                                               *)

Read(p, types) ==
    /\ p \in registered /\ toServer[p] # <<>> /\ Head(toServer[p]).type \in types
    /\ toServer' = [toServer EXCEPT ![p] = Tail(@)]

UpdateAdvertising(h) ==
    /\ Read(h, {"StartAdvertising", "StopAdvertising"})
    /\ advertising' = IF Head(toServer[h]).type = "StartAdvertising" THEN advertising \cup {h}
                      ELSE advertising \ {h}
    /\ UNCHANGED <<registered, toClient, hostVars, browserVars>>

\* If nobody advertises, the server does not answer.
SendAdvertisers ==
    /\ Read(Browser, {"RequestAdvertisers"})
    /\ LET advertisers == registered \cap advertising
       IN  toClient' = IF advertisers = {} THEN toClient
                       ELSE [toClient EXCEPT ![Browser] =
                               Append(@, [type |-> "RequestAdvertisers", ids |-> advertisers])]
    /\ UNCHANGED <<serverVars, hostVars, browserVars>>

Addressed(packet, sender) == [packet EXCEPT !.peer = sender]
Reachable(p) == p \in registered \cap (alive \cup {Browser})

\* Variant: a packet is relayed in front of those that wait.
RelayInFront(p) ==
    /\ Read(p, {"SolicitAds", "GameAd"})
    /\ LET packet == Head(toServer[p])
       IN  toClient' = IF Reachable(packet.peer)
                       THEN [toClient EXCEPT ![packet.peer] = <<Addressed(packet, p)>> \o @]
                       ELSE toClient
    /\ UNCHANGED <<serverVars, hostVars, browserVars>>

\* The sender takes the addressee's place; "not connected" drops the packet.
Relay(p) ==
    /\ Read(p, {"SolicitAds", "GameAd"})
    /\ LET packet == Head(toServer[p])
       IN  toClient' = IF Reachable(packet.peer)
                       THEN [toClient EXCEPT ![packet.peer] = Append(@, Addressed(packet, p))]
                       ELSE toClient
    /\ UNCHANGED <<serverVars, hostVars, browserVars>>

\* What the lost connection still carried is read before this, or never.
ConnectionLost(h) ==
    /\ h \in registered \ alive
    /\ registered' = registered \ {h}
    /\ toServer' = [toServer EXCEPT ![h] = <<>>]
    /\ UNCHANGED <<advertising, toClient, hostVars, browserVars>>

-----------------------------------------------------------------------------
(* The browser.  An entry of the list is the ad and whether it was heard of  *)
(* in the last 2 s.                                                          *)

Expire(entry) == IF entry # None /\ ~entry.recent THEN None ELSE entry

\* Storm locks the list, which drops what is old, and unlocks it, which asks
\* the server.  The bound stands for the second that passes between requests.
RequestAdvertisers ==
    /\ storm = "idle"
    /\ UnderWay <= MaxBrowsing
    /\ listed' = [h \in Hosts |-> Expire(listed[h])]
    /\ Send(Browser, <<Request>>)
    /\ storm' = "soliciting"
    /\ UNCHANGED <<serverVars, toClient, hostVars, m_known_advertisers>>

\* The known advertisers are solicited under g_advertisement_mutex.  What is
\* sent to Others concerns their entries only.
SolicitAds ==
    /\ storm = "soliciting"
    /\ LET known == SetToSeq(m_known_advertisers \cap Hosts)
       IN  Send(Browser, [i \in 1..Len(known) |-> Solicit(known[i])])
    /\ storm' = "idle"
    /\ UNCHANGED <<serverVars, toClient, hostVars, m_known_advertisers, listed>>

Receive(type) ==
    /\ toClient[Browser] # <<>> /\ Head(toClient[Browser]).type = type
    /\ toClient' = [toClient EXCEPT ![Browser] = Tail(@)]

\* Variant: what was known before is not cleared.
UpdateKnownAdvertisersUncleared ==
    /\ Receive("RequestAdvertisers")
    /\ m_known_advertisers' = m_known_advertisers \cup Head(toClient[Browser]).ids
    /\ UNCHANGED <<serverVars, toServer, hostVars, listed, storm>>

\* Variant: the last address is left out, "< data.size()".
UpdateKnownAdvertisersOffByOne ==
    /\ Receive("RequestAdvertisers")
    /\ LET ids == Head(toClient[Browser]).ids
       IN  m_known_advertisers' = ids \ {CHOOSE h \in ids : TRUE}
    /\ UNCHANGED <<serverVars, toServer, hostVars, listed, storm>>

UpdateKnownAdvertisers ==
    /\ Receive("RequestAdvertisers")
    /\ m_known_advertisers' = Head(toClient[Browser]).ids
    /\ UNCHANGED <<serverVars, toServer, hostVars, listed, storm>>

\* Variant: an entry that exists is only refreshed.
PassAdvertisementOnce ==
    /\ Receive("GameAd")
    /\ LET packet == Head(toClient[Browser])
           old == listed[packet.peer]
       IN  listed' = [listed EXCEPT ![packet.peer] =
                        [ad |-> IF old = None THEN packet.ad ELSE old.ad, recent |-> TRUE]]
    /\ UNCHANGED <<serverVars, toServer, hostVars, m_known_advertisers, storm>>

PassAdvertisement ==
    /\ Receive("GameAd")
    /\ LET packet == Head(toClient[Browser])
       IN  listed' = [listed EXCEPT ![packet.peer] = [ad |-> packet.ad, recent |-> TRUE]]
    /\ UNCHANGED <<serverVars, toServer, hostVars, m_known_advertisers, storm>>

\* An entry was not heard of for 2 s.
Age(h) ==
    /\ listed[h] # None /\ listed[h].recent
    /\ listed' = [listed EXCEPT ![h].recent = FALSE]
    /\ UNCHANGED <<serverVars, toServer, toClient, hostVars, m_known_advertisers, storm>>

-----------------------------------------------------------------------------

\* recv cuts a packet in two, and receive_packets keeps neither piece.
CutPacket(p) ==
    /\ p \in alive \cup {Browser} /\ toClient[p] # <<>>
    /\ p \in Hosts => answer[p] = None
    /\ toClient' = [toClient EXCEPT ![p] = Tail(@)]
    /\ UNCHANGED <<serverVars, toServer, hostVars, browserVars>>

GameThread(h) == SetAdvertising(h) \/ SendGame(h)
SignalingThread(h) == Solicited(h) \/ SendAd(h)
ServerReads(p) == Relay(p) \/ UpdateAdvertising(p) \/ (p = Browser /\ SendAdvertisers)
Browse == RequestAdvertisers \/ SolicitAds
BrowserReceives == UpdateKnownAdvertisers \/ PassAdvertisement

Next ==
    \/ \E h \in Hosts :
        \/ CreateLobby(h) \/ ClearAdvertising(h) \/ GameThread(h) \/ SignalingThread(h)
        \/ Crash(h) \/ ConnectionLost(h) \/ Age(h)
    \/ \E p \in Players : ServerReads(p) \/ CutPacket(p)
    \/ Browse \/ BrowserReceives

\* Calls in progress end, packets arrive, not every packet of a kind is cut,
\* time passes, and Storm goes on browsing.  Nobody need create, change or stop a
\* lobby, or crash.
Fairness ==
    /\ \A h \in Hosts :
        /\ WF_vars(GameThread(h)) /\ SF_vars(Solicited(h)) /\ WF_vars(SendAd(h))
        /\ WF_vars(ConnectionLost(h)) /\ WF_vars(Age(h))
    /\ \A p \in Players : WF_vars(ServerReads(p))
    /\ WF_vars(Browse) /\ SF_vars(UpdateKnownAdvertisers) /\ SF_vars(PassAdvertisement)

Spec == Init /\ [][Next]_vars /\ Fairness

-----------------------------------------------------------------------------

TypeOK ==
    /\ registered \subseteq Players \cup Others /\ advertising \subseteq Hosts \cup Others /\ alive \subseteq Hosts
    /\ toServer \in [Players -> Seq(ServerPackets \cup PeerPackets)]
    /\ toClient \in [Players -> Seq(PeerPackets \cup Advertisers)]
    /\ m_is_advertising \in [Hosts -> BOOLEAN]
    /\ m_ad_data \in [Hosts -> Ads]
    /\ game \in [Hosts -> {"idle", "copying", "start", "stop"}]
    /\ answer \in [Hosts -> 0..MaxLobbies \cup {None}]
    /\ m_known_advertisers \subseteq Hosts \cup Others
    /\ listed \in [Hosts -> [ad : Ads, recent : BOOLEAN] \cup {None}]
    /\ storm \in {"idle", "soliciting"}

\* A step that leaves a host an entry does not make either half of it older.
EntriesAdvance ==
    \A h \in Hosts : listed[h] # None /\ listed'[h] # None =>
        \A half \in 1..2 : listed[h].ad[half] <= listed'[h].ad[half]
\* An entry is never replaced by something older, in either of its halves: of
\* the ads of one host, whenever they were asked for, the last to arrive is the
\* newest (CrownLink.cpp:86-94, server.py:241-247).
AdsAdvance == [][EntriesAdvance]_listed

Hosting(h) == h \in alive /\ m_is_advertising[h]
Steady(h) == Hosting(h) /\ game[h] = "idle"

\* The lobby of a host that stopped or went away disappears for good, although
\* the server says nothing once nobody advertises and the browser goes on
\* soliciting (server.py:191, CrownLink.cpp:40, 87).
GoneLeaves == \A h \in Hosts : <>[]~Hosting(h) => <>[](listed[h] = None)

\* A lobby its host keeps is listed again and again, however often it expires.
HostedShown == \A h \in Hosts : <>[]Steady(h) => []<>(listed[h] # None)

\* What is listed of it is in the end the lobby as it is: an ad that was copied
\* while it was rewritten, or overtaken, does not stay (CrownLink.cpp:90, 184).
AdsSettle ==
    \A h \in Hosts :
        <>[]Steady(h) => <>[](listed[h] # None => listed[h].ad = m_ad_data[h])

\* As long as somebody advertises, the others are forgotten (CrownLink.cpp:165).
KnownForgets ==
    advertising \cap Others # {} =>
        \A h \in Hosts : <>[]~Hosting(h) => <>[](h \notin m_known_advertisers)

=============================================================================
