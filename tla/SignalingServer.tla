------------------------- MODULE SignalingServer -------------------------
(***************************************************************************)
(* The matchmaking server, signaling/server.py: one asyncio event loop,    *)
(* one ServerProtocol object per TCP connection, and the dictionary        *)
(* CONNECTIONS from 16-byte peer IDs to protocol objects.  Every callback  *)
(* of the event loop runs to completion, so every handler is one action.   *)
(*                                                                         *)
(* A client (CrownLink.cpp:71-82) keeps for its whole life the ID it read  *)
(* on one of its connections, home[k], and claims that ID, once, on each   *)
(* connection it makes later.  LobbySession models the client itself and   *)
(* shows that it keeps to what is assumed of clients here.                 *)
(***************************************************************************)
EXTENDS Naturals, Sequences

CONSTANTS
    Conns,      \* the ServerProtocol objects, one per accepted connection
    Clients,    \* the CrownLink instances
    Owner,      \* the client at the other end of each connection
    IDs,        \* the peer IDs in use (16 bytes each)
    ServerID,   \* SERVER_ID, the all-ones address
    None,       \* "no such key" in CONNECTIONS
    Uuid,       \* the ID uuid.uuid4() yields for each connection
    PeerKinds,  \* the packet types relayed to a peer: "case _" of data_received
    TurnCreds,  \* whether turn_creds.json was loaded
    MaxDown     \* bound: packets a client may leave unread on a connection

\* The packet types the server answers itself.
ServerKinds == {"ServerSetID", "JuiceTurnCredentials", "RequestAdvertisers",
                "ServerEcho"}

ASSUME ServerAssumption ==
    /\ None \notin Conns
    /\ ServerID \notin IDs
    /\ Uuid \in [Conns -> IDs]
    /\ \A c, d \in Conns : Uuid[c] = Uuid[d] => c = d
    /\ Owner \in [Conns -> Clients]
    /\ PeerKinds \cap ServerKinds = {}
    /\ TurnCreds \in BOOLEAN
    /\ MaxDown \in Nat

VARIABLES
    status,       \* of each connection, see Status
    peer_ID,      \* ServerProtocol.peer_ID
    advertising,  \* ServerProtocol.advertising
    CONNECTIONS,  \* the dictionary, None where a key is absent
    down,         \* packets written to the transport, not yet read
    claimed,      \* connections on which the client has sent SERVER_SET_ID
    home          \* of each client, the connection that gave it its ID

serverVars == <<status, peer_ID, advertising, CONNECTIONS, down>>
vars == <<status, peer_ID, advertising, CONNECTIONS, down, claimed, home>>

\* "dialed": TCP is up but connection_made has not run; "closing": a handler
\* raised and asyncio is about to call connection_lost.
Status == {"idle", "dialed", "open", "closing", "lost"}

\* What the server itself writes.  data is the ID, the advertisers, or nothing.
ServerPacket(type, data) == [type |-> type, peer |-> ServerID, data |-> data]

\* A forwarded packet.  "peer" is what the receiver sees; "via" and "to", the
\* sending connection and the ID it addressed, are recorded for Provenance.
PeerPacket(kind, from, via, to) ==
    [type |-> kind, peer |-> from, via |-> via, to |-> to]

SetIDPacket(id) == ServerPacket("ServerSetID", id)
TurnPacket == ServerPacket("JuiceTurnCredentials", None)
AdvertisersPacket(ids) == ServerPacket("RequestAdvertisers", ids)
EchoPacket == ServerPacket("ServerEcho", None)

Packets ==
    {SetIDPacket(id) : id \in IDs}
        \cup {AdvertisersPacket(ids) : ids \in SUBSET IDs}
        \cup {TurnPacket, EchoPacket}
        \cup [type : PeerKinds, peer : IDs, via : Conns, to : IDs]

-----------------------------------------------------------------------------

Init ==
    /\ status = [c \in Conns |-> "idle"]
    /\ peer_ID = Uuid
    /\ advertising = [c \in Conns |-> FALSE]
    /\ CONNECTIONS = [id \in IDs |-> None]
    /\ down = [c \in Conns |-> <<>>]
    /\ claimed = [c \in Conns |-> FALSE]
    /\ home = [k \in Clients |-> None]

\* send_packet: a transport that is closing or closed discards the data.
Write(c, packets) ==
    down' = IF status[c] = "open"
            THEN [down EXCEPT ![c] = @ \o packets]
            ELSE down

\* The first packets of a connection, in one write.
Greeting(c) ==
    <<SetIDPacket(peer_ID[c])>> \o (IF TurnCreds THEN <<TurnPacket>> ELSE <<>>)

\* Variant: the connection is not entered in the registry.
ConnectionMadeUnregistered(c) ==
    /\ status[c] = "dialed"
    /\ status' = [status EXCEPT ![c] = "open"]
    /\ advertising' = [advertising EXCEPT ![c] = FALSE]
    /\ down' = [down EXCEPT ![c] = @ \o Greeting(c)]
    /\ UNCHANGED <<peer_ID, CONNECTIONS>>

ConnectionMade(c) ==
    /\ status[c] = "dialed"
    /\ status' = [status EXCEPT ![c] = "open"]
    /\ advertising' = [advertising EXCEPT ![c] = FALSE]
    /\ CONNECTIONS' = [CONNECTIONS EXCEPT ![peer_ID[c]] = c]
    /\ down' = [down EXCEPT ![c] = @ \o Greeting(c)]
    /\ UNCHANGED peer_ID

\* Variant: the key the connection was born with is deleted.
ConnectionLostByBirthID(c) ==
    /\ status[c] \in {"open", "closing"}
    /\ status' = [status EXCEPT ![c] = "lost"]
    /\ CONNECTIONS' = [CONNECTIONS EXCEPT ![Uuid[c]] = None]
    /\ UNCHANGED <<peer_ID, advertising, down>>

\* The deletion raises KeyError when the key is already gone; the transport is
\* closed all the same.
ConnectionLost(c) ==
    /\ status[c] \in {"open", "closing"}
    /\ status' = [status EXCEPT ![c] = "lost"]
    /\ CONNECTIONS' = [CONNECTIONS EXCEPT ![peer_ID[c]] = None]
    /\ UNCHANGED <<peer_ID, advertising, down>>

StartAdvertising(c) ==
    /\ status[c] = "open"
    /\ advertising' = [advertising EXCEPT ![c] = TRUE]
    /\ UNCHANGED <<status, peer_ID, CONNECTIONS, down>>

\* Variant: whoever stops advertising leaves the registry as well.
StopAdvertisingUnregisters(c) ==
    /\ status[c] = "open"
    /\ advertising' = [advertising EXCEPT ![c] = FALSE]
    /\ CONNECTIONS' = [CONNECTIONS EXCEPT ![peer_ID[c]] = None]
    /\ UNCHANGED <<status, peer_ID, down>>

StopAdvertising(c) ==
    /\ status[c] = "open"
    /\ advertising' = [advertising EXCEPT ![c] = FALSE]
    /\ UNCHANGED <<status, peer_ID, CONNECTIONS, down>>

\* The registered IDs whose connection is advertising, less the requester's.
AdvertisersFor(c) ==
    {id \in IDs \ {peer_ID[c]} :
        CONNECTIONS[id] # None /\ advertising[CONNECTIONS[id]]}

\* Nothing at all is sent when there is nobody to report.
RequestAdvertisers(c) ==
    /\ status[c] = "open"
    /\ LET ids == {peer_ID[CONNECTIONS[id]] : id \in AdvertisersFor(c)}
       IN  IF ids = {} THEN UNCHANGED down
                       ELSE Write(c, <<AdvertisersPacket(ids)>>)
    /\ UNCHANGED <<status, peer_ID, advertising, CONNECTIONS>>

\* Variant: the entry under the old ID is not popped.
ServerSetIDKeepsOldKey(c, id) ==
    /\ status[c] = "open"
    /\ peer_ID' = [peer_ID EXCEPT ![c] = id]
    /\ CONNECTIONS' = [CONNECTIONS EXCEPT ![id] = c]
    /\ UNCHANGED <<status, advertising, down>>

\* Variant: the new key leads to the ID instead of the connection.
ServerSetIDStoresID(c, id) ==
    /\ status[c] = "open"
    /\ peer_ID' = [peer_ID EXCEPT ![c] = id]
    /\ CONNECTIONS' = [CONNECTIONS EXCEPT ![peer_ID[c]] = None, ![id] = id]
    /\ UNCHANGED <<status, advertising, down>>

\* The ID is taken before the registry is touched; pop raises KeyError when
\* the old ID is not a key, which makes asyncio close the transport.
ServerSetID(c, id) ==
    /\ status[c] = "open"
    /\ peer_ID' = [peer_ID EXCEPT ![c] = id]
    /\ IF CONNECTIONS[peer_ID[c]] # None
       THEN /\ CONNECTIONS' = [CONNECTIONS EXCEPT
                                 ![peer_ID[c]] = None,
                                 ![id] = CONNECTIONS[peer_ID[c]]]
            /\ UNCHANGED status
       ELSE /\ status' = [status EXCEPT ![c] = "closing"]
            /\ UNCHANGED CONNECTIONS
    /\ UNCHANGED <<advertising, down>>

ServerEcho(c) ==
    /\ status[c] = "open"
    /\ Write(c, <<EchoPacket>>)
    /\ UNCHANGED <<status, peer_ID, advertising, CONNECTIONS>>

SendTurnCreds(c) ==
    /\ status[c] = "open"
    /\ Write(c, IF TurnCreds THEN <<TurnPacket>> ELSE <<>>)
    /\ UNCHANGED <<status, peer_ID, advertising, CONNECTIONS>>

\* Variant: the packet goes out with the address it came with.
ForwardAsAddressed(c, kind, to) ==
    /\ status[c] = "open"
    /\ IF CONNECTIONS[to] # None
       THEN Write(CONNECTIONS[to], <<PeerPacket(kind, to, c, to)>>)
       ELSE UNCHANGED down
    /\ UNCHANGED <<status, peer_ID, advertising, CONNECTIONS>>

\* A packet for a peer that is not registered is dropped ("not connected").
Forward(c, kind, to) ==
    /\ status[c] = "open"
    /\ IF CONNECTIONS[to] # None
       THEN Write(CONNECTIONS[to], <<PeerPacket(kind, peer_ID[c], c, to)>>)
       ELSE UNCHANGED down
    /\ UNCHANGED <<status, peer_ID, advertising, CONNECTIONS>>

-----------------------------------------------------------------------------
(* The clients, as the server sees them: a connection is dialed; packets are *)
(* read in order, and one of them may tell the client its ID; the ID is      *)
(* claimed at most once per connection, never on the one that gave it.       *)

clientVars == <<claimed, home>>

Dial(c) ==
    /\ status[c] = "idle"
    /\ status' = [status EXCEPT ![c] = "dialed"]
    /\ UNCHANGED <<peer_ID, advertising, CONNECTIONS, down, claimed, home>>

ClientReads(c) ==
    /\ down[c] # <<>>
    /\ down' = [down EXCEPT ![c] = Tail(@)]
    /\ UNCHANGED <<status, peer_ID, advertising, CONNECTIONS, claimed, home>>

ClientLearnsID(c) ==
    /\ down[c] # <<>>
    /\ Head(down[c]).type = "ServerSetID"
    /\ home[Owner[c]] = None
    /\ home' = [home EXCEPT ![Owner[c]] = c]
    /\ down' = [down EXCEPT ![c] = Tail(@)]
    /\ UNCHANGED <<status, peer_ID, advertising, CONNECTIONS, claimed>>

Claim(c) ==
    /\ home[Owner[c]] \notin {None, c}
    /\ ~claimed[c]
    /\ claimed' = [claimed EXCEPT ![c] = TRUE]
    /\ ServerSetID(c, Uuid[home[Owner[c]]])
    /\ UNCHANGED home

Room == \A c \in Conns : Len(down[c]) < MaxDown

\* One packet of data_received, whichever the client chose to send.
DataReceived(c) ==
    /\ \/ StartAdvertising(c)
       \/ StopAdvertising(c)
       \/ Room /\ RequestAdvertisers(c)
       \/ Room /\ ServerEcho(c)
       \/ Room /\ SendTurnCreds(c)
       \/ Room /\ \E kind \in PeerKinds, to \in IDs : Forward(c, kind, to)
    /\ UNCHANGED clientVars

Next ==
    \E c \in Conns :
        \/ Dial(c)
        \/ ConnectionMade(c) /\ UNCHANGED clientVars
        \/ ConnectionLost(c) /\ UNCHANGED clientVars
        \/ DataReceived(c)
        \/ Claim(c)
        \/ ClientReads(c)
        \/ ClientLearnsID(c)

Spec == Init /\ [][Next]_vars

-----------------------------------------------------------------------------

TypeOK ==
    /\ status \in [Conns -> Status]
    /\ peer_ID \in [Conns -> IDs]
    /\ advertising \in [Conns -> BOOLEAN]
    /\ CONNECTIONS \in [IDs -> Conns \cup {None}]
    /\ down \in [Conns -> Seq(Packets)]
    /\ claimed \in [Conns -> BOOLEAN]
    /\ home \in [Clients -> Conns \cup {None}]

\* The IDs that belong to the client at the other end of connection c.
Identities(c) == {Uuid[d] : d \in {d \in Conns : Owner[d] = Owner[c]}}

\* An entry of CONNECTIONS leads to the connection that calls itself by that
\* ID, so a connection is never reachable under two IDs and no stale key of
\* a re-identified connection survives (server.py:233-236, 149, 166).
RegistryKeys ==
    \A id \in IDs :
        CONNECTIONS[id] # None => peer_ID[CONNECTIONS[id]] = id

\* No connection stays in CONNECTIONS after connection_lost, whatever IDs it
\* claimed and whoever took its entry meanwhile (server.py:164-166).
NoGhost ==
    \A id \in IDs :
        CONNECTIONS[id] # None => status[CONNECTIONS[id]] \in {"open", "closing"}

\* An open connection is missing from CONNECTIONS only when another
\* connection of the same client has used the same ID: one client can never
\* unregister another (server.py:144-166, 233-236).
OnlySiblingsDisplace ==
    \A c \in Conns :
        status[c] = "open" /\ CONNECTIONS[peer_ID[c]] # c
            => \E d \in Conns \ {c} :
                  /\ Owner[d] = Owner[c]
                  /\ peer_ID[d] = peer_ID[c]
                  /\ status[d] # "idle"

\* Re-identification never raises: until a connection has claimed its
\* client's ID, it is registered under the ID it was born with, so
\* CONNECTIONS.pop finds the key (server.py:234-236).
SetIDNeverRaises ==
    \A c \in Conns :
        status[c] = "open" /\ home[Owner[c]] # c /\ ~claimed[c]
            => CONNECTIONS[peer_ID[c]] = c

\* A forwarded packet carries an ID of the client that sent it, and reaches
\* only a connection of the client it was addressed to, across all
\* re-identifications (server.py:241-247, "replace from & to peer IDs").
Provenance ==
    \A c \in Conns : \A i \in 1..Len(down[c]) :
        LET p == down[c][i] IN
        p.type \in PeerKinds =>
            /\ p.peer \in Identities(p.via)
            /\ p.to \in Identities(c)

\* A packet is dropped with "... not connected" (server.py:249) only when no
\* open connection goes by the ID it is addressed to.
NotConnectedIsTrue ==
    \A id \in IDs :
        CONNECTIONS[id] = None
            => \A c \in Conns : status[c] = "open" => peer_ID[c] # id

=============================================================================
