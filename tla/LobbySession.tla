--------------------------- MODULE LobbySession ---------------------------
(***************************************************************************)
(* One CrownLink client hosting a lobby, composed with the signaling       *)
(* server.  The client has two threads:                                    *)
(*   - the signaling thread (CrownLink::receive_signaling), which owns the *)
(*     socket, reconnects it, learns or claims the client's ID, and lists  *)
(*     the lobby again after a reconnect;                                  *)
(*   - the game thread (Storm), which starts and stops advertising.        *)
(* They share m_is_advertising, m_current_state and m_socket without a     *)
(* lock, so every access that matters is a step of its own.                *)
(*                                                                         *)
(* The client uses a new element of Conns for each TCP connection.  What   *)
(* is written on a connection may arrive long after the client gave it up, *)
(* and the server may keep it open long after.                             *)
(***************************************************************************)
EXTENDS Naturals, Sequences

CONSTANTS
    Conns, IDs, ServerID, None, Uuid,   \* as in SignalingServer
    Client,                             \* this client
    MaxCalls                            \* bound: calls Storm makes

VARIABLES
    status, peer_ID, advertising, CONNECTIONS, down,   \* the server's
    claimed, home,                                     \* its view of the client
    up,                \* packets written by the client, not yet read
    m_socket,          \* the current connection; None for 0 or a dead handle
    m_current_state,   \* SignalingSocket::m_current_state
    m_client_id,       \* None while ~m_client_id_set
    missed,            \* connections whose ServerSetID was cut in two by recv
    m_is_advertising,
    signaling,         \* where the signaling thread is
    game,              \* where the game thread is
    calls              \* how many calls Storm has made

Server == INSTANCE SignalingServer WITH
    Clients <- {Client}, Owner <- [c \in Conns |-> Client],
    PeerKinds <- {}, TurnCreds <- FALSE, MaxDown <- 0

ASSUME LobbyAssumption ==
    /\ None \notin Conns \cup IDs
    /\ ServerID \notin IDs
    /\ Uuid \in [Conns -> IDs]
    /\ \A c, d \in Conns : Uuid[c] = Uuid[d] => c = d
    /\ MaxCalls \in Nat

serverVars == <<status, peer_ID, advertising, CONNECTIONS, down, claimed, home>>
socketVars == <<m_socket, m_current_state>>
gameVars == <<m_is_advertising, game, calls>>
idVars == <<m_client_id, missed>>
vars == <<serverVars, up, socketVars, idVars, signaling, gameVars>>

UpPackets == [type : {"StartAdvertising", "StopAdvertising"}]
                \cup [type : {"ServerSetID"}, data : IDs]
StartPacket == [type |-> "StartAdvertising"]
StopPacket == [type |-> "StopAdvertising"]
ClaimPacket(id) == [type |-> "ServerSetID", data |-> id]

-----------------------------------------------------------------------------

Init ==
    /\ Server!Init
    /\ up = [c \in Conns |-> <<>>]
    /\ m_socket = None
    /\ m_current_state = "Uninitialized"
    /\ m_client_id = None /\ missed = {}
    /\ m_is_advertising = FALSE
    /\ signaling = "try_init"
    /\ game = <<"idle">>
    /\ calls = 0

\* ::send on m_socket.  An error is logged and otherwise ignored.
Send(packet) ==
    up' = IF m_socket # None /\ status[m_socket] \in {"dialed", "open"}
          THEN [up EXCEPT ![m_socket] = Append(@, packet)]
          ELSE up

-----------------------------------------------------------------------------
(* The signaling thread.                                                     *)

TryInit ==
    /\ signaling = "try_init"
    /\ m_current_state' = "Connecting"
    /\ signaling' = "connect"
    /\ UNCHANGED <<serverVars, up, m_socket, idVars, gameVars>>

\* getaddrinfo fails.  The first try_init's result is ignored, but the recv on
\* socket 0 that follows fails as well and leads to the same retry loop.
ResolveFails ==
    /\ signaling = "connect"
    /\ signaling' = "deinit"
    /\ UNCHANGED <<serverVars, up, socketVars, idVars, gameVars>>

\* Every connect fails: the address list is not empty, so try_init goes on
\* as after a success, with the handle it has just closed.
ConnectFails ==
    /\ signaling = "connect"
    /\ m_socket' = None
    /\ signaling' = "ready"
    /\ UNCHANGED <<serverVars, up, m_current_state, idVars, gameVars>>

Connect(c) ==
    /\ signaling = "connect"
    /\ Server!Dial(c)
    /\ m_socket' = c
    /\ signaling' = "ready"
    /\ UNCHANGED <<up, m_current_state, idVars, gameVars>>

Ready ==
    /\ signaling = "ready"
    /\ m_current_state' = "Ready"
    /\ signaling' = "recv"
    /\ UNCHANGED <<serverVars, up, m_socket, idVars, gameVars>>

\* Something the server sent on the current connection is there to be read.
Arrived == signaling = "recv" /\ m_socket # None /\ down[m_socket] # <<>>

\* Variant: the whole packet is kept as the ID.
HandleServerSetIDKeepsPacket ==
    /\ Arrived
    /\ m_client_id' = Head(down[m_socket])
    /\ Server!ClientLearnsID(m_socket)
    /\ UNCHANGED <<up, signaling, socketVars, missed, gameVars>>

\* Variant: after a reconnect the ID is not claimed.
HandleServerSetIDUnclaimed ==
    /\ Arrived
    /\ IF m_client_id # None
       THEN /\ Server!ClientReads(m_socket)
            /\ signaling' = "relist"
            /\ UNCHANGED m_client_id
       ELSE /\ m_client_id' = Head(down[m_socket]).data
            /\ Server!ClientLearnsID(m_socket)
            /\ UNCHANGED signaling
    /\ UNCHANGED <<up, socketVars, missed, gameVars>>

\* Variant: the ID is claimed on every connection, the first included.
HandleServerSetIDAlwaysClaims ==
    /\ Arrived
    /\ m_client_id' = IF m_client_id # None THEN m_client_id
                      ELSE Head(down[m_socket]).data
    /\ Send(ClaimPacket(m_client_id'))
    /\ Server!ClientReads(m_socket) \/ Server!ClientLearnsID(m_socket)
    /\ signaling' = "relist"
    /\ UNCHANGED <<socketVars, missed, gameVars>>

\* One recv returns a ServerSetID as a whole: the first one gives the client
\* its ID, a later one is answered with a claim of that ID.
HandleServerSetID ==
    /\ Arrived
    /\ IF m_client_id # None
       THEN /\ Send(ClaimPacket(m_client_id))
            /\ Server!ClientReads(m_socket)
            /\ signaling' = "relist"
            /\ UNCHANGED m_client_id
       ELSE /\ m_client_id' = Head(down[m_socket]).data
            /\ Server!ClientLearnsID(m_socket)
            /\ UNCHANGED <<up, signaling>>
    /\ UNCHANGED <<socketVars, missed, gameVars>>

\* It comes in two pieces.  receive_packets keeps neither, so nothing is
\* handled, and the server does not send it again.
MissServerSetID ==
    /\ Arrived
    /\ Server!ClientReads(m_socket)
    /\ missed' = missed \cup {m_socket}
    /\ UNCHANGED <<up, m_client_id, signaling, socketVars, gameVars>>

\* Variant: the lobby is not listed again.
ForgetAdvertising ==
    /\ signaling = "relist"
    /\ signaling' = "recv"
    /\ UNCHANGED <<serverVars, up, socketVars, idVars, gameVars>>

\* The handler reads m_is_advertising, and only then sends.
CheckAdvertising ==
    /\ signaling = "relist"
    /\ signaling' = IF m_is_advertising THEN "resend" ELSE "recv"
    /\ UNCHANGED <<serverVars, up, socketVars, idVars, gameVars>>

ResendStart ==
    /\ signaling = "resend"
    /\ Send(StartPacket)
    /\ signaling' = "recv"
    /\ UNCHANGED <<serverVars, socketVars, idVars, gameVars>>

\* Bound: a connection may fail only while another one can still be made.
CanFail == \E c \in Conns : status[c] = "idle"

\* There is no usable socket, or the server has closed the connection and all
\* it sent is read.
SocketDead ==
    \/ m_socket = None
    \/ m_socket # None /\ status[m_socket] = "lost" /\ down[m_socket] = <<>>

\* recv returns 0 or an error, because of that or because the network fails.
ReceiveError ==
    /\ signaling = "recv"
    /\ SocketDead \/ CanFail
    /\ signaling' = "deinit"
    /\ UNCHANGED <<serverVars, up, socketVars, idVars, gameVars>>

\* m_current_state is left as it is, so the game thread may still find Ready.
Deinit ==
    /\ signaling = "deinit"
    /\ m_socket' = None
    /\ signaling' = "try_init"
    /\ UNCHANGED <<serverVars, up, m_current_state, idVars, gameVars>>

-----------------------------------------------------------------------------
(* The game thread.                                                          *)

StartAdvertising ==
    /\ game = <<"idle">> /\ calls < MaxCalls
    /\ m_is_advertising' = TRUE
    /\ game' = <<"check", StartPacket>>
    /\ calls' = calls + 1
    /\ UNCHANGED <<serverVars, up, socketVars, idVars, signaling>>

StopAdvertising ==
    /\ game = <<"idle">> /\ calls < MaxCalls
    /\ m_is_advertising' = FALSE
    /\ game' = <<"check", StopPacket>>
    /\ calls' = calls + 1
    /\ UNCHANGED <<serverVars, up, socketVars, idVars, signaling>>

\* send_packet looks at the state before it takes the lock, and drops the
\* packet unless it is Ready ...
SendCheck ==
    /\ game[1] = "check"
    /\ game' = IF m_current_state = "Ready" THEN <<"send", game[2]>> ELSE <<"idle">>
    /\ UNCHANGED <<serverVars, up, socketVars, idVars, signaling,
                   m_is_advertising, calls>>

\* ... and writes to whatever m_socket is by then.
SendWrite ==
    /\ game[1] = "send"
    /\ Send(game[2])
    /\ game' = <<"idle">>
    /\ UNCHANGED <<serverVars, socketVars, idVars, signaling,
                   m_is_advertising, calls>>

-----------------------------------------------------------------------------
(* The server.                                                               *)

clientOnly == <<socketVars, idVars, signaling, gameVars>>

ServerAccepts(c) ==
    /\ Server!ConnectionMade(c)
    /\ UNCHANGED <<claimed, home, up, clientOnly>>

\* The server notices that a connection is gone: the client has closed it, or
\* the network fails.  Nothing more of it is read.
ServerLoses(c) ==
    /\ c # m_socket \/ CanFail \/ status[c] = "closing"
    /\ Server!ConnectionLost(c)
    /\ UNCHANGED <<claimed, home, up, clientOnly>>

ServerReads(c) ==
    /\ status[c] = "open" /\ up[c] # <<>>
    /\ up' = [up EXCEPT ![c] = Tail(@)]
    /\ LET packet == Head(up[c]) IN
       \/ /\ packet.type = "StartAdvertising"
          /\ Server!StartAdvertising(c)
          /\ UNCHANGED claimed
       \/ /\ packet.type = "StopAdvertising"
          /\ Server!StopAdvertising(c)
          /\ UNCHANGED claimed
       \/ /\ packet.type = "ServerSetID"
          /\ Server!ServerSetID(c, packet.data)
          /\ claimed' = [claimed EXCEPT ![c] = TRUE]
    /\ UNCHANGED <<home, clientOnly>>

-----------------------------------------------------------------------------

SignalingThread ==
    \/ TryInit \/ ResolveFails \/ ConnectFails \/ Ready
    \/ HandleServerSetID \/ MissServerSetID \/ CheckAdvertising \/ ResendStart
    \/ ReceiveError \/ Deinit
    \/ \E c \in Conns : Connect(c)

GameThread == StartAdvertising \/ StopAdvertising \/ SendCheck \/ SendWrite

Next ==
    \/ SignalingThread
    \/ GameThread
    \/ \E c \in Conns : ServerAccepts(c) \/ ServerLoses(c) \/ ServerReads(c)

\* Both threads keep running and the server keeps accepting and reading; a
\* connect that is tried again and again succeeds in the end; what has arrived
\* is read, whole or not; a socket that is dead reports it.  Nothing is assumed
\* of Storm's calls, of when the server notices a lost connection, nor of
\* anything failing: a connection may last for ever.
Fairness ==
    /\ WF_vars(TryInit) /\ WF_vars(Ready) /\ WF_vars(Deinit)
    /\ WF_vars(ResolveFails \/ ConnectFails \/ \E c \in Conns : Connect(c))
    /\ SF_vars(\E c \in Conns : Connect(c))
    /\ WF_vars(HandleServerSetID \/ MissServerSetID)
    /\ WF_vars(CheckAdvertising) /\ WF_vars(ResendStart)
    /\ WF_vars(SocketDead /\ ReceiveError)
    /\ WF_vars(SendCheck) /\ WF_vars(SendWrite)
    /\ \A c \in Conns : WF_vars(ServerAccepts(c)) /\ WF_vars(ServerReads(c))

Spec == Init /\ [][Next]_vars
FairSpec == Spec /\ Fairness

-----------------------------------------------------------------------------

TypeOK ==
    /\ Server!TypeOK
    /\ up \in [Conns -> Seq(UpPackets)]
    /\ m_socket \in Conns \cup {None}
    /\ m_current_state \in {"Uninitialized", "Connecting", "Ready"}
    /\ m_client_id \in IDs \cup {None}
    /\ missed \subseteq Conns
    /\ m_is_advertising \in BOOLEAN
    /\ signaling \in {"try_init", "connect", "ready", "recv", "relist",
                      "resend", "deinit"}
    /\ game \in {<<"idle">>} \cup ({"check", "send"} \X {StartPacket, StopPacket})
    /\ calls \in 0..MaxCalls

\* Nothing is on the way between the client and the server, and neither
\* thread is in the middle of a handler.
Quiescent ==
    /\ signaling = "recv" /\ game = <<"idle">>
    /\ m_socket # None
    /\ status[m_socket] = "open"
    /\ up[m_socket] = <<>> /\ down[m_socket] = <<>>

\* The connection is not the one that gave the client its ID.
Reconnected == m_socket # home[Client]

\* Once things have settled, the server knows the current connection by the
\* ID the client calls its own exactly if the greeting came in one piece,
\* however often the client has reconnected and whatever was still under way on
\* its old connections.  If it was cut the client stays under an ID it does not
\* know until the next reconnect (CrownLink.cpp:71-81, Signaling.cpp:127-139).
IdentityRestored ==
    Quiescent => (peer_ID[m_socket] = m_client_id <=> m_socket \notin missed)

\* After a reconnect a lobby that is being hosted is listed again, whatever
\* the interleaving of Storm's calls with the reconnect, if the greeting came
\* in one piece (CrownLink.cpp:74-76, 185-186).
HostedAfterReconnect ==
    Quiescent /\ Reconnected /\ m_socket \notin missed /\ m_is_advertising
        => advertising[m_socket]

\* The client keeps to what SignalingServer assumes of its environment: it
\* claims only its own ID, at most once per connection, and not on the
\* connection that gave it (CrownLink.cpp:72-81).
ServerSpec == Server!Spec

\* If Storm goes on hosting, the client ends up on a connection that lasts.  It
\* has an ID there, and unless it is the connection that gave the ID the lobby
\* stays listed under that ID, or else the greeting was cut on that connection
\* (CrownLink.cpp:52-66, 154-160).
EventuallyListed ==
    <>[](m_is_advertising /\ game = <<"idle">>)
        => <>[](/\ m_socket # None
                /\ m_socket \in missed
                   \/ /\ m_client_id # None
                      /\ Reconnected => /\ advertising[m_socket]
                                        /\ peer_ID[m_socket] = m_client_id)

\* stop_advertising is "Called to stop advertising the game" (SNPModule.h:70):
\* once settled, a lobby that is no longer hosted is not listed.
StoppedIsNotAdvertised ==
    Quiescent /\ ~m_is_advertising => ~advertising[m_socket]

=============================================================================
