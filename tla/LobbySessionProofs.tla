------------------------ MODULE LobbySessionProofs ------------------------
(***************************************************************************)
(* Proofs about LobbySession: the client keeps its identity and its lobby  *)
(* across any number of reconnects, and it is one of the clients that      *)
(* SignalingServer assumes.                                                *)
(***************************************************************************)
EXTENDS LobbySession, SequenceTheorems, TLAPS

\* The client has read the packet the server greets connection c with.
Greeted(c) == status[c] \notin {"idle", "dialed"} /\ down[c] = <<>>

Claims(s) == {i \in 1..Len(s) : s[i].type = "ServerSetID"}

\* What the server will take the lobby for once it has read s, if it takes it
\* for "now" before.
NoStopAfter(s, i) == \A j \in 1..Len(s) : j > i => s[j].type # "StopAdvertising"
ListedAfter(s, now) ==
    \/ \E i \in 1..Len(s) : s[i].type = "StartAdvertising" /\ NoStopAfter(s, i)
    \/ now /\ NoStopAfter(s, 0)

\* The client goes by the ID of the connection that greeted it first.
ClientID ==
    /\ m_client_id = IF home[Client] = None THEN None ELSE Uuid[home[Client]]
    /\ home[Client] # None => /\ Greeted(home[Client])
                              /\ ~claimed[home[Client]]

\* The only packet the server sends is the greeting with the ID of birth.
GreetingOK(c) ==
    /\ status[c] = "idle" => up[c] = <<>>
    /\ down[c] # <<>> => /\ down[c] = <<Server!SetIDPacket(Uuid[c])>>
                         /\ status[c] \notin {"idle", "dialed"}

\* The connection goes by its own ID until the server has read the claim.
OwnIdentity(c) ==
    IF claimed[c]
    THEN /\ home[Client] \notin {None, c}
         /\ Greeted(c)
         /\ peer_ID[c] = Uuid[home[Client]]
    ELSE peer_ID[c] = Uuid[c]

\* A claim on its way is the only one, was made after the greeting, and is a
\* claim of the client's ID; an open connection that has been greeted has
\* given the client its ID, or been claimed, or is about to be, or else its
\* greeting was missed and none of this ever happens.
ClaimOK(c) ==
    /\ \A i, j \in Claims(up[c]) : i = j
    /\ \A i \in Claims(up[c]) :
          /\ home[Client] \notin {None, c}
          /\ ~claimed[c]
          /\ up[c][i].data = Uuid[home[Client]]
          /\ Greeted(c)
    /\ status[c] = "open" /\ Greeted(c)
          => home[Client] = c \/ claimed[c] \/ Claims(up[c]) # {} \/ c \in missed
    /\ c \in missed
          => home[Client] # c /\ ~claimed[c] /\ Claims(up[c]) = {} /\ Greeted(c)

\* The signaling thread: where it is says what m_socket and m_current_state are.
SocketOK ==
    /\ m_socket # None => status[m_socket] # "idle"
    /\ signaling \in {"try_init", "connect"} => m_socket = None
    /\ m_socket # None /\ signaling # "ready" => m_current_state = "Ready"
    /\ m_socket # None /\ signaling = "ready" => ~Greeted(m_socket)

\* The game thread is sending what it has last set m_is_advertising to.
GameOK ==
    game # <<"idle">> => (m_is_advertising <=> game[2] = StartPacket)

\* A hosted lobby is listed, or will be by what is written, or one of the two
\* threads has yet to write it.
Hosting ==
    /\ m_socket # None
    /\ status[m_socket] = "open" /\ Greeted(m_socket)
    /\ Reconnected
    /\ m_socket \notin missed
    /\ m_is_advertising

Listing ==
    Hosting => \/ signaling \in {"relist", "resend"}
               \/ game # <<"idle">>
               \/ ListedAfter(up[m_socket], advertising[m_socket])

\* The inductive invariant.  IdentityRestored and HostedAfterReconnect speak
\* of settled states only; ClaimOK and Listing say what is still to happen in
\* the states before.
ConnOK(c) == GreetingOK(c) /\ OwnIdentity(c) /\ ClaimOK(c)

IInv ==
    /\ TypeOK
    /\ ClientID
    /\ \A c \in Conns : ConnOK(c)
    /\ SocketOK
    /\ GameOK
    /\ Listing

-----------------------------------------------------------------------------

\* What the two operators on the packets under way do when one is written ...
LEMMA WritePacket ==
    ASSUME NEW s \in Seq(UpPackets), NEW p \in UpPackets
    PROVE  /\ Append(s, p) \in Seq(UpPackets)
           /\ \A i \in 1..Len(s) : Append(s, p)[i] = s[i]
           /\ p.type # "ServerSetID" => Claims(Append(s, p)) = Claims(s)
           /\ p.type = "ServerSetID" =>
                 /\ Claims(Append(s, p)) = Claims(s) \cup {Len(s) + 1}
                 /\ Append(s, p)[Len(s) + 1] = p
           /\ p.type = "StartAdvertising" =>
                 \A now \in BOOLEAN : ListedAfter(Append(s, p), now)
<1>. DEFINE t == Append(s, p)
<1>1. /\ t \in Seq(UpPackets) /\ Len(s) \in Nat
      /\ Len(t) = Len(s) + 1
      /\ \A i \in 1..Len(s) : t[i] = s[i]
      /\ t[Len(s) + 1] = p
  BY AppendProperties, LenProperties
<1>. HIDE DEF t
<1>2. \A i : i \in 1..Len(t) <=> i \in 1..Len(s) \/ i = Len(s) + 1
  BY <1>1
<1>3. p.type # "ServerSetID" => Claims(t) = Claims(s)
  BY <1>1, <1>2 DEF Claims
<1>4. p.type = "ServerSetID" => Claims(t) = Claims(s) \cup {Len(s) + 1}
  BY <1>1, <1>2 DEF Claims
<1>5. p.type = "StartAdvertising" => \A now \in BOOLEAN : ListedAfter(t, now)
  <2>1. Len(s) + 1 \in 1..Len(t) /\ NoStopAfter(t, Len(s) + 1)
    BY <1>1 DEF NoStopAfter
  <2>. QED BY <1>1, <2>1 DEF ListedAfter
<1>. QED BY <1>1, <1>3, <1>4, <1>5 DEF t

\* ... and when the first is read.
LEMMA ReadPacket ==
    ASSUME NEW s \in Seq(UpPackets), s # <<>>, NEW now \in BOOLEAN
    PROVE  /\ Tail(s) \in Seq(UpPackets) /\ Head(s) \in UpPackets
           /\ \A i \in Claims(Tail(s)) : i + 1 \in Claims(s) /\ Tail(s)[i] = s[i + 1]
           /\ \A i \in Claims(s) : i = 1 \/ i - 1 \in Claims(Tail(s))
           /\ 1 \in Claims(s) <=> Head(s).type = "ServerSetID"
           /\ Head(s) = s[1]
           /\ ListedAfter(s, now) =>
                 \/ Head(s).type = "StartAdvertising" /\ ListedAfter(Tail(s), TRUE)
                 \/ Head(s).type = "StopAdvertising" /\ ListedAfter(Tail(s), FALSE)
                 \/ Head(s).type = "ServerSetID" /\ ListedAfter(Tail(s), now)
<1>. DEFINE t == Tail(s)
<1>1. /\ t \in Seq(UpPackets) /\ Head(s) \in UpPackets /\ Head(s) = s[1]
      /\ Len(s) \in Nat \ {0} /\ Len(t) = Len(s) - 1
      /\ \A i \in 1..Len(t) : t[i] = s[i + 1]
  BY HeadTailProperties, EmptySeq, LenProperties, ElementOfSeq
<1>. HIDE DEF t
<1>2. /\ \A i \in 1..Len(t) : i + 1 \in 1..Len(s)
      /\ \A i \in 1..Len(s) : i = 1 \/ (i - 1 \in 1..Len(t) /\ t[i - 1] = s[i])
  <2>1. \A i \in 1..Len(t) : i + 1 \in 1..Len(s)
    BY <1>1
  <2>2. ASSUME NEW i \in 1..Len(s), i # 1
        PROVE  i - 1 \in 1..Len(t) /\ t[i - 1] = s[i]
    <3>1. i - 1 \in 1..Len(t) /\ (i - 1) + 1 = i
      BY <1>1, <2>2
    <3>. QED BY <1>1, <3>1
  <2>. QED BY <2>1, <2>2
<1>3. /\ \A i \in Claims(t) : i + 1 \in Claims(s) /\ t[i] = s[i + 1]
      /\ \A i \in Claims(s) : i = 1 \/ i - 1 \in Claims(t)
      /\ 1 \in Claims(s) <=> Head(s).type = "ServerSetID"
  BY <1>1, <1>2 DEF Claims
<1>4. Head(s).type \in {"StartAdvertising", "StopAdvertising", "ServerSetID"}
  BY <1>1 DEF UpPackets
<1>5. ASSUME ListedAfter(s, now)
      PROVE  \/ Head(s).type = "StartAdvertising" /\ ListedAfter(t, TRUE)
             \/ Head(s).type = "StopAdvertising" /\ ListedAfter(t, FALSE)
             \/ Head(s).type = "ServerSetID" /\ ListedAfter(t, now)
  <2>1. ASSUME NEW i \in Nat, NoStopAfter(s, i + 1) PROVE NoStopAfter(t, i)
    <3>. SUFFICES ASSUME NEW j \in 1..Len(t), j > i
                  PROVE  t[j].type # "StopAdvertising"
      BY DEF NoStopAfter
    <3>1. j + 1 \in 1..Len(s) /\ j + 1 > i + 1 /\ t[j] = s[j + 1]
      BY <1>1, <1>2
    <3>. QED BY <2>1, <3>1 DEF NoStopAfter
  <2>2. ASSUME NEW i \in 1..Len(s), s[i].type = "StartAdvertising",
               NoStopAfter(s, i), i # 1
        PROVE  ListedAfter(t, TRUE) /\ ListedAfter(t, FALSE) /\ ListedAfter(t, now)
    <3>1. i - 1 \in 1..Len(t) /\ t[i - 1] = s[i] /\ i - 1 \in Nat /\ (i - 1) + 1 = i
      BY <1>2, <2>2
    <3>2. NoStopAfter(t, i - 1)
      BY <2>1, <2>2, <3>1
    <3>. QED BY <2>2, <3>1, <3>2 DEF ListedAfter
  <2>3. ASSUME s[1].type = "StartAdvertising", NoStopAfter(s, 1)
        PROVE  ListedAfter(t, TRUE)
    <3>1. NoStopAfter(t, 0)
      BY <2>1, <2>3
    <3>. QED BY <3>1 DEF ListedAfter
  <2>4. ASSUME now, NoStopAfter(s, 0)
        PROVE  /\ Head(s).type # "StopAdvertising"
               /\ ListedAfter(t, TRUE) /\ ListedAfter(t, now)
    <3>1. NoStopAfter(s, 1) /\ s[1].type # "StopAdvertising"
      BY <1>1, <2>4 DEF NoStopAfter
    <3>2. NoStopAfter(t, 0)
      BY <2>1, <3>1
    <3>. QED BY <1>1, <2>4, <3>1, <3>2 DEF ListedAfter
  <2>. QED BY <1>1, <1>4, <1>5, <2>2, <2>3, <2>4 DEF ListedAfter
<1>. QED BY <1>1, <1>3, <1>5 DEF t

-----------------------------------------------------------------------------

LEMMA InitInv == Init => IInv
<1>. SUFFICES ASSUME Init PROVE IInv
  OBVIOUS
<1>. USE DEF Init, Server!Init
<1>1. TypeOK
  <2>1. <<>> \in Seq(Server!Packets) /\ <<>> \in Seq(UpPackets)
    BY EmptySeq
  <2>2. Server!TypeOK
    BY <2>1, LobbyAssumption DEF Server!TypeOK, Server!Status
  <2>3. up \in [Conns -> Seq(UpPackets)]
    BY <2>1
  <2>4. calls \in 0..MaxCalls
    BY LobbyAssumption
  <2>. QED BY <2>2, <2>3, <2>4 DEF TypeOK
<1>2. ClientID
  BY DEF ClientID
<1>3. ASSUME NEW c \in Conns PROVE ConnOK(c)
  <2>1. Claims(up[c]) = {}
    BY DEF Claims
  <2>. QED BY <2>1 DEF ConnOK, GreetingOK, OwnIdentity, ClaimOK
<1>4. SocketOK /\ GameOK /\ Listing
  BY DEF SocketOK, GameOK, Listing, Hosting
<1>. QED BY <1>1, <1>2, <1>3, <1>4 DEF IInv

\* What the connections' half of the invariant reads.
LEMMA ConnFrame ==
    ASSUME IInv, UNCHANGED <<status, peer_ID, down, claimed, home, up, idVars>>
    PROVE  ClientID' /\ \A c \in Conns : ConnOK(c)'
<1>. USE DEF idVars
<1>1. ClientID'
  BY DEF IInv, ClientID, Greeted
<1>2. ASSUME NEW c \in Conns PROVE ConnOK(c)'
  <2>1. GreetingOK(c) /\ OwnIdentity(c) /\ ClaimOK(c)
    BY DEF IInv, ConnOK
  <2>2. GreetingOK(c)' /\ OwnIdentity(c)'
    BY <2>1 DEF GreetingOK, OwnIdentity, Greeted
  <2>3. ClaimOK(c)'
    BY <2>1 DEF ClaimOK, Greeted
  <2>. QED BY <2>2, <2>3 DEF ConnOK
<1>. QED BY <1>1, <1>2

\* A step of the signaling thread that leaves the connections alone.
LEMMA TryInitInv == IInv /\ TryInit => IInv'
<1>. SUFFICES ASSUME IInv, TryInit PROVE IInv'
  OBVIOUS
<1>. USE DEF TryInit, serverVars, gameVars, idVars
<1>1. TypeOK'
  BY DEF IInv, TypeOK, Server!TypeOK
<1>2. SocketOK' /\ GameOK' /\ Listing'
  BY DEF IInv, SocketOK, GameOK, Listing, Hosting, Greeted
<1>. QED BY <1>1, <1>2, ConnFrame DEF IInv

LEMMA ResolveFailsInv == IInv /\ ResolveFails => IInv'
<1>. SUFFICES ASSUME IInv, ResolveFails PROVE IInv'
  OBVIOUS
<1>. USE DEF ResolveFails, serverVars, gameVars, socketVars, idVars
<1>1. TypeOK'
  BY DEF IInv, TypeOK, Server!TypeOK
<1>2. SocketOK' /\ GameOK' /\ Listing'
  BY DEF IInv, SocketOK, GameOK, Listing, Hosting, Greeted
<1>. QED BY <1>1, <1>2, ConnFrame DEF IInv

LEMMA ConnectFailsInv == IInv /\ ConnectFails => IInv'
<1>. SUFFICES ASSUME IInv, ConnectFails PROVE IInv'
  OBVIOUS
<1>. USE DEF ConnectFails, serverVars, gameVars, idVars
<1>1. TypeOK'
  BY DEF IInv, TypeOK, Server!TypeOK
<1>2. SocketOK' /\ GameOK' /\ Listing'
  BY DEF IInv, SocketOK, GameOK, Listing, Hosting
<1>. QED BY <1>1, <1>2, ConnFrame DEF IInv

LEMMA ReadyInv == IInv /\ Ready => IInv'
<1>. SUFFICES ASSUME IInv, Ready PROVE IInv'
  OBVIOUS
<1>. USE DEF Ready, serverVars, gameVars, idVars
<1>1. TypeOK'
  BY DEF IInv, TypeOK, Server!TypeOK
<1>2. SocketOK' /\ GameOK' /\ Listing'
  BY DEF IInv, SocketOK, GameOK, Listing, Hosting, Greeted
<1>. QED BY <1>1, <1>2, ConnFrame DEF IInv

LEMMA CheckAdvertisingInv == IInv /\ CheckAdvertising => IInv'
<1>. SUFFICES ASSUME IInv, CheckAdvertising PROVE IInv'
  OBVIOUS
<1>. USE DEF CheckAdvertising, serverVars, gameVars, socketVars, idVars
<1>1. TypeOK'
  BY DEF IInv, TypeOK, Server!TypeOK
<1>2. SocketOK' /\ GameOK'
  BY DEF IInv, SocketOK, GameOK, Greeted
<1>3. Listing'
  BY DEF Listing, Hosting
<1>. QED BY <1>1, <1>2, <1>3, ConnFrame DEF IInv

LEMMA ReceiveErrorInv == IInv /\ ReceiveError => IInv'
<1>. SUFFICES ASSUME IInv, ReceiveError PROVE IInv'
  OBVIOUS
<1>. USE DEF ReceiveError, serverVars, gameVars, socketVars, idVars
<1>1. TypeOK'
  BY DEF IInv, TypeOK, Server!TypeOK
<1>2. SocketOK' /\ GameOK' /\ Listing'
  BY DEF IInv, SocketOK, GameOK, Listing, Hosting, Greeted, Reconnected
<1>. QED BY <1>1, <1>2, ConnFrame DEF IInv

LEMMA DeinitInv == IInv /\ Deinit => IInv'
<1>. SUFFICES ASSUME IInv, Deinit PROVE IInv'
  OBVIOUS
<1>. USE DEF Deinit, serverVars, gameVars, idVars
<1>1. TypeOK'
  BY DEF IInv, TypeOK, Server!TypeOK
<1>2. SocketOK' /\ GameOK' /\ Listing'
  BY DEF IInv, SocketOK, GameOK, Listing, Hosting
<1>. QED BY <1>1, <1>2, ConnFrame DEF IInv

\* A step of the game thread that writes nothing.
LEMMA PackTypes ==
    /\ StartPacket \in UpPackets /\ StopPacket \in UpPackets
    /\ StartPacket # StopPacket
    /\ StartPacket.type = "StartAdvertising" /\ StopPacket.type = "StopAdvertising"
    /\ \A id \in IDs : /\ ClaimPacket(id) \in UpPackets
                       /\ ClaimPacket(id).type = "ServerSetID"
                       /\ ClaimPacket(id).data = id
<1>1. StartPacket.type # StopPacket.type
  BY DEF StartPacket, StopPacket
<1>. QED BY <1>1 DEF UpPackets, StartPacket, StopPacket, ClaimPacket

LEMMA CallInv == IInv /\ (StartAdvertising \/ StopAdvertising) => IInv'
<1>. SUFFICES ASSUME IInv, StartAdvertising \/ StopAdvertising PROVE IInv'
  OBVIOUS
<1>. USE DEF StartAdvertising, StopAdvertising, serverVars, socketVars, idVars
<1>1. TypeOK'
  <2>1. calls' \in 0..MaxCalls
    BY LobbyAssumption DEF IInv, TypeOK
  <2>2. game' \in {"check", "send"} \X {StartPacket, StopPacket}
    OBVIOUS
  <2>3. m_is_advertising' \in BOOLEAN
    OBVIOUS
  <2>4. Server!TypeOK'
    BY DEF IInv, TypeOK, Server!TypeOK
  <2>. QED BY <2>1, <2>2, <2>3, <2>4 DEF IInv, TypeOK
<1>2. SocketOK'
  BY DEF IInv, SocketOK, Greeted
<1>3. GameOK'
  BY PackTypes DEF GameOK
<1>4. Listing'
  BY DEF Listing
<1>. QED BY <1>1, <1>2, <1>3, <1>4, ConnFrame DEF IInv

\* A packet is dropped for want of "Ready" only when no greeting has been read
\* on the current connection.
LEMMA SendCheckInv == IInv /\ SendCheck => IInv'
<1>. SUFFICES ASSUME IInv, SendCheck PROVE IInv'
  OBVIOUS
<1>. USE DEF SendCheck, serverVars, socketVars, idVars
<1>0. /\ game \in {"check", "send"} \X {StartPacket, StopPacket}
      /\ m_current_state = "Ready" => game' = <<"send", game[2]>>
      /\ m_current_state # "Ready" => game' = <<"idle">>
  BY DEF IInv, TypeOK
<1>1. TypeOK'
  BY <1>0 DEF IInv, TypeOK, Server!TypeOK
<1>2. SocketOK'
  BY DEF IInv, SocketOK, Greeted
<1>3. GameOK'
  <2>1. game # <<"idle">>
    BY <1>0
  <2>. QED BY <1>0, <2>1 DEF IInv, GameOK
<1>4. Listing'
  <2>1. CASE m_current_state = "Ready"
    BY <1>0, <2>1 DEF Listing
  <2>2. CASE m_current_state # "Ready"
    BY <2>2 DEF IInv, SocketOK, Listing, Hosting, Greeted
  <2>. QED BY <2>1, <2>2
<1>. QED BY <1>1, <1>2, <1>3, <1>4, ConnFrame DEF IInv

-----------------------------------------------------------------------------

\* ::send of a StartAdvertising or StopAdvertising packet.
LEMMA SendTalk ==
    ASSUME IInv, NEW p \in {StartPacket, StopPacket}, Send(p),
           UNCHANGED <<status, peer_ID, down, claimed, home, idVars>>
    PROVE  /\ up' \in [Conns -> Seq(UpPackets)]
           /\ ClientID'
           /\ \A c \in Conns : ConnOK(c)'
           /\ \A c \in Conns \ {m_socket} : up'[c] = up[c]
           /\ m_socket # None /\ status[m_socket] = "open"
                => up'[m_socket] = Append(up[m_socket], p)
<1>. USE DEF idVars
<1>1. /\ p \in UpPackets /\ p.type # "ServerSetID"
      /\ up \in [Conns -> Seq(UpPackets)] /\ m_socket \in Conns \cup {None}
  BY PackTypes DEF IInv, TypeOK
<1>2. ASSUME NEW c \in Conns
      PROVE  /\ up'[c] \in Seq(UpPackets)
             /\ c # m_socket => up'[c] = up[c]
             /\ Claims(up'[c]) = Claims(up[c])
             /\ \A i \in Claims(up[c]) : up'[c][i] = up[c][i]
             /\ status[c] = "idle" => up'[c] = up[c]
  BY <1>1, WritePacket DEF Send, Claims
<1>3. up' \in [Conns -> Seq(UpPackets)]
  BY <1>1, <1>2 DEF Send
<1>4. ASSUME NEW c \in Conns PROVE ConnOK(c)'
  <2>1. GreetingOK(c)'
    BY <1>2 DEF IInv, ConnOK, GreetingOK
  <2>2. OwnIdentity(c)'
    BY DEF IInv, ConnOK, OwnIdentity, Greeted
  <2>3. Claims(up'[c]) = Claims(up[c]) /\ \A i \in Claims(up[c]) : up'[c][i] = up[c][i]
    BY <1>2
  <2>4. ClaimOK(c)
    BY DEF IInv, ConnOK
  <2>5. ClaimOK(c)'
    BY <2>3, <2>4 DEF ClaimOK, Greeted
  <2>. QED BY <2>1, <2>2, <2>5 DEF ConnOK
<1>5. ClientID'
  BY DEF IInv, ClientID, Greeted
<1>. QED BY <1>1, <1>2, <1>3, <1>4, <1>5, LobbyAssumption DEF Send

LEMMA ResendStartInv == IInv /\ ResendStart => IInv'
<1>. SUFFICES ASSUME IInv, ResendStart PROVE IInv'
  OBVIOUS
<1>. USE DEF ResendStart, serverVars, socketVars, gameVars, idVars
<1>1. /\ up' \in [Conns -> Seq(UpPackets)] /\ ClientID' /\ \A c \in Conns : ConnOK(c)'
      /\ m_socket # None /\ status[m_socket] = "open"
           => up'[m_socket] = Append(up[m_socket], StartPacket)
  BY SendTalk
<1>2. TypeOK'
  BY <1>1 DEF IInv, TypeOK, Server!TypeOK
<1>3. SocketOK' /\ GameOK'
  BY DEF IInv, SocketOK, GameOK, Greeted
<1>4. Listing'
  <2>. SUFFICES ASSUME m_socket # None, status[m_socket] = "open"
                PROVE  ListedAfter(up'[m_socket], advertising[m_socket])
    BY DEF Listing, Hosting
  <2>1. /\ m_socket \in Conns /\ up[m_socket] \in Seq(UpPackets)
        /\ advertising[m_socket] \in BOOLEAN
    BY DEF IInv, TypeOK, Server!TypeOK
  <2>2. ListedAfter(Append(up[m_socket], StartPacket), advertising[m_socket])
    BY <2>1, PackTypes, WritePacket
  <2>. QED BY <1>1, <2>2
<1>. QED BY <1>1, <1>2, <1>3, <1>4 DEF IInv

LEMMA SendWriteInv == IInv /\ SendWrite => IInv'
<1>. SUFFICES ASSUME IInv, SendWrite PROVE IInv'
  OBVIOUS
<1>. USE DEF SendWrite, serverVars, socketVars, idVars
<1>0. game # <<"idle">> /\ game[2] \in {StartPacket, StopPacket}
  BY DEF IInv, TypeOK
<1>1. /\ up' \in [Conns -> Seq(UpPackets)] /\ ClientID' /\ \A c \in Conns : ConnOK(c)'
      /\ m_socket # None /\ status[m_socket] = "open"
           => up'[m_socket] = Append(up[m_socket], game[2])
  BY <1>0, SendTalk
<1>2. TypeOK'
  BY <1>1 DEF IInv, TypeOK, Server!TypeOK
<1>3. SocketOK' /\ GameOK'
  BY DEF IInv, SocketOK, GameOK, Greeted
<1>4. Listing'
  <2>. SUFFICES ASSUME m_socket # None, status[m_socket] = "open", m_is_advertising
                PROVE  ListedAfter(up'[m_socket], advertising[m_socket])
    BY DEF Listing, Hosting
  <2>1. /\ m_socket \in Conns /\ up[m_socket] \in Seq(UpPackets)
        /\ advertising[m_socket] \in BOOLEAN
    BY DEF IInv, TypeOK, Server!TypeOK
  <2>2. game[2] = StartPacket
    BY <1>0 DEF IInv, GameOK
  <2>3. ListedAfter(Append(up[m_socket], StartPacket), advertising[m_socket])
    BY <2>1, PackTypes, WritePacket
  <2>. QED BY <1>1, <2>2, <2>3
<1>. QED BY <1>1, <1>2, <1>3, <1>4 DEF IInv

-----------------------------------------------------------------------------

LEMMA ConnectInv ==
    ASSUME IInv, NEW c \in Conns, Connect(c)
    PROVE  IInv'
<1>. USE DEF Connect, Server!Dial, gameVars, idVars
<1>1. /\ status \in [Conns -> Server!Status]
      /\ status' = [status EXCEPT ![c] = "dialed"] /\ status[c] = "idle"
  BY DEF IInv, TypeOK, Server!TypeOK
<1>2. \A d \in Conns : Greeted(d)' <=> Greeted(d)
  BY <1>1 DEF Greeted
<1>3. TypeOK'
  <2>1. Server!TypeOK'
    BY <1>1 DEF IInv, TypeOK, Server!TypeOK, Server!Status
  <2>. QED BY <2>1 DEF IInv, TypeOK
<1>4. ClientID'
  BY <1>2 DEF IInv, ClientID, TypeOK, Server!TypeOK
<1>5. ASSUME NEW d \in Conns PROVE ConnOK(d)'
  <2>. GreetingOK(d) /\ OwnIdentity(d) /\ ClaimOK(d)
    BY DEF IInv, ConnOK
  <2>1. GreetingOK(d)'
    BY <1>1 DEF GreetingOK
  <2>2. OwnIdentity(d)'
    BY <1>2 DEF OwnIdentity
  <2>3. ClaimOK(d)'
    BY <1>1, <1>2 DEF ClaimOK
  <2>. QED BY <2>1, <2>2, <2>3 DEF ConnOK
<1>6. SocketOK'
  BY <1>1, LobbyAssumption DEF SocketOK, Greeted
<1>7. GameOK' /\ Listing'
  BY <1>1 DEF IInv, GameOK, Listing, Hosting, Greeted
<1>. QED BY <1>3, <1>4, <1>5, <1>6, <1>7 DEF IInv

\* The greeting is the whole of what a client ever has to read.
LEMMA ServerAcceptsInv ==
    ASSUME IInv, NEW c \in Conns, ServerAccepts(c)
    PROVE  IInv'
<1>. USE DEF ServerAccepts, Server!ConnectionMade, clientOnly, socketVars, gameVars, idVars
<1>0. Server!TypeOK /\ GreetingOK(c) /\ OwnIdentity(c) /\ ClaimOK(c)
  BY DEF IInv, TypeOK, ConnOK
<1>1. /\ status \in [Conns -> Server!Status]
      /\ status' = [status EXCEPT ![c] = "open"] /\ status[c] = "dialed"
  BY <1>0 DEF Server!TypeOK
<1>2. ~Greeted(c) /\ down[c] = <<>> /\ ~claimed[c] /\ peer_ID[c] = Uuid[c]
  BY <1>0, <1>1 DEF Greeted, GreetingOK, OwnIdentity
<1>3. /\ <<Server!SetIDPacket(Uuid[c])>> \in Seq(Server!Packets)
      /\ <<Server!SetIDPacket(Uuid[c])>> # <<>>
  <2>1. Server!SetIDPacket(Uuid[c]) \in Server!Packets
    BY LobbyAssumption DEF Server!Packets
  <2>. QED BY <2>1
<1>4. down[c] \o Server!Greeting(c) = <<Server!SetIDPacket(Uuid[c])>>
  <2>1. Server!Greeting(c) = <<Server!SetIDPacket(Uuid[c])>>
    BY <1>2, <1>3, ConcatEmptySeq DEF Server!Greeting
  <2>. QED BY <1>2, <1>3, <2>1, ConcatEmptySeq
<1>5. down' = [down EXCEPT ![c] = <<Server!SetIDPacket(Uuid[c])>>]
  BY <1>4
<1>6. \A d \in Conns : Greeted(d)' <=> Greeted(d)
  BY <1>0, <1>1, <1>2, <1>3, <1>5 DEF Greeted, Server!TypeOK
<1>7. TypeOK'
  <2>1. CONNECTIONS' \in [IDs -> Conns \cup {None}] /\ advertising' \in [Conns -> BOOLEAN]
    BY <1>0 DEF Server!TypeOK
  <2>2. status' \in [Conns -> Server!Status]
    BY <1>1 DEF Server!Status
  <2>3. down' \in [Conns -> Seq(Server!Packets)]
    BY <1>0, <1>3, <1>5 DEF Server!TypeOK
  <2>4. Server!TypeOK'
    BY <1>0, <2>1, <2>2, <2>3 DEF Server!TypeOK
  <2>. QED BY <2>4 DEF IInv, TypeOK
<1>8. ClientID'
  BY <1>6 DEF IInv, ClientID, TypeOK, Server!TypeOK
<1>9. ASSUME NEW d \in Conns PROVE ConnOK(d)'
  <2>. GreetingOK(d) /\ OwnIdentity(d) /\ ClaimOK(d)
    BY DEF IInv, ConnOK
  <2>1. GreetingOK(d)'
    BY <1>0, <1>1, <1>5 DEF GreetingOK, Server!TypeOK
  <2>2. OwnIdentity(d)'
    BY <1>6 DEF OwnIdentity
  <2>3. ClaimOK(d)'
    BY <1>1, <1>2, <1>6 DEF ClaimOK
  <2>. QED BY <2>1, <2>2, <2>3 DEF ConnOK
<1>10. SocketOK'
  <2>1. m_socket # None => status'[m_socket] # "idle"
    BY <1>1 DEF IInv, SocketOK
  <2>. QED BY <1>6, <2>1 DEF IInv, TypeOK, SocketOK
<1>11. GameOK'
  BY DEF IInv, GameOK
<1>12. Listing'
  <2>. SUFFICES ASSUME Hosting' PROVE Listing'
    BY DEF Listing
  <2>1. m_socket # c /\ m_socket \in Conns /\ Hosting
    BY <1>1, <1>2, <1>6 DEF IInv, TypeOK, Hosting, Reconnected
  <2>2. advertising'[m_socket] = advertising[m_socket]
    BY <1>0, <2>1 DEF Server!TypeOK
  <2>. QED BY <2>1, <2>2 DEF IInv, Listing
<1>. QED BY <1>7, <1>8, <1>9, <1>10, <1>11, <1>12 DEF IInv

LEMMA ServerLosesInv ==
    ASSUME IInv, NEW c \in Conns, ServerLoses(c)
    PROVE  IInv'
<1>. USE DEF ServerLoses, Server!ConnectionLost, clientOnly, socketVars, gameVars, idVars
<1>0. Server!TypeOK
  BY DEF IInv, TypeOK
<1>1. /\ status \in [Conns -> Server!Status]
      /\ status' = [status EXCEPT ![c] = "lost"]
      /\ status[c] \in {"open", "closing"}
  BY <1>0 DEF Server!TypeOK
<1>2. \A d \in Conns : Greeted(d)' <=> Greeted(d)
  BY <1>1 DEF Greeted
<1>3. TypeOK'
  <2>1. Server!TypeOK'
    BY <1>0, <1>1 DEF Server!TypeOK, Server!Status
  <2>. QED BY <2>1 DEF IInv, TypeOK
<1>4. ClientID'
  BY <1>0, <1>2 DEF IInv, ClientID, Server!TypeOK
<1>5. ASSUME NEW d \in Conns PROVE ConnOK(d)'
  <2>. GreetingOK(d) /\ OwnIdentity(d) /\ ClaimOK(d)
    BY DEF IInv, ConnOK
  <2>1. GreetingOK(d)'
    BY <1>1 DEF GreetingOK
  <2>2. OwnIdentity(d)'
    BY <1>2 DEF OwnIdentity
  <2>3. ClaimOK(d)'
    BY <1>1, <1>2 DEF ClaimOK
  <2>. QED BY <2>1, <2>2, <2>3 DEF ConnOK
<1>6. SocketOK'
  <2>1. m_socket # None => status'[m_socket] # "idle"
    BY <1>1 DEF IInv, SocketOK
  <2>. QED BY <1>2, <2>1 DEF IInv, TypeOK, SocketOK
<1>7. GameOK'
  BY DEF IInv, GameOK
<1>8. Listing'
  BY <1>1, <1>2 DEF IInv, Listing, Hosting, Reconnected, TypeOK
<1>. QED BY <1>3, <1>4, <1>5, <1>6, <1>7, <1>8 DEF IInv

\* Reading the greeting: the first one gives the client its ID, and no other
\* connection can have been greeted before; a later one is answered with the
\* claim, unless the connection is no longer open.
LEMMA HandleServerSetIDInv == IInv /\ HandleServerSetID => IInv'
<1>. SUFFICES ASSUME IInv, HandleServerSetID PROVE IInv'
  OBVIOUS
<1>. USE DEF HandleServerSetID, Arrived, socketVars, gameVars
<1>. DEFINE c == m_socket
<1>1. /\ c \in Conns /\ signaling = "recv" /\ down[c] # <<>>
      /\ Server!TypeOK /\ up \in [Conns -> Seq(UpPackets)]
      /\ m_client_id \in IDs \cup {None}
      /\ ClientID
  BY DEF IInv, TypeOK
<1>2. GreetingOK(c) /\ OwnIdentity(c) /\ ClaimOK(c)
  BY <1>1 DEF IInv, ConnOK
<1>3. /\ down[c] = <<Server!SetIDPacket(Uuid[c])>>
      /\ status[c] \notin {"idle", "dialed"}
      /\ ~Greeted(c) /\ ~claimed[c] /\ Claims(up[c]) = {}
      /\ home[Client] # c /\ c \notin missed
  BY <1>1, <1>2 DEF GreetingOK, OwnIdentity, ClaimOK, Greeted, ClientID
<1>4. Head(down[c]).data = Uuid[c] /\ Tail(down[c]) = <<>>
  BY <1>3 DEF Server!SetIDPacket, Server!ServerPacket
<1>5. /\ down' = [down EXCEPT ![c] = <<>>]
      /\ UNCHANGED <<status, peer_ID, advertising, CONNECTIONS, claimed>>
      /\ m_client_id # None =>
            /\ Send(ClaimPacket(m_client_id))
            /\ home' = home /\ m_client_id' = m_client_id /\ signaling' = "relist"
      /\ m_client_id = None =>
            /\ m_client_id' = Uuid[c] /\ up' = up /\ signaling' = signaling
            /\ home' = [home EXCEPT ![Client] = c]
      /\ missed' = missed
  BY <1>1, <1>4 DEF Server!ClientReads, Server!ClientLearnsID
<1>6. \A d \in Conns : /\ d # c => (Greeted(d)' <=> Greeted(d))
                       /\ d = c => Greeted(d)'
  BY <1>1, <1>3, <1>5 DEF Greeted, Server!TypeOK
<1>7. Server!TypeOK'
  <2>1. down' \in [Conns -> Seq(Server!Packets)]
    BY <1>1, <1>5, EmptySeq DEF Server!TypeOK
  <2>2. home' \in [{Client} -> Conns \cup {None}]
    BY <1>1, <1>5 DEF Server!TypeOK
  <2>. QED BY <1>1, <1>5, <2>1, <2>2 DEF Server!TypeOK
<1>8. (m_client_id = None <=> home[Client] = None) /\ home[Client] \in Conns \cup {None}
  BY <1>1, LobbyAssumption DEF ClientID, Server!TypeOK
<1>9. SocketOK' /\ GameOK'
  BY <1>1, <1>5, <1>6 DEF IInv, SocketOK, GameOK
<1>10. CASE m_client_id # None
  <2>1. /\ m_client_id = Uuid[home[Client]] /\ m_client_id \in IDs
        /\ home[Client] \in Conns
    BY <1>1, <1>8, <1>10 DEF ClientID
  <2>2. ClaimPacket(m_client_id) \in UpPackets
    BY <2>1, PackTypes
  <2>3. /\ up' \in [Conns -> Seq(UpPackets)]
        /\ \A d \in Conns : d # c => up'[d] = up[d]
        /\ status[c] = "open" => up'[c] = Append(up[c], ClaimPacket(m_client_id))
        /\ status[c] # "open" => up'[c] = up[c]
    <3>1. Append(up[c], ClaimPacket(m_client_id)) \in Seq(UpPackets)
      BY <1>1, <2>2, WritePacket
    <3>. QED BY <1>1, <1>3, <1>5, <1>10, <3>1, LobbyAssumption DEF Send
  <2>4. TypeOK'
    BY <1>5, <1>7, <1>10, <2>3 DEF IInv, TypeOK
  <2>5. ClientID'
    <3>1. PICK h \in Conns : h = home[Client]
      BY <2>1
    <3>2. Greeted(h) /\ ~claimed[h] /\ h # None /\ m_client_id = Uuid[h]
      BY <1>1, <1>8, <1>10, <3>1 DEF ClientID
    <3>3. Greeted(h)' /\ home'[Client] = h /\ ~claimed'[h] /\ m_client_id' = Uuid[h]
      BY <1>5, <1>6, <1>10, <3>1, <3>2
    <3>. QED BY <3>2, <3>3 DEF ClientID
  <2>6. ASSUME NEW d \in Conns, d # c PROVE ConnOK(d)'
    <3>1. up'[d] = up[d] /\ (Greeted(d)' <=> Greeted(d)) /\ down'[d] = down[d]
      BY <1>1, <1>5, <1>6, <2>3, <2>6 DEF Server!TypeOK
    <3>2. GreetingOK(d) /\ OwnIdentity(d) /\ ClaimOK(d)
      BY DEF IInv, ConnOK
    <3>3. GreetingOK(d)'
      BY <1>5, <3>1, <3>2 DEF GreetingOK
    <3>4. OwnIdentity(d)'
      BY <1>5, <1>10, <3>1, <3>2 DEF OwnIdentity
    <3>5. ClaimOK(d)'
      BY <1>5, <1>10, <3>1, <3>2 DEF ClaimOK
    <3>. QED BY <3>3, <3>4, <3>5 DEF ConnOK
  <2>7. ConnOK(c)'
    <3>1. GreetingOK(c)'
      BY <1>1, <1>3, <1>5 DEF GreetingOK, Server!TypeOK
    <3>2. OwnIdentity(c)'
      BY <1>2, <1>3, <1>5 DEF OwnIdentity
    <3>3. CASE status[c] = "open"
      <4>1. Claims(up'[c]) = {Len(up[c]) + 1} /\ up'[c][Len(up[c]) + 1] = ClaimPacket(m_client_id)
        <5>1. /\ up[c] \in Seq(UpPackets) /\ ClaimPacket(m_client_id).type = "ServerSetID"
              /\ up'[c] = Append(up[c], ClaimPacket(m_client_id))
          BY <1>1, <2>1, <2>3, <3>3, PackTypes
        <5>. QED BY <1>3, <2>2, <5>1, WritePacket
      <4>2. up'[c][Len(up[c]) + 1].data = Uuid[home[Client]]
        BY <2>1, <4>1, PackTypes
      <4>3. /\ home'[Client] \notin {None, c} /\ ~claimed'[c] /\ Greeted(c)'
            /\ home' = home /\ c \notin missed'
        BY <1>1, <1>3, <1>5, <1>6, <1>8, <1>10
      <4>4. ClaimOK(c)'
        BY <4>1, <4>2, <4>3 DEF ClaimOK
      <4>. QED BY <3>1, <3>2, <4>4 DEF ConnOK
    <3>4. CASE status[c] # "open"
      <4>1. Claims(up'[c]) = {} /\ status'[c] # "open" /\ c \notin missed'
        BY <1>3, <1>5, <2>3, <3>4
      <4>2. ClaimOK(c)'
        BY <4>1 DEF ClaimOK
      <4>. QED BY <3>1, <3>2, <4>2 DEF ConnOK
    <3>. QED BY <3>3, <3>4
  <2>8. Listing'
    BY <1>5, <1>10 DEF Listing
  <2>. QED BY <1>9, <2>4, <2>5, <2>6, <2>7, <2>8 DEF IInv
<1>11. CASE m_client_id = None
  <2>1. home[Client] = None /\ home'[Client] = c /\ up' = up
    BY <1>5, <1>8, <1>11, <1>1 DEF Server!TypeOK
  <2>2. TypeOK'
    BY <1>1, <1>5, <1>7, <1>11, LobbyAssumption DEF IInv, TypeOK
  <2>3. ClientID'
    BY <1>1, <1>3, <1>5, <1>6, <1>11, <2>1, LobbyAssumption DEF ClientID
  <2>4. ASSUME NEW d \in Conns PROVE ConnOK(d)'
    <3>1. GreetingOK(d) /\ OwnIdentity(d) /\ ClaimOK(d)
      BY DEF IInv, ConnOK
    <3>2. GreetingOK(d)'
      BY <1>1, <1>3, <1>5, <2>1, <3>1 DEF GreetingOK, Server!TypeOK
    <3>3. ~claimed[d] /\ Claims(up[d]) = {}
      BY <2>1, <3>1 DEF OwnIdentity, ClaimOK
    <3>4. OwnIdentity(d)'
      BY <1>5, <3>1, <3>3 DEF OwnIdentity
    <3>5. status[d] = "open" /\ Greeted(d)' => d = c \/ d \in missed
      BY <1>1, <1>6, <2>1, <3>1, <3>3, LobbyAssumption DEF ClaimOK
    <3>6. d \in missed => d # c /\ Greeted(d)'
      BY <1>3, <1>6, <3>1 DEF ClaimOK
    <3>7. ClaimOK(d)'
      BY <1>5, <2>1, <3>3, <3>5, <3>6 DEF ClaimOK
    <3>. QED BY <3>2, <3>4, <3>7 DEF ConnOK
  <2>5. Listing'
    BY <2>1 DEF Listing, Hosting, Reconnected
  <2>. QED BY <1>9, <2>2, <2>3, <2>4, <2>5 DEF IInv
<1>. QED BY <1>10, <1>11

\* Missing the greeting: nothing will be claimed on this connection.
LEMMA MissServerSetIDInv == IInv /\ MissServerSetID => IInv'
<1>. SUFFICES ASSUME IInv, MissServerSetID PROVE IInv'
  OBVIOUS
<1>. USE DEF MissServerSetID, Arrived, socketVars, gameVars
<1>. DEFINE c == m_socket
<1>1. /\ c \in Conns /\ signaling = "recv" /\ down[c] # <<>>
      /\ Server!TypeOK /\ ClientID
  BY DEF IInv, TypeOK
<1>2. GreetingOK(c) /\ OwnIdentity(c) /\ ClaimOK(c)
  BY <1>1 DEF IInv, ConnOK
<1>3. /\ down[c] = <<Server!SetIDPacket(Uuid[c])>>
      /\ status[c] \notin {"idle", "dialed"}
      /\ ~Greeted(c) /\ ~claimed[c] /\ Claims(up[c]) = {}
      /\ home[Client] # c /\ c \notin missed
  BY <1>1, <1>2, LobbyAssumption DEF GreetingOK, OwnIdentity, ClaimOK, Greeted, ClientID
<1>4. /\ down' = [down EXCEPT ![c] = <<>>]
      /\ missed' = missed \cup {c}
      /\ UNCHANGED <<status, peer_ID, advertising, CONNECTIONS, claimed, home>>
      /\ UNCHANGED <<up, m_client_id, m_socket, m_current_state, signaling>>
      /\ UNCHANGED <<m_is_advertising, game, calls>>
  <2>1. Tail(down[c]) = <<>>
    BY <1>3
  <2>. QED BY <1>1, <2>1 DEF Server!ClientReads
<1>5. \A d \in Conns : /\ d # c => (Greeted(d)' <=> Greeted(d))
                       /\ d = c => Greeted(d)'
  BY <1>1, <1>3, <1>4 DEF Greeted, Server!TypeOK
<1>6. TypeOK'
  <2>1. down' \in [Conns -> Seq(Server!Packets)]
    BY <1>1, <1>4, EmptySeq DEF Server!TypeOK
  <2>2. Server!TypeOK'
    BY <1>1, <1>4, <2>1 DEF Server!TypeOK
  <2>. QED BY <1>1, <1>4, <2>2 DEF IInv, TypeOK
<1>7. ClientID'
  <2>1. home[Client] \in Conns \cup {None}
    BY <1>1 DEF Server!TypeOK
  <2>. QED BY <1>1, <1>4, <1>5, <2>1 DEF ClientID
<1>8. ASSUME NEW d \in Conns PROVE ConnOK(d)'
  <2>1. GreetingOK(d) /\ OwnIdentity(d) /\ ClaimOK(d)
    BY DEF IInv, ConnOK
  <2>2. GreetingOK(d)'
    BY <1>1, <1>4, <2>1 DEF GreetingOK, Server!TypeOK
  <2>3. OwnIdentity(d)'
    BY <1>3, <1>4, <1>5, <2>1 DEF OwnIdentity
  <2>4. ClaimOK(d)'
    BY <1>3, <1>4, <1>5, <2>1 DEF ClaimOK
  <2>. QED BY <2>2, <2>3, <2>4 DEF ConnOK
<1>9. SocketOK' /\ GameOK'
  BY <1>1, <1>4, <1>5 DEF IInv, SocketOK, GameOK
<1>10. Listing'
  BY <1>4 DEF Listing, Hosting
<1>. QED BY <1>6, <1>7, <1>8, <1>9, <1>10 DEF IInv

\* The server reads a packet of the lobby.
LEMMA ServerReadsTalkInv ==
    ASSUME IInv, NEW c \in Conns, ServerReads(c), Head(up[c]).type # "ServerSetID"
    PROVE  IInv'
<1>. USE DEF clientOnly, socketVars, gameVars, idVars
<1>. DEFINE p == Head(up[c])
<1>1. /\ Server!TypeOK /\ up \in [Conns -> Seq(UpPackets)]
      /\ status[c] = "open" /\ up[c] # <<>> /\ up[c] \in Seq(UpPackets)
      /\ up' = [up EXCEPT ![c] = Tail(@)]
  BY DEF IInv, TypeOK, ServerReads
<1>2. /\ Tail(up[c]) \in Seq(UpPackets)
      /\ \A i \in Claims(Tail(up[c])) : i + 1 \in Claims(up[c]) /\ Tail(up[c])[i] = up[c][i + 1]
      /\ \A i \in Claims(up[c]) : i = 1 \/ i - 1 \in Claims(Tail(up[c]))
      /\ 1 \notin Claims(up[c])
  BY <1>1, ReadPacket
<1>3. /\ UNCHANGED <<status, peer_ID, CONNECTIONS, down, claimed, home>>
      /\ UNCHANGED <<m_socket, m_current_state, m_client_id, missed, signaling>>
      /\ UNCHANGED <<m_is_advertising, game, calls>>
  BY DEF ServerReads, Server!StartAdvertising, Server!StopAdvertising
<1>4. \/ p.type = "StartAdvertising" /\ advertising' = [advertising EXCEPT ![c] = TRUE]
      \/ p.type = "StopAdvertising" /\ advertising' = [advertising EXCEPT ![c] = FALSE]
  BY DEF ServerReads, Server!StartAdvertising, Server!StopAdvertising
<1>5. TypeOK'
  <2>1. advertising' \in [Conns -> BOOLEAN]
    BY <1>1, <1>4 DEF Server!TypeOK
  <2>2. Server!TypeOK'
    BY <1>1, <1>3, <2>1 DEF Server!TypeOK
  <2>. QED BY <1>1, <1>2, <1>3, <2>2 DEF IInv, TypeOK
<1>6. ClientID' /\ SocketOK' /\ GameOK'
  BY <1>3 DEF IInv, ClientID, SocketOK, GameOK, Greeted
<1>7. ASSUME NEW d \in Conns PROVE ConnOK(d)'
  <2>1. GreetingOK(d) /\ OwnIdentity(d) /\ ClaimOK(d)
    BY DEF IInv, ConnOK
  <2>2. GreetingOK(d)' /\ OwnIdentity(d)'
    BY <1>1, <1>3, <2>1 DEF GreetingOK, OwnIdentity, Greeted
  <2>3. CASE d # c
    <3>1. up'[d] = up[d]
      BY <1>1, <2>3
    <3>2. ClaimOK(d)'
      BY <1>3, <2>1, <3>1 DEF ClaimOK, Greeted
    <3>. QED BY <2>2, <3>2 DEF ConnOK
  <2>4. CASE d = c
    <3>1. up'[d] = Tail(up[c])
      BY <1>1, <2>4
    <3>2. \A i, j \in Claims(up'[d]) : i = j
      <4>1. \A i, j \in Claims(Tail(up[c])) : i + 1 = j + 1 /\ i \in Nat /\ j \in Nat
        BY <1>2, <2>1, <2>4 DEF ClaimOK, Claims
      <4>. QED BY <3>1, <4>1
    <3>3. ASSUME NEW i \in Claims(up'[d])
          PROVE  /\ home[Client] \notin {None, d} /\ ~claimed[d] /\ Greeted(d)
                 /\ up'[d][i].data = Uuid[home[Client]]
      <4>1. i + 1 \in Claims(up[d]) /\ up'[d][i] = up[d][i + 1]
        BY <1>2, <2>4, <3>1, <3>3
      <4>. QED BY <2>1, <4>1 DEF ClaimOK
    <3>4. Claims(up[c]) # {} => Claims(up'[d]) # {}
      BY <1>2, <3>1
    <3>5. Claims(up[c]) = {} => Claims(up'[d]) = {}
      BY <1>2, <3>1
    <3>6. ClaimOK(d)'
      BY <1>1, <1>3, <2>1, <2>4, <3>2, <3>3, <3>4, <3>5 DEF ClaimOK, Greeted
    <3>. QED BY <2>2, <3>6 DEF ConnOK
  <2>. QED BY <2>3, <2>4
<1>8. Listing'
  <2>. SUFFICES ASSUME Hosting', signaling \notin {"relist", "resend"}, game = <<"idle">>
                PROVE  ListedAfter(up[m_socket], advertising[m_socket])'
    BY <1>3 DEF Listing
  <2>1. Hosting /\ m_socket \in Conns
    BY <1>3 DEF IInv, TypeOK, Hosting, Greeted, Reconnected
  <2>2. ListedAfter(up[m_socket], advertising[m_socket])
    BY <2>1 DEF IInv, Listing
  <2>3. CASE m_socket # c
    <3>1. up'[m_socket] = up[m_socket] /\ (advertising'[m_socket] <=> advertising[m_socket])
      BY <1>1, <1>4, <2>1, <2>3 DEF Server!TypeOK
    <3>. QED BY <1>3, <2>2, <3>1 DEF ListedAfter
  <2>4. CASE m_socket = c
    <3>1. advertising[c] \in BOOLEAN /\ up'[c] = Tail(up[c])
      BY <1>1 DEF Server!TypeOK
    <3>2. \/ p.type = "StartAdvertising" /\ ListedAfter(Tail(up[c]), TRUE)
          \/ p.type = "StopAdvertising" /\ ListedAfter(Tail(up[c]), FALSE)
      BY <1>1, <2>2, <2>4, <3>1, ReadPacket
    <3>3. \/ p.type = "StartAdvertising" /\ advertising'[c] = TRUE
          \/ p.type = "StopAdvertising" /\ advertising'[c] = FALSE
      BY <1>1, <1>4 DEF Server!TypeOK
    <3>4. ListedAfter(up'[c], advertising'[c])
      BY <3>1, <3>2, <3>3
    <3>. QED BY <1>3, <2>4, <3>4
  <2>. QED BY <2>3, <2>4
<1>. QED BY <1>5, <1>6, <1>7, <1>8 DEF IInv

\* The server reads the claim, the only one on its way.
LEMMA ServerReadsClaimInv ==
    ASSUME IInv, NEW c \in Conns, ServerReads(c), Head(up[c]).type = "ServerSetID"
    PROVE  IInv'
<1>. USE DEF clientOnly, socketVars, gameVars, idVars
<1>. DEFINE id == Head(up[c]).data
<1>1. /\ Server!TypeOK /\ up \in [Conns -> Seq(UpPackets)]
      /\ status[c] = "open" /\ up[c] # <<>> /\ up[c] \in Seq(UpPackets)
      /\ up' = [up EXCEPT ![c] = Tail(@)]
  BY DEF IInv, TypeOK, ServerReads
<1>2. /\ Tail(up[c]) \in Seq(UpPackets)
      /\ \A i \in Claims(Tail(up[c])) : i + 1 \in Claims(up[c]) /\ Tail(up[c])[i] = up[c][i + 1]
      /\ 1 \in Claims(up[c]) /\ Head(up[c]) = up[c][1]
  BY <1>1, ReadPacket
<1>3. /\ Server!ServerSetID(c, id)
      /\ claimed' = [claimed EXCEPT ![c] = TRUE] /\ home' = home
      /\ UNCHANGED <<m_socket, m_current_state, m_client_id, missed, signaling>>
      /\ UNCHANGED <<m_is_advertising, game, calls>>
  BY DEF ServerReads
<1>4. /\ home[Client] \in Conns \ {c} /\ home[Client] # None /\ ~claimed[c] /\ Greeted(c)
      /\ id = Uuid[home[Client]] /\ id \in IDs
      /\ \A i, j \in Claims(up[c]) : i = j
  <2>1. ClaimOK(c) /\ home[Client] \in Conns \cup {None}
    BY <1>1 DEF IInv, ConnOK, Server!TypeOK
  <2>2. /\ home[Client] \notin {None, c} /\ ~claimed[c] /\ Greeted(c)
        /\ id = Uuid[home[Client]]
        /\ \A i, j \in Claims(up[c]) : i = j
    BY <1>2, <2>1 DEF ClaimOK
  <2>. QED BY <2>1, <2>2, LobbyAssumption
<1>5. Claims(Tail(up[c])) = {}
  <2>. SUFFICES ASSUME NEW i \in Claims(Tail(up[c])) PROVE FALSE
    OBVIOUS
  <2>1. i + 1 = 1 /\ i \in 1..Len(Tail(up[c]))
    BY <1>2, <1>4 DEF Claims
  <2>2. i \in Nat /\ i >= 1
    BY <2>1
  <2>. QED BY <2>1, <2>2
<1>6. /\ peer_ID' = [peer_ID EXCEPT ![c] = id]
      /\ UNCHANGED <<advertising, down>>
      /\ \A d \in Conns \ {c} : status'[d] = status[d]
      /\ status'[c] \in {"open", "closing"}
      /\ status' \in [Conns -> Server!Status]
      /\ CONNECTIONS' \in [IDs -> Conns \cup {None}]
  <2>1. status' = status \/ status' = [status EXCEPT ![c] = "closing"]
    BY <1>3 DEF Server!ServerSetID
  <2>2. CONNECTIONS' \in [IDs -> Conns \cup {None}]
    BY <1>1, <1>3, <1>4 DEF Server!ServerSetID, Server!TypeOK
  <2>3. status' \in [Conns -> Server!Status]
    BY <1>1, <2>1 DEF Server!TypeOK, Server!Status
  <2>4. status'[c] \in {"open", "closing"} /\ \A d \in Conns \ {c} : status'[d] = status[d]
    BY <1>1, <2>1 DEF Server!TypeOK
  <2>. QED BY <1>3, <2>2, <2>3, <2>4 DEF Server!ServerSetID
<1>7. \A d \in Conns : Greeted(d)' <=> Greeted(d)
  BY <1>1, <1>6 DEF Greeted
<1>8. TypeOK'
  <2>1. peer_ID' \in [Conns -> IDs] /\ claimed' \in [Conns -> BOOLEAN]
    BY <1>1, <1>3, <1>4, <1>6 DEF Server!TypeOK
  <2>2. Server!TypeOK'
    BY <1>1, <1>3, <1>6, <2>1 DEF Server!TypeOK
  <2>. QED BY <1>1, <1>2, <1>3, <2>2 DEF IInv, TypeOK
<1>9. ClientID'
  <2>1. PICK h \in Conns : h = home[Client]
    BY <1>4
  <2>2. /\ Greeted(h) /\ ~claimed[h] /\ h # None /\ h # c
        /\ m_client_id = Uuid[h]
    BY <1>4, <2>1 DEF IInv, ClientID
  <2>3. /\ Greeted(h)' /\ ~claimed'[h] /\ home'[Client] = h
        /\ m_client_id' = Uuid[h]
    BY <1>1, <1>3, <1>7, <2>1, <2>2 DEF Server!TypeOK
  <2>. QED BY <2>2, <2>3 DEF ClientID
<1>10. ASSUME NEW d \in Conns PROVE ConnOK(d)'
  <2>1. GreetingOK(d) /\ OwnIdentity(d) /\ ClaimOK(d)
    BY DEF IInv, ConnOK
  <2>2. CASE d # c
    <3>1. /\ up'[d] = up[d] /\ (claimed'[d] <=> claimed[d]) /\ peer_ID'[d] = peer_ID[d]
          /\ status'[d] = status[d]
      BY <1>1, <1>3, <1>6, <2>2 DEF Server!TypeOK
    <3>2. GreetingOK(d)'
      BY <1>6, <2>1, <3>1 DEF GreetingOK
    <3>3. OwnIdentity(d)'
      BY <1>3, <1>7, <2>1, <3>1 DEF OwnIdentity
    <3>4. ClaimOK(d)'
      BY <1>3, <1>7, <2>1, <3>1 DEF ClaimOK
    <3>. QED BY <3>2, <3>3, <3>4 DEF ConnOK
  <2>3. CASE d = c
    <3>1. /\ Claims(up'[c]) = {} /\ claimed'[c] /\ peer_ID'[c] = id
          /\ status'[c] # "idle"
      BY <1>1, <1>3, <1>5, <1>6 DEF Server!TypeOK
    <3>2. GreetingOK(c)'
      BY <1>4, <1>6, <3>1 DEF GreetingOK, Greeted
    <3>3. OwnIdentity(c)'
      BY <1>3, <1>4, <1>7, <3>1 DEF OwnIdentity
    <3>4. ClaimOK(c)'
      <4>1. c \notin missed'
        BY <1>2, <1>3, <2>1, <2>3 DEF ClaimOK
      <4>. QED BY <3>1, <4>1 DEF ClaimOK
    <3>. QED BY <2>3, <3>2, <3>3, <3>4 DEF ConnOK
  <2>. QED BY <2>2, <2>3
<1>11. SocketOK'
  <2>1. m_socket # None => m_socket \in Conns /\ status'[m_socket] # "idle"
    BY <1>6 DEF IInv, SocketOK, TypeOK
  <2>. QED BY <1>3, <1>7, <2>1 DEF IInv, SocketOK
<1>12. GameOK'
  BY <1>3 DEF IInv, GameOK
<1>13. Listing'
  <2>. SUFFICES ASSUME Hosting', signaling \notin {"relist", "resend"}, game = <<"idle">>
                PROVE  ListedAfter(up[m_socket], advertising[m_socket])'
    BY <1>3 DEF Listing
  <2>1. Hosting /\ m_socket \in Conns
    BY <1>1, <1>3, <1>6, <1>7 DEF IInv, TypeOK, Hosting, Reconnected
  <2>2. ListedAfter(up[m_socket], advertising[m_socket])
    BY <2>1 DEF IInv, Listing
  <2>3. ListedAfter(up'[m_socket], advertising[m_socket])
    <3>1. CASE m_socket # c
      BY <1>1, <2>1, <2>2, <3>1
    <3>2. CASE m_socket = c
      <4>1. advertising[c] \in BOOLEAN /\ up'[c] = Tail(up[c])
        BY <1>1 DEF Server!TypeOK
      <4>. QED BY <1>1, <2>2, <3>2, <4>1, ReadPacket
    <3>. QED BY <3>1, <3>2
  <2>. QED BY <1>3, <1>6, <2>3
<1>. QED BY <1>8, <1>9, <1>10, <1>11, <1>12, <1>13 DEF IInv

LEMMA NextInv == IInv /\ [Next]_vars => IInv'
<1>. SUFFICES ASSUME IInv, [Next]_vars PROVE IInv'
  OBVIOUS
<1>1. CASE SignalingThread
  BY <1>1, TryInitInv, ResolveFailsInv, ConnectFailsInv, ReadyInv,
     HandleServerSetIDInv, MissServerSetIDInv, CheckAdvertisingInv,
     ResendStartInv, ReceiveErrorInv, DeinitInv, ConnectInv
  DEF SignalingThread
<1>2. CASE GameThread
  BY <1>2, CallInv, SendCheckInv, SendWriteInv DEF GameThread
<1>3. ASSUME NEW c \in Conns, ServerAccepts(c) \/ ServerLoses(c) \/ ServerReads(c)
      PROVE  IInv'
  BY <1>3, ServerAcceptsInv, ServerLosesInv, ServerReadsTalkInv, ServerReadsClaimInv
<1>4. CASE UNCHANGED vars
  <2>. USE <1>4 DEF vars, serverVars, socketVars, gameVars, idVars
  <2>1. TypeOK'
    BY DEF IInv, TypeOK, Server!TypeOK
  <2>2. SocketOK' /\ GameOK'
    BY DEF IInv, SocketOK, GameOK, Greeted
  <2>3. Listing'
    BY DEF IInv, Listing, Hosting, Greeted, Reconnected
  <2>. QED BY <2>1, <2>2, <2>3, ConnFrame DEF IInv
<1>. QED BY <1>1, <1>2, <1>3, <1>4 DEF Next

\* Every reachable state satisfies the inductive invariant.
THEOREM Invariance == Spec => []IInv
BY InitInv, NextInv, PTL DEF Spec

\* The variables keep their types.
THEOREM TypeCorrect == Spec => []TypeOK
<1>1. IInv => TypeOK
  BY DEF IInv
<1>. QED BY <1>1, Invariance, PTL

\* Settled, the server knows the connection by the ID the client calls its own
\* exactly if its greeting came in one piece (CrownLink.cpp:71-81,
\* Signaling.cpp:127-139).  If it did, the connection is the one that gave the
\* ID, or its claim has been read since; if not, no claim was ever made, and the
\* client's ID, if it has one, is that of another connection.
THEOREM IdentityKept == Spec => []IdentityRestored
<1>1. IInv => IdentityRestored
  <2>. SUFFICES ASSUME IInv, Quiescent
                PROVE  peer_ID[m_socket] = m_client_id <=> m_socket \notin missed
    BY DEF IdentityRestored
  <2>. DEFINE c == m_socket
  <2>1. c \in Conns /\ status[c] = "open" /\ Greeted(c) /\ Claims(up[c]) = {}
    BY DEF IInv, TypeOK, Quiescent, Greeted, Claims
  <2>2. OwnIdentity(c) /\ ClaimOK(c) /\ ClientID
    BY <2>1 DEF IInv, ConnOK
  <2>3. c # None /\ home[Client] \in Conns \cup {None}
    BY <2>1, LobbyAssumption DEF IInv, TypeOK, Server!TypeOK
  <2>4. ASSUME c \notin missed PROVE peer_ID[c] = m_client_id
    <3>1. home[Client] = c \/ claimed[c]
      BY <2>1, <2>2, <2>4 DEF ClaimOK
    <3>2. home[Client] # None /\ peer_ID[c] = Uuid[home[Client]]
      BY <2>2, <2>3, <3>1 DEF OwnIdentity, ClientID
    <3>. QED BY <2>2, <3>2 DEF ClientID
  <2>5. ASSUME c \in missed PROVE peer_ID[c] # m_client_id
    <3>1. home[Client] # c /\ peer_ID[c] = Uuid[c] /\ Uuid[c] \in IDs
      BY <2>1, <2>2, <2>5, LobbyAssumption DEF ClaimOK, OwnIdentity
    <3>2. CASE home[Client] = None
      BY <2>2, <3>1, <3>2, LobbyAssumption DEF ClientID
    <3>3. CASE home[Client] \in Conns
      <4>1. m_client_id = Uuid[home[Client]]
        BY <2>2, <3>3, LobbyAssumption DEF ClientID
      <4>. QED BY <2>1, <3>1, <3>3, <4>1, LobbyAssumption
    <3>. QED BY <2>3, <3>2, <3>3
  <2>. QED BY <2>4, <2>5
<1>. QED BY <1>1, Invariance, PTL

\* Settled, a lobby hosted on a connection made by a reconnect is listed, for
\* every interleaving of the two threads, provided that the greeting was read in
\* one piece (CrownLink.cpp:74-76, 185-186).
THEOREM HostedListed == Spec => []HostedAfterReconnect
<1>1. IInv => HostedAfterReconnect
  <2>. SUFFICES ASSUME IInv, Quiescent, Reconnected, m_socket \notin missed,
                       m_is_advertising
                PROVE  advertising[m_socket]
    BY DEF HostedAfterReconnect
  <2>1. Hosting /\ signaling = "recv" /\ game = <<"idle">> /\ up[m_socket] = <<>>
    BY DEF Quiescent, Hosting, Greeted
  <2>2. ListedAfter(<<>>, advertising[m_socket])
    BY <2>1 DEF IInv, Listing
  <2>. QED BY <2>2 DEF ListedAfter
<1>. QED BY <1>1, Invariance, PTL

-----------------------------------------------------------------------------

\* A step of the composition is a step of SignalingServer or leaves the
\* server's variables alone.  The reads are its claims (ClaimOK) or packets of
\* DataReceived, and the client learns its ID once (ClientID).
LEMMA ReadsSimulated ==
    ASSUME IInv, NEW c \in Conns, ServerReads(c)
    PROVE  Server!Next
<1>1. up[c] \in Seq(UpPackets) /\ up[c] # <<>>
  BY DEF IInv, TypeOK, ServerReads
<1>2. CASE Head(up[c]).type # "ServerSetID"
  <2>1. Server!DataReceived(c)
    BY <1>2 DEF ServerReads, Server!DataReceived, Server!clientVars
  <2>. QED BY <2>1 DEF Server!Next
<1>3. CASE Head(up[c]).type = "ServerSetID"
  <2>1. 1 \in Claims(up[c]) /\ Head(up[c]) = up[c][1]
    BY <1>1, <1>3, ReadPacket
  <2>2. /\ home[Client] \notin {None, c} /\ ~claimed[c]
        /\ Head(up[c]).data = Uuid[home[Client]]
    BY <2>1 DEF IInv, ConnOK, ClaimOK
  <2>3. /\ Server!ServerSetID(c, Head(up[c]).data)
        /\ claimed' = [claimed EXCEPT ![c] = TRUE] /\ home' = home
    BY <1>3 DEF ServerReads
  <2>4. Server!Claim(c)
    BY <2>2, <2>3 DEF Server!Claim
  <2>. QED BY <2>4 DEF Server!Next
<1>. QED BY <1>2, <1>3

LEMMA GreetingSimulated ==
    ASSUME IInv, HandleServerSetID \/ MissServerSetID
    PROVE  Server!Next
<1>1. m_socket \in Conns
  BY DEF IInv, TypeOK, HandleServerSetID, MissServerSetID, Arrived
<1>2. Server!ClientReads(m_socket) \/ Server!ClientLearnsID(m_socket)
  BY DEF HandleServerSetID, MissServerSetID
<1>. QED BY <1>1, <1>2 DEF Server!Next

LEMMA StepSimulated == IInv /\ [Next]_vars => [Server!Next]_(Server!vars)
<1>. SUFFICES ASSUME IInv, [Next]_vars PROVE Server!Next \/ UNCHANGED serverVars
  BY DEF serverVars, Server!vars
<1>1. CASE TryInit \/ ResolveFails \/ ConnectFails \/ Ready \/ CheckAdvertising
           \/ ResendStart \/ ReceiveError \/ Deinit
  BY <1>1
  DEF TryInit, ResolveFails, ConnectFails, Ready, CheckAdvertising, ResendStart,
      ReceiveError, Deinit
<1>2. CASE GameThread
  BY <1>2 DEF GameThread, StartAdvertising, StopAdvertising, SendCheck, SendWrite
<1>3. CASE HandleServerSetID \/ MissServerSetID
  BY <1>3, GreetingSimulated
<1>4. ASSUME NEW c \in Conns, Connect(c)
      PROVE  Server!Next
  BY <1>4 DEF Connect, Server!Next
<1>5. ASSUME NEW c \in Conns, ServerAccepts(c) \/ ServerLoses(c)
      PROVE  Server!Next
  BY <1>5 DEF ServerAccepts, ServerLoses, Server!clientVars, Server!Next
<1>6. ASSUME NEW c \in Conns, ServerReads(c)
      PROVE  Server!Next
  BY <1>6, ReadsSimulated
<1>7. CASE UNCHANGED vars
  BY <1>7 DEF vars
<1>. QED BY <1>1, <1>2, <1>3, <1>4, <1>5, <1>6, <1>7 DEF Next, SignalingThread

\* The client is one of those SignalingServer assumes: it claims only its own
\* ID, at most once per connection, never on the connection that gave it
\* (CrownLink.cpp:72-81).
THEOREM ImplementsServer == Spec => ServerSpec
<1>1. Init => Server!Init
  BY DEF Init
<1>. QED BY <1>1, Invariance, StepSimulated, PTL DEF Spec, ServerSpec, Server!Spec

-----------------------------------------------------------------------------
(* SignalingServerProofs assumes of the clients what ImplementsServer shows   *)
(* of this one, so its invariant holds of the composition.                    *)

Proofs == INSTANCE SignalingServerProofs WITH
    Clients <- {Client}, Owner <- [c \in Conns |-> Client],
    PeerKinds <- {}, TurnCreds <- FALSE, MaxDown <- 0

\* The two instances of SignalingServer are one specification.
LEMMA SameConnectionSteps ==
    ASSUME NEW c \in Conns
    PROVE  /\ Server!Dial(c) <=> Proofs!Dial(c)
           /\ Server!ConnectionMade(c) <=> Proofs!ConnectionMade(c)
           /\ Server!ConnectionLost(c) <=> Proofs!ConnectionLost(c)
           /\ Server!ClientReads(c) <=> Proofs!ClientReads(c)
           /\ Server!ClientLearnsID(c) <=> Proofs!ClientLearnsID(c)
           /\ UNCHANGED Server!clientVars <=> UNCHANGED Proofs!clientVars
BY DEF Server!Dial, Server!ConnectionMade, Server!ConnectionLost,
       Server!ClientReads, Server!ClientLearnsID, Server!Greeting,
       Server!SetIDPacket, Server!ServerPacket, Server!TurnPacket, Server!clientVars,
       Proofs!Dial, Proofs!ConnectionMade, Proofs!ConnectionLost,
       Proofs!ClientReads, Proofs!ClientLearnsID, Proofs!Greeting,
       Proofs!SetIDPacket, Proofs!ServerPacket, Proofs!TurnPacket, Proofs!clientVars

LEMMA SameDataSteps ==
    ASSUME NEW c \in Conns
    PROVE  Server!DataReceived(c) <=> Proofs!DataReceived(c)
BY DEF Server!DataReceived, Server!StartAdvertising, Server!StopAdvertising,
       Server!RequestAdvertisers, Server!ServerEcho, Server!SendTurnCreds,
       Server!Forward, Server!Room, Server!Write, Server!AdvertisersFor,
       Server!AdvertisersPacket, Server!EchoPacket, Server!ServerPacket,
       Server!TurnPacket, Server!PeerPacket, Server!clientVars,
       Proofs!DataReceived, Proofs!StartAdvertising, Proofs!StopAdvertising,
       Proofs!RequestAdvertisers, Proofs!ServerEcho, Proofs!SendTurnCreds,
       Proofs!Forward, Proofs!Room, Proofs!Write, Proofs!AdvertisersFor,
       Proofs!AdvertisersPacket, Proofs!EchoPacket, Proofs!ServerPacket,
       Proofs!TurnPacket, Proofs!PeerPacket, Proofs!clientVars

LEMMA SameNext == Server!Next <=> Proofs!Next
<1>1. ASSUME NEW c \in Conns
      PROVE  Server!Claim(c) <=> Proofs!Claim(c)
  BY DEF Server!Claim, Server!ServerSetID, Proofs!Claim, Proofs!ServerSetID
<1>. QED BY <1>1, SameConnectionSteps, SameDataSteps DEF Server!Next, Proofs!Next

\* Composed with its client the server keeps its registry consistent and never
\* raises in ServerSetID, so no connection is closed for a claim
\* (server.py:144-166, 233-236; CrownLink.cpp:71-81).
THEOREM ServerSafe ==
    Spec => [](Server!RegistryKeys /\ Server!NoGhost /\ Server!SetIDNeverRaises)
<1>1. Proofs!ServerAssumption
  BY LobbyAssumption DEF Proofs!ServerAssumption
<1>2. Proofs!Spec => []Proofs!IInv
  BY <1>1, Proofs!Invariance
<1>3. Server!Init => Proofs!Init
  BY DEF Server!Init, Proofs!Init
<1>4. [Server!Next]_(Server!vars) => [Proofs!Next]_(Proofs!vars)
  BY SameNext DEF Server!vars, Proofs!vars
<1>5. Proofs!IInv => Server!RegistryKeys /\ Server!NoGhost /\ Server!SetIDNeverRaises
  BY DEF Proofs!IInv, Proofs!RegistryKeys, Proofs!NoGhost, Proofs!SetIDNeverRaises,
         Server!RegistryKeys, Server!NoGhost, Server!SetIDNeverRaises
<1>. QED
  BY <1>2, <1>3, <1>4, <1>5, ImplementsServer, PTL DEF ServerSpec, Server!Spec, Proofs!Spec

=============================================================================
