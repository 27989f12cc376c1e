---------------------- MODULE SignalingServerProofs ----------------------
(***************************************************************************)
(* Proofs about SignalingServer, for any number of connections and clients.*)
(***************************************************************************)
EXTENDS SignalingServer, SequenceTheorems, TLAPS

\* A packet queued on connection c may be there (one instance of Provenance).
PacketOK(p, c) ==
    p.type \in PeerKinds =>
        /\ p.peer \in Identities(p.via)
        /\ p.to \in Identities(c)

QueueOK(s, c) == \A i \in 1..Len(s) : PacketOK(s[i], c)

\* A client learns its ID on a connection of its own.
HomeIsOwn ==
    \A k \in Clients : home[k] # None => Owner[home[k]] = k

\* A connection goes by the ID it was born with until it has claimed its
\* client's, which it does not do before the client has one.
OwnIdentity ==
    \A c \in Conns :
        IF claimed[c]
        THEN /\ home[Owner[c]] \notin {None, c}
             /\ peer_ID[c] = Uuid[home[Owner[c]]]
        ELSE peer_ID[c] = Uuid[c]

\* The inductive invariant.  RegistryKeys alone is not inductive: re-keying
\* keeps it only because the entry that is popped is the claimant's own,
\* which is SetIDNeverRaises, and that one holds because no other connection
\* can carry the claimant's birth ID, which is OwnIdentity.
IInv ==
    /\ TypeOK
    /\ HomeIsOwn
    /\ OwnIdentity
    /\ RegistryKeys
    /\ NoGhost
    /\ OnlySiblingsDisplace
    /\ SetIDNeverRaises
    /\ Provenance

-----------------------------------------------------------------------------

\* What the lemmas below need to know of the identities.
IdentityInv ==
    /\ peer_ID \in [Conns -> IDs]
    /\ claimed \in [Conns -> BOOLEAN]
    /\ home \in [Clients -> Conns \cup {None}]
    /\ HomeIsOwn
    /\ OwnIdentity

LEMMA OwnIdentities ==
    ASSUME IdentityInv, NEW c \in Conns
    PROVE  peer_ID[c] \in Identities(c)
<1>1. CASE claimed[c]
  <2>1. /\ home[Owner[c]] \in Conns
        /\ Owner[home[Owner[c]]] = Owner[c]
        /\ peer_ID[c] = Uuid[home[Owner[c]]]
    BY <1>1, ServerAssumption DEF IdentityInv, OwnIdentity, HomeIsOwn
  <2>. QED BY <2>1 DEF Identities
<1>2. CASE ~claimed[c]
  BY <1>2 DEF IdentityInv, OwnIdentity, Identities
<1>. QED BY <1>1, <1>2

\* Only siblings can share an ID.
LEMMA SharedIdentity ==
    ASSUME IdentityInv, NEW c \in Conns, NEW d \in Conns, peer_ID[c] = peer_ID[d]
    PROVE  Owner[c] = Owner[d]
BY OwnIdentities, ServerAssumption DEF Identities

\* The birth ID of a connection that is not its client's home is used by no
\* other connection.
LEMMA BirthIDIsPrivate ==
    ASSUME IdentityInv, NEW c \in Conns, NEW d \in Conns, c # d,
           home[Owner[d]] # d
    PROVE  peer_ID[c] # Uuid[d]
<1>. SUFFICES ASSUME peer_ID[c] = Uuid[d] PROVE FALSE
  OBVIOUS
<1>1. claimed[c] /\ home[Owner[c]] \in Conns /\ Uuid[home[Owner[c]]] = Uuid[d]
  BY ServerAssumption DEF IdentityInv, OwnIdentity
<1>2. home[Owner[c]] = d
  BY <1>1, ServerAssumption
<1>3. Owner[d] = Owner[c]
  BY <1>1, <1>2, ServerAssumption DEF IdentityInv, HomeIsOwn
<1>. QED BY <1>2, <1>3

LEMMA QueueConcat ==
    ASSUME NEW c \in Conns, NEW s \in Seq(Packets), NEW t \in Seq(Packets),
           QueueOK(s, c), QueueOK(t, c)
    PROVE  s \o t \in Seq(Packets) /\ QueueOK(s \o t, c)
<1>1. s \o t \in Seq(Packets)
  OBVIOUS
<1>2. ASSUME NEW i \in 1..Len(s \o t)
      PROVE  PacketOK((s \o t)[i], c)
  <2>1. CASE i \in 1..Len(s)
    <3>1. (s \o t)[i] = s[i]
      BY <2>1
    <3>. QED BY <3>1, <2>1 DEF QueueOK
  <2>2. CASE i \in Len(s)+1..Len(s)+Len(t)
    <3>1. (s \o t)[i] = t[i - Len(s)] /\ i - Len(s) \in 1..Len(t)
      BY <2>2
    <3>. QED BY <3>1 DEF QueueOK
  <2>. QED BY <2>1, <2>2
<1>. QED BY <1>1, <1>2 DEF QueueOK

LEMMA QueueTail ==
    ASSUME NEW c \in Conns, NEW s \in Seq(Packets), s # <<>>, QueueOK(s, c)
    PROVE  Tail(s) \in Seq(Packets) /\ QueueOK(Tail(s), c)
<1>1. Tail(s) \in Seq(Packets) /\ Len(Tail(s)) = Len(s) - 1
  OBVIOUS
<1>2. \A i \in 1..Len(Tail(s)) : Tail(s)[i] = s[i + 1] /\ i + 1 \in 1..Len(s)
  BY <1>1
<1>. QED BY <1>1, <1>2 DEF QueueOK

LEMMA QueueOne ==
    ASSUME NEW c \in Conns, NEW p \in Packets, PacketOK(p, c)
    PROVE  <<p>> \in Seq(Packets) /\ QueueOK(<<p>>, c)
BY DEF QueueOK

LEMMA QueueNone ==
    ASSUME NEW c \in Conns
    PROVE  <<>> \in Seq(Packets) /\ QueueOK(<<>>, c)
BY DEF QueueOK

\* What the server says in its own name is always admissible.
LEMMA ServerPacketOK ==
    ASSUME NEW c \in Conns
    PROVE  /\ \A id \in IDs : SetIDPacket(id) \in Packets /\ PacketOK(SetIDPacket(id), c)
           /\ TurnPacket \in Packets /\ PacketOK(TurnPacket, c)
           /\ EchoPacket \in Packets /\ PacketOK(EchoPacket, c)
           /\ \A ids \in SUBSET IDs :
                 AdvertisersPacket(ids) \in Packets /\ PacketOK(AdvertisersPacket(ids), c)
BY ServerAssumption
DEF Packets, PacketOK, SetIDPacket, TurnPacket, EchoPacket, AdvertisersPacket,
    ServerPacket, ServerKinds

\* Queueing admissible packets keeps every queue admissible.
LEMMA WriteOK ==
    ASSUME TypeOK, Provenance, NEW c \in Conns, NEW ps \in Seq(Packets),
           QueueOK(ps, c), Write(c, ps)
    PROVE  /\ down' \in [Conns -> Seq(Packets)]
           /\ \A d \in Conns : QueueOK(down'[d], d)
<1>1. \A d \in Conns : down[d] \in Seq(Packets) /\ QueueOK(down[d], d)
  BY DEF TypeOK, Provenance, QueueOK, PacketOK
<1>2. down[c] \o ps \in Seq(Packets) /\ QueueOK(down[c] \o ps, c)
  BY <1>1, QueueConcat
<1>. QED BY <1>1, <1>2 DEF Write, TypeOK

-----------------------------------------------------------------------------

\* The registry half of the invariant, which no packet handler but the
\* re-identification disturbs.
RegistryInv ==
    /\ status \in [Conns -> Status]
    /\ peer_ID \in [Conns -> IDs]
    /\ CONNECTIONS \in [IDs -> Conns \cup {None}]
    /\ claimed \in [Conns -> BOOLEAN]
    /\ home \in [Clients -> Conns \cup {None}]
    /\ HomeIsOwn
    /\ OwnIdentity
    /\ RegistryKeys
    /\ NoGhost
    /\ OnlySiblingsDisplace
    /\ SetIDNeverRaises

\* The packet half.
PacketInv ==
    /\ advertising \in [Conns -> BOOLEAN]
    /\ down \in [Conns -> Seq(Packets)]
    /\ \A c \in Conns : QueueOK(down[c], c)

LEMMA IInvSplits == IInv <=> RegistryInv /\ PacketInv
BY DEF IInv, RegistryInv, PacketInv, TypeOK, Provenance, QueueOK, PacketOK

LEMMA InitInv == Init => IInv
<1>. SUFFICES ASSUME Init PROVE RegistryInv /\ PacketInv
  BY IInvSplits
<1>1. RegistryInv
  BY ServerAssumption
  DEF Init, RegistryInv, HomeIsOwn, OwnIdentity, RegistryKeys, NoGhost,
      OnlySiblingsDisplace, SetIDNeverRaises, Status
<1>2. PacketInv
  BY QueueNone DEF Init, PacketInv
<1>. QED BY <1>1, <1>2

\* The registry half only reads these four variables.
LEMMA RegistryUnchanged ==
    RegistryInv /\ UNCHANGED <<status, peer_ID, CONNECTIONS, claimed, home>>
        => RegistryInv'
BY DEF RegistryInv, HomeIsOwn, OwnIdentity, RegistryKeys, NoGhost,
       OnlySiblingsDisplace, SetIDNeverRaises

LEMMA RegistryIdentity == RegistryInv => IdentityInv
BY DEF RegistryInv, IdentityInv

LEMMA DialRegistry ==
    ASSUME RegistryInv, NEW c \in Conns, Dial(c)
    PROVE  RegistryInv'
<1>. USE DEF RegistryInv, Dial
<1>1. status' \in [Conns -> Status] /\ \A d \in Conns : status'[d] = "open" <=> status[d] = "open"
  BY DEF Status
<1>2. NoGhost'
  BY DEF NoGhost
<1>3. OnlySiblingsDisplace'
  BY <1>1 DEF OnlySiblingsDisplace
<1>. QED BY <1>1, <1>2, <1>3 DEF HomeIsOwn, OwnIdentity, RegistryKeys, SetIDNeverRaises

LEMMA ConnectionMadeRegistry ==
    ASSUME RegistryInv, NEW c \in Conns, ConnectionMade(c), UNCHANGED clientVars
    PROVE  RegistryInv'
<1>. USE DEF RegistryInv, ConnectionMade
<1>1. /\ status' \in [Conns -> Status]
      /\ CONNECTIONS' \in [IDs -> Conns \cup {None}]
      /\ HomeIsOwn' /\ OwnIdentity'
  BY DEF Status, HomeIsOwn, OwnIdentity, clientVars
<1>2. RegistryKeys'
  BY DEF RegistryKeys
<1>3. NoGhost'
  BY ServerAssumption DEF NoGhost
<1>4. OnlySiblingsDisplace'
  <2>. SUFFICES ASSUME NEW d \in Conns, status'[d] = "open",
                       CONNECTIONS'[peer_ID[d]] # d
                PROVE  \E e \in Conns \ {d} : /\ Owner[e] = Owner[d]
                                             /\ peer_ID[e] = peer_ID[d]
                                             /\ status'[e] # "idle"
    BY DEF OnlySiblingsDisplace
  <2>1. d # c /\ status[d] = "open"
    OBVIOUS
  <2>2. CASE peer_ID[d] = peer_ID[c]
    BY <2>1, <2>2, RegistryIdentity, SharedIdentity
  <2>3. CASE peer_ID[d] # peer_ID[c]
    <3>1. CONNECTIONS[peer_ID[d]] # d
      BY <2>3
    <3>2. PICK e \in Conns \ {d} : /\ Owner[e] = Owner[d]
                                   /\ peer_ID[e] = peer_ID[d]
                                   /\ status[e] # "idle"
      BY <2>1, <3>1 DEF OnlySiblingsDisplace
    <3>. QED BY <3>2
  <2>. QED BY <2>2, <2>3
<1>5. SetIDNeverRaises'
  <2>. SUFFICES ASSUME NEW d \in Conns, status'[d] = "open",
                       home[Owner[d]] # d, ~claimed[d]
                PROVE  CONNECTIONS'[peer_ID[d]] = d
    BY DEF SetIDNeverRaises, clientVars
  <2>1. CASE d = c
    BY <2>1
  <2>2. CASE d # c
    <3>1. peer_ID[d] # peer_ID[c]
      BY <2>2, RegistryIdentity, BirthIDIsPrivate DEF OwnIdentity
    <3>. QED BY <2>2, <3>1 DEF SetIDNeverRaises
  <2>. QED BY <2>1, <2>2
<1>. QED BY <1>1, <1>2, <1>3, <1>4, <1>5 DEF clientVars

LEMMA ConnectionLostRegistry ==
    ASSUME RegistryInv, NEW c \in Conns, ConnectionLost(c), UNCHANGED clientVars
    PROVE  RegistryInv'
<1>. USE DEF RegistryInv, ConnectionLost
<1>1. /\ status' \in [Conns -> Status]
      /\ CONNECTIONS' \in [IDs -> Conns \cup {None}]
      /\ HomeIsOwn' /\ OwnIdentity'
  BY DEF Status, HomeIsOwn, OwnIdentity, clientVars
<1>2. RegistryKeys'
  BY DEF RegistryKeys
<1>3. NoGhost'
  BY ServerAssumption DEF NoGhost, RegistryKeys
<1>4. OnlySiblingsDisplace'
  <2>. SUFFICES ASSUME NEW d \in Conns, status'[d] = "open",
                       CONNECTIONS'[peer_ID[d]] # d
                PROVE  \E e \in Conns \ {d} : /\ Owner[e] = Owner[d]
                                             /\ peer_ID[e] = peer_ID[d]
                                             /\ status'[e] # "idle"
    BY DEF OnlySiblingsDisplace
  <2>1. d # c /\ status[d] = "open"
    OBVIOUS
  <2>2. CASE peer_ID[d] = peer_ID[c]
    BY <2>1, <2>2, RegistryIdentity, SharedIdentity
  <2>3. CASE peer_ID[d] # peer_ID[c]
    <3>1. CONNECTIONS[peer_ID[d]] # d
      BY <2>3
    <3>2. PICK e \in Conns \ {d} : /\ Owner[e] = Owner[d]
                                   /\ peer_ID[e] = peer_ID[d]
                                   /\ status[e] # "idle"
      BY <2>1, <3>1 DEF OnlySiblingsDisplace
    <3>. QED BY <3>2
  <2>. QED BY <2>2, <2>3
<1>5. SetIDNeverRaises'
  <2>. SUFFICES ASSUME NEW d \in Conns, status'[d] = "open",
                       home[Owner[d]] # d, ~claimed[d]
                PROVE  CONNECTIONS'[peer_ID[d]] = d
    BY DEF SetIDNeverRaises, clientVars
  <2>1. d # c /\ status[d] = "open"
    OBVIOUS
  <2>2. peer_ID[d] # peer_ID[c]
    BY <2>1, RegistryIdentity, BirthIDIsPrivate DEF OwnIdentity
  <2>. QED BY <2>1, <2>2 DEF SetIDNeverRaises
<1>. QED BY <1>1, <1>2, <1>3, <1>4, <1>5 DEF clientVars

\* The claimant is registered under its birth ID (SetIDNeverRaises), so pop
\* returns the claimant itself.
LEMMA ClaimRegistry ==
    ASSUME RegistryInv, NEW c \in Conns, Claim(c)
    PROVE  RegistryInv'
<1>. DEFINE h == home[Owner[c]]
            mine == Uuid[h]
<1>. USE DEF RegistryInv
<1>1. /\ status[c] = "open" /\ h \in Conns /\ h # c /\ ~claimed[c]
      /\ CONNECTIONS[peer_ID[c]] = c /\ peer_ID[c] = Uuid[c]
      /\ mine \in IDs /\ mine # Uuid[c] /\ Owner[h] = Owner[c]
  BY ServerAssumption
  DEF Claim, ServerSetID, SetIDNeverRaises, OwnIdentity, HomeIsOwn
<1>2. /\ status' = status /\ home' = home
      /\ peer_ID' = [peer_ID EXCEPT ![c] = mine]
      /\ claimed' = [claimed EXCEPT ![c] = TRUE]
      /\ CONNECTIONS' = [CONNECTIONS EXCEPT ![Uuid[c]] = None, ![mine] = c]
  BY <1>1, ServerAssumption DEF Claim, ServerSetID
<1>3. /\ peer_ID' \in [Conns -> IDs]
      /\ CONNECTIONS' \in [IDs -> Conns \cup {None}]
      /\ claimed' \in [Conns -> BOOLEAN]
  BY <1>1, <1>2
<1>4. HomeIsOwn' /\ OwnIdentity'
  BY <1>1, <1>2, ServerAssumption DEF HomeIsOwn, OwnIdentity
<1>5. RegistryKeys'
  BY <1>1, <1>2, ServerAssumption DEF RegistryKeys
<1>6. NoGhost'
  BY <1>1, <1>2, ServerAssumption DEF NoGhost
<1>7. OnlySiblingsDisplace'
  <2>. SUFFICES ASSUME NEW d \in Conns, status[d] = "open",
                       CONNECTIONS'[peer_ID'[d]] # d
                PROVE  \E e \in Conns \ {d} : /\ Owner[e] = Owner[d]
                                             /\ peer_ID'[e] = peer_ID'[d]
                                             /\ status[e] # "idle"
    BY <1>2 DEF OnlySiblingsDisplace
  <2>1. d # c /\ peer_ID'[d] = peer_ID[d]
    BY <1>1, <1>2
  <2>2. CASE peer_ID[d] = mine
    <3>1. mine \in {Uuid[e] : e \in {e \in Conns : Owner[e] = Owner[c]}}
      BY <1>1
    <3>2. peer_ID[d] \in Identities(d)
      BY RegistryIdentity, OwnIdentities
    <3>3. Owner[c] = Owner[d]
      BY <2>2, <3>1, <3>2, ServerAssumption DEF Identities
    <3>. QED BY <1>1, <1>2, <2>1, <2>2, <3>3
  <2>3. CASE peer_ID[d] # mine
    <3>1. peer_ID[d] # Uuid[c]
      BY <1>1, <2>1, RegistryIdentity, BirthIDIsPrivate
    <3>2. CONNECTIONS[peer_ID[d]] # d
      BY <1>1, <1>2, <2>1, <2>3, <3>1
    <3>3. PICK e \in Conns \ {d} : /\ Owner[e] = Owner[d]
                                   /\ peer_ID[e] = peer_ID[d]
                                   /\ status[e] # "idle"
      BY <3>2 DEF OnlySiblingsDisplace
    <3>4. e # c
      BY <1>1, <3>1, <3>3
    <3>. QED BY <1>2, <2>1, <3>3, <3>4
  <2>. QED BY <2>2, <2>3
<1>8. SetIDNeverRaises'
  <2>. SUFFICES ASSUME NEW d \in Conns, status[d] = "open",
                       home[Owner[d]] # d, ~claimed'[d]
                PROVE  CONNECTIONS'[peer_ID'[d]] = d
    BY <1>2 DEF SetIDNeverRaises
  <2>1. d # c /\ ~claimed[d] /\ peer_ID'[d] = peer_ID[d] /\ peer_ID[d] = Uuid[d]
    BY <1>1, <1>2 DEF OwnIdentity
  <2>2. Uuid[d] # mine
    <3>1. h # d
      BY <1>1
    <3>. QED BY <1>1, <3>1, ServerAssumption
  <2>. QED BY <1>2, <2>1, <2>2, ServerAssumption DEF SetIDNeverRaises
<1>. QED BY <1>2, <1>3, <1>4, <1>5, <1>6, <1>7, <1>8

\* Learning an ID on c exempts c alone from being registered.
LEMMA ClientLearnsIDRegistry ==
    ASSUME RegistryInv, NEW c \in Conns, ClientLearnsID(c)
    PROVE  RegistryInv'
<1>. USE DEF RegistryInv, ClientLearnsID
<1>1. home' \in [Clients -> Conns \cup {None}] /\ HomeIsOwn'
  BY ServerAssumption DEF HomeIsOwn
<1>2. OwnIdentity'
  BY <1>1, ServerAssumption DEF OwnIdentity
<1>3. SetIDNeverRaises'
  <2>. SUFFICES ASSUME NEW d \in Conns, status[d] = "open",
                       home'[Owner[d]] # d, ~claimed[d]
                PROVE  CONNECTIONS[peer_ID[d]] = d
    BY DEF SetIDNeverRaises
  <2>1. home[Owner[d]] # d
    BY ServerAssumption
  <2>. QED BY <2>1 DEF SetIDNeverRaises
<1>. QED BY <1>1, <1>2, <1>3 DEF RegistryKeys, NoGhost, OnlySiblingsDisplace

-----------------------------------------------------------------------------

\* Queueing on one connection, seen from the packet half of the invariant.
LEMMA WritePackets ==
    ASSUME RegistryInv, PacketInv, NEW c \in Conns, NEW ps \in Seq(Packets),
           QueueOK(ps, c), Write(c, ps)
    PROVE  /\ down' \in [Conns -> Seq(Packets)]
           /\ \A d \in Conns : QueueOK(down'[d], d)
<1>1. TypeOK /\ Provenance
  BY IInvSplits DEF IInv
<1>. QED BY <1>1, WriteOK

LEMMA ConnectionMadePackets ==
    ASSUME RegistryInv, PacketInv, NEW c \in Conns, ConnectionMade(c)
    PROVE  PacketInv'
<1>1. peer_ID[c] \in IDs
  BY DEF RegistryInv
<1>2. /\ <<SetIDPacket(peer_ID[c])>> \in Seq(Packets)
      /\ QueueOK(<<SetIDPacket(peer_ID[c])>>, c)
  BY <1>1, ServerPacketOK, QueueOne
<1>3. /\ (IF TurnCreds THEN <<TurnPacket>> ELSE <<>>) \in Seq(Packets)
      /\ QueueOK(IF TurnCreds THEN <<TurnPacket>> ELSE <<>>, c)
  BY ServerPacketOK, QueueOne, QueueNone
<1>4. Greeting(c) \in Seq(Packets) /\ QueueOK(Greeting(c), c)
  BY <1>2, <1>3, QueueConcat DEF Greeting
<1>5. down[c] \o Greeting(c) \in Seq(Packets) /\ QueueOK(down[c] \o Greeting(c), c)
  BY <1>4, QueueConcat DEF PacketInv
<1>. QED BY <1>5 DEF ConnectionMade, PacketInv

LEMMA RequestAdvertisersPackets ==
    ASSUME RegistryInv, PacketInv, NEW c \in Conns, RequestAdvertisers(c)
    PROVE  PacketInv'
<1>. DEFINE ids == {peer_ID[CONNECTIONS[id]] : id \in AdvertisersFor(c)}
<1>1. ids \in SUBSET IDs
  BY DEF RegistryInv, AdvertisersFor
<1>2. /\ <<AdvertisersPacket(ids)>> \in Seq(Packets)
      /\ QueueOK(<<AdvertisersPacket(ids)>>, c)
  BY <1>1, ServerPacketOK, QueueOne
<1>3. CASE ids = {}
  BY <1>3 DEF RequestAdvertisers, PacketInv
<1>4. CASE ids # {}
  BY <1>2, <1>4, WritePackets DEF RequestAdvertisers, PacketInv
<1>. QED BY <1>3, <1>4

LEMMA ServerEchoPackets ==
    ASSUME RegistryInv, PacketInv, NEW c \in Conns, ServerEcho(c)
    PROVE  PacketInv'
<1>1. <<EchoPacket>> \in Seq(Packets) /\ QueueOK(<<EchoPacket>>, c)
  BY ServerPacketOK, QueueOne
<1>. QED BY <1>1, WritePackets DEF ServerEcho, PacketInv

LEMMA SendTurnCredsPackets ==
    ASSUME RegistryInv, PacketInv, NEW c \in Conns, SendTurnCreds(c)
    PROVE  PacketInv'
<1>1. /\ (IF TurnCreds THEN <<TurnPacket>> ELSE <<>>) \in Seq(Packets)
      /\ QueueOK(IF TurnCreds THEN <<TurnPacket>> ELSE <<>>, c)
  BY ServerPacketOK, QueueOne, QueueNone
<1>. QED BY <1>1, WritePackets DEF SendTurnCreds, PacketInv

\* The receiver goes by the ID the packet is addressed to (RegistryKeys), and
\* so it is a connection of that ID's client (OwnIdentity).
LEMMA ForwardPackets ==
    ASSUME RegistryInv, PacketInv, NEW c \in Conns, NEW kind \in PeerKinds,
           NEW to \in IDs, Forward(c, kind, to)
    PROVE  PacketInv'
<1>1. CASE CONNECTIONS[to] = None
  BY <1>1 DEF Forward, PacketInv
<1>2. CASE CONNECTIONS[to] # None
  <2>. DEFINE d == CONNECTIONS[to]
              p == PeerPacket(kind, peer_ID[c], c, to)
  <2>1. d \in Conns /\ peer_ID[d] = to
    BY <1>2 DEF RegistryInv, RegistryKeys
  <2>2. p \in Packets
    BY DEF Packets, PeerPacket, RegistryInv
  <2>3. PacketOK(p, d)
    BY <2>1, RegistryIdentity, OwnIdentities DEF PacketOK, PeerPacket
  <2>4. <<p>> \in Seq(Packets) /\ QueueOK(<<p>>, d)
    BY <2>1, <2>2, <2>3, QueueOne
  <2>. QED BY <1>2, <2>1, <2>4, WritePackets DEF Forward, PacketInv
<1>. QED BY <1>1, <1>2

LEMMA ClientReadsPackets ==
    ASSUME PacketInv, NEW c \in Conns, ClientReads(c) \/ ClientLearnsID(c)
    PROVE  PacketInv'
<1>1. Tail(down[c]) \in Seq(Packets) /\ QueueOK(Tail(down[c]), c)
  BY QueueTail DEF ClientReads, ClientLearnsID, PacketInv
<1>. QED BY <1>1 DEF ClientReads, ClientLearnsID, PacketInv

LEMMA DataReceivedInv ==
    ASSUME RegistryInv, PacketInv, NEW c \in Conns, DataReceived(c)
    PROVE  RegistryInv' /\ PacketInv'
<1>1. CASE StartAdvertising(c) \/ StopAdvertising(c)
  <2>1. UNCHANGED <<status, peer_ID, CONNECTIONS, claimed, home>>
    BY <1>1 DEF StartAdvertising, StopAdvertising, DataReceived, clientVars
  <2>2. PacketInv'
    BY <1>1 DEF StartAdvertising, StopAdvertising, PacketInv
  <2>. QED BY <2>1, <2>2, RegistryUnchanged
<1>2. CASE RequestAdvertisers(c)
  BY <1>2, RequestAdvertisersPackets, RegistryUnchanged DEF RequestAdvertisers, DataReceived, clientVars
<1>3. CASE ServerEcho(c)
  BY <1>3, ServerEchoPackets, RegistryUnchanged DEF ServerEcho, DataReceived, clientVars
<1>4. CASE SendTurnCreds(c)
  BY <1>4, SendTurnCredsPackets, RegistryUnchanged DEF SendTurnCreds, DataReceived, clientVars
<1>5. ASSUME NEW kind \in PeerKinds, NEW to \in IDs, Forward(c, kind, to)
      PROVE  RegistryInv' /\ PacketInv'
  BY <1>5, ForwardPackets, RegistryUnchanged DEF Forward, DataReceived, clientVars
<1>. QED BY <1>1, <1>2, <1>3, <1>4, <1>5 DEF DataReceived

LEMMA NextInv == IInv /\ [Next]_vars => IInv'
<1>a. RegistryInv' /\ PacketInv' => IInv'
  BY DEF IInv, RegistryInv, PacketInv, TypeOK, Provenance, QueueOK, PacketOK
<1>. SUFFICES ASSUME RegistryInv, PacketInv, [Next]_vars
              PROVE  RegistryInv' /\ PacketInv'
  BY <1>a, IInvSplits
<1>1. ASSUME NEW c \in Conns, Dial(c)
      PROVE  RegistryInv' /\ PacketInv'
  BY <1>1, DialRegistry DEF Dial, PacketInv
<1>2. ASSUME NEW c \in Conns, ConnectionMade(c), UNCHANGED clientVars
      PROVE  RegistryInv' /\ PacketInv'
  BY <1>2, ConnectionMadeRegistry, ConnectionMadePackets
<1>3. ASSUME NEW c \in Conns, ConnectionLost(c), UNCHANGED clientVars
      PROVE  RegistryInv' /\ PacketInv'
  BY <1>3, ConnectionLostRegistry DEF ConnectionLost, PacketInv
<1>4. ASSUME NEW c \in Conns, DataReceived(c)
      PROVE  RegistryInv' /\ PacketInv'
  BY <1>4, DataReceivedInv
<1>5. ASSUME NEW c \in Conns, Claim(c)
      PROVE  RegistryInv' /\ PacketInv'
  BY <1>5, ClaimRegistry DEF Claim, ServerSetID, PacketInv
<1>6. ASSUME NEW c \in Conns, ClientReads(c)
      PROVE  RegistryInv' /\ PacketInv'
  BY <1>6, ClientReadsPackets, RegistryUnchanged DEF ClientReads
<1>7. ASSUME NEW c \in Conns, ClientLearnsID(c)
      PROVE  RegistryInv' /\ PacketInv'
  BY <1>7, ClientReadsPackets, ClientLearnsIDRegistry
<1>8. CASE UNCHANGED vars
  BY <1>8, RegistryUnchanged DEF vars, PacketInv
<1>. QED BY <1>1, <1>2, <1>3, <1>4, <1>5, <1>6, <1>7, <1>8 DEF Next

\* Every reachable state satisfies the inductive invariant.
THEOREM Invariance == Spec => []IInv
BY InitInv, NextInv, PTL DEF Spec

\* The variables keep their types.
THEOREM TypeCorrect == Spec => []TypeOK
<1>1. IInv => TypeOK
  BY DEF IInv
<1>. QED BY <1>1, Invariance, PTL

\* CONNECTIONS maps each ID to the connection that goes by it (server.py:233-236).
THEOREM RegistryCorrect == Spec => []RegistryKeys
<1>1. IInv => RegistryKeys
  BY DEF IInv
<1>. QED BY <1>1, Invariance, PTL

\* No connection that was lost stays in CONNECTIONS, whichever ID it was known
\* by when it was lost (server.py:164-166).
THEOREM NoGhosts == Spec => []NoGhost
<1>1. IInv => NoGhost
  BY DEF IInv
<1>. QED BY <1>1, Invariance, PTL

\* Only a connection of the same client can take a connection's entry away.
THEOREM DisplacementBySiblings == Spec => []OnlySiblingsDisplace
<1>1. IInv => OnlySiblingsDisplace
  BY DEF IInv
<1>. QED BY <1>1, Invariance, PTL

\* CONNECTIONS.pop finds its key whenever a client claims its ID.
THEOREM ClaimsNeverRaise == Spec => []SetIDNeverRaises
<1>1. IInv => SetIDNeverRaises
  BY DEF IInv
<1>. QED BY <1>1, Invariance, PTL

\* Relayed packets name their true sender and reach only their addressee.
THEOREM RelayProvenance == Spec => []Provenance
<1>1. IInv => Provenance
  BY DEF IInv
<1>. QED BY <1>1, Invariance, PTL

=============================================================================
