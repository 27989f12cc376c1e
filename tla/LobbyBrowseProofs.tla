------------------------- MODULE LobbyBrowseProofs -------------------------
(***************************************************************************)
(* Proofs about LobbyBrowse: on the whole way from a host's m_ad_data to   *)
(* the browser's entry, through the host's answer, both connections and    *)
(* the server, ads stay in the order in which they were begun.             *)
(***************************************************************************)
EXTENDS LobbyBrowse, SequenceTheorems, FiniteSetTheorems, TLAPS

\* What a player sends.
FromPlayer(p) ==
    IF p = Browser
    THEN [type : {"RequestAdvertisers"}] \cup [type : {"SolicitAds"}, peer : Hosts]
    ELSE [type : {"StartAdvertising", "StopAdvertising"}]
            \cup [type : {"GameAd"}, peer : {Browser}, ad : Ads]

\* What the browser is sent.
ToBrowser == [type : {"GameAd"}, peer : Hosts, ad : Ads] \cup Advertisers

Connections ==
    /\ \A p \in Players : toServer[p] \in Seq(FromPlayer(p))
    /\ toClient[Browser] \in Seq(ToBrowser)

\* The ads among some packets that name a peer.
IsAd(packet, peer) == packet.type = "GameAd" /\ packet.peer = peer
AdsOf(s, peer) == {i \in 1..Len(s) : IsAd(s[i], peer)}
AdSet(s, peer) == {s[i].ad : i \in AdsOf(s, peer)}

\* No half of one ad is newer than the same half of the other.
Leq(a, b) == a[1] <= b[1] /\ a[2] <= b[2]
AllLeq(A, B) == \A a \in A, b \in B : Leq(a, b)
Ordered(s, peer) == \A i, j \in AdsOf(s, peer) : i <= j => Leq(s[i].ad, s[j].ad)

\* The stations of host h's ads: listed, on the way from the server to the
\* browser, on the way from h to the server.
Listed(h) == IF listed[h] = None THEN {} ELSE {listed[h].ad}
Inbound(h) == AdSet(toClient[Browser], h)
Outbound(h) == AdSet(toServer[h], Browser)
AllAds(h) == Listed(h) \cup Inbound(h) \cup Outbound(h)

InOrder(h) ==
    /\ Ordered(toClient[Browser], h)
    /\ Ordered(toServer[h], Browser)
    /\ AllLeq(Listed(h), Inbound(h) \cup Outbound(h))
    /\ AllLeq(Inbound(h), Outbound(h))

\* What h has yet to send is newer still: the half it has copied, and m_ad_data.
\* A lobby's second half is written last.
Newest(h) ==
    h \in alive =>
        /\ m_ad_data[h][2] <= m_ad_data[h][1]
        /\ AllLeq(AllAds(h), {m_ad_data[h]})
        /\ answer[h] # None =>
              /\ answer[h] <= m_ad_data[h][1]
              /\ \A a \in AllAds(h) : a[1] <= answer[h]

\* The inductive invariant.
IInv ==
    /\ TypeOK
    /\ Connections
    /\ \A h \in Hosts : InOrder(h) /\ Newest(h)

-----------------------------------------------------------------------------
(* The operators.                                                            *)

LEMMA AppendAds ==
    ASSUME NEW S, NEW s \in Seq(S), NEW x \in S, NEW p
    PROVE  /\ Append(s, x) \in Seq(S)
           /\ ~IsAd(x, p) =>
                 /\ AdSet(Append(s, x), p) = AdSet(s, p)
                 /\ Ordered(s, p) => Ordered(Append(s, x), p)
           /\ IsAd(x, p) =>
                 /\ \A a : a \in AdSet(Append(s, x), p) <=> a \in AdSet(s, p) \/ a = x.ad
                 /\ Ordered(s, p) /\ AllLeq(AdSet(s, p) \cup {x.ad}, {x.ad})
                        => Ordered(Append(s, x), p)
<1>. DEFINE t == Append(s, x)
<1>1. /\ t \in Seq(S) /\ Len(s) \in Nat
      /\ Len(t) = Len(s) + 1
      /\ \A i \in 1..Len(s) : t[i] = s[i]
      /\ t[Len(s) + 1] = x
  BY AppendProperties, LenProperties
<1>. HIDE DEF t
<1>2. \A i : i \in 1..Len(t) <=> i \in 1..Len(s) \/ i = Len(s) + 1
  BY <1>1
<1>3. ~IsAd(x, p) => AdsOf(t, p) = AdsOf(s, p)
  BY <1>1, <1>2 DEF AdsOf
<1>4. IsAd(x, p) => AdsOf(t, p) = AdsOf(s, p) \cup {Len(s) + 1}
  BY <1>1, <1>2 DEF AdsOf
<1>5. \A i \in AdsOf(s, p) : t[i] = s[i] /\ i \in 1..Len(s)
  BY <1>1 DEF AdsOf
<1>6. ASSUME ~IsAd(x, p)
      PROVE  AdSet(t, p) = AdSet(s, p) /\ (Ordered(s, p) => Ordered(t, p))
  BY <1>3, <1>5, <1>6 DEF AdSet, Ordered
<1>7. ASSUME IsAd(x, p)
      PROVE  AdSet(t, p) = AdSet(s, p) \cup {x.ad}
  BY <1>1, <1>4, <1>5, <1>7 DEF AdSet
<1>8. ASSUME IsAd(x, p), Ordered(s, p), AllLeq(AdSet(s, p) \cup {x.ad}, {x.ad})
      PROVE  Ordered(t, p)
  <2>. SUFFICES ASSUME NEW i \in AdsOf(t, p), NEW j \in AdsOf(t, p), i <= j
                PROVE  Leq(t[i].ad, t[j].ad)
    BY DEF Ordered
  <2>1. CASE j \in AdsOf(s, p)
    <3>1. i \in AdsOf(s, p)
      BY <1>1, <1>4, <1>5, <1>8, <2>1
    <3>. QED BY <1>5, <1>8, <2>1, <3>1 DEF Ordered
  <2>2. CASE j = Len(s) + 1
    <3>1. t[j].ad = x.ad /\ t[i].ad \in AdSet(s, p) \cup {x.ad}
      BY <1>1, <1>4, <1>5, <1>8, <2>2 DEF AdSet
    <3>. QED BY <1>8, <3>1 DEF AllLeq
  <2>. QED BY <1>4, <1>8, <2>1, <2>2
<1>. QED BY <1>1, <1>6, <1>7, <1>8 DEF t

LEMMA TailAds ==
    ASSUME NEW S, NEW s \in Seq(S), s # <<>>, NEW p
    PROVE  /\ Tail(s) \in Seq(S) /\ Head(s) \in S
           /\ AdSet(Tail(s), p) \subseteq AdSet(s, p)
           /\ Ordered(s, p) => Ordered(Tail(s), p)
           /\ IsAd(Head(s), p) =>
                 /\ Head(s).ad \in AdSet(s, p)
                 /\ Ordered(s, p) => AllLeq({Head(s).ad}, AdSet(Tail(s), p))
<1>. DEFINE t == Tail(s)
<1>1. /\ t \in Seq(S) /\ Head(s) \in S /\ Head(s) = s[1]
      /\ Len(s) \in Nat \ {0} /\ Len(t) = Len(s) - 1
      /\ \A i \in 1..Len(t) : t[i] = s[i + 1]
  BY HeadTailProperties, EmptySeq
<1>. HIDE DEF t
<1>2. ASSUME NEW i \in AdsOf(t, p)
      PROVE  i \in Nat /\ i + 1 \in AdsOf(s, p) /\ t[i] = s[i + 1]
  <2>1. i \in 1..Len(t) /\ IsAd(t[i], p)
    BY DEF AdsOf
  <2>2. i + 1 \in 1..Len(s) /\ t[i] = s[i + 1]
    BY <1>1, <2>1
  <2>. QED BY <2>1, <2>2 DEF AdsOf
<1>3. AdSet(t, p) \subseteq AdSet(s, p)
  BY <1>2 DEF AdSet
<1>4. Ordered(s, p) => Ordered(t, p)
  <2>. SUFFICES ASSUME Ordered(s, p), NEW i \in AdsOf(t, p), NEW j \in AdsOf(t, p), i <= j
                PROVE  Leq(t[i].ad, t[j].ad)
    BY DEF Ordered
  <2>1. i + 1 <= j + 1
    BY <1>2
  <2>. QED BY <1>2, <2>1 DEF Ordered
<1>5. ASSUME IsAd(Head(s), p)
      PROVE  1 \in AdsOf(s, p)
  BY <1>1, <1>5 DEF AdsOf
<1>6. ASSUME IsAd(Head(s), p), Ordered(s, p), NEW b \in AdSet(t, p)
      PROVE  Leq(Head(s).ad, b)
  <2>1. PICK i \in AdsOf(t, p) : b = t[i].ad
    BY DEF AdSet
  <2>2. i + 1 \in AdsOf(s, p) /\ 1 <= i + 1 /\ b = s[i + 1].ad
    BY <1>2, <2>1
  <2>. QED BY <1>1, <1>5, <1>6, <2>2 DEF Ordered
<1>. QED BY <1>1, <1>3, <1>4, <1>5, <1>6 DEF t, AdSet, AllLeq

LEMMA NoAds ==
    ASSUME NEW p
    PROVE  AdSet(<<>>, p) = {} /\ Ordered(<<>>, p)
BY DEF AdSet, Ordered, AdsOf

LEMMA AppendOne ==
    ASSUME NEW S, NEW s \in Seq(S), NEW x \in S
    PROVE  s \o <<x>> = Append(s, x)
OBVIOUS

LEMMA AdOrder ==
    /\ \A a \in Ads : a[1] \in Nat /\ a[2] \in Nat /\ a = <<a[1], a[2]>> /\ Leq(a, a)
    /\ \A a, b, c \in Ads : Leq(a, b) /\ Leq(b, c) => Leq(a, c)
BY BrowseAssumption DEF Ads, Leq

LEMMA EntryIsNotNone ==
    ASSUME NEW x \in [ad : Ads, recent : BOOLEAN]
    PROVE  x # None
<1>1. x \in [ad : Nat \X Nat, recent : BOOLEAN]
  BY BrowseAssumption DEF Ads
<1>. QED BY <1>1, BrowseAssumption

\* A set of known hosts can be put in a sequence.
LEMMA KnownSequence ==
    ASSUME NEW S, IsFiniteSet(S)
    PROVE  SetToSeq(S) \in Seq(S)
<1>1. Cardinality(S) \in Nat /\ ExistsBijection(1..Cardinality(S), S)
  BY FS_CardinalityType
<1>2. \E f \in [1..Cardinality(S) -> S] : IsInjective(f)
  BY <1>1 DEF ExistsBijection, Bijection, Injection
<1>3. SetToSeq(S) \in [1..Cardinality(S) -> S]
  BY <1>2 DEF SetToSeq
<1>. QED BY <1>1, <1>3, SeqDef

-----------------------------------------------------------------------------
(* Packets and connections.                                                  *)

LEMMA HostsArePlayers ==
    /\ Browser \in Players /\ Hosts \subseteq Players /\ Browser \notin Hosts
    /\ \A p \in Players : p = Browser \/ p \in Hosts
BY BrowseAssumption DEF Players

LEMMA PacketTypes ==
    /\ \A p \in Players : FromPlayer(p) \subseteq ServerPackets \cup PeerPackets
    /\ ToBrowser \subseteq PeerPackets \cup Advertisers
BY HostsArePlayers DEF FromPlayer, ToBrowser, ServerPackets, PeerPackets

\* What the server finds at the head of a host's or the browser's packets.
LEMMA HostPacket ==
    ASSUME NEW h \in Hosts, NEW x \in FromPlayer(h)
    PROVE  \/ x.type \in {"StartAdvertising", "StopAdvertising"} /\ ~IsAd(x, Browser)
           \/ /\ x.type = "GameAd" /\ x.peer = Browser /\ x.ad \in Ads /\ IsAd(x, Browser)
              /\ Addressed(x, h) \in ToBrowser
              /\ Addressed(x, h).ad = x.ad
              /\ \A g \in Hosts : IsAd(Addressed(x, h), g) <=> g = h
<1>1. CASE x \in [type : {"StartAdvertising", "StopAdvertising"}]
  BY <1>1 DEF IsAd
<1>2. CASE x \in [type : {"GameAd"}, peer : {Browser}, ad : Ads]
  <2>1. Addressed(x, h) = [type |-> "GameAd", peer |-> h, ad |-> x.ad]
    BY <1>2 DEF Addressed
  <2>2. x.type = "GameAd" /\ x.peer = Browser /\ x.ad \in Ads
    BY <1>2
  <2>. QED BY <2>1, <2>2 DEF IsAd, ToBrowser
<1>. QED BY <1>1, <1>2, HostsArePlayers DEF FromPlayer

LEMMA BrowserPacket ==
    ASSUME NEW x \in FromPlayer(Browser)
    PROVE  \/ x.type = "RequestAdvertisers"
           \/ /\ x.type = "SolicitAds" /\ x.peer \in Hosts
              /\ Addressed(x, Browser) \in PeerPackets
<1>1. CASE x \in [type : {"RequestAdvertisers"}]
  BY <1>1
<1>2. CASE x \in [type : {"SolicitAds"}, peer : Hosts]
  <2>1. Addressed(x, Browser) = [type |-> "SolicitAds", peer |-> Browser]
    BY <1>2 DEF Addressed
  <2>. QED BY <1>2, <2>1, HostsArePlayers DEF PeerPackets
<1>. QED BY <1>1, <1>2 DEF FromPlayer

LEMMA SetToServer ==
    ASSUME IInv, NEW p \in Players, NEW s \in Seq(FromPlayer(p)),
           toServer' = [toServer EXCEPT ![p] = s]
    PROVE  /\ toServer' \in [Players -> Seq(ServerPackets \cup PeerPackets)]
           /\ \A q \in Players : toServer'[q] \in Seq(FromPlayer(q))
           /\ toServer'[p] = s /\ \A q \in Players \ {p} : toServer'[q] = toServer[q]
<1>1. s \in Seq(ServerPackets \cup PeerPackets)
  BY PacketTypes, SeqMonotonic
<1>. QED BY <1>1 DEF IInv, TypeOK, Connections

LEMMA SetToClient ==
    ASSUME IInv, NEW p \in Players, NEW s \in Seq(PeerPackets \cup Advertisers),
           p = Browser => s \in Seq(ToBrowser),
           toClient' = [toClient EXCEPT ![p] = s]
    PROVE  /\ toClient' \in [Players -> Seq(PeerPackets \cup Advertisers)]
           /\ toClient'[Browser] \in Seq(ToBrowser)
           /\ toClient'[p] = s /\ \A q \in Players \ {p} : toClient'[q] = toClient[q]
BY HostsArePlayers DEF IInv, TypeOK, Connections

\* The ads that are under way or listed are ads.
LEMMA AdsTyped ==
    ASSUME IInv, NEW h \in Hosts
    PROVE  AllAds(h) \subseteq Ads
<1>1. Listed(h) \subseteq Ads
  BY DEF IInv, TypeOK, Listed
<1>2. ASSUME NEW i \in AdsOf(toClient[Browser], h)
      PROVE  toClient[Browser][i].ad \in Ads
  <2>1. toClient[Browser][i] \in ToBrowser /\ toClient[Browser][i].type = "GameAd"
    BY ElementOfSeq DEF IInv, Connections, AdsOf, IsAd
  <2>. QED BY <2>1 DEF ToBrowser, Advertisers
<1>3. ASSUME NEW i \in AdsOf(toServer[h], Browser)
      PROVE  toServer[h][i].ad \in Ads
  <2>1. toServer[h][i] \in FromPlayer(h) /\ toServer[h][i].type = "GameAd"
    BY ElementOfSeq, HostsArePlayers DEF IInv, Connections, AdsOf, IsAd
  <2>. QED BY <2>1, HostPacket
<1>. QED BY <1>1, <1>2, <1>3 DEF AllAds, Inbound, Outbound, AdSet

\* Ads may disappear from any of the stations.
LEMMA FewerAds ==
    ASSUME IInv, NEW h \in Hosts,
           Listed(h)' \subseteq Listed(h),
           Inbound(h)' \subseteq Inbound(h),
           Outbound(h)' \subseteq Outbound(h),
           Ordered(toClient[Browser], h) => Ordered(toClient'[Browser], h),
           Ordered(toServer[h], Browser) => Ordered(toServer'[h], Browser),
           h \in alive' => /\ h \in alive
                           /\ m_ad_data'[h] = m_ad_data[h]
                           /\ answer'[h] = answer[h]
    PROVE  InOrder(h)' /\ Newest(h)'
<1>1. InOrder(h) /\ Newest(h)
  BY DEF IInv
<1>2. InOrder(h)'
  BY <1>1 DEF InOrder, AllLeq
<1>3. AllAds(h)' \subseteq AllAds(h)
  BY DEF AllAds
<1>4. Newest(h)'
  BY <1>1, <1>3 DEF Newest, AllLeq
<1>. QED BY <1>2, <1>4

\* What is sent and listed stays as it is.
LEMMA SameAds ==
    ASSUME IInv, NEW h \in Hosts,
           toServer'[h] = toServer[h], toClient'[Browser] = toClient[Browser],
           listed'[h] = listed[h]
    PROVE  /\ Listed(h)' = Listed(h) /\ Inbound(h)' = Inbound(h)
           /\ Outbound(h)' = Outbound(h) /\ AllAds(h)' = AllAds(h)
           /\ InOrder(h)'
           /\ (h \in alive' => /\ h \in alive
                               /\ m_ad_data'[h] = m_ad_data[h]
                               /\ answer'[h] = answer[h])
                 => Newest(h)'
<1>1. /\ Listed(h)' = Listed(h) /\ Inbound(h)' = Inbound(h)
      /\ Outbound(h)' = Outbound(h)
  BY DEF Listed, Inbound, Outbound
<1>2. AllAds(h)' = AllAds(h)
  BY <1>1 DEF AllAds
<1>3. InOrder(h)'
  BY <1>1 DEF IInv, InOrder
<1>. QED BY <1>1, <1>2, <1>3 DEF IInv, Newest

LEMMA InitInv == Init => IInv
<1>. SUFFICES ASSUME Init PROVE IInv
  OBVIOUS
<1>. USE DEF Init
<1>0. <<0, 0>> \in Ads /\ 0 \in 0..MaxLobbies
  BY BrowseAssumption DEF Ads
<1>1. /\ toServer \in [Players -> Seq(ServerPackets \cup PeerPackets)]
      /\ toClient \in [Players -> Seq(PeerPackets \cup Advertisers)]
  BY EmptySeq
<1>2. TypeOK
  BY <1>0, <1>1 DEF TypeOK, Players
<1>3. Connections
  BY EmptySeq, HostsArePlayers DEF Connections
<1>4. ASSUME NEW h \in Hosts
      PROVE  InOrder(h) /\ Newest(h)
  <2>1. toClient[Browser] = <<>> /\ toServer[h] = <<>> /\ listed[h] = None /\ answer[h] = None
    BY HostsArePlayers
  <2>2. Inbound(h) = {} /\ Outbound(h) = {} /\ Listed(h) = {}
    BY <2>1, NoAds DEF Inbound, Outbound, Listed
  <2>3. InOrder(h)
    BY <2>1, <2>2, NoAds DEF InOrder, AllLeq
  <2>4. Newest(h)
    BY <2>1, <2>2 DEF Newest, AllAds, AllLeq
  <2>. QED BY <2>3, <2>4
<1>. QED BY <1>2, <1>3, <1>4 DEF IInv

-----------------------------------------------------------------------------
(* The steps of a host.                                                      *)

\* A half that is rewritten becomes newer, and so does all that is yet to be
\* sent.
LEMMA CreateLobbyInv ==
    ASSUME IInv, NEW h \in Hosts, CreateLobby(h)
    PROVE  IInv'
<1>. USE DEF CreateLobby, serverVars, browserVars
<1>. DEFINE a == m_ad_data[h]
<1>1. /\ a \in Ads /\ a[1] \in Nat /\ a[2] \in Nat /\ a = <<a[1], a[2]>>
      /\ a[1] < MaxLobbies /\ MaxLobbies \in Nat
      /\ m_ad_data \in [Hosts -> Ads]
  BY AdOrder, BrowseAssumption DEF IInv, TypeOK, Lobby
<1>2. /\ m_ad_data' = [m_ad_data EXCEPT ![h] = <<a[1] + 1, a[2]>>]
      /\ <<a[1] + 1, a[2]>> \in Ads
  <2>1. [a EXCEPT ![1] = a[1] + 1] = <<a[1] + 1, a[2]>>
    BY <1>1
  <2>2. m_ad_data' = [m_ad_data EXCEPT ![h] = [a EXCEPT ![1] = a[1] + 1]]
    OBVIOUS
  <2>3. <<a[1] + 1, a[2]>> \in Ads
    BY <1>1 DEF Ads
  <2>. QED BY <2>1, <2>2, <2>3
<1>3. TypeOK' /\ Connections'
  <2>1. m_ad_data' \in [Hosts -> Ads]
    BY <1>1, <1>2
  <2>2. game' \in [Hosts -> {"idle", "copying", "start", "stop"}]
    BY DEF IInv, TypeOK
  <2>. QED BY <2>1, <2>2 DEF IInv, TypeOK, Connections
<1>4. ASSUME NEW g \in Hosts PROVE InOrder(g)' /\ Newest(g)'
  <2>1. CASE g # h
    BY <1>1, <1>2, <2>1, SameAds
  <2>2. CASE g = h
    <3>1. InOrder(h)' /\ AllAds(h)' = AllAds(h) /\ AllAds(h) \subseteq Ads
      BY SameAds, AdsTyped
    <3>2. m_ad_data'[h] = <<a[1] + 1, a[2]>> /\ answer' = answer /\ alive' = alive
      BY <1>1, <1>2
    <3>3. Newest(h)
      BY DEF IInv
    <3>4. ASSUME h \in alive, NEW b \in AllAds(h) PROVE Leq(b, m_ad_data'[h])
      <4>1. b[1] \in Nat /\ b[2] \in Nat /\ b[1] <= a[1] /\ b[2] <= a[2]
        BY <3>1, <3>3, <3>4, AdOrder DEF Newest, AllLeq, Leq
      <4>. QED BY <1>1, <3>2, <4>1 DEF Leq
    <3>5. ASSUME h \in alive, answer[h] # None
          PROVE  answer[h] <= m_ad_data'[h][1]
      <4>1. answer[h] <= a[1] /\ answer[h] \in Nat
        BY <3>3, <3>5, BrowseAssumption DEF Newest, IInv, TypeOK
      <4>. QED BY <1>1, <3>2, <4>1
    <3>6. h \in alive => m_ad_data'[h][2] <= m_ad_data'[h][1]
      BY <1>1, <3>2, <3>3 DEF Newest
    <3>7. Newest(h)'
      BY <3>1, <3>2, <3>3, <3>4, <3>5, <3>6 DEF Newest, AllLeq
    <3>. QED BY <2>2, <3>1, <3>7
  <2>. QED BY <2>1, <2>2
<1>. QED BY <1>3, <1>4 DEF IInv

LEMMA SetAdvertisingInv ==
    ASSUME IInv, NEW h \in Hosts, SetAdvertising(h)
    PROVE  IInv'
<1>. USE DEF SetAdvertising, serverVars, browserVars
<1>. DEFINE a == m_ad_data[h]
<1>1. /\ a \in Ads /\ a[1] \in Nat /\ a[2] \in Nat /\ a = <<a[1], a[2]>>
      /\ m_ad_data \in [Hosts -> Ads] /\ h \in alive
  BY AdOrder DEF IInv, TypeOK
<1>2. /\ m_ad_data' = [m_ad_data EXCEPT ![h] = <<a[1], a[1]>>]
      /\ <<a[1], a[1]>> \in Ads
  <2>1. [a EXCEPT ![2] = a[1]] = <<a[1], a[1]>>
    BY <1>1
  <2>2. m_ad_data' = [m_ad_data EXCEPT ![h] = [a EXCEPT ![2] = a[1]]]
    BY DEF Lobby
  <2>3. <<a[1], a[1]>> \in Ads
    BY <1>1 DEF Ads
  <2>. QED BY <2>1, <2>2, <2>3
<1>3. TypeOK' /\ Connections'
  <2>1. m_ad_data' \in [Hosts -> Ads]
    BY <1>1, <1>2
  <2>2. game' \in [Hosts -> {"idle", "copying", "start", "stop"}]
    BY DEF IInv, TypeOK
  <2>3. m_is_advertising' \in [Hosts -> BOOLEAN]
    BY DEF IInv, TypeOK
  <2>. QED BY <2>1, <2>2, <2>3 DEF IInv, TypeOK, Connections
<1>4. ASSUME NEW g \in Hosts PROVE InOrder(g)' /\ Newest(g)'
  <2>1. CASE g # h
    BY <1>1, <1>2, <2>1, SameAds
  <2>2. CASE g = h
    <3>1. InOrder(h)' /\ AllAds(h)' = AllAds(h) /\ AllAds(h) \subseteq Ads
      BY SameAds, AdsTyped
    <3>2. m_ad_data'[h] = <<a[1], a[1]>> /\ answer' = answer /\ alive' = alive
      BY <1>1, <1>2
    <3>3. Newest(h) /\ a[2] <= a[1]
      BY <1>1 DEF IInv, Newest
    <3>4. ASSUME NEW b \in AllAds(h) PROVE Leq(b, m_ad_data'[h])
      <4>1. b[1] \in Nat /\ b[2] \in Nat /\ b[1] <= a[1] /\ b[2] <= a[2]
        BY <1>1, <3>1, <3>3, AdOrder DEF Newest, AllLeq, Leq
      <4>. QED BY <1>1, <3>2, <3>3, <4>1 DEF Leq
    <3>5. Newest(h)'
      <4>1. /\ m_ad_data'[h][1] = a[1] /\ m_ad_data'[h][2] = a[1]
            /\ a[1] <= a[1]
        BY <1>1, <3>2
      <4>2. answer[h] # None => answer[h] <= a[1] /\ \A b \in AllAds(h) : b[1] <= answer[h]
        BY <1>1, <3>3 DEF Newest
      <4>. QED BY <3>1, <3>2, <3>4, <4>1, <4>2 DEF Newest, AllLeq
    <3>. QED BY <2>2, <3>1, <3>5
  <2>. QED BY <2>1, <2>2
<1>. QED BY <1>3, <1>4 DEF IInv

LEMMA ClearAdvertisingInv ==
    ASSUME IInv, NEW h \in Hosts, ClearAdvertising(h)
    PROVE  IInv'
<1>. USE DEF ClearAdvertising, serverVars, browserVars
<1>1. TypeOK' /\ Connections'
  <2>1. game' \in [Hosts -> {"idle", "copying", "start", "stop"}]
    BY DEF IInv, TypeOK
  <2>2. m_is_advertising' \in [Hosts -> BOOLEAN]
    BY DEF IInv, TypeOK
  <2>. QED BY <2>1, <2>2 DEF IInv, TypeOK, Connections
<1>2. ASSUME NEW g \in Hosts PROVE InOrder(g)' /\ Newest(g)'
  BY SameAds
<1>. QED BY <1>1, <1>2 DEF IInv

LEMMA SendGameInv ==
    ASSUME IInv, NEW h \in Hosts, SendGame(h)
    PROVE  IInv'
<1>. USE DEF SendGame, serverVars, browserVars
<1>. DEFINE x == [type |-> IF game[h] = "start" THEN "StartAdvertising" ELSE "StopAdvertising"]
<1>1. /\ h \in Players /\ toServer[h] \in Seq(FromPlayer(h))
      /\ x \in FromPlayer(h) /\ ~IsAd(x, Browser)
  BY HostsArePlayers DEF IInv, Connections, FromPlayer, IsAd
<1>2. toServer' = [toServer EXCEPT ![h] = Append(toServer[h], x)]
  <2>1. toServer[h] \o <<x>> = Append(toServer[h], x)
    BY <1>1, AppendOne
  <2>2. toServer' = [toServer EXCEPT ![h] = toServer[h] \o <<x>>]
    BY DEF Send
  <2>. QED BY <2>1, <2>2
<1>. HIDE DEF x
<1>3. /\ toServer' \in [Players -> Seq(ServerPackets \cup PeerPackets)]
      /\ \A q \in Players : toServer'[q] \in Seq(FromPlayer(q))
      /\ toServer'[h] = Append(toServer[h], x)
      /\ \A q \in Players \ {h} : toServer'[q] = toServer[q]
  BY <1>1, <1>2, AppendAds, SetToServer
<1>4. TypeOK' /\ Connections'
  <2>1. game' \in [Hosts -> {"idle", "copying", "start", "stop"}]
    BY DEF IInv, TypeOK
  <2>. QED BY <1>3, <2>1 DEF IInv, TypeOK, Connections
<1>5. ASSUME NEW g \in Hosts PROVE InOrder(g)' /\ Newest(g)'
  <2>1. CASE g # h
    BY <1>3, <2>1, SameAds, HostsArePlayers
  <2>2. CASE g = h
    <3>1. /\ Outbound(h)' = Outbound(h)
          /\ Ordered(toServer[h], Browser) => Ordered(toServer'[h], Browser)
      <4>1. /\ AdSet(Append(toServer[h], x), Browser) = AdSet(toServer[h], Browser)
            /\ Ordered(toServer[h], Browser) => Ordered(Append(toServer[h], x), Browser)
        BY <1>1, AppendAds
      <4>. QED BY <1>3, <4>1 DEF Outbound
    <3>2. Listed(h)' = Listed(h) /\ Inbound(h)' = Inbound(h)
      BY DEF Listed, Inbound
    <3>. QED BY <2>2, <3>1, <3>2, FewerAds
  <2>. QED BY <2>1, <2>2
<1>. QED BY <1>4, <1>5 DEF IInv

\* The first half of the answer is the newest there is.
LEMMA SolicitedInv ==
    ASSUME IInv, NEW h \in Hosts, Solicited(h)
    PROVE  IInv'
<1>. USE DEF Solicited, serverVars, browserVars
<1>1. /\ h \in Players /\ h # Browser /\ h \in alive
      /\ toClient[h] \in Seq(PeerPackets \cup Advertisers) /\ toClient[h] # <<>>
      /\ toClient' = [toClient EXCEPT ![h] = Tail(toClient[h])]
  BY HostsArePlayers DEF IInv, TypeOK
<1>2. /\ toClient' \in [Players -> Seq(PeerPackets \cup Advertisers)]
      /\ toClient'[Browser] \in Seq(ToBrowser) /\ toClient'[Browser] = toClient[Browser]
  BY <1>1, TailAds, SetToClient, HostsArePlayers
<1>3. /\ answer' \in [Hosts -> 0..MaxLobbies \cup {None}]
      /\ \A g \in Hosts \ {h} : answer'[g] = answer[g]
      /\ answer'[h] = None \/ answer'[h] = m_ad_data[h][1]
  <2>1. m_ad_data[h][1] \in 0..MaxLobbies /\ answer \in [Hosts -> 0..MaxLobbies \cup {None}]
    BY DEF IInv, TypeOK, Ads
  <2>2. answer' = answer \/ answer' = [answer EXCEPT ![h] = m_ad_data[h][1]]
    OBVIOUS
  <2>. QED BY <2>1, <2>2
<1>4. TypeOK' /\ Connections'
  BY <1>2, <1>3 DEF IInv, TypeOK, Connections
<1>5. ASSUME NEW g \in Hosts PROVE InOrder(g)' /\ Newest(g)'
  <2>1. InOrder(g)' /\ AllAds(g)' = AllAds(g)
    BY <1>2, SameAds
  <2>2. CASE g # h
    BY <1>2, <1>3, <2>2, SameAds
  <2>3. CASE g = h
    <3>1. Newest(h) /\ m_ad_data[h] \in Ads
      BY DEF IInv, TypeOK
    <3>2. \A b \in AllAds(h) : b[1] <= m_ad_data[h][1]
      BY <1>1, <3>1 DEF Newest, AllLeq, Leq
    <3>3. m_ad_data[h][1] <= m_ad_data[h][1]
      BY <3>1, AdOrder
    <3>4. Newest(h)'
      BY <1>1, <1>3, <2>1, <2>3, <3>1, <3>2, <3>3 DEF Newest
    <3>. QED BY <2>1, <2>3, <3>4
  <2>. QED BY <2>2, <2>3
<1>. QED BY <1>4, <1>5 DEF IInv

\* The ad that is sent is no older than any before it, and no newer than
\* m_ad_data.
LEMMA SendAdInv ==
    ASSUME IInv, NEW h \in Hosts, SendAd(h)
    PROVE  IInv'
<1>. USE DEF SendAd, serverVars, browserVars
<1>. DEFINE new == <<answer[h], m_ad_data[h][2]>>
            x == GameAd(Browser, new)
<1>1. /\ h \in alive /\ answer[h] # None /\ answer[h] \in 0..MaxLobbies
      /\ m_ad_data[h] \in Ads /\ new \in Ads
      /\ m_ad_data[h][2] \in 0..MaxLobbies
  <2>1. m_ad_data[h] \in Ads /\ answer[h] \in 0..MaxLobbies
    BY DEF IInv, TypeOK
  <2>2. m_ad_data[h][2] \in 0..MaxLobbies
    BY <2>1 DEF Ads
  <2>. QED BY <2>1, <2>2 DEF Ads
<1>2. /\ h \in Players /\ toServer[h] \in Seq(FromPlayer(h))
      /\ x \in FromPlayer(h) /\ IsAd(x, Browser) /\ x.ad = new
  <2>1. x \in [type : {"GameAd"}, peer : {Browser}, ad : Ads]
    BY <1>1 DEF GameAd
  <2>2. IsAd(x, Browser) /\ x.ad = new
    BY DEF GameAd, IsAd
  <2>. QED BY <2>1, <2>2, HostsArePlayers DEF IInv, Connections, FromPlayer
<1>3. toServer' = [toServer EXCEPT ![h] = Append(toServer[h], x)]
  <2>1. toServer[h] \o <<x>> = Append(toServer[h], x)
    BY <1>2, AppendOne
  <2>2. toServer' = [toServer EXCEPT ![h] = toServer[h] \o <<x>>]
    BY DEF Send
  <2>. QED BY <2>1, <2>2
<1>4. /\ Newest(h) /\ InOrder(h) /\ AllAds(h) \subseteq Ads
      /\ new[1] = answer[h] /\ new[2] = m_ad_data[h][2]
  BY AdsTyped DEF IInv
<1>. HIDE DEF x, new
<1>5. /\ toServer' \in [Players -> Seq(ServerPackets \cup PeerPackets)]
      /\ \A q \in Players : toServer'[q] \in Seq(FromPlayer(q))
      /\ toServer'[h] = Append(toServer[h], x)
      /\ \A q \in Players \ {h} : toServer'[q] = toServer[q]
  BY <1>2, <1>3, AppendAds, SetToServer
<1>6. TypeOK' /\ Connections'
  <2>1. answer' \in [Hosts -> 0..MaxLobbies \cup {None}]
    BY DEF IInv, TypeOK
  <2>. QED BY <1>5, <2>1 DEF IInv, TypeOK, Connections
<1>7. AllLeq(AllAds(h) \cup {new}, {new}) /\ Leq(new, m_ad_data[h])
  <2>1. ASSUME NEW b \in AllAds(h) PROVE Leq(b, new)
    <3>1. b[1] <= answer[h] /\ b[2] <= m_ad_data[h][2]
      BY <1>1, <1>4 DEF Newest, AllLeq, Leq
    <3>. QED BY <1>4, <3>1 DEF Leq
  <2>2. Leq(new, new)
    BY <1>1, AdOrder
  <2>3. answer[h] <= m_ad_data[h][1] /\ m_ad_data[h][2] <= m_ad_data[h][2]
    BY <1>1, <1>4 DEF Newest
  <2>. QED BY <1>4, <2>1, <2>2, <2>3 DEF AllLeq, Leq
<1>8. ASSUME NEW g \in Hosts PROVE InOrder(g)' /\ Newest(g)'
  <2>1. CASE g # h
    BY <1>5, <2>1, SameAds, HostsArePlayers DEF IInv, TypeOK
  <2>2. CASE g = h
    <3>1. /\ Outbound(h)' = Outbound(h) \cup {new}
          /\ Listed(h)' = Listed(h) /\ Inbound(h)' = Inbound(h)
      <4>1. AdSet(Append(toServer[h], x), Browser) = AdSet(toServer[h], Browser) \cup {new}
        <5>1. \A a : a \in AdSet(Append(toServer[h], x), Browser)
                       <=> a \in AdSet(toServer[h], Browser) \/ a = x.ad
          BY <1>2, AppendAds
        <5>. QED BY <1>2, <5>1
      <4>. QED BY <1>5, <4>1 DEF Outbound, Listed, Inbound
    <3>2. AllAds(h)' = AllAds(h) \cup {new}
      BY <3>1 DEF AllAds
    <3>3. Ordered(toServer'[h], Browser)
      <4>1. AllLeq(AdSet(toServer[h], Browser) \cup {new}, {new})
        BY <1>7 DEF AllLeq, AllAds, Outbound
      <4>2. Ordered(toServer[h], Browser)
        BY <1>4 DEF InOrder
      <4>3. Ordered(Append(toServer[h], x), Browser)
        BY <1>2, <4>1, <4>2, AppendAds
      <4>. QED BY <1>5, <4>3
    <3>4. InOrder(h)'
      BY <1>4, <1>7, <3>1, <3>3 DEF InOrder, AllLeq, AllAds
    <3>5. Newest(h)'
      <4>1. answer'[h] = None
        BY DEF IInv, TypeOK
      <4>. QED BY <1>1, <1>4, <1>7, <3>2, <4>1 DEF Newest, AllLeq
    <3>. QED BY <2>2, <3>4, <3>5
  <2>. QED BY <2>1, <2>2
<1>. QED BY <1>6, <1>8 DEF IInv

LEMMA CrashInv ==
    ASSUME IInv, NEW h \in Hosts, Crash(h)
    PROVE  IInv'
<1>. USE DEF Crash, serverVars, browserVars
<1>1. /\ h \in Players /\ h # Browser
      /\ <<>> \in Seq(PeerPackets \cup Advertisers)
  BY HostsArePlayers, EmptySeq
<1>2. /\ toClient' \in [Players -> Seq(PeerPackets \cup Advertisers)]
      /\ toClient'[Browser] \in Seq(ToBrowser) /\ toClient'[Browser] = toClient[Browser]
  BY <1>1, SetToClient, HostsArePlayers
<1>3. TypeOK' /\ Connections'
  <2>1. <<0, 0>> \in Ads
    BY BrowseAssumption DEF Ads
  <2>2. m_ad_data' \in [Hosts -> Ads]
    BY <2>1 DEF IInv, TypeOK
  <2>3. m_is_advertising' \in [Hosts -> BOOLEAN]
    BY DEF IInv, TypeOK
  <2>4. /\ game' \in [Hosts -> {"idle", "copying", "start", "stop"}]
        /\ answer' \in [Hosts -> 0..MaxLobbies \cup {None}]
        /\ alive' \subseteq Hosts
    BY DEF IInv, TypeOK
  <2>. QED BY <1>2, <2>2, <2>3, <2>4 DEF IInv, TypeOK, Connections
<1>4. ASSUME NEW g \in Hosts PROVE InOrder(g)' /\ Newest(g)'
  BY <1>2, SameAds DEF IInv, TypeOK
<1>. QED BY <1>3, <1>4 DEF IInv

LEMMA AgeInv ==
    ASSUME IInv, NEW h \in Hosts, Age(h)
    PROVE  IInv' /\ EntriesAdvance
<1>. USE DEF Age, serverVars, hostVars
<1>1. listed \in [Hosts -> [ad : Ads, recent : BOOLEAN] \cup {None}] /\ listed[h] # None
  BY DEF IInv, TypeOK
<1>2. listed[h] \in [ad : Ads, recent : BOOLEAN] /\ listed[h].ad \in Ads
  BY <1>1
<1>. DEFINE old == [listed[h] EXCEPT !.recent = FALSE]
<1>a. /\ listed' = [listed EXCEPT ![h] = old]
      /\ old \in [ad : Ads, recent : BOOLEAN] /\ old.ad = listed[h].ad
  BY <1>2
<1>. HIDE DEF old
<1>3. listed' \in [Hosts -> [ad : Ads, recent : BOOLEAN] \cup {None}]
  BY <1>1, <1>a
<1>4. TypeOK' /\ Connections'
  BY <1>3 DEF IInv, TypeOK, Connections
<1>5. ASSUME NEW g \in Hosts
      PROVE  Listed(g)' = Listed(g)
  <2>1. old # None
    BY <1>a, EntryIsNotNone
  <2>. QED BY <1>1, <1>a, <2>1 DEF Listed
<1>6. ASSUME NEW g \in Hosts
      PROVE  InOrder(g)' /\ Newest(g)'
  BY <1>5, FewerAds DEF Inbound, Outbound
<1>7. EntriesAdvance
  <2>. SUFFICES ASSUME NEW g \in Hosts, listed[g] # None, NEW half \in 1..2
                PROVE  listed[g].ad[half] <= listed'[g].ad[half]
    BY DEF EntriesAdvance
  <2>1. listed'[g].ad = listed[g].ad /\ listed[g].ad \in Ads
    BY <1>1, <1>a
  <2>2. listed[g].ad[1] \in Nat /\ listed[g].ad[2] \in Nat
    BY <2>1, AdOrder
  <2>3. listed[g].ad[half] \in Nat
    BY <2>2
  <2>. QED BY <2>1, <2>3
<1>. QED BY <1>4, <1>6, <1>7 DEF IInv

-----------------------------------------------------------------------------
(* The steps of the server.                                                  *)

\* A packet is read: the ads behind it keep their order.
LEMMA ReadPackets ==
    ASSUME IInv, NEW p \in Players, NEW types, Read(p, types)
    PROVE  /\ Head(toServer[p]) \in FromPlayer(p) /\ Head(toServer[p]).type \in types
           /\ toServer' \in [Players -> Seq(ServerPackets \cup PeerPackets)]
           /\ \A q \in Players : toServer'[q] \in Seq(FromPlayer(q))
           /\ toServer'[p] = Tail(toServer[p])
           /\ \A q \in Players \ {p} : toServer'[q] = toServer[q]
           /\ \A h \in Hosts :
                 /\ Outbound(h)' \subseteq Outbound(h)
                 /\ Ordered(toServer[h], Browser) => Ordered(toServer'[h], Browser)
<1>1. /\ toServer[p] \in Seq(FromPlayer(p)) /\ toServer[p] # <<>>
      /\ Head(toServer[p]).type \in types
      /\ toServer' = [toServer EXCEPT ![p] = Tail(toServer[p])]
  BY DEF Read, IInv, Connections
<1>2. Head(toServer[p]) \in FromPlayer(p) /\ Tail(toServer[p]) \in Seq(FromPlayer(p))
  BY <1>1, TailAds
<1>3. /\ toServer' \in [Players -> Seq(ServerPackets \cup PeerPackets)]
      /\ \A q \in Players : toServer'[q] \in Seq(FromPlayer(q))
      /\ toServer'[p] = Tail(toServer[p])
      /\ \A q \in Players \ {p} : toServer'[q] = toServer[q]
  BY <1>1, <1>2, SetToServer
<1>4. ASSUME NEW h \in Hosts
      PROVE  /\ Outbound(h)' \subseteq Outbound(h)
             /\ Ordered(toServer[h], Browser) => Ordered(toServer'[h], Browser)
  <2>1. CASE h # p
    BY <1>3, <2>1, HostsArePlayers DEF Outbound
  <2>2. CASE h = p
    <3>1. /\ AdSet(Tail(toServer[p]), Browser) \subseteq AdSet(toServer[p], Browser)
          /\ Ordered(toServer[p], Browser) => Ordered(Tail(toServer[p]), Browser)
      BY <1>1, TailAds
    <3>. QED BY <1>3, <2>2, <3>1 DEF Outbound
  <2>. QED BY <2>1, <2>2
<1>. QED BY <1>1, <1>2, <1>3, <1>4

LEMMA UpdateAdvertisingInv ==
    ASSUME IInv, NEW p \in Players, UpdateAdvertising(p)
    PROVE  IInv'
<1>. USE DEF UpdateAdvertising, hostVars, browserVars
<1>1. /\ Head(toServer[p]) \in FromPlayer(p)
      /\ Head(toServer[p]).type \in {"StartAdvertising", "StopAdvertising"}
      /\ toServer' \in [Players -> Seq(ServerPackets \cup PeerPackets)]
      /\ \A q \in Players : toServer'[q] \in Seq(FromPlayer(q))
      /\ \A h \in Hosts :
            /\ Outbound(h)' \subseteq Outbound(h)
            /\ Ordered(toServer[h], Browser) => Ordered(toServer'[h], Browser)
  BY ReadPackets
<1>2. p \in Hosts
  BY <1>1, HostsArePlayers, BrowserPacket
<1>3. TypeOK' /\ Connections'
  <2>1. advertising' \subseteq Hosts \cup Others
    BY <1>2 DEF IInv, TypeOK
  <2>. QED BY <1>1, <2>1 DEF IInv, TypeOK, Connections
<1>4. ASSUME NEW g \in Hosts PROVE InOrder(g)' /\ Newest(g)'
  <2>1. Listed(g)' = Listed(g) /\ Inbound(g)' = Inbound(g)
    BY DEF Listed, Inbound
  <2>. QED BY <1>1, <2>1, FewerAds
<1>. QED BY <1>3, <1>4 DEF IInv

LEMMA SendAdvertisersInv ==
    ASSUME IInv, SendAdvertisers
    PROVE  IInv'
<1>. USE DEF SendAdvertisers, serverVars, hostVars, browserVars
<1>. DEFINE advertisers == registered \cap advertising
            x == [type |-> "RequestAdvertisers", ids |-> advertisers]
<1>1. /\ toServer' \in [Players -> Seq(ServerPackets \cup PeerPackets)]
      /\ \A q \in Players : toServer'[q] \in Seq(FromPlayer(q))
      /\ \A h \in Hosts :
            /\ Outbound(h)' \subseteq Outbound(h)
            /\ Ordered(toServer[h], Browser) => Ordered(toServer'[h], Browser)
  BY ReadPackets, HostsArePlayers
<1>2. /\ x \in ToBrowser /\ \A h \in Hosts : ~IsAd(x, h)
      /\ toClient[Browser] \in Seq(ToBrowser)
  BY DEF IInv, TypeOK, Connections, ToBrowser, Advertisers, IsAd
<1>3. toClient' = toClient \/ toClient' = [toClient EXCEPT ![Browser] = Append(toClient[Browser], x)]
  OBVIOUS
<1>. HIDE DEF x
<1>4. /\ toClient' \in [Players -> Seq(PeerPackets \cup Advertisers)]
      /\ toClient'[Browser] \in Seq(ToBrowser)
      /\ \/ toClient'[Browser] = toClient[Browser]
         \/ toClient'[Browser] = Append(toClient[Browser], x)
  <2>1. CASE toClient' = toClient
    BY <2>1 DEF IInv, TypeOK, Connections
  <2>2. CASE toClient' = [toClient EXCEPT ![Browser] = Append(toClient[Browser], x)]
    <3>1. Append(toClient[Browser], x) \in Seq(ToBrowser)
      BY <1>2, AppendAds
    <3>2. Append(toClient[Browser], x) \in Seq(PeerPackets \cup Advertisers)
      BY <3>1, PacketTypes, SeqMonotonic
    <3>. QED BY <2>2, <3>1, <3>2, HostsArePlayers, SetToClient
  <2>. QED BY <1>3, <2>1, <2>2
<1>5. TypeOK' /\ Connections'
  BY <1>1, <1>4 DEF IInv, TypeOK, Connections
<1>6. ASSUME NEW g \in Hosts PROVE InOrder(g)' /\ Newest(g)'
  <2>1. Listed(g)' = Listed(g)
    BY DEF Listed
  <2>2. /\ AdSet(Append(toClient[Browser], x), g) = AdSet(toClient[Browser], g)
        /\ Ordered(toClient[Browser], g) => Ordered(Append(toClient[Browser], x), g)
    BY <1>2, AppendAds
  <2>3. /\ Inbound(g)' = Inbound(g)
        /\ Ordered(toClient[Browser], g) => Ordered(toClient'[Browser], g)
    BY <1>4, <2>2 DEF Inbound
  <2>. QED BY <1>1, <2>1, <2>3, FewerAds
<1>. QED BY <1>5, <1>6 DEF IInv

\* A solicitation on its way to a host.
LEMMA RelaySolicitInv ==
    ASSUME IInv, Relay(Browser)
    PROVE  IInv'
<1>. USE DEF Relay, serverVars, hostVars, browserVars
<1>. DEFINE x == Head(toServer[Browser])
            to == x.peer
<1>1. /\ x \in FromPlayer(Browser) /\ x.type \in {"SolicitAds", "GameAd"}
      /\ toServer' \in [Players -> Seq(ServerPackets \cup PeerPackets)]
      /\ \A q \in Players : toServer'[q] \in Seq(FromPlayer(q))
      /\ \A h \in Hosts :
            /\ Outbound(h)' \subseteq Outbound(h)
            /\ Ordered(toServer[h], Browser) => Ordered(toServer'[h], Browser)
  BY ReadPackets, HostsArePlayers
<1>2. /\ to \in Hosts /\ to \in Players /\ to # Browser
      /\ Addressed(x, Browser) \in PeerPackets \cup Advertisers
  BY <1>1, BrowserPacket, HostsArePlayers
<1>3. \/ toClient' = toClient
      \/ toClient' = [toClient EXCEPT ![to] = Append(toClient[to], Addressed(x, Browser))]
  OBVIOUS
<1>. HIDE DEF to, x
<1>4. /\ toClient' \in [Players -> Seq(PeerPackets \cup Advertisers)]
      /\ toClient'[Browser] \in Seq(ToBrowser)
      /\ toClient'[Browser] = toClient[Browser]
  <2>1. CASE toClient' = toClient
    BY <2>1 DEF IInv, TypeOK, Connections
  <2>2. CASE toClient' = [toClient EXCEPT ![to] = Append(toClient[to], Addressed(x, Browser))]
    <3>1. toClient[to] \in Seq(PeerPackets \cup Advertisers)
      BY <1>2 DEF IInv, TypeOK
    <3>2. Append(toClient[to], Addressed(x, Browser)) \in Seq(PeerPackets \cup Advertisers)
      BY <1>2, <3>1, AppendAds
    <3>. QED BY <1>2, <2>2, <3>2, HostsArePlayers, SetToClient
  <2>. QED BY <1>3, <2>1, <2>2
<1>5. TypeOK' /\ Connections'
  BY <1>1, <1>4 DEF IInv, TypeOK, Connections
<1>6. ASSUME NEW g \in Hosts PROVE InOrder(g)' /\ Newest(g)'
  BY <1>1, <1>4, FewerAds DEF Listed, Inbound
<1>. QED BY <1>5, <1>6 DEF IInv

\* An ad changes from the host's connection to the browser's: it is the oldest
\* on the one and becomes the newest on the other.
LEMMA RelayAdInv ==
    ASSUME IInv, NEW h \in Hosts, Relay(h)
    PROVE  IInv'
<1>. USE DEF Relay, serverVars, hostVars, browserVars
<1>. DEFINE x == Head(toServer[h])
            y == Addressed(x, h)
<1>1. /\ x \in FromPlayer(h) /\ x.type \in {"SolicitAds", "GameAd"}
      /\ toServer' \in [Players -> Seq(ServerPackets \cup PeerPackets)]
      /\ \A q \in Players : toServer'[q] \in Seq(FromPlayer(q))
      /\ toServer'[h] = Tail(toServer[h])
      /\ \A g \in Hosts :
            /\ Outbound(g)' \subseteq Outbound(g)
            /\ Ordered(toServer[g], Browser) => Ordered(toServer'[g], Browser)
  BY ReadPackets, HostsArePlayers
<1>2. /\ x.peer = Browser /\ x.ad \in Ads /\ IsAd(x, Browser)
      /\ y \in ToBrowser /\ y.ad = x.ad
      /\ \A g \in Hosts : IsAd(y, g) <=> g = h
  BY <1>1, HostPacket
<1>3. \/ toClient' = toClient
      \/ toClient' = [toClient EXCEPT ![Browser] = Append(toClient[Browser], y)]
  BY <1>2
<1>4. /\ toServer[h] \in Seq(FromPlayer(h)) /\ toServer[h] # <<>>
      /\ toClient[Browser] \in Seq(ToBrowser)
      /\ InOrder(h) /\ Newest(h)
  BY HostsArePlayers DEF Read, IInv, Connections
<1>5. /\ x.ad \in Outbound(h)
      /\ AllLeq({x.ad}, Outbound(h)')
  <2>1. /\ x.ad \in AdSet(toServer[h], Browser)
        /\ Ordered(toServer[h], Browser) => AllLeq({x.ad}, AdSet(Tail(toServer[h]), Browser))
    BY <1>2, <1>4, TailAds
  <2>. QED BY <1>1, <1>4, <2>1 DEF Outbound, InOrder
<1>. HIDE DEF x, y
<1>6. CASE toClient' = toClient
  <2>1. TypeOK' /\ Connections'
    BY <1>1, <1>6 DEF IInv, TypeOK, Connections
  <2>2. ASSUME NEW g \in Hosts PROVE InOrder(g)' /\ Newest(g)'
    BY <1>1, <1>6, FewerAds DEF Listed, Inbound
  <2>. QED BY <2>1, <2>2 DEF IInv
<1>7. CASE toClient' = [toClient EXCEPT ![Browser] = Append(toClient[Browser], y)]
  <2>1. /\ toClient' \in [Players -> Seq(PeerPackets \cup Advertisers)]
        /\ toClient'[Browser] \in Seq(ToBrowser)
        /\ toClient'[Browser] = Append(toClient[Browser], y)
    <3>1. Append(toClient[Browser], y) \in Seq(ToBrowser)
      BY <1>2, <1>4, AppendAds
    <3>2. Append(toClient[Browser], y) \in Seq(PeerPackets \cup Advertisers)
      BY <3>1, PacketTypes, SeqMonotonic
    <3>. QED BY <1>7, <3>1, <3>2, HostsArePlayers, SetToClient
  <2>2. TypeOK' /\ Connections'
    BY <1>1, <2>1 DEF IInv, TypeOK, Connections
  <2>3. ASSUME NEW g \in Hosts, g # h PROVE InOrder(g)' /\ Newest(g)'
    <3>1. /\ AdSet(Append(toClient[Browser], y), g) = AdSet(toClient[Browser], g)
          /\ Ordered(toClient[Browser], g) => Ordered(Append(toClient[Browser], y), g)
      BY <1>2, <1>4, <2>3, AppendAds
    <3>2. /\ Inbound(g)' = Inbound(g)
          /\ Ordered(toClient[Browser], g) => Ordered(toClient'[Browser], g)
      BY <2>1, <3>1 DEF Inbound
    <3>3. Listed(g)' = Listed(g)
      BY DEF Listed
    <3>. QED BY <1>1, <3>2, <3>3, FewerAds
  <2>4. InOrder(h)' /\ Newest(h)'
    <3>. IsAd(y, h) /\ y \in ToBrowser /\ toClient[Browser] \in Seq(ToBrowser)
      BY <1>2, <1>4
    <3>1. \A a : a \in AdSet(Append(toClient[Browser], y), h)
                   <=> a \in AdSet(toClient[Browser], h) \/ a = y.ad
      BY AppendAds
    <3>2. \A a : a \in Inbound(h)' <=> a \in Inbound(h) \/ a = x.ad
      BY <1>2, <2>1, <3>1 DEF Inbound
    <3>3. Listed(h)' = Listed(h) /\ Outbound(h)' \subseteq Outbound(h)
      BY <1>1 DEF Listed
    <3>4. Ordered(toClient'[Browser], h)
      <4>1. \A a \in Inbound(h) : Leq(a, x.ad)
        BY <1>4, <1>5 DEF InOrder, AllLeq
      <4>2. Leq(x.ad, x.ad)
        BY <1>2, AdOrder
      <4>3. AllLeq(AdSet(toClient[Browser], h) \cup {y.ad}, {y.ad})
        BY <1>2, <4>1, <4>2 DEF AllLeq, Inbound
      <4>4. Ordered(toClient[Browser], h)
        BY <1>4 DEF InOrder
      <4>5. Ordered(Append(toClient[Browser], y), h)
        BY <4>3, <4>4, AppendAds
      <4>. QED BY <2>1, <4>5
    <3>5. Ordered(toServer'[h], Browser)
      BY <1>1, <1>4 DEF InOrder
    <3>6. AllLeq(Listed(h)', Inbound(h)' \cup Outbound(h)')
      BY <1>4, <1>5, <3>2, <3>3 DEF InOrder, AllLeq
    <3>7. AllLeq(Inbound(h)', Outbound(h)')
      BY <1>4, <1>5, <3>2, <3>3 DEF InOrder, AllLeq
    <3>8. AllAds(h)' \subseteq AllAds(h)
      BY <1>5, <3>2, <3>3 DEF AllAds
    <3>9. Newest(h)'
      BY <1>4, <3>8 DEF Newest, AllLeq
    <3>. QED BY <3>4, <3>5, <3>6, <3>7, <3>9 DEF InOrder
  <2>. QED BY <2>2, <2>3, <2>4 DEF IInv
<1>. QED BY <1>3, <1>6, <1>7

LEMMA ConnectionLostInv ==
    ASSUME IInv, NEW h \in Hosts, ConnectionLost(h)
    PROVE  IInv'
<1>. USE DEF ConnectionLost, hostVars, browserVars
<1>1. h \in Players /\ <<>> \in Seq(FromPlayer(h))
  BY HostsArePlayers, EmptySeq
<1>2. /\ toServer' \in [Players -> Seq(ServerPackets \cup PeerPackets)]
      /\ \A q \in Players : toServer'[q] \in Seq(FromPlayer(q))
      /\ toServer'[h] = <<>>
      /\ \A q \in Players \ {h} : toServer'[q] = toServer[q]
  BY <1>1, SetToServer
<1>3. TypeOK' /\ Connections'
  BY <1>2 DEF IInv, TypeOK, Connections
<1>4. ASSUME NEW g \in Hosts PROVE InOrder(g)' /\ Newest(g)'
  <2>1. Listed(g)' = Listed(g) /\ Inbound(g)' = Inbound(g)
    BY DEF Listed, Inbound
  <2>2. CASE g # h
    BY <1>2, <2>2, HostsArePlayers, SameAds
  <2>3. CASE g = h
    BY <1>2, <2>1, <2>3, NoAds, FewerAds DEF Outbound
  <2>. QED BY <2>2, <2>3
<1>. QED BY <1>3, <1>4 DEF IInv

-----------------------------------------------------------------------------
(* The steps of the browser.                                                 *)

\* The list forgets what it has not heard of, and the server is asked.
LEMMA RequestAdvertisersInv ==
    ASSUME IInv, RequestAdvertisers
    PROVE  IInv' /\ EntriesAdvance
<1>. USE DEF RequestAdvertisers, serverVars, hostVars
<1>. DEFINE s == toServer[Browser] \o <<Request>>
<1>1. s \in Seq(FromPlayer(Browser))
  <2>1. toServer[Browser] \in Seq(FromPlayer(Browser)) /\ Request \in FromPlayer(Browser)
    BY HostsArePlayers DEF IInv, Connections, FromPlayer, Request
  <2>2. s = Append(toServer[Browser], Request)
    BY <2>1, AppendOne
  <2>. QED BY <2>1, <2>2, AppendAds
<1>2. toServer' = [toServer EXCEPT ![Browser] = s]
  BY DEF Send
<1>. HIDE DEF s
<1>3. /\ toServer' \in [Players -> Seq(ServerPackets \cup PeerPackets)]
      /\ \A q \in Players : toServer'[q] \in Seq(FromPlayer(q))
      /\ \A h \in Hosts : toServer'[h] = toServer[h]
  BY <1>1, <1>2, SetToServer, HostsArePlayers
<1>4. \A h \in Hosts : listed'[h] = listed[h] \/ listed'[h] = None
  BY DEF Expire
<1>5. TypeOK' /\ Connections'
  <2>1. listed \in [Hosts -> [ad : Ads, recent : BOOLEAN] \cup {None}]
    BY DEF IInv, TypeOK
  <2>2. listed' \in [Hosts -> [ad : Ads, recent : BOOLEAN] \cup {None}]
    BY <1>4, <2>1
  <2>. QED BY <1>3, <2>2 DEF IInv, TypeOK, Connections
<1>6. ASSUME NEW g \in Hosts PROVE InOrder(g)' /\ Newest(g)'
  <2>1. Listed(g)' \subseteq Listed(g)
    BY <1>4 DEF Listed
  <2>. QED BY <1>3, <2>1, FewerAds DEF Inbound, Outbound
<1>7. EntriesAdvance
  <2>. SUFFICES ASSUME NEW g \in Hosts, listed[g] # None, listed'[g] # None, NEW half \in 1..2
                PROVE  listed[g].ad[half] <= listed'[g].ad[half]
    BY DEF EntriesAdvance
  <2>1. listed'[g] = listed[g] /\ listed[g].ad \in Ads
    BY <1>4 DEF IInv, TypeOK
  <2>2. listed[g].ad[1] \in Nat /\ listed[g].ad[2] \in Nat
    BY <2>1, AdOrder
  <2>3. listed[g].ad[half] \in Nat
    BY <2>2
  <2>. QED BY <2>1, <2>3
<1>. QED BY <1>5, <1>6, <1>7 DEF IInv

\* Everybody who is known is asked.
LEMMA SolicitAdsInv ==
    ASSUME IInv, SolicitAds
    PROVE  IInv'
<1>. USE DEF SolicitAds, serverVars, hostVars
<1>. DEFINE known == SetToSeq(m_known_advertisers \cap Hosts)
            asked == [i \in 1..Len(known) |-> Solicit(known[i])]
            s == toServer[Browser] \o asked
<1>1. known \in Seq(Hosts) /\ Len(known) \in Nat
  <2>1. IsFiniteSet(m_known_advertisers \cap Hosts)
    BY BrowseAssumption, FS_Subset
  <2>2. known \in Seq(m_known_advertisers \cap Hosts)
    BY <2>1, KnownSequence
  <2>. QED BY <2>2, SeqMonotonic, LenProperties
<1>2. asked \in Seq(FromPlayer(Browser))
  <2>1. \A i \in 1..Len(known) : Solicit(known[i]) \in FromPlayer(Browser)
    BY <1>1, ElementOfSeq DEF Solicit, FromPlayer
  <2>. HIDE DEF known
  <2>2. \A n \in Nat : [1..n -> FromPlayer(Browser)] \subseteq Seq(FromPlayer(Browser))
    BY SeqDef
  <2>3. asked \in [1..Len(known) -> FromPlayer(Browser)]
    BY <2>1
  <2>. QED BY <1>1, <2>2, <2>3
<1>3. s \in Seq(FromPlayer(Browser))
  <2>1. toServer[Browser] \in Seq(FromPlayer(Browser))
    BY HostsArePlayers DEF IInv, Connections
  <2>. QED BY <1>2, <2>1, ConcatProperties
<1>4. toServer' = [toServer EXCEPT ![Browser] = s]
  BY DEF Send
<1>. HIDE DEF s
<1>5. /\ toServer' \in [Players -> Seq(ServerPackets \cup PeerPackets)]
      /\ \A q \in Players : toServer'[q] \in Seq(FromPlayer(q))
      /\ \A h \in Hosts : toServer'[h] = toServer[h]
  BY <1>3, <1>4, SetToServer, HostsArePlayers
<1>6. TypeOK' /\ Connections'
  BY <1>5 DEF IInv, TypeOK, Connections
<1>7. ASSUME NEW g \in Hosts PROVE InOrder(g)' /\ Newest(g)'
  BY <1>5, SameAds
<1>. QED BY <1>6, <1>7 DEF IInv

\* A packet reaches the browser.
LEMMA ReceivedPacket ==
    ASSUME IInv, NEW type, Receive(type)
    PROVE  /\ Head(toClient[Browser]) \in ToBrowser /\ Head(toClient[Browser]).type = type
           /\ toClient' \in [Players -> Seq(PeerPackets \cup Advertisers)]
           /\ toClient'[Browser] \in Seq(ToBrowser)
           /\ \A h \in Hosts :
                 /\ Inbound(h)' \subseteq Inbound(h)
                 /\ Ordered(toClient[Browser], h) => Ordered(toClient'[Browser], h)
                 /\ IsAd(Head(toClient[Browser]), h) =>
                       /\ Head(toClient[Browser]).ad \in Inbound(h)
                       /\ AllLeq({Head(toClient[Browser]).ad}, Inbound(h)')
<1>1. /\ toClient[Browser] \in Seq(ToBrowser) /\ toClient[Browser] # <<>>
      /\ Head(toClient[Browser]).type = type
      /\ toClient' = [toClient EXCEPT ![Browser] = Tail(toClient[Browser])]
  BY DEF Receive, IInv, Connections
<1>2. Head(toClient[Browser]) \in ToBrowser /\ Tail(toClient[Browser]) \in Seq(ToBrowser)
  BY <1>1, TailAds
<1>3. Tail(toClient[Browser]) \in Seq(PeerPackets \cup Advertisers)
  BY <1>2, PacketTypes, SeqMonotonic
<1>4. /\ toClient' \in [Players -> Seq(PeerPackets \cup Advertisers)]
      /\ toClient'[Browser] \in Seq(ToBrowser)
      /\ toClient'[Browser] = Tail(toClient[Browser])
  BY <1>1, <1>2, <1>3, SetToClient, HostsArePlayers
<1>5. ASSUME NEW h \in Hosts
      PROVE  /\ Inbound(h)' \subseteq Inbound(h)
             /\ Ordered(toClient[Browser], h) => Ordered(toClient'[Browser], h)
             /\ IsAd(Head(toClient[Browser]), h) =>
                   /\ Head(toClient[Browser]).ad \in Inbound(h)
                   /\ AllLeq({Head(toClient[Browser]).ad}, Inbound(h)')
  <2>1. /\ AdSet(Tail(toClient[Browser]), h) \subseteq AdSet(toClient[Browser], h)
        /\ Ordered(toClient[Browser], h) => Ordered(Tail(toClient[Browser]), h)
        /\ IsAd(Head(toClient[Browser]), h) =>
              /\ Head(toClient[Browser]).ad \in AdSet(toClient[Browser], h)
              /\ Ordered(toClient[Browser], h) =>
                    AllLeq({Head(toClient[Browser]).ad}, AdSet(Tail(toClient[Browser]), h))
    BY <1>1, TailAds
  <2>2. Ordered(toClient[Browser], h)
    BY DEF IInv, InOrder
  <2>. QED BY <1>4, <2>1, <2>2 DEF Inbound
<1>. QED BY <1>1, <1>2, <1>4, <1>5

LEMMA UpdateKnownAdvertisersInv ==
    ASSUME IInv, UpdateKnownAdvertisers
    PROVE  IInv'
<1>. USE DEF UpdateKnownAdvertisers, serverVars, hostVars
<1>1. /\ Head(toClient[Browser]) \in ToBrowser
      /\ Head(toClient[Browser]).type = "RequestAdvertisers"
      /\ toClient' \in [Players -> Seq(PeerPackets \cup Advertisers)]
      /\ toClient'[Browser] \in Seq(ToBrowser)
      /\ \A h \in Hosts :
            /\ Inbound(h)' \subseteq Inbound(h)
            /\ Ordered(toClient[Browser], h) => Ordered(toClient'[Browser], h)
  BY ReceivedPacket
<1>2. m_known_advertisers' \subseteq Hosts \cup Others
  BY <1>1 DEF ToBrowser, Advertisers
<1>3. TypeOK' /\ Connections'
  BY <1>1, <1>2 DEF IInv, TypeOK, Connections
<1>4. ASSUME NEW g \in Hosts PROVE InOrder(g)' /\ Newest(g)'
  BY <1>1, FewerAds DEF Listed, Outbound
<1>. QED BY <1>3, <1>4 DEF IInv

\* The ad that arrives is the oldest on its way, and newer than the entry.
LEMMA PassAdvertisementInv ==
    ASSUME IInv, PassAdvertisement
    PROVE  IInv' /\ EntriesAdvance
<1>. USE DEF PassAdvertisement, serverVars, hostVars
<1>. DEFINE x == Head(toClient[Browser])
            new == [ad |-> x.ad, recent |-> TRUE]
<1>1. /\ x \in ToBrowser /\ x.type = "GameAd"
      /\ toClient' \in [Players -> Seq(PeerPackets \cup Advertisers)]
      /\ toClient'[Browser] \in Seq(ToBrowser)
      /\ \A g \in Hosts :
            /\ Inbound(g)' \subseteq Inbound(g)
            /\ Ordered(toClient[Browser], g) => Ordered(toClient'[Browser], g)
            /\ IsAd(x, g) =>
                  /\ x.ad \in Inbound(g)
                  /\ AllLeq({x.ad}, Inbound(g)')
  BY ReceivedPacket
<1>a. x.peer \in Hosts /\ x.ad \in Ads
  BY <1>1 DEF ToBrowser, Advertisers
<1>b. PICK h \in Hosts : x.peer = h
  BY <1>a
<1>2. /\ x.ad \in Ads /\ IsAd(x, h)
      /\ new \in [ad : Ads, recent : BOOLEAN] /\ new.ad = x.ad
  BY <1>1, <1>a, <1>b DEF IsAd
<1>3. listed' = [listed EXCEPT ![h] = new] /\ UNCHANGED toServer
  BY <1>b
<1>4. x.ad \in Inbound(h) /\ AllLeq({x.ad}, Inbound(h)')
  BY <1>1, <1>2
<1>. HIDE DEF x, new
<1>5. /\ listed \in [Hosts -> [ad : Ads, recent : BOOLEAN] \cup {None}]
      /\ new # None
  BY <1>2, EntryIsNotNone DEF IInv, TypeOK
<1>6. /\ listed' \in [Hosts -> [ad : Ads, recent : BOOLEAN] \cup {None}]
      /\ listed'[h] = new /\ \A g \in Hosts \ {h} : listed'[g] = listed[g]
  BY <1>2, <1>3, <1>5
<1>7. TypeOK' /\ Connections'
  BY <1>1, <1>6 DEF IInv, TypeOK, Connections
<1>8. InOrder(h) /\ Newest(h) /\ AllAds(h) \subseteq Ads
  BY <1>2, AdsTyped DEF IInv
<1>9. Listed(h)' = {x.ad}
  BY <1>2, <1>5, <1>6 DEF Listed
<1>10. Outbound(h)' = Outbound(h) /\ Inbound(h)' \subseteq Inbound(h)
  BY <1>1, <1>2, <1>3 DEF Outbound
<1>11. ASSUME NEW g \in Hosts PROVE InOrder(g)' /\ Newest(g)'
  <2>1. CASE g # h
    <3>1. Listed(g)' = Listed(g) /\ Outbound(g)' = Outbound(g)
      BY <1>3, <1>6, <2>1 DEF Listed, Outbound
    <3>. QED BY <1>1, <1>3, <3>1, FewerAds
  <2>2. CASE g = h
    <3>1. Ordered(toClient'[Browser], h) /\ Ordered(toServer'[h], Browser)
      BY <1>1, <1>2, <1>3, <1>8 DEF InOrder
    <3>2. AllLeq(Inbound(h)', Outbound(h)')
      BY <1>8, <1>10 DEF InOrder, AllLeq
    <3>3. AllLeq(Listed(h)', Inbound(h)' \cup Outbound(h)')
      BY <1>4, <1>8, <1>9, <1>10 DEF InOrder, AllLeq
    <3>4. AllAds(h)' \subseteq AllAds(h)
      BY <1>4, <1>9, <1>10 DEF AllAds
    <3>5. Newest(h)'
      BY <1>8, <3>4 DEF Newest, AllLeq
    <3>. QED BY <2>2, <3>1, <3>2, <3>3, <3>5 DEF InOrder
  <2>. QED BY <2>1, <2>2
<1>12. EntriesAdvance
  <2>. SUFFICES ASSUME NEW g \in Hosts, listed[g] # None, listed'[g] # None, NEW half \in 1..2
                PROVE  listed[g].ad[half] <= listed'[g].ad[half]
    BY DEF EntriesAdvance
  <2>1. listed[g].ad \in Ads
    BY <1>5
  <2>2. /\ listed[g].ad[1] \in Nat /\ listed[g].ad[2] \in Nat
        /\ Leq(listed[g].ad, listed[g].ad)
    BY <2>1, AdOrder
  <2>3. Leq(listed[g].ad, listed'[g].ad)
    <3>1. CASE g # h
      BY <1>6, <2>2, <3>1
    <3>2. CASE g = h
      <4>1. listed[h].ad \in Listed(h)
        BY <3>2 DEF Listed
      <4>2. Leq(listed[h].ad, x.ad)
        BY <1>4, <1>8, <4>1 DEF InOrder, AllLeq
      <4>. QED BY <1>2, <1>6, <3>2, <4>2
    <3>. QED BY <3>1, <3>2
  <2>4. half = 1 \/ half = 2
    OBVIOUS
  <2>. QED BY <2>3, <2>4 DEF Leq
<1>. QED BY <1>7, <1>11, <1>12 DEF IInv

\* A packet that is cut is missing, as if it had been read.
LEMMA CutPacketInv ==
    ASSUME IInv, NEW p \in Players, CutPacket(p)
    PROVE  IInv'
<1>. USE DEF CutPacket, serverVars, hostVars, browserVars
<1>1. CASE p = Browser
  <2>1. Receive(Head(toClient[Browser]).type)
    BY <1>1 DEF Receive
  <2>2. /\ toClient' \in [Players -> Seq(PeerPackets \cup Advertisers)]
        /\ toClient'[Browser] \in Seq(ToBrowser)
        /\ \A h \in Hosts :
              /\ Inbound(h)' \subseteq Inbound(h)
              /\ Ordered(toClient[Browser], h) => Ordered(toClient'[Browser], h)
    BY <2>1, ReceivedPacket
  <2>3. TypeOK' /\ Connections'
    BY <2>2 DEF IInv, TypeOK, Connections
  <2>4. ASSUME NEW g \in Hosts PROVE InOrder(g)' /\ Newest(g)'
    BY <2>2, FewerAds DEF Listed, Outbound
  <2>. QED BY <2>3, <2>4 DEF IInv
<1>2. CASE p # Browser
  <2>1. /\ toClient[p] \in Seq(PeerPackets \cup Advertisers) /\ toClient[p] # <<>>
        /\ toClient' = [toClient EXCEPT ![p] = Tail(toClient[p])]
    BY DEF IInv, TypeOK
  <2>2. /\ toClient' \in [Players -> Seq(PeerPackets \cup Advertisers)]
        /\ toClient'[Browser] \in Seq(ToBrowser) /\ toClient'[Browser] = toClient[Browser]
    BY <1>2, <2>1, TailAds, SetToClient, HostsArePlayers
  <2>3. TypeOK' /\ Connections'
    BY <2>2 DEF IInv, TypeOK, Connections
  <2>4. ASSUME NEW g \in Hosts PROVE InOrder(g)' /\ Newest(g)'
    BY <2>2, SameAds
  <2>. QED BY <2>3, <2>4 DEF IInv
<1>. QED BY <1>1, <1>2

-----------------------------------------------------------------------------

LEMMA StutterInv ==
    ASSUME IInv, UNCHANGED vars
    PROVE  IInv'
<1>. USE DEF vars, serverVars, hostVars, browserVars
<1>1. TypeOK' /\ Connections'
  BY DEF IInv, TypeOK, Connections
<1>2. ASSUME NEW g \in Hosts PROVE InOrder(g)' /\ Newest(g)'
  BY SameAds
<1>. QED BY <1>1, <1>2 DEF IInv

LEMMA NextInv == IInv /\ [Next]_vars => IInv' /\ [EntriesAdvance]_listed
<1>. SUFFICES ASSUME IInv, [Next]_vars
              PROVE  IInv' /\ (EntriesAdvance \/ UNCHANGED listed)
  OBVIOUS
<1>1. ASSUME NEW h \in Hosts, CreateLobby(h)
      PROVE  IInv' /\ UNCHANGED listed
  BY <1>1, CreateLobbyInv DEF CreateLobby, browserVars
<1>2. ASSUME NEW h \in Hosts, ClearAdvertising(h)
      PROVE  IInv' /\ UNCHANGED listed
  BY <1>2, ClearAdvertisingInv DEF ClearAdvertising, browserVars
<1>3. ASSUME NEW h \in Hosts, GameThread(h)
      PROVE  IInv' /\ UNCHANGED listed
  BY <1>3, SetAdvertisingInv, SendGameInv DEF GameThread, SetAdvertising, SendGame, browserVars
<1>4. ASSUME NEW h \in Hosts, SignalingThread(h)
      PROVE  IInv' /\ UNCHANGED listed
  BY <1>4, SolicitedInv, SendAdInv DEF SignalingThread, Solicited, SendAd, browserVars
<1>5. ASSUME NEW h \in Hosts, Crash(h)
      PROVE  IInv' /\ UNCHANGED listed
  BY <1>5, CrashInv DEF Crash, browserVars
<1>6. ASSUME NEW h \in Hosts, ConnectionLost(h)
      PROVE  IInv' /\ UNCHANGED listed
  BY <1>6, ConnectionLostInv DEF ConnectionLost, browserVars
<1>7. ASSUME NEW h \in Hosts, Age(h)
      PROVE  IInv' /\ EntriesAdvance
  BY <1>7, AgeInv
<1>8. ASSUME NEW p \in Players, ServerReads(p)
      PROVE  IInv' /\ UNCHANGED listed
  <2>1. CASE Relay(p)
    <3>1. IInv'
      BY <2>1, HostsArePlayers, RelaySolicitInv, RelayAdInv
    <3>. QED BY <2>1, <3>1 DEF Relay, browserVars
  <2>2. CASE UpdateAdvertising(p)
    BY <2>2, UpdateAdvertisingInv DEF UpdateAdvertising, browserVars
  <2>3. CASE SendAdvertisers
    BY <2>3, SendAdvertisersInv DEF SendAdvertisers, browserVars
  <2>. QED BY <1>8, <2>1, <2>2, <2>3 DEF ServerReads
<1>9. CASE RequestAdvertisers
  BY <1>9, RequestAdvertisersInv
<1>10. CASE SolicitAds
  BY <1>10, SolicitAdsInv DEF SolicitAds
<1>11. CASE UpdateKnownAdvertisers
  BY <1>11, UpdateKnownAdvertisersInv DEF UpdateKnownAdvertisers
<1>12. CASE PassAdvertisement
  BY <1>12, PassAdvertisementInv
<1>13. ASSUME NEW p \in Players, CutPacket(p)
       PROVE  IInv' /\ UNCHANGED listed
  BY <1>13, CutPacketInv DEF CutPacket, browserVars
<1>14. CASE UNCHANGED vars
  BY <1>14, StutterInv DEF vars, browserVars
<1>. QED
  BY <1>1, <1>2, <1>3, <1>4, <1>5, <1>6, <1>7, <1>8, <1>9, <1>10, <1>11, <1>12, <1>13,
     <1>14
     DEF Next, Browse, BrowserReceives

\* In every reachable state the ads of a host, from its m_ad_data over both
\* connections to the browser's entry, are in the order in which they were begun.
THEOREM Invariance == Spec => []IInv
<1>1. IInv /\ [Next]_vars => IInv'
  BY NextInv
<1>. QED BY InitInv, <1>1, PTL DEF Spec

\* Packets, entries and the threads' places have their types.
THEOREM TypeCorrect == Spec => []TypeOK
<1>1. IInv => TypeOK
  BY DEF IInv
<1>. QED BY <1>1, Invariance, PTL

\* An entry of the browser's list is never replaced by something older, in
\* either of its halves (CrownLink.cpp:86-94, server.py:241-247), however many
\* hosts and lobbies there are, however their packets interleave, and whichever
\* of them are cut by recv.
THEOREM AdsArriveInOrder == Spec => AdsAdvance
<1>1. IInv /\ [Next]_vars => [EntriesAdvance]_listed
  BY NextInv
<1>. QED BY <1>1, Invariance, PTL DEF Spec, AdsAdvance

=============================================================================
