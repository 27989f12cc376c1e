-------------------------- MODULE PeerAgentsProofs --------------------------
(***************************************************************************)
(* Proofs about PeerAgents, for any sessions and any bound on packets.     *)
(***************************************************************************)
EXTENDS PeerAgents, TLAPS

\* The sessions whose description is in a queue, and that none is there twice.
OfferedIn(s) == {x \in Sessions : \E i \in 1..Len(s) : s[i] = Description(x)}
Once(s) == \A i, j \in 1..Len(s) : i # j /\ s[i] = s[j] => s[i] = Signal

\* The other client knows nothing of session s of client p.
Unsent(p, s) ==
    /\ s \notin OfferedIn(net[Other(p)])
    /\ agent[Other(p)] # None => agent[Other(p)].remote # s

\* An agent that has not begun has not sent its description.
UnsentBefore ==
    \A p \in Clients :
        agent[p] # None /\ agent[p].p2p_state = "DISCONNECTED" => Unsent(p, agent[p].session)

\* The inductive invariant.  OneOffer is kept by an agent that begins because
\* its description was not sent before.
IInv == TypeOK /\ OneOffer /\ UnsentBefore

-----------------------------------------------------------------------------
(* Queues.                                                                   *)

LEMMA PacketFacts ==
    /\ Signal \in Packets
    /\ \A s \in Sessions : Description(s) \in Packets /\ Description(s) # Signal
    /\ \A s, t \in Sessions : Description(s) = Description(t) => s = t
    /\ \A packet \in Packets :
         \/ packet = Signal
         \/ packet.type = "JuiceLocalDescription" /\ packet.session \in Sessions
              /\ packet = Description(packet.session)
<1>1. \A s : Description(s).type = "JuiceLocalDescription" /\ Description(s).session = s
  BY DEF Description
<1>2. Signal.type = "Signal"
  BY DEF Signal
<1>. QED BY <1>1, <1>2 DEF Packets

LEMMA OfferedConcat ==
    ASSUME NEW s \in Seq(Packets), NEW t \in Seq(Packets)
    PROVE  /\ s \o t \in Seq(Packets)
           /\ OfferedIn(s \o t) = OfferedIn(s) \cup OfferedIn(t)
           /\ Once(s) /\ Once(t) /\ OfferedIn(s) \cap OfferedIn(t) = {} => Once(s \o t)
<1>1. /\ s \o t \in Seq(Packets) /\ Len(s) \in Nat /\ Len(t) \in Nat
      /\ Len(s \o t) = Len(s) + Len(t)
      /\ \A i \in 1..Len(s) : (s \o t)[i] = s[i]
      /\ \A i \in 1..Len(t) : (s \o t)[Len(s) + i] = t[i]
  OBVIOUS
<1>2. \A i \in 1..Len(s \o t) :
         \/ i \in 1..Len(s) /\ (s \o t)[i] = s[i]
         \/ i - Len(s) \in 1..Len(t) /\ (s \o t)[i] = t[i - Len(s)]
  BY <1>1
<1>3. OfferedIn(s \o t) = OfferedIn(s) \cup OfferedIn(t)
  <2>1. ASSUME NEW x \in OfferedIn(s \o t) PROVE x \in OfferedIn(s) \cup OfferedIn(t)
    BY <1>2 DEF OfferedIn
  <2>2. ASSUME NEW x \in OfferedIn(s) PROVE x \in OfferedIn(s \o t)
    BY <1>1 DEF OfferedIn
  <2>3. ASSUME NEW x \in OfferedIn(t) PROVE x \in OfferedIn(s \o t)
    <3>1. PICK i \in 1..Len(t) : t[i] = Description(x)
      BY DEF OfferedIn
    <3>2. Len(s) + i \in 1..Len(s \o t) /\ (s \o t)[Len(s) + i] = Description(x)
      BY <3>1, <1>1
    <3>. QED BY <3>2 DEF OfferedIn
  <2>. QED BY <2>1, <2>2, <2>3
<1>4. ASSUME Once(s), Once(t), OfferedIn(s) \cap OfferedIn(t) = {},
             NEW i \in 1..Len(s \o t), NEW j \in 1..Len(s \o t),
             i # j, (s \o t)[i] = (s \o t)[j]
      PROVE  (s \o t)[i] = Signal
  <2>1. ASSUME NEW k \in 1..Len(s), NEW l \in 1..Len(t), s[k] = t[l]
        PROVE  s[k] = Signal
    <3>1. s[k] \in Packets
      OBVIOUS
    <3>. QED BY <2>1, <3>1, <1>4, PacketFacts DEF OfferedIn
  <2>2. CASE i \in 1..Len(s) /\ j \in 1..Len(s)
    BY <2>2, <1>1, <1>4 DEF Once
  <2>3. CASE i - Len(s) \in 1..Len(t) /\ j - Len(s) \in 1..Len(t)
    <3>1. /\ (s \o t)[i] = t[i - Len(s)] /\ (s \o t)[j] = t[j - Len(s)]
          /\ i - Len(s) # j - Len(s)
      BY <2>3, <1>1, <1>4
    <3>. QED BY <2>3, <3>1, <1>4 DEF Once
  <2>4. CASE i \in 1..Len(s) /\ j - Len(s) \in 1..Len(t)
    <3>1. (s \o t)[i] = s[i] /\ (s \o t)[j] = t[j - Len(s)]
      BY <2>4, <1>1
    <3>. QED BY <2>1, <2>4, <3>1, <1>4
  <2>5. CASE j \in 1..Len(s) /\ i - Len(s) \in 1..Len(t)
    <3>1. (s \o t)[j] = s[j] /\ (s \o t)[i] = t[i - Len(s)]
      BY <2>5, <1>1
    <3>. QED BY <2>1, <2>5, <3>1, <1>4
  <2>. QED BY <1>2, <2>2, <2>3, <2>4, <2>5
<1>. QED BY <1>1, <1>3, <1>4 DEF Once

LEMMA OfferedTail ==
    ASSUME NEW s \in Seq(Packets), s # <<>>, Once(s)
    PROVE  /\ Head(s) \in Packets /\ Tail(s) \in Seq(Packets)
           /\ OfferedIn(Tail(s)) \subseteq OfferedIn(s)
           /\ Once(Tail(s))
           /\ \A x \in Sessions : Head(s) = Description(x) =>
                 x \in OfferedIn(s) /\ x \notin OfferedIn(Tail(s))
<1>1. /\ Tail(s) \in Seq(Packets) /\ Len(s) \in Nat \ {0} /\ Len(Tail(s)) = Len(s) - 1
      /\ Head(s) = s[1] /\ s[1] \in Packets
  OBVIOUS
<1>2. \A i \in 1..Len(Tail(s)) :
         Tail(s)[i] = s[i + 1] /\ i + 1 \in 1..Len(s) /\ i + 1 # 1
  BY <1>1
<1>3. OfferedIn(Tail(s)) \subseteq OfferedIn(s)
  BY <1>2 DEF OfferedIn
<1>4. Once(Tail(s))
  <2>. SUFFICES ASSUME NEW i \in 1..Len(Tail(s)), NEW j \in 1..Len(Tail(s)),
                       i # j, Tail(s)[i] = Tail(s)[j]
                PROVE  Tail(s)[i] = Signal
    BY DEF Once
  <2>1. i + 1 # j + 1
    OBVIOUS
  <2>. QED BY <1>2, <2>1 DEF Once
<1>5. ASSUME NEW x \in Sessions, Head(s) = Description(x)
      PROVE  x \in OfferedIn(s) /\ x \notin OfferedIn(Tail(s))
  <2>1. 1 \in 1..Len(s) /\ s[1] = Description(x) /\ s[1] # Signal
    BY <1>1, <1>5, PacketFacts
  <2>. QED BY <1>2, <2>1 DEF OfferedIn, Once
<1>. QED BY <1>1, <1>3, <1>4, <1>5

LEMMA OfferedShort ==
    /\ <<>> \in Seq(Packets) /\ OfferedIn(<<>>) = {} /\ Once(<<>>)
    /\ <<Signal>> \in Seq(Packets) /\ OfferedIn(<<Signal>>) = {} /\ Once(<<Signal>>)
    /\ \A s \in Sessions :
         /\ <<Description(s)>> \in Seq(Packets) /\ OfferedIn(<<Description(s)>>) = {s}
         /\ Once(<<Description(s)>>)
BY PacketFacts DEF OfferedIn, Once

LEMMA OfferedAppend ==
    ASSUME NEW s \in Seq(Packets)
    PROVE  /\ OfferedIn(Append(s, Signal)) = OfferedIn(s)
           /\ Once(s) => Once(Append(s, Signal))
           /\ \A x \in Sessions : OfferedIn(s) = {} /\ Once(s) =>
                 /\ OfferedIn(Append(s, Description(x))) = {x}
                 /\ Once(Append(s, Description(x)))
<1>1. Append(s, Signal) = s \o <<Signal>>
  BY PacketFacts
<1>2. OfferedIn(Append(s, Signal)) = OfferedIn(s) /\ (Once(s) => Once(Append(s, Signal)))
  <2>1. OfferedIn(s) \cap {} = {} /\ OfferedIn(s) \cup {} = OfferedIn(s)
    OBVIOUS
  <2>2. <<Signal>> \in Seq(Packets) /\ OfferedIn(<<Signal>>) = {} /\ Once(<<Signal>>)
    BY OfferedShort
  <2>. QED BY <1>1, <2>1, <2>2, OfferedConcat
<1>3. ASSUME NEW x \in Sessions, OfferedIn(s) = {}, Once(s)
      PROVE  /\ OfferedIn(Append(s, Description(x))) = {x}
             /\ Once(Append(s, Description(x)))
  <2>1. Append(s, Description(x)) = s \o <<Description(x)>>
    BY PacketFacts
  <2>2. {} \cap {x} = {} /\ {} \cup {x} = {x}
    OBVIOUS
  <2>3. /\ <<Description(x)>> \in Seq(Packets) /\ OfferedIn(<<Description(x)>>) = {x}
        /\ Once(<<Description(x)>>)
    BY OfferedShort
  <2>. QED BY <1>3, <2>1, <2>2, <2>3, OfferedConcat
<1>. QED BY <1>2, <1>3

-----------------------------------------------------------------------------
(* A call in progress.                                                       *)

Calls == [agent : Agents, out : Seq(Packets), due : BOOLEAN, signaled : BOOLEAN]

\* A call of client p sends the description only of a session not sent before,
\* and only of an agent that has begun.
GoodOut(p, call) ==
    /\ OfferedIn(call.out) \subseteq {call.agent.session}
    /\ Once(call.out)
    /\ call.agent.p2p_state = "DISCONNECTED" => OfferedIn(call.out) = {}
    /\ call.agent.p2p_state = "DISCONNECTED" \/ OfferedIn(call.out) # {}
         => Unsent(p, call.agent.session)

\* A remote description comes from the agent there was or from the network.
GoodRemote(p, remote) ==
    \/ remote = None
    \/ agent[p] # None /\ remote = agent[p].remote
    \/ remote \in OfferedIn(net[p])

GoodCall(p, call) ==
    call \in Calls /\ GoodOut(p, call) /\ GoodRemote(p, call.agent.remote)

LEMMA ClientFacts ==
    ASSUME NEW p \in Clients
    PROVE  /\ Other(p) \in Clients /\ Other(p) # p /\ Other(Other(p)) = p
           /\ \A q \in Clients : q = p \/ q = Other(p)
BY PeerAssumption DEF Clients, Other

LEMMA PingGood ==
    ASSUME NEW p \in Clients, NEW call, GoodCall(p, call)
    PROVE  /\ GoodCall(p, SendSignalPing(call))
           /\ SendSignalPing(call).agent = call.agent
           /\ SendSignalPing(call).signaled = call.signaled
<1>. DEFINE pinged == [call EXCEPT !.out = Append(@, Signal), !.due = FALSE]
<1>1. CASE call.due
  <2>2. call.out \in Seq(Packets) /\ Signal \in Packets
    BY PacketFacts DEF GoodCall, Calls
  <2>5. Append(call.out, Signal) \in Seq(Packets)
    BY <2>2
  <2>1. /\ pinged \in Calls /\ pinged.agent = call.agent
        /\ pinged.signaled = call.signaled /\ pinged.out = Append(call.out, Signal)
    BY <2>5 DEF GoodCall, Calls
  <2>3. /\ OfferedIn(Append(call.out, Signal)) = OfferedIn(call.out)
        /\ Once(call.out) => Once(Append(call.out, Signal))
    BY <2>2, OfferedAppend
  <2>4. SendSignalPing(call) = pinged
    BY <1>1 DEF SendSignalPing
  <2>. HIDE DEF pinged
  <2>. QED BY <2>1, <2>3, <2>4 DEF GoodCall, GoodOut
<1>2. CASE ~call.due
  BY <1>2 DEF SendSignalPing
<1>. QED BY <1>1, <1>2

LEMMA BeginGood ==
    ASSUME NEW p \in Clients, NEW call, GoodCall(p, call),
           call.agent.p2p_state = "DISCONNECTED"
    PROVE  GoodCall(p, Begin(call)) /\ Begin(call).agent.remote = call.agent.remote
<1>. DEFINE next == Begin(call)
            session == call.agent.session
<1>1. /\ next \in Calls /\ next.agent.session = session
      /\ next.agent.remote = call.agent.remote
      /\ next.agent.p2p_state = "CONNECTING"
      /\ next.out = Append(call.out, Description(session))
  <2>1. /\ call.agent \in Agents /\ session \in Sessions
        /\ Description(session) \in Packets /\ call.out \in Seq(Packets)
    BY PacketFacts DEF GoodCall, Calls, Agents
  <2>2. Append(call.out, Description(session)) \in Seq(Packets)
    BY <2>1
  <2>3. [call.agent EXCEPT !.p2p_state = "CONNECTING", !.active = TRUE] \in Agents
    BY <2>1 DEF Agents, States
  <2>. QED BY <2>1, <2>2, <2>3 DEF GoodCall, Calls, Agents, Begin
<1>2. call.out \in Seq(Packets) /\ session \in Sessions
  BY DEF GoodCall, Calls, Agents
<1>3. OfferedIn(call.out) = {} /\ Once(call.out) /\ Unsent(p, session)
  BY DEF GoodCall, GoodOut
<1>4. OfferedIn(next.out) = {session} /\ Once(next.out)
  BY <1>1, <1>2, <1>3, OfferedAppend
<1>. HIDE DEF next
<1>. QED BY <1>1, <1>3, <1>4 DEF GoodCall, GoodOut, next

LEMMA TryInitializeGood ==
    ASSUME NEW p \in Clients, NEW call, GoodCall(p, call)
    PROVE  /\ GoodCall(p, TryInitialize(call))
           /\ TryInitialize(call).agent.remote = call.agent.remote
BY PingGood, BeginGood DEF TryInitialize

LEMMA ActiveGood ==
    ASSUME NEW p \in Clients, NEW call, GoodCall(p, call)
    PROVE  /\ GoodCall(p, [call EXCEPT !.agent.active = TRUE])
           /\ GoodCall(p, [call EXCEPT !.agent.active = TRUE, !.signaled = TRUE])
           /\ [call EXCEPT !.agent.active = TRUE].agent.remote = call.agent.remote
           /\ [call EXCEPT !.agent.active = TRUE, !.signaled = TRUE].agent.remote
                = call.agent.remote
<1>. DEFINE one == [call EXCEPT !.agent.active = TRUE]
            two == [call EXCEPT !.agent.active = TRUE, !.signaled = TRUE]
<1>1. /\ one \in Calls /\ one.out = call.out
      /\ one.agent.session = call.agent.session
      /\ one.agent.p2p_state = call.agent.p2p_state
      /\ one.agent.remote = call.agent.remote
  BY DEF GoodCall, Calls, Agents
<1>2. /\ two \in Calls /\ two.out = call.out
      /\ two.agent.session = call.agent.session
      /\ two.agent.p2p_state = call.agent.p2p_state
      /\ two.agent.remote = call.agent.remote
  BY DEF GoodCall, Calls, Agents
<1>. HIDE DEF one, two
<1>3. GoodCall(p, one) /\ GoodCall(p, two)
  BY <1>1, <1>2 DEF GoodCall, GoodOut
<1>. QED BY <1>1, <1>2, <1>3 DEF one, two

LEMMA MarkLastSignalGood ==
    ASSUME NEW p \in Clients, NEW call, GoodCall(p, call)
    PROVE  /\ GoodCall(p, MarkLastSignal(call))
           /\ MarkLastSignal(call).agent.remote = call.agent.remote
BY ActiveGood, TryInitializeGood DEF MarkLastSignal

LEMMA SendMessageGood ==
    ASSUME NEW p \in Clients, NEW call, GoodCall(p, call)
    PROVE  /\ GoodCall(p, SendMessage(call))
           /\ SendMessage(call).agent.remote = call.agent.remote
BY ActiveGood, TryInitializeGood DEF SendMessage

\* A packet's description is no longer under way once the packet was taken.
LEMMA HandleSignalPacketGood ==
    ASSUME NEW p \in Clients, NEW call, GoodCall(p, call), TypeOK, OneOffer,
           net[p] # <<>>, call.agent.remote \notin OfferedIn(net[p])
    PROVE  /\ GoodCall(p, HandleSignalPacket(call, Head(net[p])))
           /\ HandleSignalPacket(call, Head(net[p])).agent.remote
                \notin OfferedIn(Tail(net[p]))
<1>. DEFINE marked == MarkLastSignal(call)
            packet == Head(net[p])
<1>1. net[p] \in Seq(Packets) /\ Once(net[p])
  BY DEF TypeOK, OneOffer, Once
<1>2. /\ packet \in Packets
      /\ OfferedIn(Tail(net[p])) \subseteq OfferedIn(net[p])
      /\ \A x \in Sessions : packet = Description(x) =>
            x \in OfferedIn(net[p]) /\ x \notin OfferedIn(Tail(net[p]))
  BY <1>1, OfferedTail
<1>3. GoodCall(p, marked) /\ marked.agent.remote \notin OfferedIn(Tail(net[p]))
  BY <1>2, MarkLastSignalGood
<1>. HIDE DEF marked, packet
<1>4. CASE packet.type = "JuiceLocalDescription"
  <2>1. packet.session \in Sessions /\ packet = Description(packet.session)
    <3>1. Signal.type # "JuiceLocalDescription"
      BY DEF Signal
    <3>. QED BY <1>2, <1>4, <3>1, PacketFacts
  <2>2. CASE marked.agent.remote = None
    <3>. DEFINE next == [marked EXCEPT !.agent.remote = packet.session]
    <3>1. /\ next \in Calls /\ next.out = marked.out
          /\ next.agent.session = marked.agent.session
          /\ next.agent.p2p_state = marked.agent.p2p_state
          /\ next.agent.remote = packet.session
      BY <1>3, <2>1 DEF GoodCall, Calls, Agents
    <3>2. SetRemoteDescription(marked, packet) = next
      BY <2>2 DEF SetRemoteDescription
    <3>. HIDE DEF next
    <3>3. GoodCall(p, next) /\ next.agent.remote \notin OfferedIn(Tail(net[p]))
      BY <1>2, <1>3, <2>1, <3>1 DEF GoodCall, GoodOut, GoodRemote
    <3>. QED BY <1>4, <3>2, <3>3 DEF HandleSignalPacket, marked, packet
  <2>3. CASE marked.agent.remote # None
    BY <1>3, <1>4, <2>3 DEF HandleSignalPacket, SetRemoteDescription, marked, packet
  <2>. QED BY <2>2, <2>3
<1>5. CASE packet.type # "JuiceLocalDescription"
  BY <1>3, <1>5 DEF HandleSignalPacket, marked, packet
<1>. QED BY <1>4, <1>5 DEF packet

LEMMA EnsureAgentGood ==
    ASSUME NEW p \in Clients, NEW due \in BOOLEAN, IInv, CanEnsure(p)
    PROVE  /\ GoodCall(p, EnsureAgent(p, due))
           /\ EnsureAgent(p, due).agent.remote \notin OfferedIn(net[p])
<1>1. CASE HasActive(p)
  <2>. DEFINE call == [agent |-> agent[p], out |-> <<>>, due |-> due, signaled |-> FALSE]
  <2>1. agent[p] \in Agents
    BY <1>1 DEF IInv, TypeOK, HasActive
  <2>2. call \in Calls /\ call.agent = agent[p] /\ call.out = <<>>
    BY <2>1, OfferedShort DEF Calls
  <2>3. EnsureAgent(p, due) = call
    BY <1>1 DEF EnsureAgent
  <2>. HIDE DEF call
  <2>4. GoodCall(p, call)
    BY <1>1, <2>2, OfferedShort
    DEF GoodCall, GoodOut, GoodRemote, IInv, UnsentBefore, HasActive
  <2>5. agent[p].remote \notin OfferedIn(net[p])
    BY <1>1 DEF IInv, OneOffer, HasActive, Offered, OfferedIn
  <2>. QED BY <2>2, <2>3, <2>4, <2>5
<1>2. CASE ~HasActive(p)
  <2>. DEFINE s == CHOOSE s \in Fresh(p) : TRUE
              call == [agent |-> [session |-> s, p2p_state |-> "DISCONNECTED",
                                  remote |-> None, active |-> TRUE],
                       out |-> <<>>, due |-> TRUE, signaled |-> FALSE]
  <2>1. s \in Fresh(p)
    BY <1>2 DEF CanEnsure
  <2>2. s \in Sessions /\ Unsent(p, s)
    BY <2>1 DEF Fresh, Unsent, Offered, OfferedIn
  <2>. HIDE DEF s
  <2>3. /\ call \in Calls /\ call.out = <<>>
        /\ call.agent.session = s /\ call.agent.remote = None
    BY <2>2, OfferedShort DEF Calls, Agents, States
  <2>4. EnsureAgent(p, due) = TryInitialize(call)
    BY <1>2 DEF EnsureAgent, NewAgent, s
  <2>. HIDE DEF call
  <2>5. GoodCall(p, call)
    BY <2>2, <2>3, OfferedShort DEF GoodCall, GoodOut, GoodRemote
  <2>6. None \notin OfferedIn(net[p])
    BY PeerAssumption DEF OfferedIn
  <2>. QED BY <2>3, <2>4, <2>5, <2>6, TryInitializeGood
<1>. QED BY <1>1, <1>2

\* A call leaves the invariant true when it ends.
LEMMA FinishKeeps ==
    ASSUME NEW p \in Clients, NEW call, NEW unread, IInv, GoodCall(p, call),
           unread \in {net[p], Tail(net[p])}, net[p] # <<>> \/ unread = net[p],
           call.agent.remote \notin OfferedIn(unread),
           Finish(p, call, unread)
    PROVE  IInv'
<1>. DEFINE q == Other(p)
<1>1. /\ q \in Clients /\ q # p /\ Other(p) = q /\ Other(q) = p
      /\ \A r \in Clients : r = p \/ r = q
  BY ClientFacts
<1>2. /\ net[p] \in Seq(Packets) /\ net[q] \in Seq(Packets)
      /\ Once(net[p]) /\ Once(net[q])
      /\ agent \in [Clients -> Agents \cup {None}]
  BY <1>1 DEF IInv, TypeOK, OneOffer, Once
<1>3. /\ unread \in Seq(Packets) /\ Once(unread)
      /\ OfferedIn(unread) \subseteq OfferedIn(net[p])
  BY <1>2, OfferedTail
<1>4. /\ call.agent \in Agents /\ call.out \in Seq(Packets) /\ GoodOut(p, call)
      /\ GoodRemote(p, call.agent.remote)
  BY DEF GoodCall, Calls
<1>. HIDE DEF q
<1>5. OfferedIn(net[q]) \cap OfferedIn(call.out) = {}
  BY <1>1, <1>4 DEF GoodOut, Unsent
<1>6. /\ net[q] \o call.out \in Seq(Packets) /\ Once(net[q] \o call.out)
      /\ OfferedIn(net[q] \o call.out) = OfferedIn(net[q]) \cup OfferedIn(call.out)
  BY <1>2, <1>4, <1>5, OfferedConcat DEF GoodOut
<1>7. /\ net' = [net EXCEPT ![p] = unread, ![q] = net[q] \o call.out]
      /\ agent' = [agent EXCEPT ![p] = call.agent]
      /\ net \in [Clients -> Seq(Packets)]
  <2>1. net[q] = [net EXCEPT ![p] = unread][q]
    BY <1>1 DEF IInv, TypeOK
  <2>. QED BY <1>1, <2>1 DEF Finish, IInv, TypeOK
<1>8. /\ net'[p] = unread /\ net'[q] = net[q] \o call.out
      /\ agent'[p] = call.agent /\ agent'[q] = agent[q]
  BY <1>1, <1>2, <1>7
<1>9. TypeOK'
  BY <1>1, <1>2, <1>3, <1>4, <1>6, <1>7 DEF TypeOK
<1>10. /\ OfferedIn(net[q])' = OfferedIn(net[q]) \cup OfferedIn(call.out)
       /\ OfferedIn(net[p])' = OfferedIn(unread)
       /\ Once(net[q])' /\ Once(net[p])'
  <2>1. /\ OfferedIn(net[q])' = OfferedIn(net[q] \o call.out)
        /\ Once(net[q])' = Once(net[q] \o call.out)
    BY <1>8 DEF OfferedIn, Once
  <2>2. OfferedIn(net[p])' = OfferedIn(unread) /\ Once(net[p])' = Once(unread)
    BY <1>8 DEF OfferedIn, Once
  <2>. QED BY <1>3, <1>6, <2>1, <2>2
<1>11. ASSUME NEW r \in Clients
       PROVE  Once(net[r])' /\ (agent[r] # None => agent[r].remote \notin OfferedIn(net[r]))'
  <2>1. (agent[p] # None => agent[p].remote \notin OfferedIn(net[p]))'
    BY <1>8, <1>10
  <2>2. ASSUME agent[q] # None PROVE agent[q].remote \notin OfferedIn(call.out)
    BY <1>1, <1>4, <2>2 DEF GoodOut, Unsent
  <2>3. ASSUME agent[q] # None PROVE agent[q].remote \notin OfferedIn(net[q])
    BY <1>1, <2>3 DEF IInv, OneOffer, Offered, OfferedIn
  <2>4. (agent[q] # None => agent[q].remote \notin OfferedIn(net[q]))'
    BY <1>8, <1>10, <2>2, <2>3
  <2>. QED BY <1>1, <1>10, <2>1, <2>4
<1>12. OneOffer'
  BY <1>11 DEF OneOffer, Once, Offered, OfferedIn
<1>13. UnsentBefore'
  <2>1. ASSUME agent'[p].p2p_state = "DISCONNECTED" PROVE Unsent(p, agent[p].session)'
    <3>1. Unsent(p, call.agent.session) /\ OfferedIn(call.out) = {}
      BY <1>4, <1>8, <2>1 DEF GoodOut
    <3>. QED BY <1>1, <1>8, <1>10, <3>1 DEF Unsent
  <2>2. ASSUME agent[q] # None, agent[q].p2p_state = "DISCONNECTED"
        PROVE  Unsent(q, agent[q].session)'
    <3>1. /\ agent[q].session \notin OfferedIn(net[p])
          /\ agent[p] # None => agent[p].remote # agent[q].session
      BY <1>1, <2>2 DEF IInv, UnsentBefore, Unsent
    <3>2. agent[q].session # None
      BY <1>1, <1>2, <2>2, PeerAssumption DEF Agents
    <3>3. call.agent.remote # agent[q].session
      BY <1>4, <3>1, <3>2 DEF GoodRemote
    <3>. QED BY <1>1, <1>3, <1>8, <1>10, <3>1, <3>3 DEF Unsent
  <2>. QED BY <1>1, <1>8, <2>1, <2>2 DEF UnsentBefore
<1>. QED BY <1>9, <1>12, <1>13 DEF IInv

-----------------------------------------------------------------------------
(* The invariant.                                                            *)

\* Steps that offer nothing, give no agent another session or description, and
\* put none back to its beginning.
Quiet ==
    \A p \in Clients :
        /\ Once(net[p])'
        /\ OfferedIn(net[p])' \subseteq OfferedIn(net[p])
        /\ agent'[p] # None =>
             /\ agent[p] # None
             /\ agent'[p].session = agent[p].session
             /\ agent'[p].remote = agent[p].remote
             /\ agent'[p].p2p_state = "DISCONNECTED" => agent[p].p2p_state = "DISCONNECTED"

LEMMA QuietKeeps ==
    ASSUME IInv, TypeOK', Quiet
    PROVE  IInv'
<1>1. ASSUME NEW p \in Clients
      PROVE  Once(net[p])' /\ (agent[p] # None => agent[p].remote \notin OfferedIn(net[p]))'
  <2>1. agent[p] # None => agent[p].remote \notin OfferedIn(net[p])
    BY DEF IInv, OneOffer, Offered, OfferedIn
  <2>. QED BY <2>1 DEF Quiet
<1>2. OneOffer'
  BY <1>1 DEF OneOffer, Once, Offered, OfferedIn
<1>3. ASSUME NEW p \in Clients, agent'[p] # None, agent'[p].p2p_state = "DISCONNECTED"
      PROVE  Unsent(p, agent[p].session)'
  <2>1. Unsent(p, agent[p].session) /\ agent'[p].session = agent[p].session
    BY <1>3 DEF IInv, UnsentBefore, Quiet
  <2>2. Other(p) \in Clients
    BY ClientFacts
  <2>. QED BY <2>1, <2>2 DEF Unsent, Quiet
<1>. QED BY <1>2, <1>3 DEF IInv, UnsentBefore

LEMMA QueueFacts ==
    ASSUME IInv, NEW p \in Clients
    PROVE  /\ net[p] \in Seq(Packets) /\ Once(net[p])
           /\ agent[p] \in Agents \cup {None}
           /\ Append(net[p], Signal) \in Seq(Packets)
           /\ Once(Append(net[p], Signal))
           /\ OfferedIn(Append(net[p], Signal)) = OfferedIn(net[p])
<1>1. /\ net[p] \in Seq(Packets) /\ Once(net[p])
      /\ agent[p] \in Agents \cup {None}
  BY DEF IInv, TypeOK, OneOffer, Once
<1>. QED BY <1>1, OfferedAppend, PacketFacts

LEMMA InitIInv == Init => IInv
<1>. SUFFICES ASSUME Init PROVE IInv
  OBVIOUS
<1>1. /\ TypeOK
      /\ \A p \in Clients : agent[p] = None /\ net[p] = <<>>
  BY OfferedShort DEF Init, TypeOK
<1>2. OneOffer
  BY <1>1 DEF OneOffer
<1>. QED BY <1>1, <1>2 DEF IInv, UnsentBefore

\* An agent is active again, in a state other than its first, while a signal
\* may be sent.
LEMMA AgentStepKeeps ==
    ASSUME IInv, NEW p \in Clients, NEW a \in Agents, agent[p] # None,
           a.session = agent[p].session, a.remote = agent[p].remote,
           a.p2p_state = "DISCONNECTED" => agent[p].p2p_state = "DISCONNECTED",
           agent' = [agent EXCEPT ![p] = a],
           UNCHANGED net \/ net' = [net EXCEPT ![Other(p)] = Append(@, Signal)]
    PROVE  IInv'
<1>1. Other(p) \in Clients
  BY ClientFacts
<1>2. TypeOK'
  BY <1>1, QueueFacts DEF IInv, TypeOK
<1>3. \A r \in Clients : agent'[r] = IF r = p THEN a ELSE agent[r]
  BY DEF IInv, TypeOK
<1>4. \A r \in Clients : net'[r] = net[r] \/ net'[r] = Append(net[r], Signal)
  BY <1>1 DEF IInv, TypeOK
<1>5. \A r \in Clients : Once(net[r])' /\ OfferedIn(net[r])' = OfferedIn(net[r])
  <2>. TAKE r \in Clients
  <2>1. CASE net'[r] = net[r]
    BY <2>1, QueueFacts DEF Once, OfferedIn
  <2>2. CASE net'[r] = Append(net[r], Signal)
    <3>1. /\ Once(net[r])' = Once(Append(net[r], Signal))
          /\ OfferedIn(net[r])' = OfferedIn(Append(net[r], Signal))
      BY <2>2 DEF Once, OfferedIn
    <3>. QED BY <3>1, QueueFacts
  <2>. QED BY <1>4, <2>1, <2>2
<1>6. Quiet
  BY <1>3, <1>5 DEF Quiet
<1>. QED BY <1>2, <1>6, QuietKeeps

LEMMA StateChangedKeeps ==
    ASSUME IInv, NEW p \in Clients, NEW state \in States \ {"DISCONNECTED"},
           agent[p] # None, StateChanged(p, state)
    PROVE  IInv'
<1>. DEFINE a == [agent[p] EXCEPT !.p2p_state = state, !.active = TRUE]
<1>1. /\ a \in Agents /\ a.session = agent[p].session
      /\ a.remote = agent[p].remote /\ a.p2p_state = state
  BY QueueFacts DEF Agents
<1>2. agent' = [agent EXCEPT ![p] = a] /\ UNCHANGED net
  BY DEF StateChanged
<1>. HIDE DEF a
<1>. QED BY <1>1, <1>2, AgentStepKeeps

\* m_last_active changes, and a signal may be sent.
LEMMA ActivityKeeps ==
    ASSUME IInv, NEW p \in Clients, agent[p] # None, NEW active \in BOOLEAN,
           agent' = [agent EXCEPT ![p].active = active],
           UNCHANGED net \/ net' = [net EXCEPT ![Other(p)] = Append(@, Signal)]
    PROVE  IInv'
<1>. DEFINE a == [agent[p] EXCEPT !.active = active]
<1>1. /\ a \in Agents /\ a.session = agent[p].session
      /\ a.remote = agent[p].remote /\ a.p2p_state = agent[p].p2p_state
  BY QueueFacts DEF Agents
<1>2. agent' = [agent EXCEPT ![p] = a]
  OBVIOUS
<1>. HIDE DEF a
<1>. QED BY <1>1, <1>2, AgentStepKeeps

LEMMA StepIInv == IInv /\ [Next]_vars => IInv'
<1>. SUFFICES ASSUME IInv, [Next]_vars PROVE IInv'
  OBVIOUS
<1>0. /\ TypeOK /\ OneOffer /\ Browser \in Clients
      /\ \A p \in Clients : net[p] = net[p]
  BY DEF IInv, Clients
<1>1. CASE LearnAdvertiser
  <2>1. CanEnsure(Browser)
    BY <1>1 DEF LearnAdvertiser
  <2>2. Finish(Browser, EnsureAgent(Browser, FALSE), net[Browser])
    BY <1>1 DEF LearnAdvertiser
  <2>3. /\ GoodCall(Browser, EnsureAgent(Browser, FALSE))
        /\ EnsureAgent(Browser, FALSE).agent.remote \notin OfferedIn(net[Browser])
    BY <1>0, <2>1, EnsureAgentGood
  <2>. QED BY <1>0, <2>2, <2>3, FinishKeeps
<1>2. CASE RequestAdvertisements
  <2>. DEFINE call == EnsureAgent(Browser, TRUE)
  <2>1. /\ CanEnsure(Browser)
        /\ Finish(Browser, SendSignalPing(call), net[Browser])
    BY <1>2 DEF RequestAdvertisements
  <2>2. GoodCall(Browser, call) /\ call.agent.remote \notin OfferedIn(net[Browser])
    BY <1>0, <2>1, EnsureAgentGood
  <2>. HIDE DEF call
  <2>3. /\ GoodCall(Browser, SendSignalPing(call))
        /\ SendSignalPing(call).agent.remote \notin OfferedIn(net[Browser])
    BY <1>0, <2>2, PingGood
  <2>. QED BY <1>0, <2>1, <2>3, FinishKeeps
<1>3. CASE SendAd
  <2>1. TypeOK'
    BY <1>0, <1>3, QueueFacts DEF SendAd, TypeOK
  <2>2. \A r \in Clients : net'[r] = net[r] \/ net'[r] = Append(net[r], Signal)
    BY <1>0, <1>3 DEF SendAd, TypeOK
  <2>3. \A r \in Clients : Once(net[r])' /\ OfferedIn(net[r])' = OfferedIn(net[r])
    <3>. TAKE r \in Clients
    <3>1. CASE net'[r] = net[r]
      BY <3>1, QueueFacts DEF Once, OfferedIn
    <3>2. CASE net'[r] = Append(net[r], Signal)
      <4>1. /\ Once(net[r])' = Once(Append(net[r], Signal))
            /\ OfferedIn(net[r])' = OfferedIn(Append(net[r], Signal))
        BY <3>2 DEF Once, OfferedIn
      <4>. QED BY <4>1, QueueFacts
    <3>. QED BY <2>2, <3>1, <3>2
  <2>. QED BY <1>3, <2>1, <2>3, QuietKeeps DEF SendAd, Quiet
<1>4. ASSUME NEW p \in Clients, SendP2P(p) PROVE IInv'
  <2>1. PICK due \in BOOLEAN :
          Finish(p, SendMessage(EnsureAgent(p, due)), net[p])
    BY <1>4 DEF SendP2P
  <2>. DEFINE call == EnsureAgent(p, due)
  <2>2. GoodCall(p, call) /\ call.agent.remote \notin OfferedIn(net[p])
    BY <1>4, EnsureAgentGood DEF SendP2P
  <2>3. Finish(p, SendMessage(call), net[p])
    BY <2>1
  <2>. HIDE DEF call
  <2>4. /\ GoodCall(p, SendMessage(call))
        /\ SendMessage(call).agent.remote \notin OfferedIn(net[p])
    BY <2>2, SendMessageGood
  <2>. QED BY <2>3, <2>4, FinishKeeps
<1>5. ASSUME NEW p \in Clients, Receive(p) PROVE IInv'
  <2>0. net[p] # <<>> /\ CanEnsure(p)
    BY <1>5 DEF Receive
  <2>1. PICK due \in BOOLEAN :
          Finish(p, HandleSignalPacket(EnsureAgent(p, due), Head(net[p])), Tail(net[p]))
    BY <1>5 DEF Receive
  <2>. DEFINE call == EnsureAgent(p, due)
              handled == HandleSignalPacket(call, Head(net[p]))
  <2>3. GoodCall(p, call) /\ call.agent.remote \notin OfferedIn(net[p])
    BY <2>0, EnsureAgentGood
  <2>4. Finish(p, handled, Tail(net[p]))
    BY <2>1
  <2>. HIDE DEF call
  <2>5. GoodCall(p, handled) /\ handled.agent.remote \notin OfferedIn(Tail(net[p]))
    BY <1>0, <2>0, <2>3, HandleSignalPacketGood
  <2>. HIDE DEF handled
  <2>. QED BY <2>0, <2>4, <2>5, FinishKeeps
<1>6. ASSUME NEW p \in Clients, ClearInactiveAgents(p) PROVE IInv'
  <2>1. TypeOK' /\ \A r \in Clients : agent'[r] = IF r = p THEN None ELSE agent[r]
    BY <1>0, <1>6 DEF ClearInactiveAgents, TypeOK
  <2>2. \A r \in Clients : Once(net[r])' /\ OfferedIn(net[r])' = OfferedIn(net[r])
    BY <1>6, QueueFacts DEF ClearInactiveAgents, Once, OfferedIn
  <2>. QED BY <2>1, <2>2, QuietKeeps DEF Quiet
<1>7. ASSUME NEW p \in Clients, Trickle(p) PROVE IInv'
  BY <1>7, ActivityKeeps DEF Trickle
<1>8. ASSUME NEW p \in Clients, JuiceConnected(p) PROVE IInv'
  <2>1. agent[p] # None /\ StateChanged(p, "CONNECTED")
    BY <1>8 DEF JuiceConnected
  <2>. QED BY <2>1, StateChangedKeeps DEF States
<1>9. ASSUME NEW p \in Clients, JuiceFailed(p) PROVE IInv'
  <2>1. agent[p] # None /\ StateChanged(p, "FAILED")
    BY <1>9 DEF JuiceFailed
  <2>. QED BY <2>1, StateChangedKeeps DEF States
<1>10. ASSUME NEW p \in Clients, OnRecv(p) PROVE IInv'
  BY <1>10, ActivityKeeps DEF OnRecv
<1>11. ASSUME NEW p \in Clients, Lose(p) PROVE IInv'
  <2>1. /\ Tail(net[p]) \in Seq(Packets) /\ Once(Tail(net[p]))
        /\ OfferedIn(Tail(net[p])) \subseteq OfferedIn(net[p])
    BY <1>11, QueueFacts, OfferedTail DEF Lose
  <2>2. TypeOK' /\ \A r \in Clients : net'[r] = IF r = p THEN Tail(net[p]) ELSE net[r]
    BY <1>0, <1>11, <2>1 DEF Lose, TypeOK
  <2>3. ASSUME NEW r \in Clients
        PROVE  Once(net[r])' /\ OfferedIn(net[r])' \subseteq OfferedIn(net[r])
    <3>1. CASE r = p
      <4>1. /\ Once(net[r])' = Once(Tail(net[p]))
            /\ OfferedIn(net[r])' = OfferedIn(Tail(net[p]))
        BY <2>2, <3>1 DEF Once, OfferedIn
      <4>. QED BY <2>1, <3>1, <4>1
    <3>2. CASE r # p
      BY <2>2, <3>2, QueueFacts DEF Once, OfferedIn
    <3>. QED BY <3>1, <3>2
  <2>. QED BY <1>11, <2>2, <2>3, QuietKeeps DEF Lose, Quiet
<1>12. ASSUME NEW p \in Clients, FiveMinutesPass(p) PROVE IInv'
  BY <1>12, ActivityKeeps DEF FiveMinutesPass
<1>13. CASE UNCHANGED vars
  BY <1>13 DEF vars, IInv, TypeOK, OneOffer, UnsentBefore, Unsent, Offered, OfferedIn
<1>. QED
  BY <1>1, <1>2, <1>3, <1>4, <1>5, <1>6, <1>7, <1>8, <1>9, <1>10, <1>11, <1>12, <1>13
  DEF Next

\* The inductive invariant holds in every reachable state (JuiceManager.cpp:13-75).
THEOREM Invariance == Spec => []IInv
<1>. QED BY InitIInv, StepIInv, PTL DEF Spec

\* Agents and packets have their types (JuiceAgent.h:48-58).
THEOREM TypeCorrect == Spec => []TypeOK
<1>1. IInv => TypeOK
  BY DEF IInv
<1>. QED BY Invariance, <1>1, PTL

\* A session's description is under way at most once, and no longer once it was
\* taken, whichever calls, replacements and losses come between
\* (JuiceAgent.cpp:54-64).
THEOREM OfferedOnce == Spec => []OneOffer
<1>1. IInv => OneOffer
  BY DEF IInv
<1>. QED BY Invariance, <1>1, PTL

=============================================================================
