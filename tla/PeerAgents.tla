---------------------------- MODULE PeerAgents ----------------------------
(***************************************************************************)
(* Two clients on their way to a peer-to-peer connection: one browses      *)
(* lobbies, the other hosts one.  Each has, in JuiceManager::m_agents, at  *)
(* most one JuiceAgent for the other, made when it is needed, replaced     *)
(* once it failed, and dropped when it was not used for 5 minutes.  What   *)
(* the agents tell each other goes through the signaling server, which     *)
(* keeps the order of packets and may lose them.                           *)
(*                                                                         *)
(* JuiceManager::m_mutex is held by every call, so a call is one step.     *)
(* libjuice, the relay, Storm and the passing of time are external.        *)
(***************************************************************************)
EXTENDS Naturals, Sequences

CONSTANTS
    Browser, Host,   \* the two clients
    Sessions,        \* ICE sessions (ufrag and password); a dead one's is used again
    None,            \* no agent, no remote description
    MaxNet           \* bound: packets under way to a client before pings are added

ASSUME PeerAssumption ==
    /\ Browser # Host
    /\ None \notin Sessions
    /\ MaxNet \in Nat \ {0}

VARIABLES
    agent,   \* of each client, its m_agents entry for the other
    net      \* packets on their way to each client, in order

vars == <<agent, net>>

Clients == {Browser, Host}
Other(p) == IF p = Browser THEN Host ELSE Browser

\* What the code tells apart of juice_state: CONNECTING stands for GATHERING as
\* well, CONNECTED for COMPLETED.
States == {"DISCONNECTED", "CONNECTING", "CONNECTED", "FAILED"}

\* All that a SignalingPing, a candidate, the end of gathering, or the ad of a
\* game not yet in progress is to an agent; and a JuiceLocalDescription.
Signal == [type |-> "Signal"]
Description(s) == [type |-> "JuiceLocalDescription", session |-> s]
Packets == {Signal} \cup {Description(s) : s \in Sessions}

\* Of the times an agent keeps only m_last_active is state: "active" says it
\* is less than 5 minutes ago.  Whether the last ping is more than 1 s ago is
\* open at each call; and m_last_signal is asked for only by an agent that has
\* not begun, which was never signaled, as a signaled one begins at once.
Agents ==
    [session : Sessions, p2p_state : States, remote : Sessions \cup {None},
     active : BOOLEAN]

Init ==
    /\ agent = [p \in Clients |-> None]
    /\ net = [p \in Clients |-> <<>>]

IsActive(a) == a.p2p_state # "FAILED" /\ a.active

-----------------------------------------------------------------------------
(* JuiceAgent.  A call in progress is the agent, the packets it has sent,    *)
(* whether a ping is due, and whether the agent was signaled in this call.   *)

SendSignalPing(call) ==
    IF call.due THEN [call EXCEPT !.out = Append(@, Signal), !.due = FALSE]
    ELSE call

\* It sends its description and gathers, upon which libjuice reports a new
\* state at once.
Begin(call) ==
    [call EXCEPT !.agent.p2p_state = "CONNECTING", !.agent.active = TRUE,
                 !.out = Append(@, Description(call.agent.session))]

\* Variant: an agent that has begun begins again.
TryInitializeAgain(call) ==
    LET pinged == SendSignalPing(call)
    IN  IF pinged.signaled THEN Begin(pinged) ELSE pinged

TryInitialize(call) ==
    LET pinged == SendSignalPing(call)
    IN  IF pinged.agent.p2p_state = "DISCONNECTED" /\ pinged.signaled
        THEN Begin(pinged)
        ELSE pinged

\* Variant: the signal is noted only.
MarkLastSignalOnly(call) ==
    [call EXCEPT !.agent.active = TRUE, !.signaled = TRUE]

MarkLastSignal(call) ==
    TryInitialize([call EXCEPT !.agent.active = TRUE, !.signaled = TRUE])

\* Variant: the whole packet is taken for the description.
SetRemotePacket(call, packet) == [call EXCEPT !.agent.remote = packet]

\* libjuice takes one remote description and refuses another one.
SetRemoteDescription(call, packet) ==
    IF call.agent.remote = None
    THEN [call EXCEPT !.agent.remote = packet.session]
    ELSE call

HandleSignalPacket(call, packet) ==
    LET marked == MarkLastSignal(call)
    IN  IF packet.type = "JuiceLocalDescription"
        THEN SetRemoteDescription(marked, packet)
        ELSE marked

\* Data are sent if the agent is connected, and are lost otherwise.
SendMessage(call) ==
    LET marked == [call EXCEPT !.agent.active = TRUE]
    IN  IF call.agent.p2p_state = "DISCONNECTED" THEN TryInitialize(marked)
        ELSE marked

-----------------------------------------------------------------------------
(* JuiceManager.                                                             *)

\* The sessions whose description is on its way to p.
Offered(p) ==
    {s \in Sessions : \E i \in 1..Len(net[p]) : net[p][i] = Description(s)}

\* Sessions p can give a new agent: the other does not know of them.
Fresh(p) ==
    {s \in Sessions \ Offered(Other(p)) :
        agent[Other(p)] # None => agent[Other(p)].remote # s}

\* JuiceAgent's constructor: a first ping, since m_last_ping is set back by 1 s.
NewAgent(s) ==
    TryInitialize([agent |-> [session |-> s, p2p_state |-> "DISCONNECTED",
                              remote |-> None, active |-> TRUE],
                   out |-> <<>>, due |-> TRUE, signaled |-> FALSE])

\* ensure_agent: the agent there is, or a new one in place of none or of one
\* that is not active.
HasActive(p) == agent[p] # None /\ IsActive(agent[p])
CanEnsure(p) == HasActive(p) \/ Fresh(p) # {}
EnsureAgent(p, due) ==
    IF HasActive(p)
    THEN [agent |-> agent[p], out |-> <<>>, due |-> due, signaled |-> FALSE]
    ELSE NewAgent(CHOOSE s \in Fresh(p) : TRUE)

\* The end of a call of client p; "unread" is what is still on its way to p.
Finish(p, call, unread) ==
    /\ agent' = [agent EXCEPT ![p] = call.agent]
    /\ net' = [net EXCEPT ![p] = unread, ![Other(p)] = @ \o call.out]

Room(p) == Len(net[p]) < MaxNet

\* update_known_advertisers names the host.
LearnAdvertiser ==
    /\ CanEnsure(Browser) /\ Room(Host)
    /\ Finish(Browser, EnsureAgent(Browser, FALSE), net[Browser])

\* request_advertisements, for the host.  One for which no ping is due changes
\* nothing, unless it makes an agent, which pings.
RequestAdvertisements ==
    /\ CanEnsure(Browser) /\ Room(Host)
    /\ Finish(Browser, SendSignalPing(EnsureAgent(Browser, TRUE)), net[Browser])

\* The host answers a solicitation with its lobby; its agent has no part in it.
SendAd ==
    /\ Room(Browser)
    /\ net' = [net EXCEPT ![Browser] = Append(@, Signal)]
    /\ UNCHANGED agent

\* spi_send.
SendP2P(p) ==
    /\ CanEnsure(p) /\ Room(Other(p))
    /\ \E due \in BOOLEAN : Finish(p, SendMessage(EnsureAgent(p, due)), net[p])

ClearInactiveAgents(p) ==
    /\ agent[p] # None /\ ~IsActive(agent[p])
    /\ agent' = [agent EXCEPT ![p] = None]
    /\ UNCHANGED net

Receive(p) ==
    /\ net[p] # <<>>
    /\ CanEnsure(p)
    /\ \E due \in BOOLEAN :
         /\ due => Room(Other(p))
         /\ Finish(p, HandleSignalPacket(EnsureAgent(p, due), Head(net[p])), Tail(net[p]))

-----------------------------------------------------------------------------
(* libjuice, the relay and time.                                             *)

\* on_state_changed.
StateChanged(p, state) ==
    /\ agent' = [agent EXCEPT ![p].p2p_state = state, ![p].active = TRUE]
    /\ UNCHANGED net

\* on_candidate, on_gathering_done.
Trickle(p) ==
    /\ agent[p] # None /\ agent[p].p2p_state \in {"CONNECTING", "CONNECTED"}
    /\ Room(Other(p))
    /\ agent' = [agent EXCEPT ![p].active = TRUE]
    /\ net' = [net EXCEPT ![Other(p)] = Append(@, Signal)]

\* Two sessions that have each other's description can connect.
JuiceConnected(p) ==
    /\ \A q \in Clients :
        /\ agent[q] # None /\ agent[q].p2p_state \in {"CONNECTING", "CONNECTED"}
        /\ agent[Other(q)] # None /\ agent[q].remote = agent[Other(q)].session
    /\ agent[p].p2p_state = "CONNECTING"
    /\ StateChanged(p, "CONNECTED")

\* Checks fail, or a connection breaks.
JuiceFailed(p) ==
    /\ agent[p] # None /\ agent[p].p2p_state \in {"CONNECTING", "CONNECTED"}
    /\ agent[p].remote # None
    /\ StateChanged(p, "FAILED")

OnRecv(p) ==
    /\ agent[p] # None /\ agent[p].p2p_state = "CONNECTED"
    /\ agent' = [agent EXCEPT ![p].active = TRUE]
    /\ UNCHANGED net

\* The server does not know the addressee at the moment.
Lose(p) ==
    /\ net[p] # <<>>
    /\ net' = [net EXCEPT ![p] = Tail(@)]
    /\ UNCHANGED agent

\* No packet is under way for 5 minutes.
FiveMinutesPass(p) ==
    /\ agent[p] # None /\ agent[p].active
    /\ \A q \in Clients : net[q] = <<>>
    /\ agent' = [agent EXCEPT ![p].active = FALSE]
    /\ UNCHANGED net

-----------------------------------------------------------------------------

Next ==
    \/ LearnAdvertiser \/ RequestAdvertisements \/ SendAd
    \/ \E p \in Clients :
        \/ SendP2P(p) \/ ClearInactiveAgents(p) \/ Receive(p)
        \/ Trickle(p) \/ JuiceConnected(p) \/ JuiceFailed(p) \/ OnRecv(p)
        \/ Lose(p) \/ FiveMinutesPass(p)

\* Storm goes on browsing, with a ping due now and then, libjuice connects
\* what it can, and the relay does not lose everything.  Room is why browsing
\* needs strong fairness.
Fairness ==
    /\ SF_vars(RequestAdvertisements)
    /\ \A p \in Clients :
        SF_vars(Receive(p)) /\ WF_vars(JuiceConnected(p))

Spec == Init /\ [][Next]_vars /\ Fairness

-----------------------------------------------------------------------------

TypeOK ==
    /\ agent \in [Clients -> Agents \cup {None}]
    /\ net \in [Clients -> Seq(Packets)]

\* A session's description is sent once, whatever happens meanwhile: it is
\* never under way twice, nor when the other agent has taken it already
\* (JuiceAgent.cpp:54-64).
OneOffer ==
    \A p \in Clients :
        /\ \A i, j \in 1..Len(net[p]) :
             i # j /\ net[p][i] = net[p][j] => net[p][i] = Signal
        /\ agent[p] # None => agent[p].remote \notin Offered(p)

\* The description of p's agent, once sent, is on its way or was taken by the
\* other's present agent.
Heard(p) ==
    agent[p] # None /\ agent[p].p2p_state # "DISCONNECTED" =>
        \/ agent[p].session \in Offered(Other(p))
        \/ agent[Other(p)] # None /\ agent[Other(p)].remote = agent[p].session

\* The description p's agent has taken is that of the other's present agent.
Current(p) ==
    agent[p] # None /\ agent[p].remote # None =>
        agent[Other(p)] # None /\ agent[Other(p)].session = agent[p].remote

InStep == \A p \in Clients : Heard(p) /\ Current(p)

\* While one browses and unless an agent was replaced or its description lost
\* when the other had begun, the two get connected and stay so: pings at most
\* once a second are enough to start both sides, whoever is first
\* (JuiceAgent.cpp:48-94, CrownLink.cpp:39-45).
Connects ==
    <>[]InStep => <>[](\A p \in Clients : agent[p] # None /\ agent[p].p2p_state = "CONNECTED")

=============================================================================
