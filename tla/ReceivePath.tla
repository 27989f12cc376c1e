--------------------------- MODULE ReceivePath ---------------------------
(***************************************************************************)
(* How a game packet gets from a peer to Storm.  libjuice calls on_recv on *)
(* the thread of the peer's agent; it queues the packet in a               *)
(* moodycamel::ConcurrentQueue and then sets the event Storm waits for.    *)
(* Storm, once woken, calls spi_receive until it returns false, and frees  *)
(* what it was given.  The queue is FIFO for each thread that enqueues,    *)
(* and nothing is promised about the order between threads.                *)
(*                                                                         *)
(* Storm's use of the event is external.  The exit of spi_receive for an   *)
(* exception, which only an allocation that fails can raise, is left out.  *)
(***************************************************************************)
EXTENDS Naturals, Sequences

CONSTANTS
    Agents,      \* the peers' agents, each with a thread of its own
    MaxPackets,  \* bound: packets an agent receives
    TickMod,     \* 2^32: GetTickCount is a u32 of milliseconds
    MaxAge,      \* 10000
    MaxClock     \* bound: the last time considered

ASSUME ReceiveAssumption ==
    /\ {MaxPackets, TickMod, MaxAge, MaxClock} \subseteq Nat
    /\ MaxAge < TickMod

VARIABLES
    queue,      \* m_receive_queue: of each agent, its packets in order
    received,   \* how many packets an agent has received
    agent,      \* where the agent's thread is in on_recv
    event,      \* g_receive_event
    storm,      \* where Storm's thread is
    handed,     \* of each agent, its packets Storm was given, in order
    dropped,    \* the packets spi_receive skipped, with the age they had
    clock

vars == <<queue, received, agent, event, storm, handed, dropped, clock>>

GetTickCount == clock % TickMod

Init ==
    /\ queue = [a \in Agents |-> <<>>]
    /\ received = [a \in Agents |-> 0]
    /\ agent = [a \in Agents |-> "idle"]
    /\ event = FALSE
    /\ storm = "waiting"
    /\ handed = [a \in Agents |-> <<>>]
    /\ dropped = {}
    /\ clock = 0

-----------------------------------------------------------------------------
(* JuiceAgent::on_recv.                                                      *)

\* Variant: the tick count is not cut to 32 bits.
WidePacket(a) == [nr |-> received[a] + 1, timestamp |-> clock, at |-> clock]

Packet(a) == [nr |-> received[a] + 1, timestamp |-> GetTickCount, at |-> clock]

\* Variant: the newest packet is queued in front.
EnqueueInFront(a) ==
    /\ agent[a] = "idle" /\ received[a] < MaxPackets
    /\ queue' = [queue EXCEPT ![a] = <<Packet(a)>> \o @]
    /\ received' = [received EXCEPT ![a] = @ + 1]
    /\ agent' = [agent EXCEPT ![a] = "enqueued"]
    /\ UNCHANGED <<event, storm, handed, dropped, clock>>

Enqueue(a) ==
    /\ agent[a] = "idle" /\ received[a] < MaxPackets
    /\ queue' = [queue EXCEPT ![a] = Append(@, Packet(a))]
    /\ received' = [received EXCEPT ![a] = @ + 1]
    /\ agent' = [agent EXCEPT ![a] = "enqueued"]
    /\ UNCHANGED <<event, storm, handed, dropped, clock>>

SetEvent(a) ==
    /\ agent[a] = "enqueued"
    /\ event' = TRUE
    /\ agent' = [agent EXCEPT ![a] = "idle"]
    /\ UNCHANGED <<queue, received, storm, handed, dropped, clock>>

-----------------------------------------------------------------------------
(* Storm's thread.                                                           *)

\* External: Storm waits for the event, which is reset as it is woken.
Wake ==
    /\ storm = "waiting" /\ event
    /\ event' = FALSE
    /\ storm' = "receiving"
    /\ UNCHANGED <<queue, received, agent, handed, dropped, clock>>

\* Variant: the comparison of spi_receive with ">=".
TooOldEarly(p) == GetTickCount >= (p.timestamp + MaxAge) % TickMod

\* u32 arithmetic: the sum wraps.
TooOld(p) == GetTickCount > (p.timestamp + MaxAge) % TickMod

\* try_dequeue, from whichever thread's packets.
Dequeue(a) ==
    /\ queue[a] # <<>>
    /\ queue' = [queue EXCEPT ![a] = Tail(@)]

\* Variant: spi_receive returns false after a packet that is too old.
SkipAndReturn(a) ==
    /\ storm = "receiving"
    /\ Dequeue(a)
    /\ TooOld(Head(queue[a]))
    /\ dropped' = dropped \cup {[packet |-> Head(queue[a]), when |-> clock]}
    /\ storm' = "waiting"
    /\ UNCHANGED <<received, agent, event, handed, clock>>

\* The packet is too old: skipped, and the loop goes on.
SkipPacket(a) ==
    /\ storm = "receiving"
    /\ Dequeue(a)
    /\ TooOld(Head(queue[a]))
    /\ dropped' = dropped \cup {[packet |-> Head(queue[a]), when |-> clock]}
    /\ UNCHANGED <<received, agent, event, storm, handed, clock>>

\* spi_receive returns true; Storm calls spi_free and then spi_receive again.
HandPacket(a) ==
    /\ storm = "receiving"
    /\ Dequeue(a)
    /\ ~TooOld(Head(queue[a]))
    /\ handed' = [handed EXCEPT ![a] = Append(@, Head(queue[a]).nr)]
    /\ storm' = "holding"
    /\ UNCHANGED <<received, agent, event, dropped, clock>>

Free ==
    /\ storm = "holding"
    /\ storm' = "receiving"
    /\ UNCHANGED <<queue, received, agent, event, handed, dropped, clock>>

\* The queue is empty: spi_receive returns false and Storm waits again.
ReceiveNothing ==
    /\ storm = "receiving"
    /\ \A a \in Agents : queue[a] = <<>>
    /\ storm' = "waiting"
    /\ UNCHANGED <<queue, received, agent, event, handed, dropped, clock>>

Tick ==
    /\ clock < MaxClock
    /\ clock' = clock + 1
    /\ UNCHANGED <<queue, received, agent, event, storm, handed, dropped>>

-----------------------------------------------------------------------------

StormStep ==
    \/ Wake \/ Free \/ ReceiveNothing
    \/ \E a \in Agents : SkipPacket(a) \/ HandPacket(a)

Next ==
    \/ \E a \in Agents : Enqueue(a) \/ SetEvent(a)
    \/ StormStep
    \/ Tick

\* on_recv runs to its end, and Storm serves its event; packets need not come.
Fairness == WF_vars(StormStep) /\ \A a \in Agents : WF_vars(SetEvent(a))

Spec == Init /\ [][Next]_vars /\ Fairness

-----------------------------------------------------------------------------

Packets == [nr : 1..MaxPackets, timestamp : 0..TickMod-1, at : 0..MaxClock]

TypeOK ==
    /\ queue \in [Agents -> Seq(Packets)]
    /\ received \in [Agents -> 0..MaxPackets]
    /\ agent \in [Agents -> {"idle", "enqueued"}]
    /\ event \in BOOLEAN
    /\ storm \in {"waiting", "receiving", "holding"}
    /\ handed \in [Agents -> Seq(1..MaxPackets)]
    /\ dropped \subseteq [packet : Packets, when : 0..MaxClock]
    /\ clock \in 0..MaxClock

\* Storm never sleeps on a packet: while it waits and one is queued, the
\* event is set or about to be (JuiceAgent.cpp:174-175).
NoLostWakeup ==
    storm = "waiting" /\ (\E a \in Agents : queue[a] # <<>>)
        => event \/ \E a \in Agents : agent[a] = "enqueued"

\* Storm gets a peer's packets in the order they came, none twice, and those
\* that are missing were skipped or are still queued (SNPModule.cpp:312-328).
InOrder ==
    \A a \in Agents :
        /\ \A i, j \in 1..Len(handed[a]) : i < j => handed[a][i] < handed[a][j]
        /\ \A i \in 1..Len(handed[a]), j \in 1..Len(queue[a]) :
             handed[a][i] < queue[a][j].nr

\* Away from the wrap of the tick count, only packets that are more than
\* 10 s old are skipped (SNPModule.cpp:319).
OnlyStaleDropped ==
    \A d \in dropped :
        \/ d.when - d.packet.at > MaxAge
        \/ d.when \div TickMod # d.packet.at \div TickMod
        \/ d.packet.timestamp + MaxAge >= TickMod

\* The receive path is such a channel: in order, none twice, some missing
\* (JuiceAgent.cpp:170-176, SNPModule.cpp:305-336).
Channel == INSTANCE PacketChannel WITH Peers <- Agents
ChannelSpec == Channel!Spec

\* Every packet leaves the queue, however packets and Storm interleave.
QueueDrains == \A a \in Agents : queue[a] # <<>> ~> queue[a] = <<>>

=============================================================================
