------------------------- MODULE ReceivePathProofs -------------------------
(***************************************************************************)
(* Proofs about ReceivePath, for any agents, numbers of packets and times. *)
(***************************************************************************)
EXTENDS ReceivePath, TLAPS

\* An agent's packets are queued in the order of their numbers.
QueueOrder ==
    \A a \in Agents :
        /\ \A i \in 1..Len(queue[a]) : queue[a][i].nr <= received[a]
        /\ \A i, j \in 1..Len(queue[a]) : i < j => queue[a][i].nr < queue[a][j].nr

\* A queued packet bears the tick count of the moment it came.
Stamped ==
    \A a \in Agents : \A i \in 1..Len(queue[a]) :
        /\ queue[a][i].timestamp = queue[a][i].at % TickMod
        /\ queue[a][i].at <= clock

HandedWereReceived ==
    \A a \in Agents : \A i \in 1..Len(handed[a]) : handed[a][i] <= received[a]

\* The inductive invariant.  InOrder needs the order of what is still queued,
\* OnlyStaleDropped needs that its timestamps are true.
IInv ==
    /\ TypeOK /\ QueueOrder /\ Stamped /\ HandedWereReceived
    /\ InOrder /\ NoLostWakeup /\ OnlyStaleDropped

-----------------------------------------------------------------------------

LEMMA ConstantTypes ==
    /\ MaxPackets \in Nat /\ MaxAge \in Nat /\ MaxClock \in Nat
    /\ TickMod \in Nat /\ TickMod > 0
BY ReceiveAssumption

LEMMA TickCount == ASSUME NEW t \in Nat PROVE t % TickMod \in 0..TickMod-1
BY ConstantTypes

\* Within one round of the tick count, and if the sum does not wrap, the
\* comparison in spi_receive tells the age.
LEMMA AgeWithinRound ==
    ASSUME NEW now \in Nat, NEW at \in Nat,
           now \div TickMod = at \div TickMod,
           (at % TickMod) + MaxAge < TickMod,
           now % TickMod > ((at % TickMod) + MaxAge) % TickMod
    PROVE  now - at > MaxAge
<1>. DEFINE q == at \div TickMod
<1>1. /\ TickMod \in Nat \ {0} /\ MaxAge \in Nat
      /\ at % TickMod \in 0..TickMod-1 /\ now % TickMod \in 0..TickMod-1
      /\ q \in Nat
  BY ConstantTypes
<1>2. now = TickMod * q + (now % TickMod) /\ at = TickMod * q + (at % TickMod)
  BY <1>1
<1>3. ((at % TickMod) + MaxAge) % TickMod = (at % TickMod) + MaxAge
  BY <1>1
<1>4. TickMod * q \in Nat
  BY <1>1
<1>. HIDE DEF q
<1>. QED BY <1>1, <1>2, <1>3, <1>4

\* What an agent queues.
LEMMA PacketType ==
    ASSUME TypeOK, NEW a \in Agents, received[a] < MaxPackets
    PROVE  /\ Packet(a) \in Packets
           /\ Packet(a).nr = received[a] + 1
           /\ Packet(a).timestamp = Packet(a).at % TickMod
           /\ Packet(a).at = clock
<1>. DEFINE r == clock % TickMod
<1>1. /\ received[a] + 1 \in 1..MaxPackets
      /\ clock \in Nat /\ clock \in 0..MaxClock
  BY ConstantTypes DEF TypeOK
<1>2. r \in 0..TickMod-1
  BY <1>1, TickCount
<1>3. Packet(a) = [nr |-> received[a] + 1, timestamp |-> r, at |-> clock]
  BY DEF Packet, GetTickCount
<1>4. r = clock % TickMod
  OBVIOUS
<1>. HIDE DEF r
<1>5. Packet(a) \in Packets
  BY <1>1, <1>2, <1>3 DEF Packets
<1>. QED BY <1>3, <1>4, <1>5

\* What a queued packet is.
LEMMA Queued ==
    ASSUME TypeOK, NEW a \in Agents
    PROVE  /\ queue[a] \in Seq(Packets) /\ Len(queue[a]) \in Nat
           /\ received[a] \in Nat
           /\ \A i \in 1..Len(queue[a]) :
                 /\ queue[a][i] \in Packets
                 /\ queue[a][i].nr \in 1..MaxPackets /\ queue[a][i].nr \in Nat
                 /\ queue[a][i].at \in Nat
<1>1. queue[a] \in Seq(Packets) /\ Len(queue[a]) \in Nat /\ received[a] \in Nat
  BY ConstantTypes DEF TypeOK
<1>2. \A p \in Packets : p.nr \in 1..MaxPackets /\ p.nr \in Nat /\ p.at \in Nat
  BY ConstantTypes DEF Packets
<1>3. \A i \in 1..Len(queue[a]) : queue[a][i] \in Packets
  BY <1>1
<1>. QED BY <1>1, <1>2, <1>3

\* What Storm was given.
LEMMA Handed ==
    ASSUME TypeOK, NEW a \in Agents
    PROVE  /\ handed[a] \in Seq(1..MaxPackets) /\ Len(handed[a]) \in Nat
           /\ \A i \in 1..Len(handed[a]) : handed[a][i] \in 1..MaxPackets /\ handed[a][i] \in Nat
<1>1. handed[a] \in Seq(1..MaxPackets)
  BY DEF TypeOK
<1>. QED BY <1>1, ConstantTypes

\* The queue after try_dequeue.
LEMMA DequeueShifts ==
    ASSUME TypeOK, NEW a \in Agents, Dequeue(a)
    PROVE  /\ queue' \in [Agents -> Seq(Packets)]
           /\ Head(queue[a]) = queue[a][1]
           /\ Len(queue[a]) \in Nat \ {0} /\ Len(queue'[a]) = Len(queue[a]) - 1
           /\ \A i \in 1..Len(queue'[a]) : queue'[a][i] = queue[a][i + 1]
           /\ \A b \in Agents : b # a => queue'[b] = queue[b]
BY DEF TypeOK, Dequeue

\* Taking a packet out disturbs neither the order nor the timestamps of the rest.
LEMMA DequeueKeeps ==
    ASSUME IInv, NEW a \in Agents, Dequeue(a), UNCHANGED <<received, clock>>
    PROVE  QueueOrder' /\ Stamped'
<1>1. TypeOK /\ QueueOrder /\ Stamped
  BY DEF IInv
<1>2. /\ Len(queue[a]) \in Nat \ {0} /\ Len(queue'[a]) = Len(queue[a]) - 1
      /\ \A i \in 1..Len(queue'[a]) : queue'[a][i] = queue[a][i + 1]
      /\ \A b \in Agents : b # a => queue'[b] = queue[b]
  BY <1>1, DequeueShifts
<1>3. \A i \in 1..Len(queue'[a]) : i + 1 \in 1..Len(queue[a])
  BY <1>2
<1>4. QueueOrder'
  <2>. SUFFICES ASSUME NEW b \in Agents
       PROVE  /\ \A i \in 1..Len(queue'[b]) : queue'[b][i].nr <= received[b]
              /\ \A i, j \in 1..Len(queue'[b]) : i < j => queue'[b][i].nr < queue'[b][j].nr
    BY DEF QueueOrder
  <2>1. CASE b # a
    BY <2>1, <1>1, <1>2 DEF QueueOrder
  <2>2. CASE b = a
    <3>1. \A i \in 1..Len(queue'[a]) : queue'[a][i].nr <= received[a]
      BY <1>1, <1>2, <1>3 DEF QueueOrder
    <3>2. ASSUME NEW i \in 1..Len(queue'[a]), NEW j \in 1..Len(queue'[a]), i < j
          PROVE  queue'[a][i].nr < queue'[a][j].nr
      <4>1. i + 1 \in 1..Len(queue[a]) /\ j + 1 \in 1..Len(queue[a]) /\ i + 1 < j + 1
        BY <3>2, <1>2, <1>3
      <4>. QED BY <4>1, <1>1, <1>2 DEF QueueOrder
    <3>. QED BY <2>2, <3>1, <3>2
  <2>. QED BY <2>1, <2>2
<1>5. Stamped'
  <2>. SUFFICES ASSUME NEW b \in Agents, NEW i \in 1..Len(queue'[b])
       PROVE  /\ queue'[b][i].timestamp = queue'[b][i].at % TickMod
              /\ queue'[b][i].at <= clock
    BY DEF Stamped
  <2>1. \E k \in 1..Len(queue[b]) : queue'[b][i] = queue[b][k]
    BY <1>2, <1>3
  <2>. QED BY <1>1, <2>1 DEF Stamped
<1>. QED BY <1>4, <1>5

LEMMA InitIInv == Init => IInv
<1>. SUFFICES ASSUME Init PROVE IInv
  OBVIOUS
<1>1. TypeOK
  <2>1. event \in BOOLEAN
    BY DEF Init
  <2>2. queue \in [Agents -> Seq(Packets)] /\ handed \in [Agents -> Seq(1..MaxPackets)]
    BY DEF Init
  <2>. QED BY <2>1, <2>2, ConstantTypes DEF Init, TypeOK
<1>. QED BY <1>1 DEF Init, IInv, QueueOrder, Stamped, HandedWereReceived, InOrder,
                     NoLostWakeup, OnlyStaleDropped

-----------------------------------------------------------------------------

LEMMA EnqueueStep ==
    ASSUME IInv, NEW a \in Agents, Enqueue(a)
    PROVE  IInv'
<1>. USE DEF IInv
<1>1. /\ queue' \in [Agents -> Seq(Packets)]
      /\ Len(queue[a]) \in Nat /\ Len(queue'[a]) = Len(queue[a]) + 1
      /\ queue'[a][Len(queue[a]) + 1] = Packet(a)
      /\ \A i \in 1..Len(queue[a]) : queue'[a][i] = queue[a][i] /\ queue[a][i] \in Packets
      /\ \A b \in Agents : b # a => queue'[b] = queue[b]
  BY PacketType DEF Enqueue, TypeOK
<1>2. /\ received' \in [Agents -> 0..MaxPackets]
      /\ received'[a] = received[a] + 1 /\ received[a] \in Nat
      /\ \A b \in Agents : b # a => received'[b] = received[b]
  BY ReceiveAssumption DEF Enqueue, TypeOK
<1>3. TypeOK'
  BY <1>1, <1>2 DEF Enqueue, TypeOK
<1>4. QueueOrder'
  <2>. SUFFICES ASSUME NEW b \in Agents
       PROVE  /\ \A i \in 1..Len(queue'[b]) : queue'[b][i].nr <= received'[b]
              /\ \A i, j \in 1..Len(queue'[b]) : i < j => queue'[b][i].nr < queue'[b][j].nr
    BY DEF QueueOrder
  <2>1. CASE b # a
    BY <2>1, <1>1, <1>2 DEF QueueOrder
  <2>2. CASE b = a
    <3>1. \A i \in 1..Len(queue[a]) : queue[a][i].nr \in Nat /\ queue[a][i].nr <= received[a]
      BY Queued DEF QueueOrder
    <3>2. queue'[a][Len(queue[a]) + 1].nr = received[a] + 1
      BY <1>1, PacketType DEF Enqueue
    <3>3. \A i \in 1..Len(queue'[a]) :
             \/ i \in 1..Len(queue[a]) /\ queue'[a][i] = queue[a][i]
             \/ i = Len(queue[a]) + 1
      BY <1>1
    <3>4. \A i \in 1..Len(queue'[a]) : queue'[a][i].nr <= received'[a]
      <4>. HIDE DEF IInv
      <4>. TAKE i \in 1..Len(queue'[a])
      <4>1. CASE i \in 1..Len(queue[a]) /\ queue'[a][i] = queue[a][i]
        <5>1. queue[a][i].nr \in Nat /\ queue[a][i].nr <= received[a]
          BY <3>1, <4>1
        <5>. QED BY <1>2, <4>1, <5>1
      <4>2. CASE i = Len(queue[a]) + 1
        BY <1>2, <3>2, <4>2
      <4>. QED BY <3>3, <4>1, <4>2
    <3>5. ASSUME NEW i \in 1..Len(queue'[a]), NEW j \in 1..Len(queue'[a]), i < j
          PROVE  queue'[a][i].nr < queue'[a][j].nr
      <4>1. i \in 1..Len(queue[a]) /\ queue'[a][i] = queue[a][i]
        BY <1>1, <3>3, <3>5
      <4>2. CASE j \in 1..Len(queue[a]) /\ queue'[a][j] = queue[a][j]
        BY <3>5, <4>1, <4>2 DEF QueueOrder
      <4>3. CASE j = Len(queue[a]) + 1
        BY <1>2, <3>1, <3>2, <4>1, <4>3
      <4>. QED BY <3>3, <4>2, <4>3
    <3>. QED BY <2>2, <3>4, <3>5
  <2>. QED BY <2>1, <2>2
<1>5. Stamped'
  <2>1. /\ Packet(a).timestamp = Packet(a).at % TickMod
        /\ Packet(a).at <= clock /\ clock' = clock
    BY PacketType, ConstantTypes DEF Enqueue, TypeOK
  <2>2. \A b \in Agents : \A i \in 1..Len(queue'[b]) :
           \/ queue'[b][i] = Packet(a)
           \/ i \in 1..Len(queue[b]) /\ queue'[b][i] = queue[b][i]
    BY <1>1
  <2>. QED BY <2>1, <2>2 DEF Stamped
<1>6. HandedWereReceived' /\ InOrder'
  <2>1. \A b \in Agents : \A i \in 1..Len(handed[b]) : handed[b][i] \in Nat
    BY Handed
  <2>2. HandedWereReceived'
    BY <2>1, <1>2 DEF HandedWereReceived, Enqueue, TypeOK
  <2>. QED BY <2>1, <2>2, <1>1, <1>2, PacketType DEF HandedWereReceived, InOrder, Enqueue
<1>7. NoLostWakeup' /\ OnlyStaleDropped'
  BY <1>3 DEF NoLostWakeup, OnlyStaleDropped, Enqueue, TypeOK
<1>. QED BY <1>3, <1>4, <1>5, <1>6, <1>7

LEMMA SkipStep ==
    ASSUME IInv, NEW a \in Agents, SkipPacket(a)
    PROVE  IInv'
<1>. DEFINE p == queue[a][1]
<1>1. /\ Dequeue(a) /\ TooOld(p)
      /\ dropped' = dropped \cup {[packet |-> p, when |-> clock]}
      /\ UNCHANGED <<received, agent, event, storm, handed, clock>>
      /\ storm = "receiving"
  BY DequeueShifts DEF SkipPacket, IInv
<1>2. p \in Packets /\ p.at \in Nat /\ clock \in Nat /\ clock \in 0..MaxClock
      /\ p.timestamp = p.at % TickMod
  BY <1>1, DequeueShifts, Queued, ConstantTypes DEF IInv, Stamped, TypeOK
<1>3. TypeOK'
  BY <1>1, <1>2, DequeueShifts DEF IInv, TypeOK
<1>4. QueueOrder' /\ Stamped' /\ HandedWereReceived'
  BY <1>1, DequeueKeeps DEF IInv, HandedWereReceived
<1>5. InOrder'
  <2>1. \A b \in Agents : \A j \in 1..Len(queue'[b]) :
           \E k \in 1..Len(queue[b]) : queue'[b][j] = queue[b][k]
    BY <1>1, DequeueShifts DEF IInv
  <2>. QED BY <1>1, <2>1 DEF IInv, InOrder
<1>6. NoLostWakeup'
  BY <1>1 DEF NoLostWakeup
<1>7. OnlyStaleDropped'
  <2>1. \/ clock - p.at > MaxAge
        \/ clock \div TickMod # p.at \div TickMod
        \/ p.timestamp + MaxAge >= TickMod
    <3>1. clock % TickMod > ((p.at % TickMod) + MaxAge) % TickMod
      BY <1>1, <1>2 DEF TooOld, GetTickCount
    <3>2. (p.at % TickMod) + MaxAge < TickMod \/ (p.at % TickMod) + MaxAge >= TickMod
      BY <1>2, TickCount, ConstantTypes
    <3>. QED BY <1>2, <3>1, <3>2, AgeWithinRound
  <2>. QED BY <1>1, <2>1 DEF IInv, OnlyStaleDropped
<1>. QED BY <1>3, <1>4, <1>5, <1>6, <1>7 DEF IInv

LEMMA HandStep ==
    ASSUME IInv, NEW a \in Agents, HandPacket(a)
    PROVE  IInv'
<1>. DEFINE n == queue[a][1].nr
<1>. USE DEF IInv
<1>0. /\ Dequeue(a)
      /\ handed' = [handed EXCEPT ![a] = Append(@, n)]
      /\ storm' = "holding"
      /\ UNCHANGED <<received, agent, event, dropped, clock>>
  BY DequeueShifts DEF HandPacket
<1>9. n \in Nat /\ n \in 1..MaxPackets
  BY <1>0, DequeueShifts, Queued
<1>. HIDE DEF n
<1>1. /\ handed' \in [Agents -> Seq(1..MaxPackets)]
      /\ Len(handed[a]) \in Nat /\ Len(handed'[a]) = Len(handed[a]) + 1
      /\ handed'[a][Len(handed[a]) + 1] = n
      /\ \A i \in 1..Len(handed[a]) : handed'[a][i] = handed[a][i] /\ handed[a][i] \in Nat
      /\ \A b \in Agents : b # a => handed'[b] = handed[b]
  BY <1>0, <1>9, Handed DEF TypeOK
<1>2. TypeOK'
  BY <1>0, <1>1, DequeueShifts DEF TypeOK
<1>3. QueueOrder' /\ Stamped'
  BY <1>0, DequeueKeeps
<1>4. /\ n <= received[a] /\ received[a] \in Nat
      /\ \A i \in 1..Len(handed[a]) : handed[a][i] < n
      /\ \A j \in 1..Len(queue'[a]) : n < queue'[a][j].nr
  <2>1. /\ Len(queue[a]) \in Nat \ {0} /\ 1 \in 1..Len(queue[a])
        /\ Len(queue'[a]) = Len(queue[a]) - 1
        /\ \A j \in 1..Len(queue'[a]) :
              queue'[a][j] = queue[a][j + 1] /\ j + 1 \in 1..Len(queue[a]) /\ 1 < j + 1
    BY <1>0, DequeueShifts
  <2>2. n <= received[a] /\ received[a] \in Nat
    BY <2>1, Queued DEF QueueOrder, n
  <2>3. \A i \in 1..Len(handed[a]) : handed[a][i] < n
    BY <2>1 DEF InOrder, n
  <2>4. \A j \in 1..Len(queue'[a]) : n < queue'[a][j].nr
    BY <2>1 DEF QueueOrder, n
  <2>. QED BY <2>2, <2>3, <2>4
<1>5. HandedWereReceived'
  BY <1>0, <1>1, <1>4, <1>9 DEF HandedWereReceived
<1>6. InOrder'
  <2>. SUFFICES ASSUME NEW b \in Agents
       PROVE  /\ \A i, j \in 1..Len(handed'[b]) : i < j => handed'[b][i] < handed'[b][j]
              /\ \A i \in 1..Len(handed'[b]), j \in 1..Len(queue'[b]) :
                    handed'[b][i] < queue'[b][j].nr
    BY DEF InOrder
  <2>1. CASE b # a
    <3>1. handed'[b] = handed[b] /\ queue'[b] = queue[b]
      BY <2>1, <1>0, <1>1, DequeueShifts
    <3>. QED BY <3>1 DEF InOrder
  <2>2. CASE b = a
    <3>1. ASSUME NEW i \in 1..Len(handed'[a]), NEW j \in 1..Len(handed'[a]), i < j
          PROVE  handed'[a][i] < handed'[a][j]
      <4>1. i \in 1..Len(handed[a])
        BY <3>1, <1>1
      <4>2. CASE j \in 1..Len(handed[a])
        BY <3>1, <4>1, <4>2, <1>1 DEF InOrder
      <4>3. CASE j = Len(handed[a]) + 1
        BY <4>1, <4>3, <1>1, <1>4
      <4>. QED BY <4>2, <4>3, <1>1
    <3>2. ASSUME NEW i \in 1..Len(handed'[a]), NEW j \in 1..Len(queue'[a])
          PROVE  handed'[a][i] < queue'[a][j].nr
      <4>1. queue'[a][j].nr \in Nat
        <5>1. queue'[a][j] = queue[a][j + 1] /\ j + 1 \in 1..Len(queue[a])
          BY <1>0, DequeueShifts
        <5>. QED BY <5>1, Queued
      <4>2. handed'[a][i] \in Nat /\ handed'[a][i] <= n
        <5>1. CASE i \in 1..Len(handed[a])
          <6>1. handed'[a][i] = handed[a][i] /\ handed[a][i] \in Nat
            BY <5>1, <1>1
          <6>2. handed[a][i] < n
            BY <5>1, <1>4
          <6>. QED BY <6>1, <6>2, <1>9
        <5>2. CASE i = Len(handed[a]) + 1
          BY <5>2, <1>1, <1>9
        <5>. QED BY <5>1, <5>2, <1>1
      <4>3. n < queue'[a][j].nr
        BY <1>4
      <4>. QED BY <4>1, <4>2, <4>3, <1>9
    <3>. QED BY <2>2, <3>1, <3>2
  <2>. QED BY <2>1, <2>2
<1>7. NoLostWakeup' /\ OnlyStaleDropped'
  BY <1>0 DEF NoLostWakeup, OnlyStaleDropped
<1>. QED BY <1>2, <1>3, <1>5, <1>6, <1>7

\* The steps that touch neither the queue nor what Storm was given.
LEMMA OtherStep ==
    ASSUME IInv,
           \/ \E a \in Agents : SetEvent(a)
           \/ Wake \/ Free \/ ReceiveNothing \/ Tick
    PROVE  IInv'
<1>. USE DEF IInv
<1>1. UNCHANGED <<queue, received, handed, dropped>>
  BY DEF SetEvent, Wake, Free, ReceiveNothing, Tick
<1>2. clock' \in 0..MaxClock /\ clock <= clock'
  BY ReceiveAssumption DEF SetEvent, Wake, Free, ReceiveNothing, Tick, TypeOK
<1>3. TypeOK'
  BY <1>1, <1>2 DEF TypeOK, SetEvent, Wake, Free, ReceiveNothing, Tick
<1>4. QueueOrder' /\ HandedWereReceived' /\ InOrder' /\ OnlyStaleDropped'
  BY <1>1 DEF QueueOrder, HandedWereReceived, InOrder, OnlyStaleDropped
<1>5. Stamped'
  <2>1. \A a \in Agents : \A i \in 1..Len(queue[a]) : queue[a][i].at \in Nat
    BY Queued
  <2>2. clock \in Nat /\ clock' \in Nat
    BY <1>2 DEF TypeOK
  <2>. QED BY <1>1, <1>2, <2>1, <2>2 DEF Stamped
<1>6. NoLostWakeup'
  <2>1. ASSUME NEW a \in Agents, SetEvent(a)
        PROVE  NoLostWakeup'
    BY <2>1 DEF NoLostWakeup, SetEvent, TypeOK
  <2>2. CASE Wake \/ Free \/ ReceiveNothing \/ Tick
    BY <2>2 DEF NoLostWakeup, Wake, Free, ReceiveNothing, Tick
  <2>. QED BY <2>1, <2>2
<1>. QED BY <1>3, <1>4, <1>5, <1>6

\* The inductive invariant holds in every reachable state.
THEOREM Invariance == Spec => []IInv
<1>1. ASSUME IInv, [Next]_vars
      PROVE  IInv'
  <2>1. CASE UNCHANGED vars
    BY <1>1, <2>1
    DEF vars, IInv, TypeOK, QueueOrder, Stamped, HandedWereReceived, InOrder, NoLostWakeup,
        OnlyStaleDropped
  <2>. QED BY <1>1, <2>1, EnqueueStep, SkipStep, HandStep, OtherStep DEF Next, StormStep
<1>. QED BY <1>1, InitIInv, PTL DEF Spec

\* Type correctness of the queue, the event and the two kinds of threads.
THEOREM TypeCorrect == Spec => []TypeOK
<1>1. IInv => TypeOK
  BY DEF IInv
<1>. QED BY <1>1, Invariance, PTL

\* Storm never sleeps on a queued packet that nobody is about to announce.
THEOREM WakeupNotLost == Spec => []NoLostWakeup
<1>1. IInv => NoLostWakeup
  BY DEF IInv
<1>. QED BY <1>1, Invariance, PTL

\* Each peer's packets reach Storm in order and once.
THEOREM HandedInOrder == Spec => []InOrder
<1>1. IInv => InOrder
  BY DEF IInv
<1>. QED BY <1>1, Invariance, PTL

\* Away from the wrap of the tick count only packets older than 10 s are skipped.
THEOREM StaleOnly == Spec => []OnlyStaleDropped
<1>1. IInv => OnlyStaleDropped
  BY DEF IInv
<1>. QED BY <1>1, Invariance, PTL

-----------------------------------------------------------------------------

\* Each step of the receive path is a step of the channel, or none.
LEMMA StepSimulation ==
    ASSUME IInv, [Next]_vars
    PROVE  [Channel!Next]_Channel!vars
<1>. USE DEF IInv, Channel!Next, Channel!vars, Channel!Receive, Channel!Hand
<1>1. ASSUME NEW a \in Agents, Enqueue(a)
      PROVE  Channel!Receive(a)
  BY <1>1 DEF Enqueue
<1>2. ASSUME NEW a \in Agents, HandPacket(a)
      PROVE  Channel!Hand(a)
  <2>. DEFINE n == queue[a][1].nr
  <2>1. Dequeue(a) /\ handed' = [handed EXCEPT ![a] = Append(@, n)] /\ received' = received
    BY <1>2, DequeueShifts DEF HandPacket
  <2>2. n \in 1..received[a]
    BY <2>1, DequeueShifts, Queued DEF QueueOrder
  <2>3. \A i \in 1..Len(handed[a]) : handed[a][i] < n
    BY <2>1, DequeueShifts DEF InOrder
  <2>. QED BY <2>1, <2>2, <2>3
<1>3. ASSUME \/ \E a \in Agents : SetEvent(a) \/ SkipPacket(a)
             \/ Wake \/ Free \/ ReceiveNothing \/ Tick \/ UNCHANGED vars
      PROVE  UNCHANGED <<received, handed>>
  BY <1>3 DEF SetEvent, SkipPacket, Wake, Free, ReceiveNothing, Tick, vars
<1>. QED BY <1>1, <1>2, <1>3 DEF Next, StormStep

\* The receive path implements the ordered channel that may lose packets.
THEOREM ImplementsChannel == Spec => ChannelSpec
<1>1. Init => Channel!Init
  BY DEF Init, Channel!Init
<1>. QED BY <1>1, StepSimulation, Invariance, PTL DEF Spec, ChannelSpec, Channel!Spec

=============================================================================
