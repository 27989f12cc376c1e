# CrownLink in TLA+

CrownLink is a network provider ("SNP module") for StarCraft-era games. Storm,
the game's network library, loads it as a DLL. The DLL finds other players
through a small matchmaking server, opens peer-to-peer connections to them with
libjuice (ICE), and carries the game's packets over those. This directory holds
TLA+ models of its concurrent and distributed parts, TLC configurations that
check them on small instances, and TLAPS proofs of the safety properties for every
value of the constants.

Line numbers below refer to the files under `src/`.

## The system

| part | state | operations | talks to |
|---|---|---|---|
| signaling server, `signaling/server.py` | `CONNECTIONS` (ID to connection); per connection `peer_ID`, `advertising`, `remainder` | `connection_made`, `connection_lost`, `data_received` with one case per packet type | clients, over TCP |
| signaling session, `SNP/CrownLink.cpp`, `SNP/Signaling.cpp` | `m_socket`, `m_current_state`, `m_client_id`, `m_is_advertising`, `m_ad_data`, `m_known_advertisers` | connect and reconnect; learn or claim the ID; start, stop, solicit and answer lobby ads; request the list of hosts | server, game list, peer agents; called by Storm's thread and by its own |
| framing, `data_received`, `receive_packets`, `split_into_packets` | the server's `remainder`; the client keeps nothing | read, split at the delimiter `-+`, parse | the TCP stream of either side |
| game list, `SNP/SNPModule.cpp` | `game_list`, `next_game_ad_id`, `status_ad`, `hosted_game` | `pass_advertisement`, `spi_lock_game_list`, `spi_unlock_game_list`, `spi_get_game_info` | Storm's thread reads it, the signaling thread writes it |
| receive path, `JuiceAgent::on_recv`, `spi_receive`, `spi_free` | the packet queue, `g_receive_event` | queue and signal; drain, skip what is old | one libjuice thread for each peer, Storm's thread |
| peer agents, `SNP/JuiceAgent.cpp`, `SNP/JuiceManager.cpp` | `m_agents`, per agent the ICE state and activity times, `m_turn_servers` | create, expire, replace; exchange descriptions and candidates; send | libjuice, the server, the other peer's agent |
| module entry points, `SNP/DLLMain.cpp`, rest of `SNPModule.cpp` | `g_crown_link` | query, bind, initialize, destroy | Storm |
| configuration, `SNP/Config.h` | one JSON file | load, save | everything reads it |
| not part of the running system | | `turn_manager.py` (created, never asked), `client_test.py`, `Server/` (an empty program), `MPQ/` (build tool), `SNP/deprecated/`, vendored libraries | |

What is hard about it:

- A client's TCP connection to the server comes and goes. The client keeps its
  ID and claims it on each new connection, while the server may still believe in
  the old ones and still has packets of theirs to read.
- In the DLL, Storm's thread, the signaling thread and one libjuice thread for
  each peer share state, much of it without a lock: `m_is_advertising`,
  `m_current_state`, `m_socket`, the game list during Storm's walk.
- Shutdown joins a thread that may be blocked in `recv` or in a retry loop.
- Lobbies travel from the host's game thread to the browser's list through two
  threads without a common lock, two connections and the server, while the host
  rewrites or stops them, or crashes.
- TCP cuts the stream anywhere, also in the middle of a delimiter.
- Times are 32-bit millisecond counts that wrap.

`PROJECT.json` lists the hazards one by one, with the properties that cover them.
What makes each part correct:

- server: a key of `CONNECTIONS` leads to a live connection that goes by that
  ID; one client cannot unregister or impersonate another; a claim never raises.
- session: after any sequence of reconnects the client has its ID back and the
  lobby it hosts is listed, if the last greeting came in one piece; a lobby it does
  not host is not listed.
- browsing: the list never goes back to an older lobby, a kept lobby stays listed
  as it is, a gone one leaves for good.
- framing: the server handles each packet once and in order, however the stream is
  cut; a client handles those that one read returns whole.
- life cycle: the client never gives up reconnecting, and the destructor returns.
- game list: Storm's pointer is always valid, an index keeps meaning the same
  host, an entry lives exactly as long as its host is heard of.
- receive path: no packet is left behind a sleeping Storm; order is kept.
- peer agents: whoever begins, the two sides begin once each and get connected.

## Modules

| module | models | proofs |
|---|---|---|
| `SignalingServer` | `server.py` and, as its environment, what clients do on their connections | `SignalingServerProofs` |
| `LobbySession` | one client's signaling and game threads, composed with `SignalingServer` by `INSTANCE` | `LobbySessionProofs` |
| `LobbyBrowse` | hosts, the server and a browser: how lobbies get into the list and out of it | `LobbyBrowseProofs` |
| `Framing` | both readers of the byte stream | `FramingProofs` |
| `ClientLifecycle` | constructor, connect and reconnect loop, destructor | `ClientLifecycleProofs` |
| `GameList` | the game list and Storm's use of it | `GameListProofs` |
| `PacketChannel` | what the receive path promises: an ordered channel that may lose packets | |
| `ReceivePath` | the packet queue, the receive event and Storm's loop; implements `PacketChannel` | `ReceivePathProofs` |
| `PeerAgents` | two clients' agents for each other, from the first ping to the connection and to the next agent | `PeerAgentsProofs` |
| `MCSignalingServer`, `MCLobbySession`, `MCGameList` | values of the constants for TLC | |

Definitions whose comment begins with "Variant:" are plausible mistakes in the
definition that follows them. They are used nowhere in the specifications;
substituting one for its original makes TLC report the property that
`PROJECT.json` names with it.

### SignalingServer

asyncio runs every callback to completion, so each handler is one action.
`ConnectionMade`, `ConnectionLost`, and one action for each case of
`data_received` are translated line by line; `status` tells whether asyncio
considers the transport open. The two places where the code raises are kept:
`ServerSetID` with a key that is gone leaves `peer_ID` changed and the transport
closing, and `ConnectionLost` with a key that is gone is harmless. `Write` drops
data for a transport that is not open, as asyncio does.

The environment (`Dial`, `ClientReads`, `ClientLearnsID`, `Claim`) is what
`CrownLink.cpp:71-82` lets a client do: it adopts the first ID it is told, and
claims that ID, at most once, on connections other than the one that gave it.
Apart from that, clients may send anything at any time. `server.py` itself accepts a
claim of any ID on any connection. What is shown about identities therefore rests on
the clients being CrownLink: with a client that claims another's ID,
`OnlySiblingsDisplace`, for one, does not hold. `LobbySession` is shown to keep to the
assumption (`ServerSpec`).

Packets are abstracted to a type, the ID shown to the receiver, and the payload
where the server or a property looks at it. A relayed packet also records the
connection it came from and the ID it was addressed to, for `Provenance`.

### LobbySession

The signaling thread is a program counter, `signaling`, over `receive_signaling`,
`handle_signal_packets` and `handle_winsock_error`; the game thread is a program
counter, `game`, over `start_advertising` or `stop_advertising` followed by
`send_packet`. The steps are split where the code reads shared state without
holding a lock: the test of `m_current_state` (`SendCheck`) is apart from the
send (`SendWrite`), and the test of `m_is_advertising` (`CheckAdvertising`) from
the send that follows it (`ResendStart`). Each TCP connection is a new element of
`Conns`; `up[c]` is what the client wrote on it and the server has not read, which
outlives the client's interest in `c`. The server half of every step is an action
of `SignalingServer`, instantiated with this one client.

A connection may fail as long as another one can be made (`CanFail`), so that the
bounded number of connections does not leave the client stranded; none need fail.

The server greets each connection with a `ServerSetID`, once. `receive_packets` keeps
no remainder, so a greeting that `recv` cuts in two is lost (`MissServerSetID`), and
`missed` records the connections it happened on. The client then neither learns nor
claims an ID there and does not list its lobby again: on the first connection it has no
ID, and on a later one it stays under the fresh uuid, its lobby unlisted, until it
reconnects once more. `IdentityRestored` says that this is the only way to be settled
without the ID, and `HostedAfterReconnect` and `EventuallyListed` exempt it by name.

### LobbyBrowse

A lobby is a number that its host counts up; an `AdFile` is the pair of lobbies its
two halves are of, because `start_advertising` assigns `m_ad_data` on Storm's thread
(`CreateLobby`, `SetAdvertising`) while the `SolicitAds` case of
`handle_signal_packets` copies it on the signaling thread (`Solicited`, `SendAd`),
and no lock is common to them. The server relays in the order in which it reads,
drops what it cannot deliver, and does not answer a request while nobody advertises.
A host may crash at any point (`Crash`): the server reads what it still has of it, or
not, and then learns of the loss. `CutPacket` loses a packet of either client to a
`recv` that cuts it; the browser's repeated rounds make up for it.

The browser's list is abstracted to one entry for each host, the ad and whether it
was heard of in the last two seconds; indices, the walk and the exact age are in
`GameList`. Reconnects are in `LobbySession`: here every connection is made once.

### Framing

A byte is one of the two bytes of the delimiter, or one that matters only as part of
packet `n`. `Written` is all that the sender writes. `Text` has both bytes of the delimiter in it in the other order, as base64
text and session descriptions may. A read returns any prefix of what is left of the
stream, up to 4096 bytes for a client (`MaxRead`). `Delimiters` finds where the
delimiters begin, first to last, and `Split` cuts there. The server's `HandleSegments`
keeps the loop of `data_received` with its two exits: an empty segment is skipped,
one that cannot be parsed makes the next line raise, so that only the segments before
it are handled. The client logs such a segment and goes on. `Ascending`, which puts
positions in order, is a definition of its own because `SetToSortSeq` rests on TLC's
sorting, which has no definition a prover could use.

### ClientLifecycle

Handles are explicit: `socket()` returns any closed handle, so one that is closed
twice may be closed under a connection that has been made since. `deinit` is
three steps (test, close, set to zero) on either thread. `recv` is called with the
value `m_socket` had (`receiving`) and blocks while that handle is connected and
has no data. The network may deliver data and break connections at any time.

### GameList

`pass_advertisement` is two steps, the copy and the rest, because Storm's walk
holds no mutex and can read the entry between them; everything that does take
`g_advertisement_mutex` waits for the second (`rewriting = None`). Storm's walk
(`Walk`) follows `pNext` one node a step. A pointer to a node is represented by
the node's `game_index`, which is given once and stays with the node.
`GetTickCount` is the clock modulo `TickMod`, and the expiry test is computed in
that arithmetic. `std::erase_if` keeps the order of what it leaves: `Ascending`
gives the positions that stay, in ascending order. `given`, `seen` and `shown` record
what Storm was handed and met.

Between the two steps of `pass_advertisement` the walk does read entries that are not
finished, whose `version_id` may still be that of a game in the other CrownLink mode.
The code does not prevent it, the model shows it, and no property excludes it.
`GameInfoJoinable` is about `spi_get_game_info`, which takes the mutex: whatever index
it is asked for (`GetGameInfo`), that of an entry Storm met half-written included, what
it returns is finished.

### ReceivePath

`on_recv` is two steps, enqueue and `SetEvent`. The queue keeps one FIFO for each
producing thread and promises no order between them, as the vendored ConcurrentQueue
does: `try_dequeue` takes the oldest element of whichever producer's stream it finds
not empty (`SNP/include/concurrentqueue.h:1124-1156`).
Storm wakes on the auto-reset event and drains until `spi_receive` returns false.
`PacketChannel` states what Storm may rely on without queue, event, clock or loans;
`ChannelSpec` instantiates it with `received` and `handed` of `ReceivePath`.

### PeerAgents

The agents of a browsing client and a hosting one for each other, and the packets
on their way between them. `JuiceManager::m_mutex` is held by every call into an
agent, so a call is one step: a record of the agent, the packets it sent, whether a
ping is due, and whether it was signaled is passed through operators named for the
functions of `JuiceAgent`. libjuice's callbacks are steps of their own. Candidates,
pings and lobby packets have the same effect on an agent and are one packet
(`Signal`). Of the three times an agent keeps, only `m_last_active` is state.
`m_last_signal` need not be: `try_initialize` asks for it only before the agent has
begun, and a signaled agent begins at once. libjuice as modelled reports GATHERING
within `juice_gather_candidates`, refuses a second remote description, and can
connect two sessions that have each other's description.

An agent sends its description once and keeps the first it gets. If the relay drops
one, or one side is replaced while the other lives on, the two are out of step
(`InStep` is false) and may stay so as long as both are kept active. `Connects`
therefore speaks of pairs that are in step: all the rest, who pings, solicits,
signals or begins first, does not matter.

## Runs

| run | question | bounds | result |
|---|---|---|---|
| `server_registry` | is the registry consistent and are identities protected? | clients with 3 and 1 connections, 1 relayed packet type, 1 unread packet a connection | holds |
| `server_not_connected` | is "not connected" true when it is logged? | as above | violated |
| `lobby_reconnect` | are identity and lobby restored, and in the end; is the server's environment assumption met? | up to 3 connections, each of which may fail or last and may have its greeting cut, 2 calls of Storm | hold |
| `lobby_stop_overtaken` | is a stopped lobby unlisted? | 2 connections, 2 calls | violated |
| `lobby_browse` | does the list follow what is hosted? | 1 host with 2 lobbies, 1 other advertiser or none, any packet to a client may be cut, the browser asks again while at most 1 packet is under way | hold |
| `framing` | which packets arrive, however the stream is cut? | 3 packets of 6 bytes, the server reads any length, the client up to 9 bytes | hold |
| `game_list` | pointer, order, index, expiry; what `spi_get_game_info` returns | 2 hosts, 2 modes, clock 4 to 8 with wrap at 8, timeout 2, 3 entries | hold |
| `game_list_not_frozen` | is the list frozen during the walk? | 2 hosts, clock to 2 | violated |
| `lifecycle_shutdown` | does the destructor return; does the client keep trying? | 2 handles, 2 addresses, a resolver that answers now and then | hold |
| `lifecycle_offline_hang` | does it return while the name does not resolve? | 2 handles, 1 address | violated |
| `receive_path` | wakeups, order, staleness, progress; does it implement `PacketChannel`? | 2 agents, small packet counts, wrapping clock | hold |
| `peer_agents` | does each side begin once; does a pair get connected? | 3 sessions a client, pings added while fewer than 2 packets are under way to a client | hold |

Why these bounds are enough to be interesting. Three connections of one client
are a connection that gave the ID, one on which it is claimed, and one more on
which it is claimed while the second is still registered under it: the case in
which a key changes hands twice. The second client is there to be harmed. With two
hosts one entry can be refreshed while the other expires or is walked to. Three
entries let a host come back after it expired. From 4 to 8 the clock sees entries
expire before the wrap, sums that wrap, and the wrap of the tick count itself. Two
lobbies of one host are enough for an ad that mixes them, for one that is overtaken,
and for a stop between them; hosts do not interact but through the list of
advertisers, which the other player stands for. Nine bytes are a packet and a half, so
a read may return none, one or parts of two packets, and end in a delimiter. Two handles allow
reuse of one while the other is blocked on. Three sessions are one for an agent, one
the other side still has from an agent before it, and one still under way. `CHECK_DEADLOCK FALSE` is set where
bounded calls, connections or packets run out, or the destructor has ended: the
system then rests.

The violated properties are quoted from the repository and are the findings in
`PROJECT.json`:

- `NotConnectedIsTrue`: the late loss of a client's old connection deletes the
  registry entry of its new one (`server.py:166`).
- `StoppedIsNotAdvertised`: a stopped lobby can stay listed after a reconnect
  (`CrownLink.cpp:74`, `Signaling.cpp:88`).
- `WalkComplete`: a lobby packet during Storm's walk cuts the walk short
  (`SNPModule.cpp:39`, `175`).
- `ShutdownCompletes` when the resolver keeps failing: the destructor hangs
  (`CrownLink.cpp:154`).

## Fairness

- `LobbySession`: weak fairness of both threads' own steps and of the server's
  accepting and reading, which threads and event loop justify; strong fairness of
  a successful connect, because the client retries for ever and the property is
  about a server that can be reached. A greeting that has arrived is read, whole or
  cut. `recv` on a socket that is gone, or whose peer is (`SocketDead`), returns an
  error. Nothing is assumed of Storm, of when the server notices a lost connection,
  or of anything failing: any connection, the first included, may last for ever.
- `LobbyBrowse`: weak fairness of calls and handlers in progress on either side, of
  the server's reading and of its learning of a loss, of Storm's asking for games
  (`Browse`) and of time (`Age`); strong fairness of handling a solicitation, a list
  of hosts and an ad, that is, not every packet of a kind is cut. Nobody need create,
  change or stop a lobby, or crash.
- `Framing`: weak fairness of reading.
- `ClientLifecycle`: weak fairness of both threads and of the system calls they
  wait for. `OnlineSpec` adds strong fairness of a successful resolve; without it
  shutdown does not complete, which is the finding above.
- `ReceivePath`: weak fairness of Storm's loop and of the step from enqueueing to
  `SetEvent`. Packets need not arrive.
- `PeerAgents`: strong fairness of the browser's ping, since Storm asks for games
  about once a second and the bound on packets under way may block it at times, and
  of receiving, since the relay does not lose everything; weak fairness of
  libjuice's connecting a pair that can be connected. Failures, expiry and the
  host's lobby packets need not happen.
- `SignalingServer` and `GameList` have safety properties only.

## Proofs

The proofs hold for every value of the constants that satisfies the modules' named
assumptions; these say that bounds are natural numbers, that model values are
distinct, and what else is quoted below. In each proof module `IInv` is the inductive
invariant, `InitIInv` (or `InitInv`) and the step lemmas show that it holds initially
and is kept by every action, `Invariance` is `Spec => []IInv`, and the theorems below
follow from it.

| module | theorem | of `Spec` |
|---|---|---|
| `SignalingServerProofs` | `TypeCorrect` | `[]TypeOK` |
| | `RegistryCorrect` | `[]RegistryKeys` |
| | `NoGhosts` | `[]NoGhost` |
| | `DisplacementBySiblings` | `[]OnlySiblingsDisplace` |
| | `ClaimsNeverRaise` | `[]SetIDNeverRaises` |
| | `RelayProvenance` | `[]Provenance` |
| `ClientLifecycleProofs` | `TypeCorrect` | `[]TypeOK` |
| | `JoinUnblocked` | `[]JoinNeverBlocked` |
| `GameListProofs` | `TypeCorrect` | `[]TypeOK` |
| | `PointerLive` | `[]CursorLive` |
| | `WalkInOrder` | `[]WalkOrdered` |
| | `IndexKeepsHost` | `[]IndexMeansHost` |
| | `InfoJoinable` | `[]GameInfoJoinable` |
| | `HeardStaysListed` | `ListedWhileHeard` |
| `ReceivePathProofs` | `TypeCorrect` | `[]TypeOK` |
| | `WakeupNotLost` | `[]NoLostWakeup` |
| | `HandedInOrder` | `[]InOrder` |
| | `StaleOnly` | `[]OnlyStaleDropped` |
| | `ImplementsChannel` | `ChannelSpec` |
| `PeerAgentsProofs` | `TypeCorrect` | `[]TypeOK` |
| | `OfferedOnce` | `[]OneOffer` |
| `LobbySessionProofs` | `TypeCorrect` | `[]TypeOK` |
| | `IdentityKept` | `[]IdentityRestored` |
| | `HostedListed` | `[]HostedAfterReconnect` |
| | `ImplementsServer` | `ServerSpec` |
| | `ServerSafe` | `[]` of `RegistryKeys`, `NoGhost` and `SetIDNeverRaises` of the server in it |
| `LobbyBrowseProofs` | `TypeCorrect` | `[]TypeOK` |
| | `AdsArriveInOrder` | `AdsAdvance` |
| `FramingProofs` | `TypeCorrect` | `[]TypeOK` |
| | `ServerHandlesAll` | `[]ServerAccounts` |
| | `NothingLost` | all that was sent is handled once all was read |
| | `ClientHandlesWhole` | `[]ClientKeepsWhole` |

The server. Assumed: a uuid for each connection, no two alike. `RegistryKeys` is not
inductive: `ServerSetID` moves whatever entry stood under the connection's old ID, and
keeps `RegistryKeys` only if that entry was its own. It was, because the connection had
not claimed before and its birth ID is private to it (`SetIDNeverRaises`), and nobody
else can go by that birth ID unless it became the client's identity, which excludes a
claim on that connection. That is `OwnIdentity` with `HomeIsOwn`: a connection goes by
its uuid until it claims, and by the uuid of its client's home connection afterwards.

The life cycle. The destructor may reach `join` while the signaling thread is about to
call `recv`. `NoRecvAlive` says that from the moment the destructor has closed the
handle nobody is in, or about to enter, `recv` on a connection; that needs
`BlockedOnSocket`, because a blocked thread could otherwise be on a handle other than
the one that is closed, and `Running`, because the loop asks `m_is_running` before it
receives again.

The game list. That Storm's pointer is live after it moved needs `Chained`: `pNext` of
every entry leads to a later entry, to the status ad, or nowhere. Nodes go only when
Storm is not walking, so the chain survives whatever the signaling thread does in
between: it rewrites an entry, which cuts the chain, or appends one. That what Storm
meets ascends needs `Ascend` (indices ascend along the list and were all given out) and
`Ahead` (what was met comes before what the pointer leads to; the status ad's index
is above every entry that is chained to it). `IndexMeansHost` needs `ShownBefore` for
the moment at which an entry has been overwritten and its host is not filled in yet.
`ListedWhileHeard` needs `Stamped`, and the arithmetic of `AgeWithinRound`: within one
round of the tick count, and if `host_last_time + 2000` does not wrap, the comparison
of the code is that of the true times.

The receive path. `InOrder` speaks of what was handed out and needs `QueueOrder` about
what is still queued; `OnlyStaleDropped` needs that timestamps are true (`Stamped`).
`ImplementsChannel` maps `Enqueue` to `Receive`, `HandPacket` to `Hand`, and every other
step to a stutter; the invariant gives the guards of `Hand`.

The peer agents. `OneOffer` is kept by an agent that begins only because its
description was not sent before, nor taken by the other side (`UnsentBefore`). A new
agent's session is one the other client does not know (`Fresh`), because libjuice makes
up credentials at random.

The session. Assumed: a uuid for each connection, no two alike and none the server's
own ID. `IdentityRestored` and `HostedAfterReconnect` speak of settled states, in which
nothing is under way, so neither is inductive; the invariant says what is still to
happen before. `ClaimOK`: an open connection whose greeting was read gave the client
its ID, or is claimed, or has one claim on its way, which is the only one and carries
the ID of the connection that gave it, or its greeting was cut and it will never be
claimed, so it keeps its uuid, which is not the client's ID. `OwnIdentity`: the server calls a connection by
its uuid until it has read that claim. `Listing`: a hosted lobby is listed, or will be
by what is written (`ListedAfter`: a start that no stop follows), or one of the two
threads has yet to write; `GameOK` is what makes the game thread's packet the one that
agrees with `m_is_advertising`, and `SocketOK` ties the signaling thread's place to the
socket and the state it reads.

`ImplementsServer` takes the steps one by one (`StepSimulated`): `Connect` is a `Dial`,
handling the greeting a `ClientReads` or a `ClientLearnsID`, losing it a `ClientReads`
as well, the server's reading of a
claim a `Claim` and of anything else a `DataReceived`; all other steps of the client
are stutters. `ClaimOK` gives the guards of `Claim`. `ServerSafe` then needs no
invariant of its own: `SignalingServerProofs` is instantiated with this client, its
assumption on the constants is discharged, the two instances of `SignalingServer` are
shown to have the same steps, and the server's `Invariance` does the rest.

Browsing. Assumed: hosts are finitely many (the server lists them one by one) and
`None` is neither a number nor an entry. `AdsAdvance` is about one step of the list,
and follows from an order on everything a host has under way. A host's ads pass four
stations: its `m_ad_data` with the half that is already copied into an answer, its
connection to the server, the browser's connection, the browser's entry. `InOrder`:
each half of an ad is at least that of every ad which is further on its way. `Newest`
adds the host itself, where the two halves are written and copied in separate steps:
the first half of `m_ad_data` is never behind the second, and a half that has been
copied is at least the first half of every ad sent. Relaying moves the oldest of one
connection to the newest place of the next, which keeps the order; handling takes the
oldest of the last; crashes, lost connections and cuts only take ads away.

Framing. `ServerInv` says that the remainder is exactly what was read of the first
packet that is not handled, so it always begins with a packet and never contains a
whole one: then a piece's segments are texts of packets in order (`ParsedTexts`) and
none is bad. For a client, `ClientInv` says that its last read ended at a recorded cut,
which is where the next begins: what a read loses are the packet it begins in, unless
it begins with it, the one behind it if the cut is in a delimiter, and the one it ends
in (`UncutAfterRead`). Under both lie lemmas about the operators: `AscendingLists`
(what lists a set in ascending order is its `Ascending`, for `ListsOnce` says there is
only one such list), `WrittenDelimiters` (a delimiter is found at the end of each
packet and nowhere else, although texts have both its bytes), `SplitInto` (the segments
of any piece of the stream). That there is a least element, on which the ascending
lists rest, is taken from the library's theorem that `<` is well-founded on the
naturals, which needs no induction here. `NothingLost` is the safety half of
`ServerGetsAll`: it can only fail by the server not reading on.

Only model-checked: liveness (`EventuallyListed`, `GoneLeaves`, `HostedShown`,
`AdsSettle`, `KnownForgets`, `ServerGetsAll`, `ShutdownCompletes`, `KeepsReceiving`,
`QueueDrains`, `Connects`), which is out of TLAPS's reach. Every invariant and every
safety property of steps that a run checks is a theorem. The four violated properties
are, naturally, not.

## Not modelled

- ICE itself: libjuice is external. TURN servers and their list, which grows at each
  reconnect; the connection type; `send_all`.
- The order in which mutexes are taken. Read off the code: `g_advertisement_mutex`, then
  `JuiceManager::m_mutex`, then libjuice's lock of an agent (or the join of its thread
  in `juice_destroy`), then the socket's `m_mutex`; callbacks of libjuice take only the
  last. No call goes against that order, so there is no cycle, as long as `send` returns.
- The order of one peer's packets across an agent and its successor, which have
  different threads; `ReceivePath` speaks of one agent's.
- The exit of `spi_receive` for an exception (`SNPModule.cpp:329-334`). Only an
  allocation that fails can raise one there. It would lose the packet just dequeued and
  return false, which ends Storm's round with packets possibly left in the queue: then
  `NoLostWakeup` would not hold.
- The client's reading of relayed packets in `LobbySession`, and the length of what one
  `recv` returns there: a greeting comes whole or is cut. Which cuts lose which packets is
  in `Framing`.
- Memory: the loans `spi_receive` leaks, the handle that is overwritten when the
  destructor and `try_init` race, and the destructor's window in which `g_crown_link`
  is null.
- Game names, prefixes, descriptions, statistics strings, texts of the status ad, log
  output.
- Module entry points and configuration: straight-line set-up and one JSON file, no
  concurrency. Build tools, test client, the empty C++ server, `turn_manager.py`, which
  `server.py` creates but never asks, and vendored libraries, which are by far the
  largest part of the source: not this system's logic.

## Plan

Done: server, session, life cycle, game list, receive path with its channel, peer
agents, browsing, framing, and the proofs above. What would come next:

1. `LockOrder`: the mutexes, the agents' threads and `juice_destroy`, with the agents'
   destruction as part of `ClientLifecycle`.
2. TURN servers in `PeerAgents`: the list that grows at each reconnect, of which an
   agent uses the first five.
