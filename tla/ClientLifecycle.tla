------------------------- MODULE ClientLifecycle -------------------------
(***************************************************************************)
(* The life of one CrownLink object: its constructor starts the signaling  *)
(* thread, which connects, receives and reconnects; its destructor, on     *)
(* Storm's thread, tells that thread to end, wakes it and joins it.  Both  *)
(* threads use SignalingSocket::m_socket without a lock, so deinit and     *)
(* try_init are split at every access to it.                               *)
(*                                                                         *)
(* The operating system, the resolver and the network are external.        *)
(***************************************************************************)
EXTENDS Integers

CONSTANTS
    Handles,    \* what socket() can return; a closed handle is used again
    Zero,       \* the value 0 of m_socket: not initialized
    Invalid,    \* the value -1 of m_socket: socket() failed
    Addresses   \* how many addresses the server's name resolves to

ASSUME LifecycleAssumption ==
    /\ Zero # Invalid /\ {Zero, Invalid} \cap Handles = {}
    /\ Addresses \in Nat \ {0}

VARIABLES
    m_is_running, m_current_state, m_socket,
    signaling,   \* where the signaling thread is
    retrying,    \* it is in the loop of handle_winsock_error
    info,        \* addresses try_init has left to try
    receiving,   \* the handle the blocked recv was called with
    storm,       \* where the destructor is; "alive" before it runs
    open,        \* the handles that are open
    connected,   \* those with a connection to the server
    readable     \* those with data to read

loopVars == <<retrying, info, receiving>>
osVars == <<open, connected, readable>>
vars == <<m_is_running, m_current_state, m_socket, signaling, loopVars, storm,
          osVars>>

Init ==
    /\ m_is_running = TRUE
    /\ m_current_state = "Uninitialized"
    /\ m_socket = Zero
    /\ signaling = "try_init"
    /\ retrying = FALSE
    /\ info = 0
    /\ receiving = Zero
    /\ storm = "alive"
    /\ open = {} /\ connected = {} /\ readable = {}

\* closesocket(m_socket); an error if it is not an open handle.
CloseSocket ==
    /\ open' = open \ {m_socket}
    /\ connected' = connected \ {m_socket}
    /\ readable' = readable \ {m_socket}

At(here, next) == signaling = here /\ signaling' = next

-----------------------------------------------------------------------------
(* SignalingSocket::try_init.                                                *)

TryInit ==
    /\ At("try_init", "getaddrinfo")
    /\ m_current_state' = "Connecting"
    /\ UNCHANGED <<m_is_running, m_socket, loopVars, storm, osVars>>

\* Variant: the first failure of a reconnect is final.
ResolveFailsForGood ==
    /\ At("getaddrinfo", IF retrying THEN "ended" ELSE "loop")
    /\ UNCHANGED <<m_is_running, m_current_state, m_socket, loopVars, storm, osVars>>

\* receive_signaling ignores the result, handle_winsock_error sleeps 1 s and
\* tries again.
ResolveFails ==
    /\ At("getaddrinfo", IF retrying THEN "deinit" ELSE "loop")
    /\ UNCHANGED <<m_is_running, m_current_state, m_socket, loopVars, storm, osVars>>

ResolveSucceeds ==
    /\ At("getaddrinfo", "socket")
    /\ info' = Addresses
    /\ UNCHANGED <<m_is_running, m_current_state, m_socket, retrying, receiving,
                   storm, osVars>>

OpenSocket(h) ==
    /\ At("socket", "connect")
    /\ h \notin open
    /\ m_socket' = h
    /\ open' = open \cup {h}
    /\ UNCHANGED <<m_is_running, m_current_state, loopVars, storm, connected, readable>>

\* Variant: one address too many.
NextAddressOffByOne ==
    /\ info' = info - 1
    /\ signaling' = IF info = 0 THEN "connected" ELSE "socket"

\* continue: the next address, or out of the loop.
NextAddress ==
    /\ info' = info - 1
    /\ signaling' = IF info = 1 THEN "connected" ELSE "socket"

OpenSocketFails ==
    /\ signaling = "socket"
    /\ m_socket' = Invalid
    /\ NextAddress
    /\ UNCHANGED <<m_is_running, m_current_state, retrying, receiving,
                   storm, osVars>>

ConnectSucceeds ==
    /\ At("connect", "connected")
    /\ m_socket \in open
    /\ connected' = connected \cup {m_socket}
    /\ UNCHANGED <<m_is_running, m_current_state, m_socket, retrying, info, receiving,
                   storm, open, readable>>

ConnectFails ==
    /\ signaling = "connect"
    /\ CloseSocket
    /\ NextAddress
    /\ UNCHANGED <<m_is_running, m_current_state, m_socket, retrying, receiving, storm>>

\* The test after the loop is of "result", the list, which is never null.
InitDone ==
    /\ At("connected", "loop")
    /\ m_current_state' = "Ready"
    /\ retrying' = FALSE
    /\ UNCHANGED <<m_is_running, m_socket, info, receiving, storm, osVars>>

-----------------------------------------------------------------------------
(* CrownLink::receive_signaling and handle_winsock_error.                    *)

LoopTest ==
    /\ At("loop", IF m_is_running THEN "recv" ELSE "ended")
    /\ UNCHANGED <<m_is_running, m_current_state, m_socket, loopVars, storm, osVars>>

CallRecv ==
    /\ At("recv", "blocked")
    /\ receiving' = m_socket
    /\ UNCHANGED <<m_is_running, m_current_state, m_socket, retrying, info,
                   storm, osVars>>

\* recv returns data; the packets are handled before the next test.
RecvData ==
    /\ receiving \in readable
    /\ At("blocked", IF m_is_running THEN "loop" ELSE "ended")
    /\ readable' = readable \ {receiving}
    /\ UNCHANGED <<m_is_running, m_current_state, m_socket, loopVars, storm, open,
                   connected>>

\* recv returns 0 or -1.
RecvError ==
    /\ receiving \notin connected /\ receiving \notin readable
    /\ At("blocked", IF m_is_running THEN "deinit" ELSE "ended")
    /\ retrying' = m_is_running
    /\ UNCHANGED <<m_is_running, m_current_state, m_socket, info, receiving,
                   storm, osVars>>

DeinitTest ==
    /\ At("deinit", IF m_socket # Zero THEN "close" ELSE "try_init")
    /\ UNCHANGED <<m_is_running, m_current_state, m_socket, loopVars, storm, osVars>>

DeinitClose ==
    /\ At("close", "zero")
    /\ CloseSocket
    /\ UNCHANGED <<m_is_running, m_current_state, m_socket, loopVars, storm>>

DeinitZero ==
    /\ At("zero", "try_init")
    /\ m_socket' = Zero
    /\ UNCHANGED <<m_is_running, m_current_state, loopVars, storm, osVars>>

-----------------------------------------------------------------------------
(* CrownLink::~CrownLink, on Storm's thread.                                 *)

StormAt(here, next) == storm = here /\ storm' = next

Destroy ==
    /\ StormAt("alive", "echo")
    /\ m_is_running' = FALSE
    /\ UNCHANGED <<m_current_state, m_socket, signaling, loopVars, osVars>>

\* The server answers an echo that reaches it; a packet is not sent at all
\* unless the state is Ready.
Echo ==
    /\ StormAt("echo", "deinit")
    /\ \/ UNCHANGED readable
       \/ /\ m_current_state = "Ready" /\ m_socket \in connected
          /\ readable' = readable \cup {m_socket}
    /\ UNCHANGED <<m_is_running, m_current_state, m_socket, signaling, loopVars, open,
                   connected>>

\* Variant: the destructor relies on the echo alone.
DestroyNoDeinit ==
    /\ StormAt("deinit", "join")
    /\ UNCHANGED <<m_is_running, m_current_state, m_socket, signaling, loopVars, osVars>>

DestroyDeinit ==
    /\ StormAt("deinit", IF m_socket # Zero THEN "close" ELSE "join")
    /\ UNCHANGED <<m_is_running, m_current_state, m_socket, signaling, loopVars, osVars>>

DestroyClose ==
    /\ StormAt("close", "zero")
    /\ CloseSocket
    /\ UNCHANGED <<m_is_running, m_current_state, m_socket, signaling, loopVars>>

DestroyZero ==
    /\ StormAt("zero", "join")
    /\ m_socket' = Zero
    /\ UNCHANGED <<m_is_running, m_current_state, signaling, loopVars, osVars>>

\* join returns, and ~SignalingSocket calls deinit once more.
Join ==
    /\ StormAt("join", "destroyed")
    /\ signaling = "ended"
    /\ IF m_socket # Zero
       THEN CloseSocket /\ m_socket' = Zero
       ELSE UNCHANGED <<osVars, m_socket>>
    /\ UNCHANGED <<m_is_running, m_current_state, signaling, loopVars>>

-----------------------------------------------------------------------------
(* The network: data arrives, connections break.                             *)

Arrive(h) ==
    /\ h \in connected
    /\ readable' = readable \cup {h}
    /\ UNCHANGED <<m_is_running, m_current_state, m_socket, signaling, loopVars, storm,
                   open, connected>>

Break(h) ==
    /\ h \in connected
    /\ connected' = connected \ {h}
    /\ UNCHANGED <<m_is_running, m_current_state, m_socket, signaling, loopVars, storm,
                   open, readable>>

-----------------------------------------------------------------------------

Resolve == ResolveFails \/ ResolveSucceeds
OpenOne == OpenSocketFails \/ \E h \in Handles : OpenSocket(h)
ConnectOne == ConnectSucceeds \/ ConnectFails
Local ==
    \/ TryInit \/ InitDone \/ LoopTest \/ CallRecv
    \/ DeinitTest \/ DeinitClose \/ DeinitZero
Destructor == Echo \/ DestroyDeinit \/ DestroyClose \/ DestroyZero \/ Join

Next ==
    \/ Local \/ Resolve \/ OpenOne \/ ConnectOne \/ RecvData \/ RecvError
    \/ Destroy \/ Destructor
    \/ \E h \in Handles : Arrive(h) \/ Break(h)

\* Both threads run; the resolver and connect answer, one way or the other;
\* recv returns once there is data or no connection any more.
Fairness ==
    /\ WF_vars(Local) /\ WF_vars(Resolve) /\ WF_vars(OpenOne)
    /\ WF_vars(ConnectOne) /\ WF_vars(RecvData \/ RecvError)
    /\ WF_vars(Destructor)

Spec == Init /\ [][Next]_vars /\ Fairness

\* In addition the resolver does not fail for ever.
OnlineSpec == Spec /\ SF_vars(ResolveSucceeds)

-----------------------------------------------------------------------------

TypeOK ==
    /\ m_is_running \in BOOLEAN
    /\ m_current_state \in {"Uninitialized", "Connecting", "Ready"}
    /\ m_socket \in Handles \cup {Zero, Invalid}
    /\ signaling \in {"try_init", "getaddrinfo", "socket", "connect", "connected",
                      "loop", "recv", "blocked", "deinit", "close", "zero", "ended"}
    /\ retrying \in BOOLEAN
    /\ info \in 0..Addresses
    /\ receiving \in Handles \cup {Zero, Invalid}
    /\ storm \in {"alive", "echo", "deinit", "close", "zero", "join", "destroyed"}
    /\ connected \subseteq open /\ readable \subseteq open /\ open \subseteq Handles

\* Once the destructor waits in join, the signaling thread is not blocked in
\* a recv that nothing wakes, however the two raced for the socket
\* (CrownLink.cpp:14-17, 56-59).
JoinNeverBlocked ==
    storm = "join" /\ signaling = "blocked" => receiving \notin connected

\* The destructor comes to its end (CrownLink.cpp:12-19), the echo and the
\* deinit being there so that the signaling thread can (line 15, "wakes up
\* m_signaling_thread so it can close").
ShutdownCompletes == storm = "echo" ~> storm = "destroyed"

\* While nobody destroys the client it does not give up: whatever fails, it is
\* back in recv time and again (CrownLink.cpp:52-66, 154-160).
KeepsReceiving == <>[](storm = "alive") => []<>(signaling = "blocked")

=============================================================================
