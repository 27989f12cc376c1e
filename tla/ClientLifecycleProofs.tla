----------------------- MODULE ClientLifecycleProofs -----------------------
(***************************************************************************)
(* Proofs about ClientLifecycle, for any handles and number of addresses.  *)
(***************************************************************************)
EXTENDS ClientLifecycle, TLAPS

\* The destructor has cleared m_is_running.
Running == m_is_running <=> storm = "alive"

\* There is an address left to try.
AddressLeft == signaling \in {"socket", "connect"} => info # 0

\* While the destructor has not closed m_socket, a blocked recv is on it: the
\* signaling thread changes it only when it is not receiving.
BlockedOnSocket ==
    signaling = "blocked" /\ storm \in {"alive", "echo", "deinit", "close"}
        => receiving = m_socket

\* From then on no recv, called or about to be, is on a connection.
NoRecvAlive ==
    storm \in {"zero", "join", "destroyed"} =>
        /\ signaling = "recv" => m_socket \notin connected
        /\ signaling = "blocked" => receiving \notin connected

\* The inductive invariant.  JoinNeverBlocked alone is not inductive: the
\* destructor may reach join while the signaling thread is about to call recv.
IInv ==
    /\ TypeOK /\ Running /\ AddressLeft
    /\ BlockedOnSocket /\ NoRecvAlive

-----------------------------------------------------------------------------

LEMMA InitIInv == Init => IInv
<1>. SUFFICES ASSUME Init PROVE IInv
  OBVIOUS
<1>1. TypeOK
  <2>1. m_is_running \in BOOLEAN /\ retrying \in BOOLEAN
    BY DEF Init
  <2>. QED BY <2>1, LifecycleAssumption DEF Init, TypeOK
<1>2. Running
  BY DEF Init, Running
<1>3. AddressLeft /\ BlockedOnSocket /\ NoRecvAlive
  BY DEF Init, AddressLeft, BlockedOnSocket, NoRecvAlive
<1>. QED BY <1>1, <1>2, <1>3 DEF IInv

\* The steps of try_init: the thread is not receiving.
LEMMA InitStep ==
    ASSUME IInv,
           \/ TryInit \/ InitDone \/ Resolve \/ OpenOne \/ ConnectOne
    PROVE  IInv'
<1>. USE LifecycleAssumption
     DEF IInv, TypeOK, Running, AddressLeft, BlockedOnSocket, NoRecvAlive, At,
         loopVars, osVars
<1>1. CASE TryInit
  BY <1>1 DEF TryInit
<1>2. CASE InitDone
  BY <1>2 DEF InitDone
<1>3. CASE ResolveFails
  BY <1>3 DEF ResolveFails
<1>4. CASE ResolveSucceeds
  BY <1>4 DEF ResolveSucceeds
<1>5. CASE OpenSocketFails
  BY <1>5 DEF OpenSocketFails, NextAddress
<1>6. ASSUME NEW h \in Handles, OpenSocket(h)
      PROVE  IInv'
  BY <1>6 DEF OpenSocket
<1>7. CASE ConnectSucceeds
  BY <1>7 DEF ConnectSucceeds
<1>8. CASE ConnectFails
  BY <1>8 DEF ConnectFails, NextAddress, CloseSocket
<1>. QED BY <1>1, <1>2, <1>3, <1>4, <1>5, <1>6, <1>7, <1>8 DEF Resolve, OpenOne, ConnectOne

\* The receive loop and deinit on the signaling thread.
LEMMA ReceiveStep ==
    ASSUME IInv,
           \/ LoopTest \/ CallRecv \/ RecvData \/ RecvError
           \/ DeinitTest \/ DeinitClose \/ DeinitZero
    PROVE  IInv'
<1>. USE LifecycleAssumption
     DEF IInv, TypeOK, Running, AddressLeft, BlockedOnSocket, NoRecvAlive, At,
         loopVars, osVars
<1>1. CASE LoopTest
  BY <1>1 DEF LoopTest
<1>2. CASE CallRecv
  BY <1>2 DEF CallRecv
<1>3. CASE RecvData
  BY <1>3 DEF RecvData
<1>4. CASE RecvError
  BY <1>4 DEF RecvError
<1>5. CASE DeinitTest
  BY <1>5 DEF DeinitTest
<1>6. CASE DeinitClose
  BY <1>6 DEF DeinitClose, CloseSocket
<1>7. CASE DeinitZero
  BY <1>7 DEF DeinitZero
<1>. QED BY <1>1, <1>2, <1>3, <1>4, <1>5, <1>6, <1>7

\* The destructor.
LEMMA DestructorStep ==
    ASSUME IInv, Destroy \/ Destructor
    PROVE  IInv'
<1>. USE LifecycleAssumption
     DEF IInv, TypeOK, Running, AddressLeft, BlockedOnSocket, NoRecvAlive, StormAt,
         loopVars, osVars
<1>1. CASE Destroy
  BY <1>1 DEF Destroy
<1>2. CASE Echo
  BY <1>2 DEF Echo
<1>3. CASE DestroyDeinit
  BY <1>3 DEF DestroyDeinit
<1>4. CASE DestroyClose
  BY <1>4 DEF DestroyClose, CloseSocket
<1>5. CASE DestroyZero
  BY <1>5 DEF DestroyZero
<1>6. CASE Join
  BY <1>6 DEF Join, CloseSocket
<1>. QED BY <1>1, <1>2, <1>3, <1>4, <1>5, <1>6 DEF Destructor

\* The network.
LEMMA NetworkStep ==
    ASSUME IInv, NEW h \in Handles, Arrive(h) \/ Break(h)
    PROVE  IInv'
BY LifecycleAssumption
DEF IInv, TypeOK, Running, AddressLeft, BlockedOnSocket, NoRecvAlive,
    Arrive, Break, loopVars

\* The inductive invariant holds in every reachable state: whichever way the
\* two threads' steps on m_socket interleave.
THEOREM Invariance == Spec => []IInv
<1>1. ASSUME IInv, [Next]_vars
      PROVE  IInv'
  <2>1. CASE UNCHANGED vars
    BY <1>1, <2>1
    DEF vars, loopVars, osVars, IInv, TypeOK, Running, AddressLeft, BlockedOnSocket,
        NoRecvAlive
  <2>. QED BY <1>1, <2>1, InitStep, ReceiveStep, DestructorStep, NetworkStep DEF Next, Local
<1>. QED BY <1>1, InitIInv, PTL DEF Spec

\* Every variable of the client keeps its type; in particular try_init never
\* runs past the end of the address list.
THEOREM TypeCorrect == Spec => []TypeOK
<1>1. IInv => TypeOK
  BY DEF IInv
<1>. QED BY <1>1, Invariance, PTL

\* When the destructor waits for the signaling thread, that thread is not
\* blocked in a recv on a live connection (CrownLink.cpp:14-17).
THEOREM JoinUnblocked == Spec => []JoinNeverBlocked
<1>1. IInv => JoinNeverBlocked
  BY DEF IInv, NoRecvAlive, JoinNeverBlocked
<1>. QED BY <1>1, Invariance, PTL

=============================================================================
