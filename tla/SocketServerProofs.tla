------------------------- MODULE SocketServerProofs -------------------------
(***************************************************************************)
(* Proofs about the daemon's listener threads (SocketServer), for every    *)
(* set of listen addresses, every setting of the vsock CID check and every *)
(* bound.                                                                  *)
(***************************************************************************)
EXTENDS SocketServer, TLAPS

\* The inductive invariant: the state is well typed and every transport
\* registered on a checked vsock address is a remote peer.
SInv == STypeOK /\ NoLocalVsockTransport

-----------------------------------------------------------------------------
\* A connection adb_vsock_accept keeps is from another VM's CID to this
\* machine's own CID: is_local_vsock_connection excludes every other pair.
LEMMA VsockAcceptsRemoteOnly ==
    ASSUME NEW c \in Conn, NEW addrOk \in BOOLEAN, VsockAccepts(c, addrOk)
    PROVE  c = [server |-> "self", client |-> "peer"]
<1>1. c.server = "self" /\ c.client = "peer"
  BY DEF VsockAccepts, is_local_vsock_connection, Conn, Cids
<1>. QED  BY <1>1 DEF Conn

-----------------------------------------------------------------------------
\* Every listener thread's state stays well typed: its pc, its transient
\* failure count below MaxBindFailures, its backlog of connections.
LEMMA InitSInv == SInit => SInv
BY SocketServerAssumption DEF SInit, SInv, STypeOK, NoLocalVsockTransport

LEMMA NextSInv == SInv /\ [SNext]_svars => SInv'
<1>. SUFFICES ASSUME SInv, [SNext]_svars PROVE SInv'
  OBVIOUS
<1>. USE SocketServerAssumption
<1>1. CASE \E a \in Addrs : BindSucceeds(a)
  BY <1>1 DEF SInv, STypeOK, NoLocalVsockTransport, BindSucceeds
<1>2. CASE \E a \in Addrs : BindFails(a)
  <2>. PICK a \in Addrs : BindFails(a)  BY <1>2
  <2>. PICK errno \in ListenErrors(a) :
          IF IsUnrecoverable(errno)
            THEN /\ pc' = [pc EXCEPT ![a] = "exited"]
                 /\ UNCHANGED bindFailures
            ELSE /\ bindFailures' = [bindFailures EXCEPT ![a] =
                                       IF errno = "EADDRINUSE" THEN @ + 1 ELSE @]
                 /\ UNCHANGED pc
    BY DEF BindFails
  <2>1. errno = "EADDRINUSE" => bindFailures[a] < MaxBindFailures
    BY DEF ListenErrors, SInv, STypeOK, BindErrors, Unrecoverable
  <2>2. STypeOK'
    BY <2>1 DEF BindFails, SInv, STypeOK
  <2>. QED  BY <2>2 DEF BindFails, SInv, NoLocalVsockTransport
<1>3. CASE \E a \in Addrs, c \in Conn : Connect(a, c)
  BY <1>3 DEF SInv, STypeOK, NoLocalVsockTransport, Connect
<1>4. CASE \E a \in Addrs, c \in Conn : AcceptConnection(a, c)
  <2>. PICK a \in Addrs, c \in Conn : AcceptConnection(a, c)  BY <1>4
  <2>. PICK addrOk \in BOOLEAN :
          IF a \in VsockAddr /\ CheckVsockCid /\ ~VsockAccepts(c, addrOk)
            THEN UNCHANGED transports
            ELSE transports' = transports \cup {<<a, c>>}
    BY DEF AcceptConnection
  <2>1. STypeOK'
    BY DEF AcceptConnection, SInv, STypeOK
  <2>2. a \in VsockAddr /\ CheckVsockCid /\ transports' # transports
          => c = [server |-> "self", client |-> "peer"]
    BY VsockAcceptsRemoteOnly
  <2>3. NoLocalVsockTransport'
    BY <2>2 DEF SInv, NoLocalVsockTransport
  <2>. QED  BY <2>1, <2>3 DEF SInv
<1>5. CASE UNCHANGED svars
  BY <1>5 DEF SInv, STypeOK, NoLocalVsockTransport, svars
<1>. QED  BY <1>1, <1>2, <1>3, <1>4, <1>5 DEF SNext

\* The listener threads never leave their types.
THEOREM ListenerTypeCorrect == SSpec => []STypeOK
<1>1. SInit => SInv  BY InitSInv
<1>2. SInv /\ [SNext]_svars => SInv'  BY NextSInv
<1>3. SInv => STypeOK  BY DEF SInv
<1>. QED  BY <1>1, <1>2, <1>3, PTL DEF SSpec

\* adb_vsock_accept's local-CID rejection: with should_check_vsock_cid(),
\* no vsock connection from VMADDR_CID_LOCAL or from the machine's own CID
\* ever becomes a transport, for every set of addresses and peers.
THEOREM NoLocalVsockTransportHolds == SSpec => []NoLocalVsockTransport
<1>1. SInit => SInv  BY InitSInv
<1>2. SInv /\ [SNext]_svars => SInv'  BY NextSInv
<1>3. SInv => NoLocalVsockTransport  BY DEF SInv
<1>. QED  BY <1>1, <1>2, <1>3, PTL DEF SSpec

-----------------------------------------------------------------------------
(***************************************************************************)
(* Refinement: server_socket_thread implements the abstract listener of   *)
(* ListenerSpec under the mapping Listener of SocketServer.  Its fairness *)
(* part (an address eventually settles) is liveness and is checked by TLC *)
(* only.                                                                    *)
(***************************************************************************)

\* The initial listener threads map to the abstract initial state.
LEMMA RefinementInit == SInit => Listener!AInit
BY DEF SInit, Listener!AInit

\* A failed listen with an errno that ends the thread happens only on an
\* address socket_spec_listen can never bind: a transient failure is
\* EADDRINUSE, which server_socket_thread retries.
LEMMA UnrecoverableOnlyUnsupported ==
    ASSUME STypeOK, NEW a \in Addrs, NEW errno \in ListenErrors(a),
           IsUnrecoverable(errno)
    PROVE  bindError[a] # "none"
BY DEF ListenErrors, IsUnrecoverable, Unrecoverable

\* Every step of the listener threads is a step of the abstract listener or
\* leaves its state unchanged.
LEMMA RefinementStep == SInv /\ [SNext]_svars => [Listener!ANext]_Listener!avars
<1>. SUFFICES ASSUME SInv, [SNext]_svars PROVE [Listener!ANext]_Listener!avars
  OBVIOUS
<1>. USE DEF SInv
<1>1. CASE \E a \in Addrs : BindSucceeds(a)
  <2>. PICK a \in Addrs : BindSucceeds(a)  BY <1>1
  <2>. QED  BY DEF BindSucceeds, Listener!ANext, Listener!Settle, STypeOK
<1>2. CASE \E a \in Addrs : BindFails(a)
  <2>. PICK a \in Addrs : BindFails(a)  BY <1>2
  <2>0. PICK errno \in ListenErrors(a) :
          IF IsUnrecoverable(errno)
            THEN /\ pc' = [pc EXCEPT ![a] = "exited"]
                 /\ UNCHANGED bindFailures
            ELSE /\ bindFailures' = [bindFailures EXCEPT ![a] =
                                       IF errno = "EADDRINUSE" THEN @ + 1 ELSE @]
                 /\ UNCHANGED pc
    BY DEF BindFails
  <2>1. CASE IsUnrecoverable(errno)
    <3>1. bindError[a] # "none"  BY <2>1, UnrecoverableOnlyUnsupported
    <3>. QED  BY <2>0, <2>1, <3>1 DEF BindFails, Listener!ANext, Listener!Settle, STypeOK
  <2>2. CASE ~IsUnrecoverable(errno)
    <3>1. pc' = pc  BY <2>0, <2>2
    <3>2. UNCHANGED Listener!avars  BY <3>1 DEF BindFails, Listener!avars
    <3>. QED  BY <3>2
  <2>. QED  BY <2>1, <2>2
<1>3. CASE \E a \in Addrs, c \in Conn : Connect(a, c)
  BY <1>3 DEF Connect, Listener!avars
<1>4. CASE \E a \in Addrs, c \in Conn : AcceptConnection(a, c)
  <2>. PICK a \in Addrs, c \in Conn : AcceptConnection(a, c)  BY <1>4
  <2>0. PICK addrOk \in BOOLEAN :
          IF a \in VsockAddr /\ CheckVsockCid /\ ~VsockAccepts(c, addrOk)
            THEN UNCHANGED transports
            ELSE transports' = transports \cup {<<a, c>>}
    BY DEF AcceptConnection
  <2>1. CASE a \in VsockAddr /\ CheckVsockCid /\ ~VsockAccepts(c, addrOk)
    BY <2>0, <2>1 DEF AcceptConnection, Listener!avars
  <2>2. CASE ~(a \in VsockAddr /\ CheckVsockCid /\ ~VsockAccepts(c, addrOk))
    <3>1. Listener!Allowed(a, c)
      BY <2>2, VsockAcceptsRemoteOnly DEF Listener!Allowed
    <3>2. c \in Listener!Peer  BY DEF Conn, Cids, Listener!Peer
    <3>3. Listener!Serve(a, c)
      BY <2>0, <2>2, <3>1 DEF AcceptConnection, Listener!Serve
    <3>. QED  BY <3>2, <3>3 DEF Listener!ANext
  <2>. QED  BY <2>1, <2>2
<1>5. CASE UNCHANGED svars
  BY <1>5 DEF svars, Listener!avars
<1>. QED  BY <1>1, <1>2, <1>3, <1>4, <1>5 DEF SNext

\* server_socket_thread implements the abstract listener's safety: it gives
\* up only on an address that can never be bound, listens only where a bind
\* succeeded, and registers only peers the vsock policy allows, for every
\* set of addresses and every bound.
THEOREM ListenerImplementation ==
    SSpec => Listener!AInit /\ [][Listener!ANext]_Listener!avars
<1>1. SInit => SInv  BY InitSInv
<1>2. SInv /\ [SNext]_svars => SInv'  BY NextSInv
<1>3. SInit => Listener!AInit  BY RefinementInit
<1>4. SInv /\ [SNext]_svars => [Listener!ANext]_Listener!avars  BY RefinementStep
<1>. QED  BY <1>1, <1>2, <1>3, <1>4, PTL DEF SSpec
=============================================================================
