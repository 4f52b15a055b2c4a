---------------------------- MODULE SocketServer ----------------------------
(***************************************************************************)
(* The daemon's listener threads, server_socket_thread and adb_vsock_accept *)
(* of src/daemon/transport_socket_server.cpp.  init_transport_socket_server *)
(* starts one detached thread per listen address; each thread retries the *)
(* bind every second until it succeeds or fails with an unrecoverable     *)
(* errno, then accepts connections forever and registers a transport for  *)
(* each one it keeps.                                                      *)
(*                                                                         *)
(* The network is the environment: it decides, once per address, whether *)
(* socket_spec_listen can ever succeed (errno of a persistent failure),   *)
(* fails a bind transiently a bounded number of times, and connects peers.*)
(* A vsock peer is described by the CIDs of the two ends: "local" is      *)
(* VMADDR_CID_LOCAL, "self" the machine's own CID, "peer" another VM's.   *)
(***************************************************************************)
EXTENDS Naturals, FiniteSets

CONSTANTS
    Addrs,            \* the listen addresses passed to init_transport_socket_server
    VsockAddr,        \* the addresses that start with "vsock:"
    CheckVsockCid,    \* should_check_vsock_cid()
    MaxBindFailures,  \* bound on transient bind failures per address (model bound)
    MaxConnections    \* bound on connections arriving per address (model bound)

ASSUME SocketServerAssumption ==
    /\ VsockAddr \subseteq Addrs
    /\ CheckVsockCid \in BOOLEAN
    /\ MaxBindFailures \in Nat
    /\ MaxConnections \in Nat

\* The errno values server_socket_thread tells apart after a failed listen.
Unrecoverable == {"EAFNOSUPPORT", "EINVAL", "EPROTONOSUPPORT"}

\* What socket_spec_listen always fails with on an address, or "none" when it
\* can succeed once transient errors (EADDRINUSE, ...) are over.
BindErrors == Unrecoverable \cup {"none"}

Cids == {"local", "self", "peer"}

\* An incoming connection: the CID getsockname reports for the accepted
\* socket, and the client's CID.
Conn == [server : {"local", "self"}, client : Cids]

VARIABLES
    bindError,     \* per address, the persistent outcome of socket_spec_listen
    pc,            \* per thread: "bind", "accept" or "exited"
    bindFailures,  \* per thread, transient bind failures so far
    backlog,       \* per thread, connections waiting in accept()
    arrived,       \* per thread, connections that ever arrived
    transports     \* <<address, connection>> pairs registered as transports

svars == <<bindError, pc, bindFailures, backlog, arrived, transports>>

STypeOK ==
    /\ bindError \in [Addrs -> BindErrors]
    /\ pc \in [Addrs -> {"bind", "accept", "exited"}]
    /\ bindFailures \in [Addrs -> 0 .. MaxBindFailures]
    /\ backlog \in [Addrs -> SUBSET Conn]
    /\ arrived \in [Addrs -> SUBSET Conn]
    /\ transports \subseteq Addrs \X Conn

SInit ==
    /\ bindError \in [Addrs -> BindErrors]
    /\ pc = [a \in Addrs |-> "bind"]
    /\ bindFailures = [a \in Addrs |-> 0]
    /\ backlog = [a \in Addrs |-> {}]
    /\ arrived = [a \in Addrs |-> {}]
    /\ transports = {}

-----------------------------------------------------------------------------
(***************************************************************************)
(* The bind loop: while (serverfd == -1).                                  *)
(***************************************************************************)

\* Mutant: every failed listen is taken as unrecoverable.
IsUnrecoverable_AnyError(errno) == errno # "none"

\* errno == EAFNOSUPPORT || errno == EINVAL || errno == EPROTONOSUPPORT
IsUnrecoverable(errno) == errno \in Unrecoverable

\* socket_spec_listen succeeds: the loop ends with a listening fd.
BindSucceeds(a) ==
    /\ pc[a] = "bind"
    /\ bindError[a] = "none"
    /\ pc' = [pc EXCEPT ![a] = "accept"]
    /\ UNCHANGED <<bindError, bindFailures, backlog, arrived, transports>>

\* The errno a failing socket_spec_listen can leave: the address's persistent
\* error, or a transient one while the bound on those is not reached.
ListenErrors(a) ==
    IF bindError[a] # "none" THEN {bindError[a]}
    ELSE IF bindFailures[a] < MaxBindFailures THEN {"EADDRINUSE"} ELSE {}

\* socket_spec_listen fails: return on an unrecoverable errno, otherwise
\* sleep one second and try again.
BindFails(a) ==
    /\ pc[a] = "bind"
    /\ \E errno \in ListenErrors(a) :
         IF IsUnrecoverable(errno)
           THEN /\ pc' = [pc EXCEPT ![a] = "exited"]
                /\ UNCHANGED bindFailures
           ELSE /\ bindFailures' = [bindFailures EXCEPT ![a] =
                                      IF errno = "EADDRINUSE" THEN @ + 1 ELSE @]
                /\ UNCHANGED pc
    /\ UNCHANGED <<bindError, backlog, arrived, transports>>

-----------------------------------------------------------------------------
(***************************************************************************)
(* The accept loop.                                                        *)
(***************************************************************************)

\* A peer connects to a listening address.
Connect(a, c) ==
    /\ pc[a] = "accept"
    /\ c \notin arrived[a]
    /\ Cardinality(arrived[a]) < MaxConnections
    /\ arrived' = [arrived EXCEPT ![a] = @ \cup {c}]
    /\ backlog' = [backlog EXCEPT ![a] = @ \cup {c}]
    /\ UNCHANGED <<bindError, pc, bindFailures, transports>>

\* Mutant: a client using the machine's own CID is not recognised as local.
is_local_vsock_connection_NoSameCid(c) ==
    c.server = "local" \/ c.client = "local"

\* is_local_vsock_connection(server_addr, client_addr).
is_local_vsock_connection(c) ==
    \/ c.server = "local"
    \/ c.client = "local"
    \/ c.server = c.client

\* adb_vsock_accept keeps the accepted fd: getsockname succeeded and both
\* families are AF_VSOCK (addrOk), and the peer is not local.
VsockAccepts(c, addrOk) == addrOk /\ ~is_local_vsock_connection(c)

\* One iteration: accept the next connection; on a vsock address with the
\* check enabled go through adb_vsock_accept; register a transport for a
\* kept fd.  A rejected or failed accept closes the fd and loops.
AcceptConnection(a, c) ==
    /\ pc[a] = "accept"
    /\ c \in backlog[a]
    /\ backlog' = [backlog EXCEPT ![a] = @ \ {c}]
    /\ \E addrOk \in BOOLEAN :
         IF a \in VsockAddr /\ CheckVsockCid /\ ~VsockAccepts(c, addrOk)
           THEN UNCHANGED transports
           ELSE transports' = transports \cup {<<a, c>>}
    /\ UNCHANGED <<bindError, pc, bindFailures, arrived>>

-----------------------------------------------------------------------------
SNext ==
    \E a \in Addrs :
       \/ BindSucceeds(a)
       \/ BindFails(a)
       \/ \E c \in Conn : Connect(a, c) \/ AcceptConnection(a, c)

\* Every listener thread keeps running: its bind and accept steps are weakly
\* fair.  Peers are not obliged to connect.
SFairness ==
    \A a \in Addrs :
       /\ WF_svars(BindSucceeds(a))
       /\ WF_svars(BindFails(a))
       /\ WF_svars(\E c \in Conn : AcceptConnection(a, c))

SSpec == SInit /\ [][SNext]_svars /\ SFairness

-----------------------------------------------------------------------------
(***************************************************************************)
(* Properties.                                                             *)
(***************************************************************************)

\* adbd restricts vsock connections from the local machine: with the CID
\* check on, the only vsock connection that becomes a transport is one from
\* another VM's CID to this machine's own CID; a peer on VMADDR_CID_LOCAL or
\* on the machine's CID never does.
NoLocalVsockTransport ==
    \A t \in transports :
       t[1] \in VsockAddr /\ CheckVsockCid =>
          t[2] = [server |-> "self", client |-> "peer"]

\* The refinement mapping: a thread in its bind loop is starting, one in its
\* accept loop listening, one that returned failed; an address is supported
\* when socket_spec_listen can succeed on it.  Retries, the backlog and
\* rejected peers are hidden.
Listener == INSTANCE ListenerSpec WITH
    status <- [a \in Addrs |-> CASE pc[a] = "bind" -> "starting"
                                  [] pc[a] = "accept" -> "listening"
                                  [] pc[a] = "exited" -> "failed"],
    supported <- [a \in Addrs |-> bindError[a] = "none"]

\* server_socket_thread implements the listener's promise: a thread gives up
\* only on an address that can never be bound, eventually listens on one
\* that can, and registers only peers adb_vsock_accept's policy allows.
ListenerRefinement == Listener!ASpec
=============================================================================
