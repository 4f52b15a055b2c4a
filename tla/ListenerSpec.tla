---------------------------- MODULE ListenerSpec ----------------------------
(***************************************************************************)
(* What the daemon's listener promises for each listen address, stated     *)
(* without threads, retries or backlogs: an address that can be bound is  *)
(* eventually listened on, one that is unsupported is given up, and only  *)
(* peers the vsock policy allows become transports.  SocketServer (the     *)
(* code of src/daemon/transport_socket_server.cpp) implements it.          *)
(***************************************************************************)
CONSTANTS Addrs, VsockAddr, CheckVsockCid

\* A vsock peer as the CIDs of the two ends (see SocketServer).
Peer == [server : {"local", "self"}, client : {"local", "self", "peer"}]

\* The policy: on a checked vsock address only a connection from another VM
\* to this machine may be served.
Allowed(a, c) ==
    a \in VsockAddr /\ CheckVsockCid => c = [server |-> "self", client |-> "peer"]

VARIABLES
    status,      \* per address: "starting", "listening" or "failed"
    supported,   \* per address: whether the system lets it be bound
    transports   \* <<address, peer>> pairs served

avars == <<status, supported, transports>>

AInit ==
    /\ status = [a \in Addrs |-> "starting"]
    /\ supported \in [Addrs -> BOOLEAN]
    /\ transports = {}

\* The listener settles on an address: it listens if it can, else gives up.
Settle(a) ==
    /\ status[a] = "starting"
    /\ status' = [status EXCEPT ![a] = IF supported[a] THEN "listening" ELSE "failed"]
    /\ UNCHANGED <<supported, transports>>

\* A listening address serves a peer the policy allows.
Serve(a, c) ==
    /\ status[a] = "listening"
    /\ Allowed(a, c)
    /\ transports' = transports \cup {<<a, c>>}
    /\ UNCHANGED <<status, supported>>

ANext == \E a \in Addrs : Settle(a) \/ \E c \in Peer : Serve(a, c)

ASpec == AInit /\ [][ANext]_avars /\ \A a \in Addrs : WF_avars(Settle(a))
=============================================================================
