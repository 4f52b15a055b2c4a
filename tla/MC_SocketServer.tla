--------------------------- MODULE MC_SocketServer ---------------------------
(* Model-checking instance of SocketServer: the "tcp:<port>" and           *)
(* "vsock:<port>" pair get_listen_addrs returns for a TCP port, with the   *)
(* vsock CID check on.                                                     *)
EXTENDS SocketServer, TLC

CONSTANTS tcpAddr, vsockAddr

MC_Addrs == {tcpAddr, vsockAddr}
MC_VsockAddr == {vsockAddr}
=============================================================================
