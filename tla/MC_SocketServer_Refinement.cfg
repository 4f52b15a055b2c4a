\* server_socket_thread against the abstract listener of ListenerSpec.
CONSTANTS
    tcpAddr = tcpAddr
    vsockAddr = vsockAddr
    Addrs <- MC_Addrs
    VsockAddr <- MC_VsockAddr
    CheckVsockCid = TRUE
    MaxBindFailures = 2
    MaxConnections = 2

SPECIFICATION SSpec
\* Each listener ends blocked in accept() with no peer left, or returned.
CHECK_DEADLOCK FALSE
PROPERTY ListenerRefinement
