CONSTANTS
    tcpAddr = tcpAddr
    vsockAddr = vsockAddr
    Addrs <- MC_Addrs
    VsockAddr <- MC_VsockAddr
    CheckVsockCid = TRUE
    MaxBindFailures = 2
    MaxConnections = 2
SPECIFICATION SSpec
CHECK_DEADLOCK FALSE
INVARIANT NoLocalVsockTransport
