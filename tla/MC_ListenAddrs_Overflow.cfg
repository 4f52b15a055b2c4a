\* The TCP port of get_tcp_port against the digits of its property.
CONSTANTS
    spec1 = spec1
    spec2 = spec2
    PortStrings <- MC_PortStrings
    ListenProps <- MC_ListenProps
    BindSpecs <- MC_BindSpecs
    DefaultPort = 5555

SPECIFICATION LSpec
\* get_listen_addrs returns once: the state after the call has no successor.
CHECK_DEADLOCK FALSE
INVARIANT PortIsPropertyValue
