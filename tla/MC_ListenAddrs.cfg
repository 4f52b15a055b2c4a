\* get_listen_addrs against the contract of listen_addrs.h.
CONSTANTS
    spec1 = spec1
    spec2 = spec2
    PortStrings <- MC_PortStrings
    ListenProps <- MC_ListenProps
    BindSpecs <- MC_BindSpecs
    DefaultPort = 5555

SPECIFICATION LSpec
\* get_listen_addrs returns once: the state after the call has no successor.
CHECK_DEADLOCK FALSE
INVARIANT MatchesHeaderContract
