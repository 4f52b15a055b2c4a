CONSTANTS
    i1 = i1
    tls = tls
    a1 = a1
    a2 = a2
    b1 = b1
    b2 = b2
    p1 = p1
    p2 = p2
    t1 = t1
    t2 = t2
    NoV4 = NoV4
    Absent = Absent
    None = None
    Instances <- MC_Instances
    Services <- MC_Services
    V4Addrs <- MC_V4Addrs
    V6Addrs <- MC_V6Addrs
    Ports <- MC_Ports
    TxtMaps <- MC_TxtMaps
    SecureService = tls
    AutoConnectable <- MC_AutoConnectable
    MaxThreads = 1
    MaxHistory = 3
SYMMETRY MC_Symmetry
SPECIFICATION HSpec
INVARIANT RegistryReflectsHistory
