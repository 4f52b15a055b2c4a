--------------------------- MODULE MC_MdnsDiscovery ---------------------------
(* Model-checking instance of MdnsDiscovery: two watchers (the plain adb   *)
(* and the TLS connect service), one device instance, endpoints with up to *)
(* two addresses so that the last-v4-wins conversion and the v6 set are    *)
(* both exercised.                                                         *)
EXTENDS MdnsDiscovery, TLC

CONSTANTS i1, tls, adb, a1, a2, b1, p1, p2, t1

MC_Instances == {i1}
MC_Services == {tls, adb}
MC_V4Addrs == {a1, a2}
MC_V6Addrs == {b1}
MC_Ports == {p1, p2}
MC_TxtMaps == {t1}
MC_AutoConnectable == MC_Services \X MC_Instances
MC_WatchedService == (0 :> adb) @@ (1 :> tls)
=============================================================================
