-------------------------- MODULE MC_MdnsTransport --------------------------
(* Model-checking instance of MdnsTransport: one device instance           *)
(* announcing the TLS and the plain adb service, two v6 addresses so that  *)
(* the v6 union is exercised, two ports so that a port change happens.     *)
EXTENDS MdnsTransport, TLC

CONSTANTS i1, i2, tls, adb, a1, a2, b1, b2, p1, p2, t1

MC_Instances == {i1}
MC_Services == {tls, adb}
MC_V4Addrs == {a1, a2}
MC_V6Addrs == {b1, b2}
MC_Ports == {p1, p2}
MC_TxtMaps == {t1}
MC_AutoConnectable == MC_Services \X MC_Instances

MC_Symmetry == Permutations(MC_V6Addrs) \cup Permutations(MC_Ports)
    \cup Permutations(MC_V4Addrs)
=============================================================================
