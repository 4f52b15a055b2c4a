----------------------- MODULE MC_MdnsTransportHistory -----------------------
(* Model-checking instance of MdnsTransportHistory: the TLS service of one *)
(* instance, two values for every field so that each merge rule is both   *)
(* taken and skipped, histories of up to three events.                     *)
EXTENDS MdnsTransportHistory, TLC

CONSTANTS i1, tls, a1, a2, b1, b2, p1, p2, t1, t2

MC_Instances == {i1}
MC_Services == {tls}
MC_V4Addrs == {a1, a2}
MC_V6Addrs == {b1, b2}
MC_Ports == {p1, p2}
MC_TxtMaps == {t1, t2}
MC_AutoConnectable == MC_Services \X MC_Instances

MC_Symmetry == Permutations(MC_V4Addrs) \cup Permutations(MC_V6Addrs)
    \cup Permutations(MC_Ports) \cup Permutations(MC_TxtMaps)
=============================================================================
