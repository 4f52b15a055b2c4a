---------------------- MODULE MdnsTransportHistoryProofs ----------------------
(***************************************************************************)
(* Proof that the registry of DiscoveredServices, driven by the handler   *)
(* OnServiceReceiverResult of src/client/transport_mdns.cpp, holds for    *)
(* every key the merge of all events applied since the key was created    *)
(* (RegistryReflectsHistory), for every value of the constants.           *)
(*                                                                         *)
(* The reference LastV4 picks the last event that carried a v4 address.   *)
(* That such a last event exists whenever some event carried one is a     *)
(* fact about all finite sequences, which would need induction over the   *)
(* data; it is instead carried in the inductive invariant (HasLastV4),     *)
(* where each step preserves it because it appends one event at most.     *)
(***************************************************************************)
EXTENDS MdnsTransportHistory, MdnsTransportProofs

\* Index i of h holds the last v4 address announced in h.
IsLastV4(h, i) ==
    /\ h[i].v4_address # NoV4
    /\ \A j \in i+1..Len(h) : h[j].v4_address = NoV4

\* If some event of h carried a v4 address, one of them is the last.
HasLastV4(h) ==
    (\E i \in 1..Len(h) : h[i].v4_address # NoV4) =>
        \E i \in 1..Len(h) : IsLastV4(h, i)

-----------------------------------------------------------------------------
(***************************************************************************)
(* Lemmas about the reference LastV4 and ExpectedEntry.                   *)
(***************************************************************************)

\* LastV4 restated through IsLastV4.
LEMMA LastV4Def ==
    ASSUME NEW h
    PROVE  LastV4(h) =
             IF \E i \in 1..Len(h) : h[i].v4_address # NoV4
             THEN h[CHOOSE i \in 1..Len(h) : IsLastV4(h, i)].v4_address
             ELSE NoV4
BY DEF LastV4, IsLastV4

\* At most one index holds the last v4 address.
LEMMA LastV4IndexUnique ==
    ASSUME NEW h \in Seq(ServiceInfo), NEW i \in 1..Len(h), NEW i2 \in 1..Len(h),
           IsLastV4(h, i), IsLastV4(h, i2)
    PROVE  i = i2
BY DEF IsLastV4

\* LastV4 is the v4 address at the last index that holds one.
LEMMA LastV4At ==
    ASSUME NEW h \in Seq(ServiceInfo), NEW i \in 1..Len(h), IsLastV4(h, i)
    PROVE  LastV4(h) = h[i].v4_address
<1> DEFINE c == CHOOSE m \in 1..Len(h) : IsLastV4(h, m)
<1>1. c \in 1..Len(h) /\ IsLastV4(h, c)
  OBVIOUS
<1>2. c = i
  BY <1>1, LastV4IndexUnique
<1>3. \E m \in 1..Len(h) : h[m].v4_address # NoV4
  BY DEF IsLastV4
<1>. QED  BY <1>2, <1>3, LastV4Def

\* With no v4 address in h, LastV4 is nullopt.
LEMMA LastV4None ==
    ASSUME NEW h, ~\E i \in 1..Len(h) : h[i].v4_address # NoV4
    PROVE  LastV4(h) = NoV4
BY LastV4Def

\* Appending an event: its v4 address if it has one, else the previous one.
LEMMA LastV4Append ==
    ASSUME NEW h \in Seq(ServiceInfo), NEW x \in ServiceInfo, HasLastV4(h)
    PROVE  /\ LastV4(Append(h, x)) =
                IF x.v4_address # NoV4 THEN x.v4_address ELSE LastV4(h)
           /\ HasLastV4(Append(h, x))
<1> DEFINE g == Append(h, x)
           n == Len(h)
<1>1. /\ n \in Nat
      /\ g \in Seq(ServiceInfo)
      /\ Len(g) = n + 1
      /\ g[n + 1] = x
      /\ \A m \in 1..n : g[m] = h[m]
  OBVIOUS
<1>2. CASE x.v4_address # NoV4
  <2>1. IsLastV4(g, n + 1)
    BY <1>1, <1>2 DEF IsLastV4
  <2>2. LastV4(g) = x.v4_address
    <3>1. n + 1 \in 1..Len(g)  BY <1>1
    <3>. QED  BY <1>1, <2>1, <3>1, LastV4At, Zenon
  <2>. QED  BY <1>1, <1>2, <2>1, <2>2 DEF HasLastV4
<1>3. CASE x.v4_address = NoV4 /\ \E m \in 1..n : h[m].v4_address # NoV4
  <2>1. PICK m \in 1..n : IsLastV4(h, m)
    BY <1>3 DEF HasLastV4
  <2>2. IsLastV4(g, m)
    BY <1>1, <1>3, <2>1 DEF IsLastV4
  <2>3. LastV4(g) = h[m].v4_address
    <3>1. m \in 1..Len(g)  BY <1>1
    <3>2. LastV4(g) = g[m].v4_address  BY <1>1, <2>2, <3>1, LastV4At, Zenon
    <3>. QED  BY <1>1, <3>2
  <2>4. LastV4(h) = h[m].v4_address
    BY <2>1, LastV4At
  <2>. QED  BY <1>1, <1>3, <2>2, <2>3, <2>4 DEF HasLastV4
<1>4. CASE x.v4_address = NoV4 /\ ~\E m \in 1..n : h[m].v4_address # NoV4
  <2>1. ~\E m \in 1..Len(g) : g[m].v4_address # NoV4
    BY <1>1, <1>4
  <2>2. LastV4(g) = NoV4 /\ LastV4(h) = NoV4
    BY <1>4, <2>1, LastV4None
  <2>. QED  BY <1>4, <2>1, <2>2 DEF HasLastV4
<1>. QED  BY <1>2, <1>3, <1>4
\* The entry of a key whose history is one event is that event's record:
\* what ServiceCreated stores, and what ServiceUpdated inserts.
LEMMA ExpectedEntrySingle ==
    ASSUME NEW x \in ServiceInfo
    PROVE  /\ ExpectedEntry(<<x>>) = AsRecord(x)
           /\ HasLastV4(<<x>>)
<1>1. Append(<< >>, x) = <<x>>
  OBVIOUS
<1>2. << >> \in Seq(ServiceInfo) /\ HasLastV4(<< >>)
  BY DEF HasLastV4
<1>3. LastV4(<< >>) = NoV4
  BY LastV4None
<1>4. LastV4(<<x>>) = x.v4_address /\ HasLastV4(<<x>>)
  BY <1>1, <1>2, <1>3, LastV4Append
<1>5. UNION {<<x>>[i].v6_addresses : i \in 1..1} = x.v6_addresses
  OBVIOUS
<1>. QED  BY <1>4, <1>5 DEF ExpectedEntry, AsRecord

\* A non-empty history gives a stored record.
LEMMA ExpectedEntryType ==
    ASSUME NEW h \in Seq(ServiceInfo), HasLastV4(h), h # << >>
    PROVE  ExpectedEntry(h) \in Record
<1>1. LastV4(h) \in IPv4Option
  <2>1. CASE \E i \in 1..Len(h) : h[i].v4_address # NoV4
    <3>1. PICK i \in 1..Len(h) : IsLastV4(h, i)
      BY <2>1 DEF HasLastV4
    <3>2. LastV4(h) = h[i].v4_address
      BY <3>1, LastV4At
    <3>3. h[i] \in ServiceInfo  OBVIOUS
    <3>. QED  BY <3>1, <3>2, <3>3 DEF ServiceInfo, IPv4Option
  <2>2. CASE ~\E i \in 1..Len(h) : h[i].v4_address # NoV4
    BY <2>2, LastV4None DEF IPv4Option
  <2>. QED  BY <2>1, <2>2
<1>2. Len(h) \in 1..Len(h) /\ \A i \in 1..Len(h) : h[i] \in ServiceInfo
  OBVIOUS
<1>3. UNION {h[i].v6_addresses : i \in 1..Len(h)} \subseteq V6Addrs
  BY <1>2, Zenon DEF ServiceInfo
<1>4. h[Len(h)].port \in Ports /\ h[Len(h)].attributes \in TxtMaps
  BY <1>2, Zenon DEF ServiceInfo
<1>. QED  BY <1>1, <1>3, <1>4 DEF ExpectedEntry, Record

\* The merge ServiceUpdated performs on an existing entry is the reference
\* entry of the history extended by the update.
LEMMA ExpectedEntryAppend ==
    ASSUME NEW h \in Seq(ServiceInfo), NEW x \in ServiceInfo,
           HasLastV4(h), h # << >>
    PROVE  ExpectedEntry(Append(h, x)) = MergedRecord(ExpectedEntry(h), x)
<1> DEFINE g == Append(h, x)
           n == Len(h)
           cur == ExpectedEntry(h)
<1>1. /\ n \in Nat /\ Len(g) = n + 1 /\ g # << >> /\ g[n + 1] = x
      /\ \A m \in 1..n : g[m] = h[m]
  OBVIOUS
<1>2. cur = [v4_address |-> LastV4(h),
             v6_addresses |-> UNION {h[i].v6_addresses : i \in 1..n},
             port |-> h[n].port, attributes |-> h[n].attributes]
  BY DEF ExpectedEntry
<1>3. ExpectedEntry(g) =
        [v4_address |-> LastV4(g),
         v6_addresses |-> UNION {g[i].v6_addresses : i \in 1..n + 1},
         port |-> x.port, attributes |-> x.attributes]
  BY <1>1 DEF ExpectedEntry
<1>4. LastV4(g) = IF V4Replaced(cur, x) THEN x.v4_address ELSE cur.v4_address
  <2>1. LastV4(g) = IF x.v4_address # NoV4 THEN x.v4_address ELSE LastV4(h)
    BY LastV4Append
  <2>. QED  BY <1>2, <2>1 DEF V4Replaced
<1>5. UNION {g[i].v6_addresses : i \in 1..n + 1} = cur.v6_addresses \cup NewV6(cur, x)
  <2>1. UNION {g[i].v6_addresses : i \in 1..n + 1}
          = (UNION {h[i].v6_addresses : i \in 1..n}) \cup x.v6_addresses
    <3>1. 1..n + 1 = (1..n) \cup {n + 1}  BY <1>1
    <3>2. {g[i].v6_addresses : i \in 1..n + 1}
            = {h[i].v6_addresses : i \in 1..n} \cup {x.v6_addresses}
      BY <1>1, <3>1
    <3>. QED  BY <3>2
  <2>. QED  BY <1>2, <2>1 DEF NewV6
<1>. QED  BY <1>3, <1>4, <1>5 DEF MergedRecord
-----------------------------------------------------------------------------
(***************************************************************************)
(* The inductive invariant.  RegistryReflectsHistory alone is not         *)
(* inductive: the step needs the histories to be sequences of events and   *)
(* to have a last v4 address whenever they have one.                      *)
(***************************************************************************)
HInv ==
    /\ TypeOK
    /\ hist \in [Key -> Seq(ServiceInfo)]
    /\ \A k \in Key : HasLastV4(hist[k])
    /\ RegistryReflectsHistory

LEMMA InitHInv == HInit => HInv
<1> SUFFICES ASSUME HInit PROVE HInv
  OBVIOUS
<1>1. TypeOK
  BY InitTypeOK DEF HInit
<1>2. << >> \in Seq(ServiceInfo) /\ HasLastV4(<< >>) /\ ExpectedEntry(<< >>) = Absent
  BY DEF HasLastV4, ExpectedEntry
<1>. QED  BY <1>1, <1>2 DEF HInit, Init, RegistryInit, HInv, RegistryReflectsHistory

\* A registry step that sets key k to the reference entry of a new history
\* of k, and the history of k to that history, keeps the invariant.
LEMMA OneKeyStep ==
    ASSUME HInv, NEW k \in Key, NEW hk \in Seq(ServiceInfo), HasLastV4(hk),
           hist' = [hist EXCEPT ![k] = hk],
           services' = [services EXCEPT ![k] = ExpectedEntry(hk)]
    PROVE  /\ hist' \in [Key -> Seq(ServiceInfo)]
           /\ \A j \in Key : HasLastV4(hist'[j])
           /\ RegistryReflectsHistory'
BY DEF HInv, RegistryReflectsHistory, TypeOK

\* The history variable changes only in the step that starts handling an
\* event; every other step keeps the registry and the histories.
LEMMA QuietStep ==
    ASSUME HInv, hist' = hist, services' = services
    PROVE  /\ hist' \in [Key -> Seq(ServiceInfo)]
           /\ \A j \in Key : HasLastV4(hist'[j])
           /\ RegistryReflectsHistory'
BY DEF HInv, RegistryReflectsHistory

LEMMA NextHInv == HInv /\ [HNext]_hvars => HInv'
<1> SUFFICES ASSUME HInv, [HNext]_hvars PROVE HInv'
  OBVIOUS
<1>1. TypeOK'
  <2>1. [Next]_vars  BY DEF HNext, hvars, vars
  <2>. QED  BY <2>1, NextTypeOK DEF HInv
<1>2. CASE UNCHANGED hvars
  BY <1>1, <1>2, QuietStep DEF hvars, vars, HInv
<1>3. ASSUME NEW si \in ServiceInfo, HNext, OnCreated(si) PROVE HInv'
  <2> DEFINE k == fq_name(si)
  <2>1. k \in Key  BY DEF fq_name, Key, ServiceInfo
  <2>2. ev = None /\ ev' = [state |-> "Created", info |-> si] /\ ev' # None
    BY <1>3, TransportAssumption DEF OnCreated, HInv, TypeOK, Event, ServiceInfoState
  <2>3. hist' = [hist EXCEPT ![k] = <<si>>]
    BY <1>3, <2>2 DEF HNext, Record_History
  <2>4. services' = [services EXCEPT ![k] = ExpectedEntry(<<si>>)]
    BY <1>3, ExpectedEntrySingle DEF OnCreated, ServiceCreated, CreatedServices
  <2>5. <<si>> \in Seq(ServiceInfo) /\ HasLastV4(<<si>>)
    BY ExpectedEntrySingle
  <2>. QED  BY <1>1, <2>1, <2>3, <2>4, <2>5, OneKeyStep DEF HInv
<1>4. ASSUME NEW si \in ServiceInfo, HNext, OnUpdated(si) PROVE HInv'
  <2> DEFINE k == fq_name(si)
             hk == Append(hist[k], si)
  <2>1. k \in Key  BY DEF fq_name, Key, ServiceInfo
  <2>2. ev = None /\ ev' = [state |-> "Updated", info |-> si] /\ ev' # None
    BY <1>4, TransportAssumption DEF OnUpdated, HInv, TypeOK, Event, ServiceInfoState
  <2>3. hist' = [hist EXCEPT ![k] = hk]
    BY <1>4, <2>2 DEF HNext, Record_History
  <2>4. hist[k] \in Seq(ServiceInfo) /\ HasLastV4(hist[k])
        /\ services[k] = ExpectedEntry(hist[k])
    BY <2>1 DEF HInv, RegistryReflectsHistory
  <2>5. hk \in Seq(ServiceInfo) /\ HasLastV4(hk)
    BY <2>4, LastV4Append
  <2>6. services' = [services EXCEPT ![k] =
                       IF services[k] = Absent THEN AsRecord(si)
                       ELSE MergedRecord(services[k], si)]
    BY <1>4 DEF OnUpdated, ServiceUpdated, UpdatedServices
  <2>7. ExpectedEntry(hk) = IF services[k] = Absent THEN AsRecord(si)
                             ELSE MergedRecord(services[k], si)
    <3>1. CASE hist[k] = << >>
      <4>1. services[k] = Absent  BY <2>4, <3>1 DEF ExpectedEntry
      <4>2. hk = <<si>>  BY <3>1
      <4>. QED  BY <4>1, <4>2, ExpectedEntrySingle
    <3>2. CASE hist[k] # << >>
      <4>1. services[k] \in Record  BY <2>4, <3>2, ExpectedEntryType
      <4>2. services[k] # Absent  BY <4>1, RegistryAssumption
      <4>. QED  BY <2>4, <3>2, <4>2, ExpectedEntryAppend
    <3>. QED  BY <3>1, <3>2
  <2>. QED  BY <1>1, <2>1, <2>3, <2>5, <2>6, <2>7, OneKeyStep DEF HInv
<1>5. ASSUME NEW si \in ServiceInfo, HNext, OnDeleted(si) PROVE HInv'
  <2> DEFINE k == fq_name(si)
  <2>1. k \in Key  BY DEF fq_name, Key, ServiceInfo
  <2>2. ev = None /\ ev' = [state |-> "Deleted", info |-> si] /\ ev' # None
    BY <1>5, TransportAssumption DEF OnDeleted, HInv, TypeOK, Event, ServiceInfoState
  <2>3. hist' = [hist EXCEPT ![k] = << >>]
    BY <1>5, <2>2 DEF HNext, Record_History
  <2>4. << >> \in Seq(ServiceInfo) /\ HasLastV4(<< >>) /\ ExpectedEntry(<< >>) = Absent
    BY DEF HasLastV4, ExpectedEntry
  <2>5. services' = [services EXCEPT ![k] = ExpectedEntry(<< >>)]
    BY <1>5, <2>4 DEF OnDeleted, ServiceDeleted, DeletedServices
  <2>. QED  BY <1>1, <2>1, <2>3, <2>4, <2>5, OneKeyStep DEF HInv
<1>6. ASSUME HNext,
             \/ AttemptAutoConnect \/ UpdateTrackers \/ ConnectAdbSecureDevice
             \/ \E i \in Instances : SecureConnectFind(i)
             \/ \E h \in Instances : AddKnownHost(h)
             \/ \E k \in Key : ConnectThreadExit(k)
      PROVE  HInv'
  <2>1. ~(ev = None /\ ev' # None) /\ services' = services
    BY <1>6 DEF AttemptAutoConnect, UpdateTrackers, ConnectAdbSecureDevice,
                SecureConnectFind, AddKnownHost, ConnectThreadExit, HInv, TypeOK
  <2>2. hist' = hist  BY <1>6, <2>1 DEF HNext
  <2>. QED  BY <1>1, <2>1, <2>2, QuietStep DEF HInv
<1>7. CASE HNext
  BY <1>3, <1>4, <1>5, <1>6, <1>7 DEF HNext, Next
<1>. QED  BY <1>2, <1>7

\* Every registry entry is the merge of all events received for its key
\* since it was created, for any sets of instances, services, addresses,
\* ports and attribute maps: ServiceCreated overwrites, ServiceUpdated
\* keeps every v6 address and the last v4 address ever announced, and
\* ServiceDeleted erases.
THEOREM RegistryReflectsHistoryHolds == HSpec => []RegistryReflectsHistory
<1>1. HInit => HInv  BY InitHInv
<1>2. HInv /\ [HNext]_hvars => HInv'  BY NextHInv
<1>3. HInv => RegistryReflectsHistory  BY DEF HInv
<1>. QED  BY <1>1, <1>2, <1>3, PTL DEF HSpec
=============================================================================
