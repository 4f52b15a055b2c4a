------------------------- MODULE MdnsTransportProofs -------------------------
(***************************************************************************)
(* Proofs about MdnsTransport for every value of the constants.            *)
(***************************************************************************)
EXTENDS MdnsTransport, TLAPS

-----------------------------------------------------------------------------
(***************************************************************************)
(* Lemmas about the registry operators of DiscoveredServices.              *)
(***************************************************************************)

\* The field-by-field merge of ServiceUpdated yields a record.
LEMMA MergedRecordType ==
    ASSUME NEW cur \in Record, NEW si \in ServiceInfo
    PROVE  MergedRecord(cur, si) \in Record
BY DEF MergedRecord, V4Replaced, NewV6, Record, ServiceInfo, IPv4Option

\* The `updated` flag computed by the merge is TRUE exactly when the merged
\* record differs from the stored one.
LEMMA MergeChangedIffDiffers ==
    ASSUME NEW cur \in Record, NEW si \in ServiceInfo
    PROVE  MergeChanged(cur, si) <=> MergedRecord(cur, si) # cur
<1> DEFINE m == MergedRecord(cur, si)
<1>1. m.v4_address # cur.v4_address <=> V4Replaced(cur, si)
  BY DEF MergedRecord, V4Replaced
<1>2. m.v6_addresses # cur.v6_addresses <=> NewV6(cur, si) # {}
  BY DEF MergedRecord, NewV6
<1>3. m.port = si.port /\ m.attributes = si.attributes
  BY DEF MergedRecord
<1>4. m # cur <=> \/ m.v4_address # cur.v4_address
                  \/ m.v6_addresses # cur.v6_addresses
                  \/ m.port # cur.port
                  \/ m.attributes # cur.attributes
  BY MergedRecordType DEF Record
<1>5. QED
  BY <1>1, <1>2, <1>3, <1>4 DEF MergeChanged

\* The value ServiceUpdated returns is TRUE exactly when it changes the map.
LEMMA UpdateResultIffChanged ==
    ASSUME services \in [Key -> Record \cup {Absent}], NEW si \in ServiceInfo,
           RegistryAssumption
    PROVE  UpdateResult(si) <=> UpdatedServices(si) # services
<1> DEFINE k == fq_name(si)
<1>1. k \in Key
  BY DEF fq_name, Key, ServiceInfo
<1>2. AsRecord(si) \in Record
  BY DEF AsRecord, Record, ServiceInfo
<1>3. UpdatedServices(si) # services
        <=> UpdatedServices(si)[k] # services[k]
  BY <1>1 DEF UpdatedServices
<1>4. CASE services[k] = Absent
  BY <1>1, <1>2, <1>3, <1>4 DEF UpdatedServices, UpdateResult
<1>5. CASE services[k] # Absent
  <2>1. services[k] \in Record
    BY <1>1, <1>5
  <2>2. UpdatedServices(si)[k] = MergedRecord(services[k], si)
    BY <1>1, <1>5 DEF UpdatedServices
  <2>3. QED
    BY <1>3, <1>5, <2>1, <2>2, MergeChangedIffDiffers DEF UpdateResult
<1>6. QED
  BY <1>4, <1>5

-----------------------------------------------------------------------------
(***************************************************************************)
(* Type correctness.                                                       *)
(***************************************************************************)
LEMMA InitTypeOK == Init => TypeOK
BY TransportAssumption DEF Init, RegistryInit, TypeOK

LEMMA NextTypeOK == TypeOK /\ [Next]_vars => TypeOK'
<1> SUFFICES ASSUME TypeOK, [Next]_vars PROVE TypeOK'
  OBVIOUS
<1>1. ASSUME NEW si \in ServiceInfo, OnCreated(si) PROVE TypeOK'
  <2>1. fq_name(si) \in Key /\ AsRecord(si) \in Record
    BY DEF fq_name, Key, AsRecord, Record, ServiceInfo
  <2>2. QED
    BY <1>1, <2>1, TransportAssumption DEF OnCreated, ServiceCreated, CreatedServices, TypeOK, Event, ServiceInfoState
<1>2. ASSUME NEW si \in ServiceInfo, OnUpdated(si) PROVE TypeOK'
  <2>1. fq_name(si) \in Key /\ AsRecord(si) \in Record
    BY DEF fq_name, Key, AsRecord, Record, ServiceInfo
  <2>2. services[fq_name(si)] # Absent
          => MergedRecord(services[fq_name(si)], si) \in Record
    BY <2>1, MergedRecordType DEF TypeOK
  <2>3. UpdatedServices(si) \in [Key -> Record \cup {Absent}]
    BY <2>1, <2>2 DEF UpdatedServices, TypeOK
  <2>4. UpdateResult(si) \in BOOLEAN
    BY DEF UpdateResult
  <2>5. QED
    BY <1>2, <2>3, <2>4, TransportAssumption DEF OnUpdated, ServiceUpdated, TypeOK, Event, ServiceInfoState
<1>3. ASSUME NEW si \in ServiceInfo, OnDeleted(si) PROVE TypeOK'
  <2>1. fq_name(si) \in Key
    BY DEF fq_name, Key, ServiceInfo
  <2>2. QED
    BY <1>3, <2>1, TransportAssumption DEF OnDeleted, ServiceDeleted, DeletedServices, TypeOK, Event, ServiceInfoState
<1>4. CASE AttemptAutoConnect
  <2>1. ev \in Event
    BY <1>4 DEF AttemptAutoConnect, TypeOK
  <2>2. fq_name(ev.info) \in Key
    BY <2>1 DEF Event, fq_name, Key, ServiceInfo
  <2>3. QED
    BY <1>4, <2>2, TransportAssumption
    DEF AttemptAutoConnect, CanSpawn, Spawn, TypeOK
<1>5. CASE UpdateTrackers
  BY <1>5 DEF UpdateTrackers, TypeOK
<1>6. ASSUME NEW i \in Instances, SecureConnectFind(i) PROVE TypeOK'
  BY <1>6 DEF SecureConnectFind, TypeOK
<1>7. CASE ConnectAdbSecureDevice
  <2>1. CASE opInstance \in knownHosts
    <3>1. <<opInstance, SecureService>> \in Key
      BY <2>1, TransportAssumption DEF TypeOK, Key
    <3>2. QED
      BY <1>7, <2>1, <3>1, TransportAssumption
      DEF ConnectAdbSecureDevice, CanSpawn, Spawn, TypeOK
  <2>2. CASE opInstance \notin knownHosts
    BY <1>7, <2>2 DEF ConnectAdbSecureDevice, TypeOK
  <2>3. QED
    BY <2>1, <2>2
<1>8. ASSUME NEW h \in Instances, AddKnownHost(h) PROVE TypeOK'
  BY <1>8 DEF AddKnownHost, TypeOK
<1>9. ASSUME NEW k \in Key, ConnectThreadExit(k) PROVE TypeOK'
  BY <1>9, TransportAssumption DEF ConnectThreadExit, TypeOK
<1>10. CASE UNCHANGED vars
  BY <1>10 DEF vars, TypeOK
<1>11. QED
  BY <1>1, <1>2, <1>3, <1>4, <1>5, <1>6, <1>7, <1>8, <1>9, <1>10 DEF Next

\* The state of the event path, the registry, the keystore and the connect
\* threads always has its declared type.
THEOREM TypeCorrect == Spec => []TypeOK
BY InitTypeOK, NextTypeOK, PTL DEF Spec

-----------------------------------------------------------------------------
(***************************************************************************)
(* Connect threads to the TLS service only target known hosts.  The       *)
(* invariant is inductive together with TypeOK: the keystore only grows,  *)
(* and both paths that start a thread check it in the same step.          *)
(***************************************************************************)
IInv == TypeOK /\ SecureConnectOnlyToKnownHosts

LEMMA InitIInv == Init => IInv
BY InitTypeOK DEF Init, RegistryInit, IInv, SecureConnectOnlyToKnownHosts

LEMMA NextIInv == IInv /\ [Next]_vars => IInv'
<1> SUFFICES ASSUME IInv, [Next]_vars PROVE SecureConnectOnlyToKnownHosts'
  BY NextTypeOK DEF IInv
<1> USE DEF IInv
<1>1. ASSUME NEW si \in ServiceInfo,
             OnCreated(si) \/ OnUpdated(si) \/ OnDeleted(si)
      PROVE  SecureConnectOnlyToKnownHosts'
  BY <1>1 DEF OnCreated, OnUpdated, OnDeleted, SecureConnectOnlyToKnownHosts
<1>2. CASE AttemptAutoConnect
  <2>1. CASE ShouldConnect(ev.info)
    <3> DEFINE t == fq_name(ev.info)
    <3>1. ev \in Event
      BY <1>2 DEF AttemptAutoConnect, TypeOK
    <3>2. t \in Key /\ t = <<ev.info.instance, ev.info.service>>
      BY <3>1 DEF Event, fq_name, Key, ServiceInfo
    <3>3. t[2] = SecureService => t[1] \in knownHosts
      BY <2>1, <3>2 DEF ShouldConnect
    <3>4. threads' = [threads EXCEPT ![t] = @ + 1] /\ knownHosts' = knownHosts
      BY <1>2, <2>1 DEF AttemptAutoConnect, Spawn
    <3>5. QED
      BY <3>2, <3>3, <3>4 DEF SecureConnectOnlyToKnownHosts, TypeOK
  <2>2. CASE ~ShouldConnect(ev.info)
    BY <1>2, <2>2 DEF AttemptAutoConnect, SecureConnectOnlyToKnownHosts
  <2>3. QED
    BY <2>1, <2>2
<1>3. CASE UpdateTrackers
  BY <1>3 DEF UpdateTrackers, SecureConnectOnlyToKnownHosts
<1>4. ASSUME NEW i \in Instances, SecureConnectFind(i)
      PROVE  SecureConnectOnlyToKnownHosts'
  BY <1>4 DEF SecureConnectFind, SecureConnectOnlyToKnownHosts
<1>5. CASE ConnectAdbSecureDevice
  <2>1. CASE opInstance \in knownHosts
    <3> DEFINE t == <<opInstance, SecureService>>
    <3>1. threads' = [threads EXCEPT ![t] = @ + 1] /\ knownHosts' = knownHosts
      BY <1>5, <2>1 DEF ConnectAdbSecureDevice, Spawn
    <3>2. t \in Key
      BY <2>1, TransportAssumption DEF TypeOK, Key
    <3>3. QED
      BY <2>1, <3>1, <3>2 DEF SecureConnectOnlyToKnownHosts, TypeOK
  <2>2. CASE opInstance \notin knownHosts
    BY <1>5, <2>2 DEF ConnectAdbSecureDevice, SecureConnectOnlyToKnownHosts
  <2>3. QED
    BY <2>1, <2>2
<1>6. ASSUME NEW h \in Instances, AddKnownHost(h)
      PROVE  SecureConnectOnlyToKnownHosts'
  BY <1>6 DEF AddKnownHost, SecureConnectOnlyToKnownHosts
<1>7. ASSUME NEW k \in Key, ConnectThreadExit(k)
      PROVE  SecureConnectOnlyToKnownHosts'
  BY <1>7 DEF ConnectThreadExit, SecureConnectOnlyToKnownHosts, TypeOK
<1>8. CASE UNCHANGED vars
  BY <1>8 DEF vars, SecureConnectOnlyToKnownHosts
<1>9. QED
  BY <1>1, <1>2, <1>3, <1>4, <1>5, <1>6, <1>7, <1>8 DEF Next

\* No connect thread to the TLS service ever runs for an instance that is
\* not in the known-hosts file, for any set of instances, services and
\* auto-connect policy.
THEOREM SecureConnectSafety == Spec => []SecureConnectOnlyToKnownHosts
BY InitIInv, NextIInv, PTL DEF Spec, IInv

-----------------------------------------------------------------------------
(***************************************************************************)
(* The flag OnServiceReceiverResult keeps for an Updated event.            *)
(***************************************************************************)
UpdatedStep ==
    ev = None /\ ev' # None /\ ev'.state = "Updated"
        => (updated' <=> services' # services)

LEMMA NextUpdatedStep == TypeOK /\ [Next]_vars => UpdatedStep
<1> SUFFICES ASSUME TypeOK, [Next]_vars,
                    ev = None, ev' # None, ev'.state = "Updated"
             PROVE  updated' <=> services' # services
  BY DEF UpdatedStep
<1>1. ASSUME NEW si \in ServiceInfo, OnUpdated(si)
      PROVE  updated' <=> services' # services
  BY <1>1, UpdateResultIffChanged, RegistryAssumption DEF OnUpdated, ServiceUpdated, TypeOK
<1>2. ASSUME NEW si \in ServiceInfo, OnCreated(si) \/ OnDeleted(si)
      PROVE  FALSE
  BY <1>2 DEF OnCreated, OnDeleted
<1>3. CASE AttemptAutoConnect
  BY <1>3 DEF AttemptAutoConnect, TypeOK
<1>4. CASE UpdateTrackers
  BY <1>4 DEF UpdateTrackers
<1>5. ASSUME NEW i \in Instances, SecureConnectFind(i) PROVE FALSE
  BY <1>5 DEF SecureConnectFind
<1>6. ASSUME NEW h \in Instances, AddKnownHost(h) PROVE FALSE
  BY <1>6 DEF AddKnownHost
<1>7. ASSUME NEW k \in Key, ConnectThreadExit(k) PROVE FALSE
  BY <1>7 DEF ConnectThreadExit
<1>8. CASE ConnectAdbSecureDevice \/ UNCHANGED vars
  BY <1>8 DEF ConnectAdbSecureDevice, vars
<1>9. QED
  BY <1>1, <1>2, <1>3, <1>4, <1>5, <1>6, <1>7, <1>8 DEF Next

\* Whenever the handler applies an Updated event, the `updated` flag that
\* gates AttemptAutoConnect and update_mdns_trackers is TRUE exactly when
\* ServiceUpdated changed the registry.
THEOREM UpdatedIffChangedHolds == Spec => UpdatedIffChanged
<1>1. []TypeOK /\ [][Next]_vars => [][UpdatedStep]_vars
  BY NextUpdatedStep, PTL
<1>2. QED
  BY TypeCorrect, <1>1, PTL DEF Spec, UpdatedIffChanged, UpdatedStep
=============================================================================
