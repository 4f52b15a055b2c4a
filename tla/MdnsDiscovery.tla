---------------------------- MODULE MdnsDiscovery ----------------------------
(***************************************************************************)
(* The openscreen backend composed with the event path: the watchers that *)
(* StartOpenScreenDiscovery started deliver endpoints through             *)
(* OnOpenScreenServiceReceiverResult (src/client/openscreen/              *)
(* mdns_service.cpp), which converts each endpoint to a ServiceInfo and   *)
(* calls OnServiceReceiverResult of MdnsTransport.                         *)
(*                                                                         *)
(* Watcher callbacks and the startup task run on the same task runner, so *)
(* an event is handled only when no startup task is pending or running,  *)
(* and only for a service whose watcher is running.                       *)
(***************************************************************************)
EXTENDS MdnsTransport, OpenScreenDiscovery, SequencesExt

CONSTANTS
    WatchedService,  \* kADBDNSServices: the service type of each watcher index
    MaxAddresses     \* bound on the addresses of one endpoint (model bound)

ASSUME CompositionAssumption ==
    /\ WatchedService \in [ServiceIndex -> Services]
    /\ MaxAddresses \in Nat
    /\ V4Addrs \cap V6Addrs = {}

cvars == <<vars, dvars>>

\* discovery::DnsSdInstanceEndpoint: its addresses are an ordered list.
Endpoint == [instance : Instances, service : Services,
             addresses : SeqOf(V4Addrs \cup V6Addrs, MaxAddresses),
             port : Ports, txt : TxtMaps]

\* ServicesUpdatedState mapped to ServiceInfoState by the switch.
EndpointState == [EndpointCreated |-> "Created", EndpointUpdated |-> "Updated",
                  EndpointDeleted |-> "Deleted"]

(***************************************************************************)
(* OnOpenScreenServiceReceiverResult's conversion: every v4 address is     *)
(* copied into the same optional, so the last one in the list wins; every *)
(* v6 address is inserted into the set.                                    *)
(***************************************************************************)
LastV4Of(addrs) ==
    LET j == SelectLastInSeq(addrs, LAMBDA a : a \in V4Addrs)
    IN  IF j = 0 THEN NoV4 ELSE addrs[j]

ToServiceInfo(e) ==
    [instance |-> e.instance, service |-> e.service,
     v4_address |-> LastV4Of(e.addresses),
     v6_addresses |-> Range(e.addresses) \cap V6Addrs,
     port |-> e.port, attributes |-> e.txt]

\* The task runner is free for a watcher callback.
TaskRunnerIdle == taskPc \notin {"posted", "loop"}

\* OnOpenScreenServiceReceiverResult for an endpoint of a running watcher.
OnOpenScreenServiceReceiverResult(w, e, st) ==
    /\ w \in running
    /\ TaskRunnerIdle
    /\ e.service = WatchedService[w]
    /\ LET si == ToServiceInfo(e) IN
         CASE EndpointState[st] = "Created" -> OnCreated(si)
           [] EndpointState[st] = "Updated" -> OnUpdated(si)
           [] EndpointState[st] = "Deleted" -> OnDeleted(si)
    /\ UNCHANGED dvars

CInit == Init /\ DInit

CNext ==
    \/ DNext /\ UNCHANGED vars
    \/ \E w \in ServiceIndex, e \in Endpoint, st \in DOMAIN EndpointState :
         OnOpenScreenServiceReceiverResult(w, e, st)
    \/ /\ \/ AttemptAutoConnect
          \/ UpdateTrackers
          \/ \E inst \in Instances : SecureConnectFind(inst)
          \/ ConnectAdbSecureDevice
          \/ \E h \in Instances : AddKnownHost(h)
          \/ \E k \in Key : ConnectThreadExit(k)
       /\ UNCHANGED dvars

CSpec == CInit /\ [][CNext]_cvars /\ DFairness

-----------------------------------------------------------------------------
(***************************************************************************)
(* Properties.                                                             *)
(***************************************************************************)

\* Once the startup loop has seen a fatal error and stopped every watcher,
\* discovery is silent: no later step changes the registry, whatever events
\* the network still produces and whichever watchers had already delivered.
StoppedDiscoveryIsSilent ==
    [][taskPc = "stopped" => services' = services]_cvars
=============================================================================
