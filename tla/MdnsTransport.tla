---------------------------- MODULE MdnsTransport ----------------------------
(***************************************************************************)
(* The discovery event path and the auto-connect policy of                 *)
(* src/client/transport_mdns.cpp, composed with the registry of           *)
(* DiscoveredServices and the known-hosts trust store.                    *)
(*                                                                         *)
(* Actors:                                                                 *)
(*  - the discovery thread (the openscreen task runner) that runs         *)
(*    OnServiceReceiverResult for one event at a time; it releases the    *)
(*    registry lock between the registry call, AttemptAutoConnect and     *)
(*    update_mdns_trackers, so these are separate steps;                  *)
(*  - an operator thread running adb_secure_connect_by_service_name       *)
(*    (FindInstance, then ConnectAdbSecureDevice);                        *)
(*  - the pairing code adding hosts to the known-hosts file;              *)
(*  - the detached threads started by RequestConnectToDevice.             *)
(***************************************************************************)
EXTENDS DiscoveredServices, Naturals

CONSTANTS
    SecureService,    \* ADB_SERVICE_TLS, kADBSecureConnectServiceRefIndex
    AutoConnectable,  \* pairs <<service, instance>> adb_DNSServiceShouldAutoConnect accepts
    MaxThreads,       \* bound on live connect threads per key (model bound)
    None              \* no event / no copied ServiceInfo

VARIABLES
    knownHosts,  \* the instances in the known-hosts file
    evPc,        \* where the discovery thread is in OnServiceReceiverResult
    ev,          \* the event being handled, or None
    updated,     \* the local `updated` of OnServiceReceiverResult
    opPc,        \* where the operator thread is in adb_secure_connect_by_service_name
    opInstance,  \* instance of the ServiceInfo copy it holds, or None
    threads      \* live RequestConnectToDevice threads, per target key

vars == <<services, knownHosts, evPc, ev, updated, opPc, opInstance, threads>>

ServiceInfoState == {"Created", "Updated", "Deleted"}

Event == [state : ServiceInfoState, info : ServiceInfo]

ASSUME TransportAssumption ==
    /\ SecureService \in Services
    /\ AutoConnectable \subseteq Services \X Instances
    /\ MaxThreads \in Nat \ {0}
    /\ None \notin Instances \cup Event

TypeOK ==
    /\ services \in [Key -> Record \cup {Absent}]
    /\ knownHosts \subseteq Instances
    /\ evPc \in {"idle", "autoconnect", "trackers"}
    /\ ev \in Event \cup {None}
    /\ (ev = None) <=> (evPc = "idle")
    /\ updated \in BOOLEAN
    /\ opPc \in {"idle", "found"}
    /\ opInstance \in Instances \cup {None}
    /\ threads \in [Key -> 0..MaxThreads]

Init ==
    /\ RegistryInit
    /\ knownHosts \in SUBSET Instances     \* whatever the file holds at startup
    /\ evPc = "idle"
    /\ ev = None
    /\ updated = TRUE
    /\ opPc = "idle"
    /\ opInstance = None
    /\ threads = [k \in Key |-> 0]

-----------------------------------------------------------------------------
(***************************************************************************)
(* RequestConnectToDevice: a detached thread per request.                  *)
(***************************************************************************)
CanSpawn(k) == threads[k] < MaxThreads

Spawn(k) == threads' = [threads EXCEPT ![k] = @ + 1]

\* The thread runs connect_device("<instance>.<service>") and only logs the
\* response; it leaves nothing behind in the state modelled here.
ConnectThreadExit(k) ==
    /\ threads[k] > 0
    /\ threads' = [threads EXCEPT ![k] = @ - 1]
    /\ UNCHANGED <<services, knownHosts, evPc, ev, updated, opPc, opInstance>>

-----------------------------------------------------------------------------
(***************************************************************************)
(* OnServiceReceiverResult(info, state), first step: the registry call    *)
(* chosen by the switch.  Created and Updated-with-change go on to        *)
(* AttemptAutoConnect; all cases then reach `if (updated)`.               *)
(***************************************************************************)
OnCreated(si) ==
    /\ evPc = "idle"
    /\ ServiceCreated(si)
    /\ updated' = TRUE
    /\ ev' = [state |-> "Created", info |-> si]
    /\ evPc' = "autoconnect"
    /\ UNCHANGED <<knownHosts, opPc, opInstance, threads>>

OnUpdated(si) ==
    /\ evPc = "idle"
    /\ ServiceUpdated(si)
    /\ updated' = UpdateResult(si)
    /\ ev' = [state |-> "Updated", info |-> si]
    /\ evPc' = IF UpdateResult(si) THEN "autoconnect" ELSE "trackers"
    /\ UNCHANGED <<knownHosts, opPc, opInstance, threads>>

OnDeleted(si) ==
    /\ evPc = "idle"
    /\ ServiceDeleted(si)
    /\ updated' = TRUE
    /\ ev' = [state |-> "Deleted", info |-> si]
    /\ evPc' = "trackers"
    /\ UNCHANGED <<knownHosts, opPc, opInstance, threads>>

(***************************************************************************)
(* AttemptAutoConnect(info): evaluated on the event's ServiceInfo, not on  *)
(* the merged registry entry.  adb_DNSServiceIndexByName always finds the *)
(* service, which comes from a watcher of kADBDNSServices.                *)
(***************************************************************************)

\* Mutant: the keystore check for the secure-connect service is dropped.
ShouldConnect_NoKeystore(si) ==
    /\ <<si.service, si.instance>> \in AutoConnectable
    /\ si.v4_address # NoV4

ShouldConnect(si) ==
    /\ <<si.service, si.instance>> \in AutoConnectable
    /\ si.v4_address # NoV4
    /\ si.service = SecureService => si.instance \in knownHosts

AttemptAutoConnect ==
    /\ evPc = "autoconnect"
    /\ IF ShouldConnect(ev.info)
         THEN CanSpawn(fq_name(ev.info)) /\ Spawn(fq_name(ev.info))
         ELSE UNCHANGED threads
    /\ evPc' = "trackers"
    /\ UNCHANGED <<services, knownHosts, ev, updated, opPc, opInstance>>

\* Mutant: the handler returns without dropping the finished event.
UpdateTrackers_KeepsEvent ==
    /\ evPc = "trackers"
    /\ evPc' = "idle"
    /\ UNCHANGED <<services, knownHosts, ev, updated, opPc, opInstance, threads>>

\* `if (updated) update_mdns_trackers();` then return: the trackers live
\* outside this code, so the step only ends the handler.
UpdateTrackers ==
    /\ evPc = "trackers"
    /\ evPc' = "idle"
    /\ ev' = None
    /\ UNCHANGED <<services, knownHosts, updated, opPc, opInstance, threads>>

-----------------------------------------------------------------------------
(***************************************************************************)
(* adb_secure_connect_by_service_name(instance_name): FindInstance under  *)
(* the lock returns a copy; ConnectAdbSecureDevice then consults the      *)
(* keystore and spawns the connect thread.  A miss returns false at once  *)
(* and changes nothing.                                                    *)
(***************************************************************************)
SecureConnectFind(i) ==
    /\ opPc = "idle"
    /\ FindInstance(SecureService, i) # Absent
    /\ opPc' = "found"
    /\ opInstance' = i
    /\ UNCHANGED <<services, knownHosts, evPc, ev, updated, threads>>

ConnectAdbSecureDevice ==
    /\ opPc = "found"
    /\ IF opInstance \in knownHosts
         THEN CanSpawn(<<opInstance, SecureService>>)
              /\ Spawn(<<opInstance, SecureService>>)
         ELSE UNCHANGED threads
    /\ opPc' = "idle"
    /\ opInstance' = None
    /\ UNCHANGED <<services, knownHosts, evPc, ev, updated>>

\* KnownWifiHostsFile::AddKnownHost, called once pairing succeeded.
AddKnownHost(h) ==
    /\ knownHosts' = knownHosts \cup {h}
    /\ UNCHANGED <<services, evPc, ev, updated, opPc, opInstance, threads>>

-----------------------------------------------------------------------------
Next ==
    \/ \E si \in ServiceInfo : OnCreated(si) \/ OnUpdated(si) \/ OnDeleted(si)
    \/ AttemptAutoConnect
    \/ UpdateTrackers
    \/ \E i \in Instances : SecureConnectFind(i)
    \/ ConnectAdbSecureDevice
    \/ \E h \in Instances : AddKnownHost(h)
    \/ \E k \in Key : ConnectThreadExit(k)

Spec == Init /\ [][Next]_vars

-----------------------------------------------------------------------------
(***************************************************************************)
(* Properties.                                                             *)
(***************************************************************************)

\* A connect thread to the secure-connect (TLS) service is only ever running
\* for an instance in the known-hosts file: both AttemptAutoConnect and
\* ConnectAdbSecureDevice check the keystore before RequestConnectToDevice,
\* even though the registry, the keystore and the operator's copy change
\* between the lookup and the spawn.
SecureConnectOnlyToKnownHosts ==
    \A k \in Key : threads[k] > 0 /\ k[2] = SecureService => k[1] \in knownHosts

\* The boolean ServiceUpdated returns, which decides whether the update is
\* auto-connected and the trackers told, is TRUE exactly when the call
\* changed the registry (inserted the key or altered a stored field).
UpdatedIffChanged ==
    [][ev = None /\ ev' # None /\ ev'.state = "Updated"
        => (updated' <=> services' # services)]_vars
=============================================================================
