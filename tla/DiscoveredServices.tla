------------------------- MODULE DiscoveredServices -------------------------
(***************************************************************************)
(* The registry of discovered mDNS services, mdns::DiscoveredServices in   *)
(* src/client/discovered_services.{h,cpp}.  It maps the fully qualified   *)
(* name "<instance>.<service>" of a ServiceInfo to the stored ServiceInfo. *)
(* Every public method holds services_mutex_ for its whole body, so each  *)
(* one is a single atomic step here.                                       *)
(*                                                                         *)
(* Data is abstracted: addresses, ports and TXT attribute maps are model  *)
(* values compared only for equality, as the code compares them           *)
(* (memcmp on the address bytes, == on uint16_t and on the                *)
(* unordered_map).  The key is the pair <<instance, service>>: for the    *)
(* three fixed service types the string "<instance>.<service>" is         *)
(* injective in the pair (no service type is a dot-suffix of another).    *)
(***************************************************************************)
CONSTANTS
    Instances,   \* instance ids announced by devices
    Services,    \* service types, one per ServiceWatcher (kADBDNSServices)
    V4Addrs,     \* IPv4Address values
    V6Addrs,     \* IPv6Address values
    Ports,       \* uint16_t port values
    TxtMaps,     \* parsed attribute maps (std::unordered_map<string,string>)
    NoV4,        \* std::nullopt for v4_address
    Absent       \* no entry in services_ for a key

VARIABLE services   \* services_ : fq_name -> ServiceInfo

IPv4Option == V4Addrs \cup {NoV4}

\* struct ServiceInfo, as delivered by the discovery backend.
ServiceInfo == [instance : Instances, service : Services,
                v4_address : IPv4Option, v6_addresses : SUBSET V6Addrs,
                port : Ports, attributes : TxtMaps]

\* The part of a stored ServiceInfo that is not already its key.
Record == [v4_address : IPv4Option, v6_addresses : SUBSET V6Addrs,
           port : Ports, attributes : TxtMaps]

Key == Instances \X Services

ASSUME RegistryAssumption ==
    /\ NoV4 \notin V4Addrs
    /\ Absent \notin Record

\* fq_name(si): the registry key of a ServiceInfo.
fq_name(si) == <<si.instance, si.service>>

\* The stored copy of a ServiceInfo.
AsRecord(si) == [v4_address |-> si.v4_address, v6_addresses |-> si.v6_addresses,
                 port |-> si.port, attributes |-> si.attributes]

-----------------------------------------------------------------------------
(***************************************************************************)
(* The merge performed by ServiceUpdated on an existing entry.             *)
(***************************************************************************)

\* A present v4 address that differs from the stored one replaces it.
V4Replaced(cur, si) == si.v4_address # NoV4 /\ si.v4_address # cur.v4_address

\* The v6 addresses of the update that the stored set does not contain yet.
NewV6(cur, si) == si.v6_addresses \ cur.v6_addresses

\* Mutant: v4_address is copied from the update even when it is nullopt.
MergedRecord_OverwritesV4(cur, si) ==
    [v4_address |-> si.v4_address,
     v6_addresses |-> cur.v6_addresses \cup NewV6(cur, si),
     port |-> si.port, attributes |-> si.attributes]

\* The stored entry after the merge: v4 replaced when present and different,
\* every new v6 address inserted, port and attributes replaced.
MergedRecord(cur, si) ==
    [v4_address |-> IF V4Replaced(cur, si) THEN si.v4_address ELSE cur.v4_address,
     v6_addresses |-> cur.v6_addresses \cup NewV6(cur, si),
     port |-> si.port, attributes |-> si.attributes]

\* Mutant: the loop over v6_addresses inserts without setting updated.
MergeChanged_IgnoresV6(cur, si) ==
    \/ V4Replaced(cur, si)
    \/ si.port # cur.port
    \/ si.attributes # cur.attributes

\* The value of `updated` at the end of ServiceUpdated on an existing entry.
MergeChanged(cur, si) ==
    \/ V4Replaced(cur, si)
    \/ NewV6(cur, si) # {}
    \/ si.port # cur.port
    \/ si.attributes # cur.attributes

-----------------------------------------------------------------------------
(***************************************************************************)
(* The registry after each mutating method, and what it returns.           *)
(***************************************************************************)

\* ServiceCreated: services_[fq_name] = service_info (insert or overwrite).
CreatedServices(si) == [services EXCEPT ![fq_name(si)] = AsRecord(si)]

\* ServiceUpdated: insert when absent, merge in place otherwise.
UpdatedServices(si) ==
    [services EXCEPT ![fq_name(si)] =
        IF @ = Absent THEN AsRecord(si) ELSE MergedRecord(@, si)]

\* The boolean ServiceUpdated returns.
UpdateResult(si) ==
    \/ services[fq_name(si)] = Absent
    \/ MergeChanged(services[fq_name(si)], si)

\* ServiceDeleted: erase the key, whatever the other fields hold.
DeletedServices(si) == [services EXCEPT ![fq_name(si)] = Absent]

\* FindInstance(service, instance): a copy of the entry, or Absent.
FindInstance(service, instance) == services[<<instance, service>>]

\* ForEachServiceNamed(service, cb) visits, under the lock, these keys.
ServicesNamed(service) == {k \in Key : k[2] = service /\ services[k] # Absent}

-----------------------------------------------------------------------------
(***************************************************************************)
(* The mutating methods as actions; each runs under services_mutex_.      *)
(***************************************************************************)
RegistryInit == services = [k \in Key |-> Absent]

ServiceCreated(si) == services' = CreatedServices(si)

ServiceUpdated(si) == services' = UpdatedServices(si)

ServiceDeleted(si) == services' = DeletedServices(si)

=============================================================================
