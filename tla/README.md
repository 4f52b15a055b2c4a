# Formal model of adb's mDNS discovery registry and auto-connect

This directory holds TLA+ models of adb's mDNS discovery and secure-connect
core (`src/client/`): the registry, the event path, the openscreen backend that
feeds it. It also models the daemon's listener threads and listen-address
selection (`src/daemon/`). It holds the TLC configurations that check them
and TLAPS proofs.

## 1. Inventory

### Components and their state

| Component | Source | State | Operations |
|---|---|---|---|
| DiscoveryRegistry | `client/discovered_services.{h,cpp}` | `services_`: an unordered_map from `"<instance>.<service>"` to `ServiceInfo`, guarded by `services_mutex_` | `ServiceCreated` (insert or overwrite), `ServiceUpdated` (insert, or merge field by field and return whether something changed), `ServiceDeleted`, `FindInstance`, `ForEachServiceNamed`, `ForAllServices` |
| Event path and AutoConnectPolicy | `client/transport_mdns.cpp` | none of its own. It uses the registry, the keystore and detached connect threads. | `OnServiceReceiverResult`, `AttemptAutoConnect`, `RequestConnectToDevice`, `ConnectAdbSecureDevice`, `adb_secure_connect_by_service_name`, `mdns_check`, `mdns_list_discovered_services`, `mdns_get_connect_service_info`, `mdns_get_pairing_service_info`, `init_mdns_transport_discovery` |
| TrustStore | `client/adb_wifi.h` (header only) | the known-hosts file. Nothing is cached. | `IsKnownHost`, `AddKnownHost`, `Clear` (tests only) |
| DiscoveryBackendAdapter | `client/openscreen/mdns_service.cpp` | `g_state`: config, DnsSdService, reporting client with the atomic `got_fatal_`, task runner, watchers | `StartOpenScreenDiscovery` (posts the startup task), `OnOpenScreenServiceReceiverResult` (converts an endpoint to a `ServiceInfo` and a state), `OnFatalError`, `IsOpenScreenStarted` |
| InstanceNameParser, AttributeParser | declared in `discovered_services.h`. Tests are in `mdns_utils_test.cpp`. | none (pure) | `mdns_parse_instance_name`, `ParseTxtKeyValue`, `ParseTxt` |
| Daemon listener | `daemon/transport_socket_server.cpp` | the server fd and a detached thread | `server_socket_thread` (bind retry loop, accept loop), `adb_vsock_accept` (local-CID rejection) |
| Listen addresses | `daemon/listen_addrs.cpp` | none (pure function of properties and a flag) | `get_listen_addrs`, `get_tcp_port` |

These are out of scope: the socket-spec parser and `ProtoBinaryToText`, of
which only tests are present; `daemon/mdns.h`, which has only declarations;
and the legacy conversion in `mdns_service_info.cpp`, which is stateless.

### How the components interact

The openscreen backend runs on one task runner. Each watcher callback
converts the endpoint and calls `OnServiceReceiverResult(info, state)`.
That function makes the registry call under the registry lock. It releases
the lock and then, for Created, and for Updated when `ServiceUpdated` returned
true, calls `AttemptAutoConnect(info)`. `AttemptAutoConnect` checks the policy
oracle, the v4 address *of the event*, and, for the TLS service, the keystore,
and then starts a detached thread that calls `connect_device`. Finally
`OnServiceReceiverResult` calls `update_mdns_trackers` when `updated` is set.

Other threads use the same registry and keystore:

* Operator commands call `adb_secure_connect_by_service_name`. It does
  `FindInstance` under the lock, then `IsKnownHost`, then spawns the connect
  thread.
* Pairing adds hosts to the keystore.
* `mdns services` iterates the registry under the lock.

### What is hard

* Several threads run at once: the discovery thread, operator threads,
  pairing and the detached connect threads. The registry lock is released
  between the steps of one event.
* Some state is stale when it is used. The operator's copy of an entry can be
  out of date when the connect starts.
* The merge is asymmetric over sequences of events. `Created` overwrites. An
  update replaces v4 only when the event carries one. v6 addresses are
  unioned. Port and attributes are replaced.
* The boolean `ServiceUpdated` returns gates both auto-connect and tracker
  updates.
* The backend reports fatal errors asynchronously. Startup checks the sticky
  flag only between watcher starts.
* The daemon retries `bind` every second, spins on failed accepts, and rejects
  local vsock peers.

### What makes each component correct

* Registry: after any sequence of events since the last Created or Deleted,
  the entry is the merge of those events. `ServiceUpdated` returns true
  exactly when it changed the map.
* Policy: a TLS connect is started only for a known host. Auto-connect
  judges the event's own record and stops when it has no v4 address, as
  spec sections 3 and 4.4 document, so no property asks it to judge the
  merged entry.
* Backend: after a fatal error, no watcher keeps delivering events.
* Daemon: no local vsock peer becomes a transport. The listener eventually
  accepts once bind can succeed.

`PROJECT.json` lists the hazards, each with its source line.

## 2. Modules

| Module | Models | Status |
|---|---|---|
| `DiscoveredServices` | the registry: `services`, the merge helpers, one action per mutating method | done |
| `MdnsTransport` | the registry composed with the event path, the policy, the keystore, operator connects and connect threads | done |
| `MdnsTransportHistory` | `MdnsTransport` plus a history variable, to check the merge against a declarative reference | done |
| `OpenScreenDiscovery` | `init_mdns_transport_discovery`, `StartOpenScreenDiscovery`'s posted task, `OnFatalError`, `IsOpenScreenStarted`, `mdns_check` | done |
| `MdnsDiscovery` | `OpenScreenDiscovery` composed with `MdnsTransport` through `OnOpenScreenServiceReceiverResult` | done |
| `SocketServer` | `server_socket_thread`, `adb_vsock_accept`, `init_transport_socket_server` | done |
| `ListenerSpec` | the abstract listener that `SocketServer` implements (mapping `Listener`) | done |
| `ListenAddrs` | `get_tcp_port`, `push_tcp_addrs`, `push_listen_addrs`, `get_listen_addrs`, and the contract of `listen_addrs.h` | done |
| `MdnsTransportProofs`, `MdnsTransportHistoryProofs`, `DiscoveryProofs`, `ComposedDiscoveryProofs`, `SocketServerProofs`, `ListenAddrsProofs` | TLAPS theorems | done |

Still open:

* The name and TXT parsers (spec-modelled, because their code is not under
  `src/`), and the `mdns_get_*_service_info` lookups that use them.
* An abstract registry whose state is the per-key event history, refined by
  `DiscoveredServices`.

## 3. Modules and how they correspond to the code

### `DiscoveredServices`

* `services : Key -> Record \cup {Absent}` is `services_`. The key is the
  pair `<<instance, service>>`. The string `"<instance>.<service>"` is
  injective in the pair for the three fixed service types.
* `ServiceInfo`, `Record` and `IPv4Option` are the struct fields. Addresses,
  ports and TXT maps are model values, compared only for equality, as the code
  compares them.
* `V4Replaced`, `NewV6`, `MergedRecord` and `MergeChanged` are the four `if`
  blocks and the v6 loop of `ServiceUpdated`. `UpdatedServices` and
  `UpdateResult` are the whole method, including the insert-when-absent early
  return.
* `CreatedServices`, `DeletedServices`, `FindInstance` and `ServicesNamed`
  model the other methods. `ServiceCreated`, `ServiceUpdated` and
  `ServiceDeleted` are the atomic actions. Each method holds the mutex for its
  whole body.

### `MdnsTransport`

* `evPc`, `ev` and `updated` are the discovery thread's position in
  `OnServiceReceiverResult`, its arguments, and its local `updated`.
* `OnCreated`, `OnUpdated` and `OnDeleted` are the `switch` cases up to the
  registry call. `AttemptAutoConnect` is the function of that name, with
  `ShouldConnect` as its early returns. `UpdateTrackers` is the trailing
  `if (updated)`.
* `adb_DNSServiceIndexByName` always succeeds for services delivered by
  watchers of `kADBDNSServices`, so its early return is not modelled.
  `adb_DNSServiceShouldAutoConnect` is the constant `AutoConnectable`.
* `opPc` and `opInstance` are the operator thread in
  `adb_secure_connect_by_service_name`. `SecureConnectFind` is the
  `FindInstance` call. A miss returns false and changes nothing.
  `ConnectAdbSecureDevice` is the keystore check and the spawn.
* `knownHosts` is the known-hosts file. `AddKnownHost` is spec-modelled.
* `threads[k]` counts the live `RequestConnectToDevice` threads for key `k`.
  `ConnectThreadExit` is a thread's end. It only logs, so it leaves no state.

### `OpenScreenDiscovery`

* `env` is `ADB_MDNS_OPENSCREEN`: unset, `"0"` or another string, chosen at
  start. `InitTransportDiscovery` is `init_mdns_transport_discovery`. On any
  value but `"0"` it runs `StartOpenScreenDiscovery`'s main-thread part: it
  sets `g_state` (`gState`) and posts the task (`taskPc = "posted"`).
* `StartupConfig` is the task's first part. `GetConfigForAllInterfaces`
  either finds an interface with an address, or returns `nullopt` and the
  task returns (`"aborted"`).
* `StartWatcher` is one whole loop iteration. It constructs and starts the
  watcher and pushes it. If `got_fatal_` is set, it stops every running
  watcher (`StopWatchers`) and breaks (`"stopped"`). `LoopDone` is the `for`
  condition failing. `loopIndex` is the loop's `i`. `LoopCond` and `LoopStep`
  are the loop's condition and increment.
* `OnFatalError` is `DiscoveryReportingClient::OnFatalError`. It can happen
  at any time once the `DnsSdService` exists. A fatal error reported from
  inside `StartDiscovery` is this step just before the iteration's test.
* `IsOpenScreenStarted` is `gState`. `mdns_check` is abstracted to which of
  its two lines it returns.

### `MdnsDiscovery`

* `OnOpenScreenServiceReceiverResult(w, e, st)` delivers an endpoint `e` to
  the running watcher `w` of its service type. `ToServiceInfo` is the
  conversion: every v4 address is written to the same optional, so the last
  one wins (`LastV4Of`), and v6 addresses go into a set. The `switch` maps
  the state. Then `OnCreated`, `OnUpdated` or `OnDeleted` of `MdnsTransport`
  runs.
* Watcher callbacks run on the task runner that also runs the startup task,
  so a callback happens only when that task is not pending or running
  (`TaskRunnerIdle`).

### `SocketServer`

* One listener thread per address of `Addrs`. `pc[a]` is `"bind"`,
  `"accept"` or `"exited"`.
* `bindError[a]` is the environment: the errno `socket_spec_listen` always
  fails with on that address, or `"none"` when the address can be bound.
* `BindFails` is one failing iteration of `while (serverfd == -1)`. On
  `EAFNOSUPPORT`, `EINVAL` or `EPROTONOSUPPORT` (`IsUnrecoverable`) the
  thread returns. Otherwise it sleeps and retries. Transient `EADDRINUSE`
  failures are bounded by `MaxBindFailures`. `BindSucceeds` ends the loop.
* `Connect` is a peer arriving, bounded by `MaxConnections` per address.
  `AcceptConnection` is one accept iteration. On a `vsock:` address with
  `should_check_vsock_cid()` (`CheckVsockCid`), `adb_vsock_accept` keeps the
  fd only if `getsockname` and the families are fine (`addrOk`) and
  `is_local_vsock_connection` is false. A kept fd is registered as a transport
  (`transports`).
* A vsock connection is described by two CIDs. The server's is
  `VMADDR_CID_LOCAL` (`"local"`) or the machine's own (`"self"`). The
  client's is either of those, or another VM's (`"peer"`).

The abstract `ListenerSpec` says what a listener promises, with no threads,
retries or backlogs:

* Each address is `starting`, then settles (`Settle`): `listening` if it can
  be bound, `failed` if not. This step is weakly fair.
* A listening address serves (`Serve`) only peers the vsock policy allows.

The mapping `Listener` in `SocketServer` maps the thread in its bind loop to
`starting`, in its accept loop to `listening`, and returned to `failed`. An
address is supported when `bindError` is `"none"`. The backlog, the arrivals
and the failure counts are hidden.

### `ListenAddrs`

* `Inputs` are one call's inputs: the build (`android`, and whether its
  `sscanf` truncates), the flag, `enable_fallback`, the three port sources,
  and `service.adb.listen_addrs`. `CallGetListenAddrs` is the call.
* Port strings are sequences of one-letter strings. `ScanPort` is
  `sscanf("%d")` followed by the range test, modelled by what it does. It
  skips leading blanks, takes an optional sign and the longest run of digits,
  and computes the value modulo 2^32 as two 16-bit halves, because TLC's
  integers are 32-bit.
* A value outside `int` is undefined behaviour. bionic and LP64 glibc
  convert through a 64-bit integer and truncate (`wrap`). glibc with a 32-bit
  `long` saturates. Android builds always truncate.
* `service.adb.listen_addrs` is the list of its `Split` segments. Empty
  segments are kept, as `Split` keeps them.
* `HeaderListenAddrs` is the contract of `listen_addrs.h` lines 22 to 48,
  written from the comment.

## 4. Runs

| Run | Checks | Shows |
|---|---|---|
| `transport_safety` (`MC_MdnsTransport.cfg`) | `TypeOK`, `SecureConnectOnlyToKnownHosts`, `UpdatedIffChanged` | With every interleaving of events, operator connects, pairing and thread exits, a TLS connect runs only for a known host, and `ServiceUpdated`'s boolean is exactly "the registry changed". 71,640 distinct states. |
| `registry_history` (`MC_MdnsTransportHistory.cfg`) | `RegistryReflectsHistory` | Every entry equals the declarative merge of the events since its last Created or Deleted: the union of v6 addresses, the last present v4, the last port and attributes. 142,818 distinct states. |
| `discovery_startup` (`MC_MdnsDiscovery.cfg`) | `DTypeOK`, `StartupOutcome`, `StoppedDiscoveryIsSilent`, `StartupTerminates` | The startup task always ends, under weak fairness of the task runner, whatever fatal errors arrive. A task that ended with no config has no watcher, and a completed loop has every service type's watcher running. After the fatal stop, no endpoint changes the registry, whichever watchers had started. 173,472 distinct states. |
| `fatal_after_startup` (`MC_OpenScreenDiscovery_Fatal.cfg`, violation) | `FatalStopsDiscovery` | TLC finds this sequence: the loop starts all three watchers and completes, then `OnFatalError` sets `got_fatal_`. Nothing tests the flag again, so every watcher keeps running. The spec says already-started watchers are stopped on a fatal error. This is a finding in `PROJECT.json`. |
| `socket_server` (`MC_SocketServer.cfg`) | `NoLocalVsockTransport` | With a TCP and a vsock address, every persistent bind errno, transient failures, and peers of every CID pair: no local vsock peer becomes a transport. 59,508 distinct states. |
| `listener_refinement` (`MC_SocketServer_Refinement.cfg`) | `ListenerRefinement` | The threads implement `ListenerSpec`, fairness included, under the mapping `Listener`. If a thread gave up on any failed listen, it would fail an address that can be bound, and TLC reports that refinement failing. 59,508 distinct states. |
| `listen_addrs_contract` (`MC_ListenAddrs.cfg`) | `MatchesHeaderContract` | For every combination of inputs whose port properties are empty or decimal ports, `get_listen_addrs` returns what the header documents: the source priority, the tcp/vsock pair, listen_addrs alone or both with TCP first, and the fallback. 96,000 distinct states. |
| `listen_addrs_overflow` (`MC_ListenAddrs_Overflow.cfg`, violation) | `PortIsPropertyValue` | With `ADBD_PORT=4294972851` (2^32 + 5555) on a host build that truncates, `get_tcp_port` returns 5555 and adbd listens on `tcp:5555` and `vsock:5555`. This is a finding in `PROJECT.json`. |

Bounds:

* One instance on the TLS and the plain adb service. Two keys are enough to
  separate the keystore-gated service from the ungated one. A second instance
  multiplies the state space about 100 times and exercises nothing new: all
  registry writes come from the single discovery thread.
* Two v4 addresses and two v6 addresses, so that "replace when different" and
  "union with a new address" both happen and are both skipped.
* Two ports. One TXT map in the transport run. The history run uses two TXT
  maps and histories of up to three events, enough for v4-then-none-then-v4
  patterns.
* `MaxThreads = 2` (transport run), so that duplicate connect threads to one
  device occur.

More bounds:

* `discovery_startup`: two watched service types (`NumServices = 2`), so
  that a fatal error can fall before, between and after watcher starts.
  Endpoints carry up to two addresses from two v4 and one v6, so "last v4
  wins" happens.
* `fatal_after_startup`: three service types.
* `socket_server`: two transient bind failures and two connections per
  address. That is enough for a retry followed by success, and for a
  rejected peer followed by an accepted one.
* `listen_addrs`: ten port strings. They cover empty, two valid ports, `0`
  and `65536` (the range edges), a blank and a sign, a numeric prefix
  (`80x`), no digits, and 2^32 + 5555 and its negation (overflow).

Symmetry is declared over the address, port and TXT model values of the
transport runs. No property there names a particular value, and no liveness
property is checked in them, so the symmetry is sound. The runs with liveness
properties declare none.

Fairness:

* The task runner (`AdbOspTaskRunner`) runs every posted task to its end.
  `StartupConfig`, `StartWatcher` and `LoopDone` are weakly fair.
* Each listener thread is a detached thread that loops on its own.
  `BindSucceeds`, `BindFails` and each address's `AcceptConnection` are
  weakly fair.
* The main thread, the network, peers and fatal errors get no fairness. They
  may never happen.

Deadlock checking is off in three places, each because the real system stops
there:

* `socket_server`: each thread ends blocked in `accept` with no peer, or
  returned.
* `listen_addrs`: `get_listen_addrs` returns once.
* `fatal_after_startup`: the backend alone ends when its task has ended.

## 5. Proofs

### `MdnsTransportProofs`

The proofs use the assumptions `RegistryAssumption` (`NoV4` is not an address,
`Absent` is not a record) and `TransportAssumption` (the TLS service is a
service, `MaxThreads` is a positive natural, `None` is neither an instance nor
an event).

* `TypeCorrect`: `Spec => []TypeOK`. `TypeOK` includes "the handler holds an
  event exactly when it is not idle". `AttemptAutoConnect` needs this to read
  `ev.info`. The lemma `MergedRecordType` gives the type of the merge.
* `SecureConnectSafety`: `Spec => []SecureConnectOnlyToKnownHosts`. The
  invariant is not inductive alone, because it needs the types of
  `ev`, `threads` and `opInstance`. `IInv == TypeOK /\
  SecureConnectOnlyToKnownHosts` is inductive. The keystore only grows, and
  both spawning actions check it in the same step as the spawn.
* `UpdatedIffChangedHolds`: `Spec => UpdatedIffChanged`. It rests on the
  lemmas `MergeChangedIffDiffers` (the four field tests are true exactly when
  the merged record differs) and `UpdateResultIffChanged` (lifted to the map,
  including the insert case), and on `TypeOK`, which rules out every other
  action producing an Updated event.

### `SocketServerProofs`

These proofs use `SocketServerAssumption`: the vsock addresses are listen
addresses, the check is a Boolean, and the bounds are naturals.

* `ListenerTypeCorrect`: `SSpec => []STypeOK`.
* `NoLocalVsockTransportHolds`: `SSpec => []NoLocalVsockTransport`. The
  invariant alone is not inductive: the step that registers a transport
  needs the accepted connection to be in `Conn`, which `STypeOK` gives for the
  backlog. `SInv == STypeOK /\ NoLocalVsockTransport` is inductive.
* The lemma `VsockAcceptsRemoteOnly` carries the argument. The server CID is
  local or self, and `is_local_vsock_connection` rules out a local server, a
  local client and equal CIDs. The only kept pair left is self and peer.
* A transport is never removed, and only `AcceptConnection` adds one, so one
  case per action suffices.
* `ListenerImplementation`: `SSpec => Listener!AInit /\ [][Listener!ANext]_Listener!avars`.
  This is the safety part of the refinement. The lemma `RefinementInit`
  covers the initial states. The lemma `RefinementStep` maps each action,
  under `SInv`:
  * `BindSucceeds` maps to `Settle` to `listening`.
  * An unrecoverable `BindFails` maps to `Settle` to `failed`. The lemma
    `UnrecoverableOnlyUnsupported` shows that the address then has a
    persistent error: transient failures are `EADDRINUSE`, which is retried.
  * A kept connection maps to `Serve`. `VsockAcceptsRemoteOnly` gives
    `Allowed`.
  * Every other step is a stutter.
  The fairness part (`WF` of `Settle`) is liveness, so TLC checks it in
  `listener_refinement`.

### `MdnsTransportHistoryProofs`

This module extends `MdnsTransportHistory` and `MdnsTransportProofs`, and uses
the same assumptions.

* `RegistryReflectsHistoryHolds`: `HSpec => []RegistryReflectsHistory`.
  The history and the registry change in the same step: the step that
  starts handling an event. Every other step keeps both, as lemma
  `QuietStep` states.
* The invariant is not inductive alone. The step needs three more facts:
  `TypeOK` (the handler is idle exactly when it holds no event), that every
  history is a sequence of `ServiceInfo`s, and `HasLastV4`. `HInv` is the
  conjunction of these facts and the invariant.
* `HasLastV4(h)` says: if some event of `h` carried a v4 address, then some
  index holds the last one. This holds for every finite sequence, but
  showing that needs induction over the sequence. The provers cannot
  instantiate the library's induction rules, so the fact is carried in
  `HInv` instead. Each step preserves it because each step appends at most
  one event.
* The lemmas about the reference:
  * `LastV4At`: `LastV4` is the address at the unique last index.
  * `LastV4Append`: appending an event gives its address if it has one, and
    otherwise the previous one. This is exactly `V4Replaced`.
  * `ExpectedEntrySingle`: a one-event history gives `AsRecord`, which is
    what `ServiceCreated` stores and what `ServiceUpdated` inserts.
  * `ExpectedEntryAppend`: appending an event to a non-empty history gives
    `MergedRecord` of the previous entry.
  * `ExpectedEntryType`: a non-empty history gives a `Record`, so it is not
    `Absent`. This picks the branch of `UpdatedServices`.
* `OneKeyStep` closes each of the three registry events: it changes one key
  of both maps.

### `DiscoveryProofs`

These proofs use `DiscoveryAssumption` (`NumServices` is a positive natural).

* `DiscoveryTypeCorrect` and `StartupOutcomeHolds`: `DSpec => []DTypeOK` and
  `DSpec => []StartupOutcome`.
* `StartupOutcome` is not inductive alone. `StartupInv` adds the loop's
  bookkeeping:
  * before the task is posted, and after it aborted, there are no watchers
    and the index is 0;
  * during the loop, and after it completed, the watchers are exactly
    `0 .. loopIndex - 1` and all of them run;
  * a completed loop has `loopIndex = NumServices`;
  * a stopped task has none running.
* The conjunct "no task before `init_mdns_transport_discovery`" is needed.
  `InitTransportDiscovery` posts the task without touching `watchers` or
  `loopIndex`. The posted task then starts with no watchers only because
  none existed before it was posted.
* `ComposedStartupOutcome` and `StoppedDiscoveryIsSilentHolds` are about
  `CSpec`, which composes discovery with `MdnsTransport`. The lemma
  `ComposedStepIsDiscoveryStep` projects each composed step to a discovery
  step or a stutter. The lemma `StoppedStepKeepsServices` checks each composed
  action: with no watcher running (`StartupInv`), none of them delivers an
  event to the registry.

### `ComposedDiscoveryProofs`

This module extends `DiscoveryProofs`, `MdnsTransportProofs` and the library
module `WellFoundedInduction`. It uses `CompositionAssumption` and the
transport's assumptions.

* `ComposedImplementsTransport`: `CSpec => Spec`. The composition of the
  openscreen backend with the event path is a behaviour of
  `MdnsTransport` on its own variables. This is a refinement with the
  identity mapping on the transport's state.
* The lemma `ComposedStepIsTransportStep` covers the steps:
  * a backend step leaves the transport's state unchanged;
  * an endpoint callback is `OnCreated`, `OnUpdated` or `OnDeleted`,
    depending on the endpoint state;
  * the connect machinery's steps are transport steps.
* The callback's converted value must be a `ServiceInfo` (lemma
  `ToServiceInfoType`). The only non-obvious field is the v4 address. It
  comes from `SelectLastInSeq`, which is `Max` of a set of indices, a
  CHOOSE.
* Lemma `MaxIndexExists` shows that a non-empty set of indices in `1..n`
  has a greatest element. It uses the least element of
  `{n - x : x \in T}`, which exists by `WFMin` and
  `NatLessThanWellFounded`. These two library facts take sets, not
  operators, so the provers can use them where an induction rule could not
  be instantiated.
* `ComposedSecureConnectSafety` and `ComposedUpdatedIffChanged` follow from
  this refinement and the transport's theorems: the keystore check and the
  `updated` flag hold whatever endpoints the watchers deliver.
* The composed system is not checked against `RegistryReflectsHistory`. It
  would need the history variable in the composition, and
  `ComposedImplementsTransport` does not carry it.

### `ListenAddrsProofs`

These proofs use one assumption from `ListenAddrs`: `ListenPropsAssumption`,
which says the values of `service.adb.listen_addrs` are lists of bind specs.
It is stated apart from `ListenAddrsAssumption`, the typing of the port
properties and the default port, so the proof cites only it.  Citing the
whole typing made the SMT backend time out while translating the character
set.

* `ContractHolds`: `LSpec => []MatchesHeaderContract`. The inductive
  invariant `ContractInv` adds `input \in Inputs` to the property.
* The proof needs no induction over the digits. Lemma
  `BuildsAgreeOnValidPort`: a value that the saturating build accepts as a
  port is non-negative and below 2^16, so the truncating build stores it
  unchanged.
* Lemma `TcpPortIsSpecifiedPort` follows from that and from
  `EmptyPropertyNoPort`: on well-formed properties, `get_tcp_port` is the
  header's specified port on every build.
* Lemma `CodeMatchesHeader` then compares the two branch structures of
  `GetListenAddrs` and `HeaderListenAddrs`.
* `PortIsPropertyValue` remains a TLC result: the violation run
  `listen_addrs_overflow` shows that it fails.

### What only TLC checks

* The liveness property `StartupTerminates` and the fairness part of
  `ListenerRefinement` (which also says that every listener thread
  settles). Liveness and
  `ENABLED` are beyond TLAPS.
* Properties of recursive definitions over all inputs: induction over data
  needs an operator parameter that the installed provers cannot instantiate.

## 6. Not modelled, and why

* The name and TXT parsers: their code is not under `src/`.
* `connect_device`, `update_mdns_trackers`, `adb_DNSServiceShouldAutoConnect`,
  `register_socket_transport`, `socket_spec_listen` and the openscreen
  library are outside `src/`. They appear only as what the code does with
  their results. The library delivers endpoints of a running watcher's
  service type; `socket_spec_listen` fails with an errno or returns an fd.
* The keystore's on-disk read-modify-write is not modelled. Its
  implementation is not in this repository, so the keystore is a set with an
  atomic insert.
* Log formatting (`v4_address_string`, `IPv6Address::to_string`, the
  `mdns services` lines, the `StringPrintf` of bind specs) affects no
  property. A bind spec is a record of its kind and port.
* `mdns_list_discovered_services` and the `mdns_get_*_service_info` lookups
  only read the registry.
* The legacy conversion in `mdns_service_info.cpp` is not on the live path.
* A failed `adb_socket_accept` on a TCP listener only loops, which is a
  stutter step.
* `sscanf` overflow of values beyond 2^63, where LP64 glibc saturates, is
  not modelled: the strings have at most ten digits.
