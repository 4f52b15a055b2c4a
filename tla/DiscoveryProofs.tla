--------------------------- MODULE DiscoveryProofs ---------------------------
(***************************************************************************)
(* Proofs about the openscreen discovery backend (OpenScreenDiscovery) and *)
(* its composition with the event path (MdnsDiscovery), for every number  *)
(* of service types.                                                       *)
(***************************************************************************)
EXTENDS MdnsDiscovery, TLAPS

(***************************************************************************)
(* The inductive invariant of the startup task.  StartupOutcome alone is  *)
(* not inductive: that the completed loop has every watcher running rests *)
(* on what the loop has done so far, i.e. that while it runs the watchers *)
(* are exactly 0 .. i-1 and all of them run, and that a stop leaves none; *)
(* and that no task exists before init_mdns_transport_discovery, which    *)
(* posts it once.                                                          *)
(***************************************************************************)
StartupInv ==
    /\ DTypeOK
    /\ initPc = "before" => taskPc = "none"
    /\ taskPc \in {"none", "posted", "aborted"} => watchers = {} /\ loopIndex = 0
    /\ taskPc \in {"loop", "complete"} =>
          /\ watchers = 0 .. (loopIndex - 1)
          /\ running = watchers
    /\ taskPc = "complete" => loopIndex = NumServices
    /\ taskPc = "stopped" => running = {}

-----------------------------------------------------------------------------
LEMMA InitStartupInv == DInit => StartupInv
<1>. SUFFICES ASSUME DInit PROVE StartupInv
  OBVIOUS
<1>a. env \in EnvValues /\ initPc \in {"before", "after"} /\ gState \in BOOLEAN
  BY DEF DInit
<1>b. taskPc \in TaskPcs  BY DEF DInit, TaskPcs
<1>c. loopIndex \in 0 .. NumServices  BY DiscoveryAssumption DEF DInit
<1>d. watchers \subseteq ServiceIndex /\ running \subseteq watchers /\ gotFatal \in BOOLEAN
  BY DEF DInit
<1>1. DTypeOK  BY <1>a, <1>b, <1>c, <1>d DEF DTypeOK
<1>. QED  BY <1>1 DEF DInit, StartupInv

LEMMA NextStartupInv == StartupInv /\ [DNext]_dvars => StartupInv'
<1>. SUFFICES ASSUME StartupInv, [DNext]_dvars PROVE StartupInv'
  OBVIOUS
<1>. USE DiscoveryAssumption DEF StartupInv, DTypeOK, ServiceIndex, TaskPcs, TaskEnded
<1>1. CASE InitTransportDiscovery
  <2>1. taskPc' \in {"none", "posted"} /\ taskPc = "none"
    BY <1>1 DEF InitTransportDiscovery
  <2>2. gState' \in BOOLEAN /\ initPc' \in {"before", "after"}
    BY <1>1 DEF InitTransportDiscovery
  <2>. QED  BY <1>1, <2>1, <2>2 DEF InitTransportDiscovery
<1>2. CASE StartupConfig
  <2>1. taskPc' \in {"loop", "aborted"} /\ taskPc = "posted"
    BY <1>2 DEF StartupConfig
  <2>2. watchers = {} /\ running = {} /\ loopIndex = 0  BY <2>1
  <2>3. 0 .. (loopIndex - 1) = {}  BY <2>2
  <2>. QED  BY <1>2, <2>1, <2>2, <2>3 DEF StartupConfig
<1>3. CASE StartWatcher
  <2>1. CASE gotFatal
    <3>1. running' = {}  BY <1>3, <2>1 DEF StartWatcher, StopWatchers
    <3>. QED  BY <1>3, <2>1, <3>1 DEF StartWatcher, LoopCond
  <2>2. CASE ~gotFatal
    BY <1>3, <2>2 DEF StartWatcher, LoopCond, LoopStep
  <2>. QED  BY <2>1, <2>2
<1>4. CASE LoopDone
  BY <1>4 DEF LoopDone, LoopCond
<1>5. CASE OnFatalError
  BY <1>5 DEF OnFatalError
<1>6. CASE UNCHANGED dvars
  BY <1>6 DEF dvars
<1>. QED  BY <1>1, <1>2, <1>3, <1>4, <1>5, <1>6 DEF DNext

\* The startup task's state is well typed: the loop index never passes
\* kNumADBDNSServices and only pushed watchers run.
THEOREM DiscoveryTypeCorrect == DSpec => []DTypeOK
<1>1. DInit => StartupInv  BY InitStartupInv
<1>2. StartupInv /\ [DNext]_dvars => StartupInv'  BY NextStartupInv
<1>3. StartupInv => DTypeOK  BY DEF StartupInv
<1>. QED  BY <1>1, <1>2, <1>3, PTL DEF DSpec

\* StartOpenScreenDiscovery's task ends with no watcher when there is no
\* interface config, and with a running watcher for every service type of
\* kADBDNSServices when its loop completes, for every number of types.
THEOREM StartupOutcomeHolds == DSpec => []StartupOutcome
<1>1. DInit => StartupInv  BY InitStartupInv
<1>2. StartupInv /\ [DNext]_dvars => StartupInv'  BY NextStartupInv
<1>3. StartupInv => StartupOutcome
  BY DiscoveryAssumption DEF StartupInv, StartupOutcome, ServiceIndex
<1>. QED  BY <1>1, <1>2, <1>3, PTL DEF DSpec

-----------------------------------------------------------------------------
(***************************************************************************)
(* The composition: every step of MdnsDiscovery is a step of the backend  *)
(* or leaves the backend's state alone, so the backend's invariant holds  *)
(* in the composed system.                                                 *)
(***************************************************************************)
LEMMA ComposedStepIsDiscoveryStep == [CNext]_cvars => [DNext]_dvars
<1>. SUFFICES ASSUME [CNext]_cvars PROVE [DNext]_dvars
  OBVIOUS
<1>1. CASE DNext /\ UNCHANGED vars
  BY <1>1
<1>2. CASE \E w \in ServiceIndex, e \in Endpoint, st \in DOMAIN EndpointState :
             OnOpenScreenServiceReceiverResult(w, e, st)
  BY <1>2 DEF OnOpenScreenServiceReceiverResult
<1>3. CASE /\ \/ AttemptAutoConnect
              \/ UpdateTrackers
              \/ \E inst \in Instances : SecureConnectFind(inst)
              \/ ConnectAdbSecureDevice
              \/ \E h \in Instances : AddKnownHost(h)
              \/ \E k \in Key : ConnectThreadExit(k)
           /\ UNCHANGED dvars
  BY <1>3
<1>4. CASE UNCHANGED cvars
  BY <1>4 DEF cvars
<1>. QED  BY <1>1, <1>2, <1>3, <1>4 DEF CNext

\* A step taken once the task has stopped every watcher leaves the
\* registry alone: the only composed step that writes it is a watcher
\* callback, which needs a running watcher.
LEMMA StoppedStepKeepsServices ==
    StartupInv /\ [CNext]_cvars => [taskPc = "stopped" => services' = services]_cvars
<1>. SUFFICES ASSUME StartupInv, [CNext]_cvars, taskPc = "stopped"
              PROVE  services' = services
  OBVIOUS
<1>1. running = {}  BY DEF StartupInv
<1>2. CASE DNext /\ UNCHANGED vars
  BY <1>2 DEF vars
<1>3. CASE \E w \in ServiceIndex, e \in Endpoint, st \in DOMAIN EndpointState :
             OnOpenScreenServiceReceiverResult(w, e, st)
  BY <1>1, <1>3 DEF OnOpenScreenServiceReceiverResult
<1>4. CASE AttemptAutoConnect  BY <1>4 DEF AttemptAutoConnect
<1>5. CASE UpdateTrackers  BY <1>5 DEF UpdateTrackers
<1>6. CASE \E inst \in Instances : SecureConnectFind(inst)
  BY <1>6 DEF SecureConnectFind
<1>7. CASE ConnectAdbSecureDevice  BY <1>7 DEF ConnectAdbSecureDevice
<1>8. CASE \E h \in Instances : AddKnownHost(h)  BY <1>8 DEF AddKnownHost
<1>9. CASE \E k \in Key : ConnectThreadExit(k)  BY <1>9 DEF ConnectThreadExit
<1>10. CASE UNCHANGED cvars  BY <1>10 DEF cvars, vars
<1>. QED  BY <1>2, <1>3, <1>4, <1>5, <1>6, <1>7, <1>8, <1>9, <1>10 DEF CNext

\* The backend's invariants hold in the composed system: the endpoint
\* callbacks and the connect machinery never touch the startup task.
THEOREM ComposedStartupOutcome == CSpec => []StartupOutcome
<1>1. CInit => StartupInv  BY InitStartupInv DEF CInit
<1>2. StartupInv /\ [CNext]_cvars => StartupInv'
  BY ComposedStepIsDiscoveryStep, NextStartupInv
<1>3. StartupInv => StartupOutcome
  BY DiscoveryAssumption DEF StartupInv, StartupOutcome, ServiceIndex
<1>. QED  BY <1>1, <1>2, <1>3, PTL DEF CSpec

\* After the startup loop saw a fatal error and stopped every watcher
\* (mdns_service.cpp, the got_fatal_ branch), no step of the composed
\* system changes the discovered-services registry, for every number of
\* service types, instances and addresses.
THEOREM StoppedDiscoveryIsSilentHolds == CSpec => StoppedDiscoveryIsSilent
<1>1. CInit => StartupInv  BY InitStartupInv DEF CInit
<1>2. StartupInv /\ [CNext]_cvars => StartupInv'
  BY ComposedStepIsDiscoveryStep, NextStartupInv
<1>3. StartupInv /\ [CNext]_cvars => [taskPc = "stopped" => services' = services]_cvars
  BY StoppedStepKeepsServices
<1>. QED  BY <1>1, <1>2, <1>3, PTL DEF CSpec, StoppedDiscoveryIsSilent
=============================================================================
