----------------------- MODULE ComposedDiscoveryProofs -----------------------
(***************************************************************************)
(* The openscreen backend composed with the event path (MdnsDiscovery)    *)
(* implements the event path's own specification MdnsTransport!Spec: the *)
(* endpoint callback OnOpenScreenServiceReceiverResult hands the handler  *)
(* a well-formed ServiceInfo, and every other composed step is a step of  *)
(* the transport or leaves its state alone.  The transport's theorems     *)
(* then hold in the composed system.                                       *)
(*                                                                         *)
(* The conversion picks the last v4 address of an endpoint with           *)
(* SelectLastInSeq, the maximum of a set of indices.  That the maximum    *)
(* exists is shown from the well-foundedness of < on Nat (WFMin), which  *)
(* needs no induction rule with an operator parameter.                    *)
(***************************************************************************)
EXTENDS DiscoveryProofs, MdnsTransportProofs, WellFoundedInduction

-----------------------------------------------------------------------------
(***************************************************************************)
(* Lemmas about the conversion of an endpoint.                            *)
(***************************************************************************)

\* A non-empty set of indices 1..n has a greatest element.
LEMMA MaxIndexExists ==
    ASSUME NEW n \in Nat, NEW T \in SUBSET (1..n), T # {}
    PROVE  \E x \in T : \A y \in T : x >= y
<1> DEFINE U == {n - x : x \in T}
<1>1. U \subseteq Nat  OBVIOUS
<1>2. U # {}  OBVIOUS
<1>3. PICK m \in U : \A u \in U : ~(<<u, m>> \in OpToRel(<, Nat))
  BY <1>1, <1>2, NatLessThanWellFounded, WFMin
<1>4. \A u \in U : ~(u < m)
  BY <1>1, <1>3 DEF OpToRel
<1>5. PICK x \in T : m = n - x
  BY <1>3
<1>6. ASSUME NEW y \in T PROVE x >= y
  <2>1. n - y \in U  OBVIOUS
  <2>2. ~(n - y < n - x)  BY <1>4, <1>5, <2>1
  <2>. QED  BY <2>2
<1>. QED  BY <1>6

\* The optional v4 address the conversion fills is nullopt or an address
\* of the endpoint's list.
LEMMA LastV4OfType ==
    ASSUME NEW addrs \in SeqOf(V4Addrs \cup V6Addrs, MaxAddresses)
    PROVE  LastV4Of(addrs) \in IPv4Option
<1> DEFINE I == {i \in 1..Len(addrs) : addrs[i] \in V4Addrs}
<1>1. addrs \in Seq(V4Addrs \cup V6Addrs)
  <2>1. PICK m \in 0..MaxAddresses : addrs \in [1..m -> V4Addrs \cup V6Addrs]
    BY DEF SeqOf
  <2>. QED  BY <2>1, CompositionAssumption
<1>2. Len(addrs) \in Nat /\ I \subseteq 1..Len(addrs)
  BY <1>1
<1>3. SelectLastInSeq(addrs, LAMBDA a : a \in V4Addrs) = IF I # {} THEN Max(I) ELSE 0
  BY DEF SelectLastInSeq
<1>4. CASE I = {}
  BY <1>3, <1>4 DEF LastV4Of, IPv4Option
<1>5. CASE I # {}
  <2>1. \E x \in I : \A y \in I : x >= y
    BY <1>2, <1>5, MaxIndexExists
  <2>2. Max(I) \in I
    BY <2>1 DEF Max
  <2>3. Max(I) # 0 /\ addrs[Max(I)] \in V4Addrs
    BY <1>2, <2>2
  <2>. QED  BY <1>3, <1>5, <2>3 DEF LastV4Of, IPv4Option
<1>. QED  BY <1>4, <1>5

\* OnOpenScreenServiceReceiverResult builds a ServiceInfo from an endpoint.
LEMMA ToServiceInfoType ==
    ASSUME NEW e \in Endpoint
    PROVE  ToServiceInfo(e) \in ServiceInfo
<1>1. LastV4Of(e.addresses) \in IPv4Option
  BY LastV4OfType DEF Endpoint
<1>. QED  BY <1>1 DEF ToServiceInfo, ServiceInfo, Endpoint

-----------------------------------------------------------------------------
(***************************************************************************)
(* The composed system implements MdnsTransport.                           *)
(***************************************************************************)

\* Every composed step is a step of the event path or leaves its state
\* alone: the endpoint callback is OnCreated, OnUpdated or OnDeleted on the
\* converted ServiceInfo, chosen by the switch on the endpoint state.
LEMMA ComposedStepIsTransportStep == [CNext]_cvars => [Next]_vars
<1>. SUFFICES ASSUME [CNext]_cvars PROVE [Next]_vars
  OBVIOUS
<1>1. CASE DNext /\ UNCHANGED vars
  BY <1>1
<1>2. ASSUME NEW w \in ServiceIndex, NEW e \in Endpoint,
             NEW st \in DOMAIN EndpointState,
             OnOpenScreenServiceReceiverResult(w, e, st)
      PROVE  Next
  <2> DEFINE si == ToServiceInfo(e)
  <2>1. si \in ServiceInfo
    BY ToServiceInfoType
  <2>2. st \in {"EndpointCreated", "EndpointUpdated", "EndpointDeleted"}
    BY DEF EndpointState
  <2>3. CASE st = "EndpointCreated"
    <3>1. OnCreated(si)  BY <1>2, <2>3 DEF OnOpenScreenServiceReceiverResult, EndpointState
    <3>. QED  BY <2>1, <3>1 DEF Next
  <2>4. CASE st = "EndpointUpdated"
    <3>1. OnUpdated(si)  BY <1>2, <2>4 DEF OnOpenScreenServiceReceiverResult, EndpointState
    <3>. QED  BY <2>1, <3>1 DEF Next
  <2>5. CASE st = "EndpointDeleted"
    <3>1. OnDeleted(si)  BY <1>2, <2>5 DEF OnOpenScreenServiceReceiverResult, EndpointState
    <3>. QED  BY <2>1, <3>1 DEF Next
  <2>. QED  BY <2>2, <2>3, <2>4, <2>5
<1>3. CASE /\ \/ AttemptAutoConnect
              \/ UpdateTrackers
              \/ \E inst \in Instances : SecureConnectFind(inst)
              \/ ConnectAdbSecureDevice
              \/ \E h \in Instances : AddKnownHost(h)
              \/ \E k \in Key : ConnectThreadExit(k)
           /\ UNCHANGED dvars
  BY <1>3 DEF Next
<1>4. CASE UNCHANGED cvars
  BY <1>4 DEF cvars
<1>. QED  BY <1>1, <1>2, <1>3, <1>4 DEF CNext

\* The composition of the openscreen backend with the event path is a
\* behaviour of the event path alone: the backend only ever calls
\* OnServiceReceiverResult with a well-formed ServiceInfo, from the task
\* runner, so nothing the backend does falls outside MdnsTransport!Spec.
THEOREM ComposedImplementsTransport == CSpec => Spec
<1>1. CInit => Init  BY DEF CInit
<1>2. [][CNext]_cvars => [][Next]_vars  BY ComposedStepIsTransportStep, PTL
<1>. QED  BY <1>1, <1>2, PTL DEF CSpec, Spec

\* In the composed system too, a connect thread to the TLS service only
\* runs for an instance in the known-hosts file, whatever endpoints the
\* watchers deliver.
THEOREM ComposedSecureConnectSafety == CSpec => []SecureConnectOnlyToKnownHosts
BY ComposedImplementsTransport, SecureConnectSafety

\* In the composed system too, the `updated` flag of an Updated event is
\* TRUE exactly when ServiceUpdated changed the registry.
THEOREM ComposedUpdatedIffChanged == CSpec => UpdatedIffChanged
BY ComposedImplementsTransport, UpdatedIffChangedHolds
=============================================================================
