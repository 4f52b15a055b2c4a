-------------------------- MODULE ListenAddrsProofs --------------------------
(***************************************************************************)
(* Proof that get_listen_addrs (src/daemon/listen_addrs.cpp) meets the     *)
(* contract of listen_addrs.h whenever the port properties are empty or   *)
(* plain decimal ports, for every set of property values, every build and *)
(* every flag.                                                             *)
(*                                                                         *)
(* The argument needs no induction over the digits: a well-formed value   *)
(* scans to a port in 1..65535 on a build that saturates, and such a value *)
(* is stored unchanged on a build that truncates, so both builds agree.   *)
(***************************************************************************)
EXTENDS ListenAddrs, TLAPS

\* The bind specs get_listen_addrs can return on the inputs cfg, apart from
\* the fallback.
AddrSpec(cfg) == BindSpecs \cup {TcpSpec(k, get_tcp_port(cfg)) : k \in {"tcp", "vsock"}}

-----------------------------------------------------------------------------
\* Every value of service.adb.listen_addrs is a list of bind specs.
LEMMA ListenPropsAreSpecLists == ListenProps \subseteq Seq(BindSpecs)
BY ListenPropsAssumption

\* An empty property converts nothing: sscanf returns EOF.
LEMMA EmptyPropertyNoPort ==
    ASSUME NEW w \in BOOLEAN
    PROVE  ScanPort(<<>>, w) = NoPort
<1>1. FirstNonSpace(<<>>) = 1  BY DEF FirstNonSpace
<1>2. DigitsStart(<<>>) = 1  BY <1>1 DEF DigitsStart
<1>3. DigitCount(<<>>) = 0  BY <1>2 DEF DigitCount
<1>. QED  BY <1>3 DEF ScanPort

\* A value the saturating build accepts as a port is stored unchanged by
\* the truncating build: it is non-negative and below 2^16.
LEMMA BuildsAgreeOnValidPort ==
    ASSUME NEW s, NEW w \in BOOLEAN, ScanPort(s, FALSE) # NoPort
    PROVE  ScanPort(s, w) = ScanPort(s, FALSE)
BY DEF ScanPort

\* get_tcp_port reads the port the header calls specified, on every build,
\* when each of the three sources is empty or well formed.
LEMMA TcpPortIsSpecifiedPort ==
    ASSUME NEW cfg \in Inputs,
           WellFormed(cfg.servicePort), WellFormed(cfg.persistPort),
           WellFormed(cfg.envPort)
    PROVE  get_tcp_port(cfg) = SpecifiedPort(cfg)
<1>. DEFINE s == PortProperty(cfg)
<1>1. WellFormed(s)  BY DEF PortProperty, WellFormed
<1>2. cfg.wrap \in BOOLEAN  BY DEF Inputs
<1>3. CASE s = <<>>
  BY <1>2, <1>3, EmptyPropertyNoPort DEF get_tcp_port, SpecifiedPort
<1>4. CASE s # <<>>
  <2>1. ScanPort(s, FALSE) # NoPort  BY <1>1, <1>4 DEF WellFormed
  <2>. QED  BY <1>2, <1>4, <2>1, BuildsAgreeOnValidPort DEF get_tcp_port, SpecifiedPort
<1>. QED  BY <1>3, <1>4

\* get_listen_addrs equals the header's description on such inputs.
LEMMA CodeMatchesHeader ==
    ASSUME NEW cfg \in Inputs,
           WellFormed(cfg.servicePort), WellFormed(cfg.persistPort),
           WellFormed(cfg.envPort)
    PROVE  GetListenAddrs(cfg) = HeaderListenAddrs(cfg)
<1>. DEFINE Tcp == TcpAddrs(cfg)
            Lst == cfg.listenAddrs
<1>1. Tcp = IF SpecifiedPort(cfg) # NoPort
            THEN push_tcp_addrs(SpecifiedPort(cfg)) ELSE <<>>
  BY TcpPortIsSpecifiedPort DEF TcpAddrs
<1>2. Tcp \in Seq(AddrSpec(cfg))
  <2>1. CASE get_tcp_port(cfg) = NoPort
    BY <2>1 DEF TcpAddrs
  <2>2. CASE get_tcp_port(cfg) # NoPort
    <3>1. /\ TcpSpec("tcp", get_tcp_port(cfg)) \in AddrSpec(cfg)
          /\ TcpSpec("vsock", get_tcp_port(cfg)) \in AddrSpec(cfg)
      BY DEF AddrSpec
    <3>2. Tcp = <<TcpSpec("tcp", get_tcp_port(cfg)), TcpSpec("vsock", get_tcp_port(cfg))>>
      BY <2>2 DEF TcpAddrs, push_tcp_addrs
    <3>. QED  BY <3>1, <3>2
  <2>. QED  BY <2>1, <2>2
<1>3. Lst \in Seq(AddrSpec(cfg))
  <2>1. Lst \in Seq(BindSpecs)
    <3>1. cfg.listenAddrs \in ListenProps  BY DEF Inputs
    <3>. QED  BY <3>1, ListenPropsAreSpecLists
  <2>2. BindSpecs \subseteq AddrSpec(cfg)  BY DEF AddrSpec
  <2>. QED  BY <2>1, <2>2
<1>4. /\ Tcp \o Lst = << >> <=> Tcp = << >> /\ Lst = << >>
      /\ Tcp \o << >> = Tcp
      /\ << >> \o Lst = Lst
  BY <1>2, <1>3
<1>. QED  BY <1>1, <1>4 DEF GetListenAddrs, HeaderListenAddrs
-----------------------------------------------------------------------------
\* The inductive invariant: the inputs stay a possible set of inputs and the
\* contract holds.  The contract alone does not carry the typing of input
\* that CodeMatchesHeader needs.
ContractInv ==
    /\ input \in Inputs
    /\ MatchesHeaderContract

LEMMA InitContractInv == LInit => ContractInv
BY DEF LInit, ContractInv, MatchesHeaderContract

LEMMA NextContractInv == ContractInv /\ [CallGetListenAddrs]_lvars => ContractInv'
<1> SUFFICES ASSUME ContractInv, [CallGetListenAddrs]_lvars PROVE ContractInv'
  OBVIOUS
<1>1. CASE CallGetListenAddrs
  <2>1. input' = input /\ result' = GetListenAddrs(input)  BY <1>1 DEF CallGetListenAddrs
  <2>2. input \in Inputs  BY DEF ContractInv
  <2>3. ASSUME WellFormed(input.servicePort), WellFormed(input.persistPort),
               WellFormed(input.envPort)
        PROVE  GetListenAddrs(input) = HeaderListenAddrs(input)
    BY <2>2, <2>3, CodeMatchesHeader
  <2>. QED  BY <2>1, <2>2, <2>3 DEF ContractInv, MatchesHeaderContract
<1>2. CASE UNCHANGED lvars
  BY <1>2 DEF ContractInv, MatchesHeaderContract, lvars
<1>. QED  BY <1>1, <1>2

\* Whatever the build, the flag and the property values chosen at start-up,
\* the addresses get_listen_addrs returns are those listen_addrs.h
\* documents, whenever the port properties are empty or decimal ports.
THEOREM ContractHolds == LSpec => []MatchesHeaderContract
<1>1. LInit => ContractInv  BY InitContractInv
<1>2. ContractInv /\ [CallGetListenAddrs]_lvars => ContractInv'  BY NextContractInv
<1>3. ContractInv => MatchesHeaderContract  BY DEF ContractInv
<1>. QED  BY <1>1, <1>2, <1>3, PTL DEF LSpec
=============================================================================
