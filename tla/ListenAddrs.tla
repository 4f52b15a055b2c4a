----------------------------- MODULE ListenAddrs -----------------------------
(***************************************************************************)
(* get_listen_addrs of src/daemon/listen_addrs.cpp, checked against the    *)
(* contract its header src/daemon/listen_addrs.h documents.                *)
(*                                                                         *)
(* A port property is the sequence of its characters, each a one-letter  *)
(* string; DigitValue gives a digit's value.  sscanf("%d")                *)
(* is modelled by what it does: skip white space, take one sign, then the *)
(* longest run of digits.  A value outside int is undefined behaviour; the *)
(* builds either truncate it to 32 bits (bionic and LP64 glibc, which     *)
(* convert through a 64-bit integer) or saturate it (glibc with a 32-bit  *)
(* long).  The value is kept as two 16-bit halves because TLC's integers  *)
(* are 32-bit.                                                            *)
(*                                                                         *)
(* service.adb.listen_addrs is the list of its comma-separated segments   *)
(* (Split), <<>> standing for the empty property.                          *)
(***************************************************************************)
EXTENDS Naturals, Sequences

CONSTANTS
    PortStrings,   \* values the three port properties can hold
    ListenProps,   \* values of service.adb.listen_addrs, as segment lists
    BindSpecs,     \* the segments (bind specs) they are made of
    DefaultPort    \* DEFAULT_ADB_LOCAL_TRANSPORT_PORT

\* The value of each decimal digit character.
DigitValue == [c \in {"0", "1", "2", "3", "4", "5", "6", "7", "8", "9"} |->
                 CHOOSE v \in 0 .. 9 :
                   <<"0", "1", "2", "3", "4", "5", "6", "7", "8", "9">>[v + 1] = c]

Digits == DOMAIN DigitValue

Chars == Digits \cup {" ", "-", "+", "x"}

ASSUME ListenAddrsAssumption ==
    /\ PortStrings \subseteq Seq(Chars)
    /\ <<>> \in PortStrings
    /\ DefaultPort \in 1 .. 65535

\* service.adb.listen_addrs splits into a list of bind specs.
ASSUME ListenPropsAssumption == ListenProps \subseteq Seq(BindSpecs)

NoPort == 0   \* std::nullopt from get_tcp_port (no port is 0)

\* The inputs of one call: the build, the flag, the argument, the properties.
Inputs == [android : BOOLEAN,          \* defined(__ANDROID__)
           wrap : BOOLEAN,             \* the build truncates out-of-range %d
           bindBoth : BOOLEAN,         \* adbd_bind_tcp_and_listen_addrs()
           fallback : BOOLEAN,         \* enable_fallback
           servicePort : PortStrings,  \* service.adb.tcp.port
           persistPort : PortStrings,  \* persist.adb.tcp.port
           envPort : PortStrings,      \* ADBD_PORT, <<>> when unset
           listenAddrs : ListenProps]  \* service.adb.listen_addrs

\* The builds that exist: Android builds use bionic, which truncates.
Builds(in) == in.android => in.wrap

\* A bind spec pushed by push_tcp_addrs.
TcpSpec(kind, port) == [kind |-> kind, port |-> port]

-----------------------------------------------------------------------------
(***************************************************************************)
(* sscanf(s, "%d", &port).                                                 *)
(***************************************************************************)

\* Index of the first character that is not white space.
FirstNonSpace(s) ==
    IF \A j \in 1 .. Len(s) : s[j] = " " THEN Len(s) + 1
    ELSE CHOOSE j \in 1 .. Len(s) : s[j] # " " /\ \A m \in 1 .. j - 1 : s[m] = " "

\* Index where the digits start, after an optional sign.
DigitsStart(s) ==
    LET p == FirstNonSpace(s) IN
    IF p <= Len(s) /\ s[p] \in {"+", "-"} THEN p + 1 ELSE p

Negative(s) ==
    LET p == FirstNonSpace(s) IN p <= Len(s) /\ s[p] = "-"

\* Length of the run of digits at DigitsStart.
DigitCount(s) ==
    LET q == DigitsStart(s)
        n == Len(s) - q + 1
    IN  IF \A k \in 1 .. n : s[q + k - 1] \in Digits THEN n
        ELSE CHOOSE k \in 0 .. n - 1 :
               /\ \A m \in 1 .. k : s[q + m - 1] \in Digits
               /\ s[q + k] \notin Digits

\* The magnitude of the digits modulo 2^32 as <<high, low>> halves, and
\* whether the exact magnitude exceeds INT_MAX.
Magnitude(s) ==
    LET q == DigitsStart(s)
        acc[k \in 0 .. DigitCount(s)] ==
          IF k = 0 THEN [hi |-> 0, lo |-> 0, big |-> FALSE]
          ELSE LET prev == acc[k - 1]
                   t == 10 * prev.lo + DigitValue[s[q + k - 1]]
                   h == 10 * prev.hi + t \div 65536
               IN  [hi |-> h % 65536, lo |-> t % 65536,
                    big |-> prev.big \/ h >= 32768]
    IN  acc[DigitCount(s)]

\* Two's complement of a value given as halves.
Negate(m) ==
    IF m.lo = 0 THEN [m EXCEPT !.hi = (65536 - m.hi) % 65536]
    ELSE [m EXCEPT !.hi = 65535 - m.hi, !.lo = 65536 - m.lo]

\* The port get_tcp_port returns for a property string on a build: the
\* scan must convert a number and the stored int must be in 1..65535.
ScanPort(s, wrap) ==
    LET m == Magnitude(s)
        stored == IF Negative(s) THEN Negate(m) ELSE m
    IN  IF DigitCount(s) = 0 THEN NoPort
        ELSE IF wrap
          THEN IF stored.hi = 0 /\ stored.lo > 0 THEN stored.lo ELSE NoPort
          ELSE IF ~m.big /\ ~Negative(s) /\ m.hi = 0 /\ m.lo > 0
                 THEN m.lo ELSE NoPort

-----------------------------------------------------------------------------
(***************************************************************************)
(* get_tcp_port, push_tcp_addrs, push_listen_addrs, get_listen_addrs.      *)
(***************************************************************************)

\* The property string get_tcp_port scans: the service property, else the
\* persist property, else (not on Android) ADBD_PORT.
PortProperty(in) ==
    IF in.servicePort # <<>> THEN in.servicePort
    ELSE IF in.persistPort # <<>> THEN in.persistPort
    ELSE IF ~in.android THEN in.envPort
    ELSE <<>>

get_tcp_port(in) == ScanPort(PortProperty(in), in.wrap)

push_tcp_addrs(port) == <<TcpSpec("tcp", port), TcpSpec("vsock", port)>>

\* The addresses of get_tcp_port, if it returned a port.
TcpAddrs(in) ==
    IF get_tcp_port(in) # NoPort THEN push_tcp_addrs(get_tcp_port(in)) ELSE <<>>

\* Mutant: the flag's branch pushes listen_addrs before the TCP port.
GetListenAddrs_ListenFirst(in) ==
    LET addrs == IF in.bindBoth THEN in.listenAddrs \o TcpAddrs(in)
                 ELSE IF in.listenAddrs # <<>> THEN in.listenAddrs
                 ELSE TcpAddrs(in)
    IN  IF addrs = <<>> /\ in.fallback THEN push_tcp_addrs(DefaultPort) ELSE addrs

GetListenAddrs(in) ==
    LET addrs == IF in.bindBoth THEN TcpAddrs(in) \o in.listenAddrs
                 ELSE IF in.listenAddrs # <<>> THEN in.listenAddrs
                 ELSE TcpAddrs(in)
    IN  IF addrs = <<>> /\ in.fallback THEN push_tcp_addrs(DefaultPort) ELSE addrs

-----------------------------------------------------------------------------
(***************************************************************************)
(* The contract of listen_addrs.h, for property values that are plain     *)
(* decimal ports.                                                          *)
(***************************************************************************)

\* A property that is empty or exactly the decimal digits of a valid port.
WellFormed(s) ==
    \/ s = <<>>
    \/ /\ Len(s) \in 1 .. 5
       /\ \A j \in 1 .. Len(s) : s[j] \in Digits
       /\ ScanPort(s, FALSE) # NoPort

\* The TCP port "specified using one of the following (in priority order)".
SpecifiedPort(in) ==
    LET s == PortProperty(in) IN IF s = <<>> THEN NoPort ELSE ScanPort(s, FALSE)

\* What the header promises: listen_addrs, the specified port's tcp and vsock
\* specs (both when the flag is set, TCP first), or the default port when
\* nothing is set and the fallback is enabled.
HeaderListenAddrs(in) ==
    LET tcp == IF SpecifiedPort(in) # NoPort
                 THEN push_tcp_addrs(SpecifiedPort(in)) ELSE <<>>
    IN  IF in.listenAddrs # <<>> /\ tcp # <<>>
          THEN IF in.bindBoth THEN tcp \o in.listenAddrs ELSE in.listenAddrs
        ELSE IF in.listenAddrs # <<>> THEN in.listenAddrs
        ELSE IF tcp # <<>> THEN tcp
        ELSE IF in.fallback THEN push_tcp_addrs(DefaultPort)
        ELSE <<>>

-----------------------------------------------------------------------------
(***************************************************************************)
(* One call of get_listen_addrs on inputs the environment chooses.        *)
(***************************************************************************)
VARIABLES input, result

lvars == <<input, result>>

None == <<"none">>   \* get_listen_addrs has not returned yet

LInit ==
    /\ input \in {in \in Inputs : Builds(in)}
    /\ result = None

\* The call: its result is a function of the inputs and the build.
CallGetListenAddrs ==
    /\ result = None
    /\ result' = GetListenAddrs(input)
    /\ UNCHANGED input

LSpec == LInit /\ [][CallGetListenAddrs]_lvars

-----------------------------------------------------------------------------
(***************************************************************************)
(* Properties.                                                             *)
(***************************************************************************)

\* For decimal port properties, get_listen_addrs returns exactly what its
\* header documents: the priority of the three port sources, the tcp/vsock
\* pair, the flag deciding between listen_addrs alone and both (wildcard TCP
\* first, the port mDNS advertises), and the fallback to the default port.
MatchesHeaderContract ==
    /\ result # None
    /\ WellFormed(input.servicePort)
    /\ WellFormed(input.persistPort)
    /\ WellFormed(input.envPort)
    => result = HeaderListenAddrs(input)

\* A TCP port taken from a property is the number written in it: when
\* get_listen_addrs pushes the port of get_tcp_port (the flag is set or
\* listen_addrs is empty), that port is the value of the property's digits,
\* never a different port reached through int overflow in sscanf.
PortIsPropertyValue ==
    /\ result # None
    /\ input.bindBoth \/ input.listenAddrs = <<>>
    /\ get_tcp_port(input) # NoPort
    =>
       LET m == Magnitude(PortProperty(input)) IN
       /\ ~m.big
       /\ ~Negative(PortProperty(input))
       /\ get_tcp_port(input) = m.lo
=============================================================================
