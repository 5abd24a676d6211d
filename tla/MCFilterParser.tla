--------------------------- MODULE MCFilterParser ---------------------------
(***************************************************************************)
(* Filters of every kind that the language has, on every link type, and    *)
(* packets on which they differ.                                           *)
(***************************************************************************)
EXTENDS FilterMeaning

-----------------------------------------------------------------------------
(* Packets *)

A == <<10, 0, 0, 1>>
B == <<10, 0, 0, 255>>
C == <<239, 0, 2, 2>>
A6 == <<254, 128>> \o Zeros(13) \o <<1>>
B6 == <<255, 2>> \o Zeros(13) \o <<1>>
Mac(n) == <<0, 170, 0, 0, 1, n>>
Group == <<1, 0, 94, 0, 0, 1>>

Plain ==
  [type |-> ETHERTYPE_IP, snap |-> FALSE, src |-> A, dst |-> B, upper |-> 6, frag |-> 0, ext |-> FALSE, ihl |-> 5,
   sport |-> 80, dport |-> 1025, flags |-> 2, msrc |-> Mac(1), mdst |-> Mac(2), asrc |-> <<1>>, adst |-> <<2>>,
   tags |-> <<>>, labels |-> <<>>, session |-> FALSE, side |-> 0, nlpid |-> 131, pdu |-> 18, long |-> FALSE,
   wlan |-> [kind |-> "data", to |-> FALSE, from |-> TRUE, qos |-> FALSE, padded |-> FALSE, avs |-> FALSE,
             bss |-> Mac(3), peer |-> Mac(4)],
   cell |-> [proto |-> 2, vpi |-> 0, vci |-> 5, msg |-> 5, control |-> 0],
   unit |-> [li |-> 3, sio |-> 131, opc |-> 5460, dpc |-> 257, sls |-> 9]]
Udp == [Plain EXCEPT !.upper = 17, !.sport = 53, !.dport = 53, !.dst = C, !.ihl = 6, !.mdst = Group]
Icmp == [Plain EXCEPT !.upper = 1, !.sport = 2048, !.dport = 80, !.src = B, !.dst = A, !.mdst = Ones(6)]
Later == [Plain EXCEPT !.frag = 8193, !.ihl = 7, !.src = C, !.dst = A]
Six == [Plain EXCEPT !.type = ETHERTYPE_IPV6, !.src = A6, !.dst = B6]
SixLater == [Six EXCEPT !.ext = TRUE, !.upper = 17, !.src = B6, !.dst = A6]
SixIcmp == [Six EXCEPT !.upper = 58]
ArpOf(type) == [Plain EXCEPT !.type = type, !.src = B, !.dst = A, !.upper = 0]
Other(type) == [Plain EXCEPT !.type = type, !.src = Zeros(4), !.dst = Zeros(4), !.upper = 0]
DecnetOf(long) == [Plain EXCEPT !.type = ETHERTYPE_DN, !.src = <<2, 4>>, !.dst = <<3, 4>>, !.long = long, !.upper = 0]

Ips == {Plain, Udp, Icmp, Later}
Core == Ips \cup {Six, SixLater, SixIcmp, ArpOf(ETHERTYPE_ARP)}
Pdu(n, p) == [Other(LLCSAP_ISONS) EXCEPT !.nlpid = n, !.pdu = p]
Isos == {Pdu(131, 15), Pdu(131, 16), Pdu(131, 24), Pdu(131, 27), Pdu(131, 18), Pdu(130, 18), Pdu(129, 18)}
Rest ==
  {ArpOf(ETHERTYPE_REVARP), DecnetOf(TRUE), DecnetOf(FALSE), Other(LLCSAP_IPX), Other(ETHERTYPE_IPX),
   Other(LLCSAP_NETBEUI), Other(LLCSAP_8021D), Other(ETHERTYPE_ATALK), [Other(ETHERTYPE_ATALK) EXCEPT !.snap = TRUE],
   Other(ETHERTYPE_AARP), Other(ETHERTYPE_PPPOED)} \cup Isos
  \cup {Other(t) : t \in {ETHERTYPE_LAT, ETHERTYPE_SCA, ETHERTYPE_MOPDL, ETHERTYPE_MOPRC}}
  \cup {[Plain EXCEPT !.upper = u] : u \in {2, 9, 50, 51, 103, 112, 132}}
Tagged == {[P EXCEPT !.tags = t] : P \in {Plain, Six, ArpOf(ETHERTYPE_ARP)}, t \in {<<2>>, <<3>>, <<2, 3>>}}
Labelled == {[P EXCEPT !.labels = l, !.tags = t] :
               P \in {Plain, Six}, l \in {<<16>>, <<100000>>, <<16, 100000>>}, t \in {<<>>, <<2>>}}
InSession == {[P EXCEPT !.session = TRUE] : P \in {Plain, Udp, Six}}
Stations ==
  {[Plain EXCEPT !.wlan = [@ EXCEPT !.kind = k, !.to = t, !.from = f, !.qos = q, !.padded = q, !.avs = f], !.mdst = m] :
     k \in {"data"}, t \in BOOLEAN, f \in BOOLEAN, q \in BOOLEAN, m \in {Mac(2), Group}}
  \cup {[Plain EXCEPT !.wlan = [@ EXCEPT !.kind = k, !.from = FALSE], !.mdst = m] : k \in {"mgmt", "ack"}, m \in {Mac(2), Ones(6)}}
CellOf(p, v) == [Plain EXCEPT !.cell = [proto |-> p, vpi |-> v[1], vci |-> v[2], msg |-> v[3], control |-> v[4]]]
CellsOf ==
  {CellOf(2, <<0, 5, 5, 0>>), CellOf(2, <<3, 4, 5, 0>>), CellOf(1, <<0, 40, 5, 0>>), CellOf(1, <<0, 40, 5, 255>>),
   CellOf(6, <<0, 5, 15, 0>>), CellOf(6, <<0, 1, 15, 0>>), CellOf(6, <<0, 1, 77, 0>>), CellOf(6, <<0, 3, 1, 0>>)}
  \cup {[CellOf(1, <<0, 40, 5, 0>>) EXCEPT !.type = ETHERTYPE_IPV6, !.src = A6, !.dst = B6]}
Units ==
  {[Plain EXCEPT !.unit = u] :
     u \in {[Plain.unit EXCEPT !.li = l] : l \in {0, 1, 2, 63}}
           \cup {[Plain.unit EXCEPT !.opc = 257, !.dpc = 5460], [Plain.unit EXCEPT !.sls = 4, !.sio = 5]}}
Sides == {[Plain EXCEPT !.side = s] : s \in {1, 2, 4}}

PacketsOf ==
  [dlt \in LinkTypes |->
  CASE dlt = "EN10MB" -> Core \cup Rest \cup Tagged \cup Labelled \cup InSession
    [] dlt \in {"FDDI", "IEEE802", "ATM_RFC1483", "IP_OVER_FC", "NETANALYZER"} -> Core \cup Isos \cup {DecnetOf(TRUE), Other(LLCSAP_IPX), Other(ETHERTYPE_ATALK)}
    [] dlt \in Wlan -> Core \cup Isos \cup Stations
    [] dlt = "SUNATM" -> Core \cup CellsOf
    [] dlt \in {"MTP2", "MTP2_WITH_PHDR", "ERF"} -> Units
    [] dlt \in {"IPV4"} -> Ips [] dlt = "LTALK" -> {Other(ETHERTYPE_ATALK)} [] dlt = "IPV6" -> {Six, SixLater, SixIcmp}
    [] dlt \in {"RAW", "NULL", "LOOP", "ENC"} -> Ips \cup {Six, SixLater, SixIcmp}
    [] dlt \in {"PPP", "C_HDLC"} -> Core \cup {P \in Labelled : P.tags = <<>>} \cup {Pdu(130, 18), Pdu(129, 18)}
    [] dlt \in {"LINUX_SLL", "IPNET", "PPP_PPPD", "SLIP"} \cup Juniper ->
         (IF dlt = "LINUX_SLL" THEN Core \cup Rest ELSE Ips \cup {Six}) \cup Sides
    [] dlt \in {"PPP_SERIAL", "PPP_ETHER", "PPP_BSDOS"} -> Ips \cup {Six, Other(ETHERTYPE_ATALK), Other(LLCSAP_ISONS)}
    [] dlt \in {"ARCNET", "ARCNET_LINUX"} -> Core \cup {ArpOf(ETHERTYPE_REVARP), [Plain EXCEPT !.adst = <<0>>], [Plain EXCEPT !.asrc = <<2>>]}
    [] dlt \notin {"EN10MB", "FDDI", "IEEE802", "ATM_RFC1483", "IP_OVER_FC", "NETANALYZER", "SUNATM", "MTP2", "ERF",
                   "MTP2_WITH_PHDR", "IPV4", "IPV6", "LTALK", "RAW", "NULL", "LOOP", "ENC", "PPP", "C_HDLC", "LINUX_SLL",
                   "IPNET", "PPP_PPPD", "SLIP", "PPP_SERIAL", "PPP_ETHER", "PPP_BSDOS", "ARCNET", "ARCNET_LINUX"}
                  \cup Wlan \cup Juniper -> Core]

-----------------------------------------------------------------------------
(* Expressions *)

Q(proto, dir, addr) == [proto |-> proto, dir |-> dir, addr |-> addr]
D == "default"
IsHead(proto, dir, addr, of) == [is |-> "head", q |-> Q(proto, dir, addr), of |-> of]
IsValue(v) == [is |-> "value", v |-> v]
Term1(t) == [is |-> "term", term |-> t]
IsNot(e) == [is |-> "not", of |-> e]
Paren(e) == [is |-> "paren", of |-> e]
Bin(op, e, f) == [is |-> op, left |-> e, right |-> f]
Ands(e, f) == Bin("and", e, f)
Ors(e, f) == Bin("or", e, f)

Octets(s) == IsValue([is |-> "octets", octets |-> s])
Num(n) == IsValue([is |-> "num", v |-> n])
MacOf(a) == IsValue([is |-> "mac", addr |-> a])
Ip6(a, n) == IsValue([is |-> "ip6", addr |-> a, masklen |-> n])
Prefixed(s, n) == IsValue([is |-> "prefix", octets |-> s, masklen |-> n])
MaskedBy(s, m) == IsValue([is |-> "masked", octets |-> s, mask |-> m])
NoName == [is |-> "name", word |-> "", hosts |-> <<>>, net |-> <<>>, ether |-> <<>>, tcp |-> Unset, udp |-> Unset, last |-> <<>>,
           ipproto |-> PROTO_UNDEF, etherproto |-> PROTO_UNDEF, isoproto |-> PROTO_UNDEF]
Ace == [NoName EXCEPT !.hosts = <<A, A6, B>>, !.net = <<10>>, !.ether = Mac(1)]
Domain == [NoName EXCEPT !.tcp = 53, !.udp = 53]
Http == [NoName EXCEPT !.tcp = 80]
Tftp == [NoName EXCEPT !.udp = 53]
HttpToTftp == [Http EXCEPT !.last = [NoName EXCEPT !.tcp = 1025]]
UdpName == [NoName EXCEPT !.ipproto = 17, !.isoproto = 131, !.etherproto = ETHERTYPE_ARP, !.word = "arp"]
IpxName == [NoName EXCEPT !.etherproto = LLCSAP_IPX, !.word = "ipx"]
Name(n) == IsValue(n)

Proto(p) == Term1([is |-> "proto", proto |-> p])
N(n) == [is |-> "num", v |-> n]
Index(p, at, size) == [is |-> "index", proto |-> p, at |-> at, size |-> size]
Arith2(op, x, y) == [is |-> "arth", op |-> op, a0 |-> x, a1 |-> y]
Relates(code, x, y, reversed) == Term1([is |-> "relation", code |-> code, a0 |-> x, a1 |-> y, reversed |-> reversed])
Equal(x, y) == Relates("jeq", x, y, FALSE)
Vlan(n) == Term1([is |-> "vlan", v |-> n])
Mpls(n) == Term1([is |-> "mpls", v |-> n])
Pppoes == Term1([is |-> "pppoes"])
Atm(type) == Term1([is |-> "atm", type |-> type])
Field(is, field, v, code, reversed) == Term1([is |-> is, field |-> field, v |-> v, code |-> code, reversed |-> reversed])
Host(a) == IsHead(D, D, "host", Octets(a))
Port(n) == IsHead(D, D, "port", Num(n))

RECURSIVE Sum(_)
\* An expression of that depth needs a register more for each level.
Sum(n) == IF n = 0 THEN N(1) ELSE Arith2("add", N(1), Sum(n - 1))

\* Every link type: keywords, addresses, ports, bytes.
CoreFilters ==
  { Proto("ip"), Proto("ip6"), Proto("tcp"), Host(A), IsHead("ip", "src", "net", Octets(<<10, 0>>)),
    IsHead("ip6", D, "host", Ip6(A6, 128)), Port(80), IsHead("udp", "dst", "port", Num(53)),
    Equal(Arith2("and", Index("ip", N(0), "B"), N(15)), N(6)), Equal(Index("tcp", N(13), "B"), N(2)) }
LenFilters == { Term1([is |-> "less", v |-> 110]), Equal(Arith2("sub", [is |-> "length"], N(7)), N(119)) }

\* What only some have.
Broadcast(p) == Term1([is |-> "broadcast", proto |-> p])
Multicast(p) == Term1([is |-> "multicast", proto |-> p])
LinkHosts ==
  {IsHead("link", d, "host", MacOf(m)) : d \in {"src", "dst", D, "and"}, m \in {Mac(1), Mac(2)}}
  \cup {Broadcast("link"), Multicast(D), Term1([is |-> "byte", op |-> "=", at |-> 1, v |-> 170])}
Keywords ==
  {Proto(k) : k \in DOMAIN LinkKeywords \cup DOMAIN BothVersions \cup DOMAIN OneVersion \cup DOMAIN IsoKeywords
                    \cup DOMAIN IsisKeywords \cup {"icmp6"}}
Values ==
  { IsHead(D, "src", D, Octets(A)), IsHead(D, "dst", "host", Octets(A)), IsHead("ip", "and", D, Octets(A)),
    IsHead("arp", D, "host", Octets(A)), IsHead("rarp", D, D, Octets(A)), IsHead(D, D, "net", Octets(<<10>>)),
    IsHead(D, "dst", "net", Prefixed(<<238>>, 7)), IsHead(D, "dst", "net", Prefixed(<<10, 0, 0, 128>>, 25)),
    IsHead(D, "src", "net", MaskedBy(<<10, 0, 0, 0>>, <<255, 0, 0, 1>>)),
    IsHead(D, D, "net", Ip6(<<254, 128>> \o Zeros(14), 10)), IsHead(D, "src", D, Ip6(B6, 128)),
    IsHead(D, D, "host", Name(Ace)), IsHead("ip", "dst", "host", Name(Ace)), IsHead("ip6", D, "host", Name(Ace)),
    IsHead(D, D, "net", Name(Ace)), IsHead("link", "src", "host", Name(Ace)),
    IsHead(D, D, "host", Num(167772161)), IsHead(D, "src", "net", Num(10)),
    IsHead("decnet", "src", "host", Num(1026)), IsHead("decnet", "dst", "host", Octets(<<1, 3>>)),
    IsHead("decnet", D, "host", Num(1027)),
    IsHead(D, "src", "port", Name(Http)), IsHead(D, D, "port", Name(Domain)), IsHead("udp", D, "port", Name(Domain)),
    IsHead(D, "dst", "port", Name(Tftp)), IsHead(D, "src", "portrange", Name(HttpToTftp)),
    IsHead("tcp", "and", "portrange", Name(HttpToTftp)), IsHead("tcp", "src", "portrange", Num(80)),
    IsHead("ip", D, "proto", Num(17)), IsHead("ip6", D, "proto", Num(17)), IsHead(D, D, "proto", Name(UdpName)),
    IsHead("iso", D, "proto", Name(UdpName)), IsHead("isis", D, "proto", Num(18)), IsHead("link", D, "proto", Name(UdpName)),
    IsHead("link", D, "proto", Name(IpxName)),
    IsHead("ip", D, "protochain", Num(6)), IsHead("ip6", D, "protochain", Num(17)),
    IsHead("ip6", D, "protochain", Num(44)), IsHead(D, D, "protochain", Num(17)) }
Kinds ==
  { Broadcast("ip"), Multicast("ip"), Multicast("ip6"), Term1([is |-> "pppoed"]),
    Term1([is |-> "greater", v |-> 96]), Term1([is |-> "less", v |-> 96]),
    Term1([is |-> "byte", op |-> "<", at |-> 5, v |-> 5]), Term1([is |-> "byte", op |-> ">", at |-> 5, v |-> 5]) }
Arithmetic ==
  { Relates("jgt", Index("link", N(0), "B"), N(0), FALSE), Relates("jge", Index("ip", N(2), "H"), [is |-> "length"], TRUE),
    Relates("jgt", N(3), Index("arp", N(7), "B"), FALSE), Equal(Index("ip6", N(6), "W"), Index("link", N(20), "W")),
    Equal(Index("udp", Arith2("mul", N(2), N(1)), "H"), N(53)), Equal([is |-> "neg", of |-> Index("icmp", N(1), "B")], [is |-> "neg", of |-> N(0)]),
    Equal(Arith2("div", Index("ip", N(9), "B"), N(2)), N(3)), Equal(Arith2("div", Index("ip", N(9), "B"), Arith2("and", Index("ip", N(9), "B"), N(6))), N(1)),
    Equal(Arith2("lsh", Arith2("or", N(1), N(4)), N(2)), Arith2("rsh", N(80), N(2))),
    Equal(Index("ip", Arith2("and", Index("ip", N(0), "B"), N(15)), "B"), Index("link", N(19), "B")),
    Equal(Sum(15), N(16)) }
Compounds ==
  { Ands(Host(A), Port(80)), Ors(IsHead(D, "src", "port", Num(53)), Num(80)), IsNot(Paren(Ors(Host(A), Host(C)))),
    Ands(IsNot(IsHead(D, "src", "host", Octets(A))), Octets(C)), IsHead(D, "src", "host", Paren(Ors(Octets(A), Octets(C)))),
    IsHead(D, "dst", "host", Paren(Ands(IsNot(Octets(A)), Octets(C)))),
    Ors(Ands(Proto("tcp"), Host(B)), Proto("arp")), Ands(Proto("ip"), Paren(Ors(Port(80), Proto("icmp")))),
    Ors(Equal(N(1), Index("tcp", N(13), "B")), Equal(Index("udp", N(1), "B"), N(53))),
    Ands(Paren(Ors(IsHead(D, D, "host", Octets(C)), Octets(B))), IsNot(Port(53))) }
Encapsulations ==
  { Vlan(NoNumber), Vlan(2), Ands(Vlan(2), Vlan(3)), Ands(Vlan(NoNumber), Host(A)), Ands(Vlan(NoNumber), Port(80)),
    Ands(Vlan(3), Proto("arp")), Ands(Ands(Vlan(2), Vlan(NoNumber)), Proto("ip6")), IsNot(Vlan(NoNumber)),
    Ands(Vlan(NoNumber), Equal(Index("tcp", N(13), "B"), N(2))), Ands(Vlan(NoNumber), IsHead("link", "src", "host", MacOf(Mac(1)))),
    Mpls(NoNumber), Mpls(100000), Ands(Mpls(16), Mpls(100000)), Ands(Mpls(NoNumber), Host(A)), Ands(Mpls(NoNumber), Proto("ip6")),
    Ands(Ands(Vlan(2), Mpls(16)), Port(80)), Ands(Ands(Mpls(NoNumber), Mpls(NoNumber)), IsHead(D, "src", "net", Octets(<<10>>))),
    Ands(Mpls(16), Equal(Index("ip", N(9), "B"), N(6))),
    Pppoes, Ands(Pppoes, Proto("ip")), Ands(Pppoes, Port(53)), Ands(Pppoes, IsHead("ip6", D, "host", Ip6(A6, 128))), IsNot(Pppoes) }

\* What is written, and what it means.
W(w) == [is |-> "word", word |-> w]
Digits(prefix, digits) == [is |-> "digits", prefix |-> prefix, digits |-> digits]
Spellable ==
  { <<IsHead("wlan", "src", "host", MacOf(Mac(1))), IsHead("link", "src", "host", MacOf(Mac(1)))>>,
    <<IsHead("fddi", D, "proto", Name(UdpName)), IsHead("link", D, "proto", Name(UdpName))>>,
    <<Proto("is-is"), Proto("isis")>>, <<Proto("es-is"), Proto("esis")>>, <<Broadcast("tr"), Broadcast("link")>>,
    <<Bin("&&", Host(A), Port(80)), Ands(Host(A), Port(80))>>, <<Bin("||", Proto("arp"), Port(53)), Ors(Proto("arp"), Port(53))>>,
    <<Relates("jgt", [is |-> "len"], N(100), FALSE), Relates("jgt", [is |-> "length"], N(100), FALSE)>>,
    <<IsHead("tcp", D, "port", IsValue(Digits("0x", <<5, 0>>))), IsHead("tcp", D, "port", Num(80))>>,
    <<IsHead(D, "dst", "port", IsValue(Digits("0", <<6, 5>>))), IsHead(D, "dst", "port", Num(53))>>,
    <<Equal(Arith2("and", Index("tcp", W("tcpflags"), "B"), Digits("0x", <<1, 2>>)), W("tcp-syn")),
      Equal(Arith2("and", Index("tcp", N(13), "B"), N(18)), N(2))>>,
    <<Equal(Index("icmp", W("icmptype"), "B"), W("icmp-echo")), Equal(Index("icmp", N(0), "B"), N(8))>>,
    <<Equal(Index("ether", N(0), "B"), N(1)), Equal(Index("link", N(0), "B"), N(1))>> }
Inbound(out) == Term1([is |-> "inbound", out |-> out])
StationFilters ==
  {IsHead("link", d, "host", MacOf(m)) : d \in {"addr1", "addr2", "addr3", "addr4", "ra", "ta"}, m \in {Mac(1), Mac(2), Mac(3), Mac(4)}}
  \cup LinkHosts \cup CoreFilters
  \cup {Equal(Index("link", N(4), "B"), N(0)), IsNot(Proto("ip")), Proto("isis")}
Named(n) == Term1([is |-> "wlan name", type |-> n[1], subtype |-> n[2]])
WlanTypes ==
  {Term1([is |-> "wlan type", v |-> 8, mask |-> 12]), Term1([is |-> "wlan type", v |-> 128, mask |-> 252]),
   Term1([is |-> "wlan dir", v |-> 2])}
  \cup {Named(n) : n \in {<<"data", "">>, <<"mgt", "beacon">>, <<"", "ack">>, <<"", "qos-data">>, <<"data", "data">>, <<"", "cf-ack">>, <<"ctl", "">>}}
Radio == {Equal(Index("radio", N(2), "B"), N(18))}
AtmFilters ==
  {Atm(t) : t \in DOMAIN MetaCells \cup {"lane", "llc"}} \cup {Term1([is |-> "atm cells", type |-> t]) : t \in {"oam", "oamf4", "connectmsg", "metaconnect"}}
  \cup {Field("atm field", "VPI", <<3>>, "jeq", FALSE), Field("atm field", "VCI", <<4, 40>>, "jeq", FALSE), Field("atm field", "VCI", <<5>>, "jge", TRUE)}
  \cup {Ands(Atm("lane"), e) : e \in {Proto("ip"), Host(A), Proto("ip6"), IsHead("link", "src", "host", MacOf(Mac(1))), Multicast(D)}}
  \cup {Proto("ip"), Port(80), Host(A)}
Ss7Filters ==
  {Term1([is |-> "mtp2", type |-> t]) : t \in {"fisu", "lssu", "msu"}}
  \cup {Field("mtp3", f[1], f[2], f[3], f[4]) :
          f \in {<<"sio", <<5, 131>>, "jeq", FALSE>>, <<"opc", <<5460>>, "jeq", FALSE>>, <<"sio", <<5>>, "jgt", TRUE>>,
                 <<"dpc", <<257>>, "jeq", FALSE>>, <<"sls", <<9>>, "jeq", FALSE>>, <<"sls", <<5>>, "jgt", FALSE>>}}

\* What has no meaning: on any link type, or on this one.
Senseless ==
  { Octets(A), Ors(Proto("ip"), Octets(A)), IsHead(D, D, "net", Prefixed(<<10, 1>>, 8)), IsHead(D, D, "host", Prefixed(<<10>>, 8)),
    IsHead("ip6", D, "host", Octets(A)), IsHead("ip", D, "host", Ip6(A6, 128)), IsHead(D, D, "host", Ip6(<<254, 128>> \o Zeros(14), 10)),
    IsHead(D, D, "port", Octets(A)), IsHead("ip", D, "port", Num(80)), IsHead(D, D, "port", Num(65536)),
    IsHead("udp", D, "port", Name(Http)), IsHead(D, D, "port", Name(Ace)), IsHead(D, D, "host", Name(Http)), IsHead(D, D, "net", Name(Http)),
    IsHead("link", D, "host", Octets(A)), IsHead("link", D, "host", Name(Http)), IsHead(D, D, "gateway", Octets(A)),
    IsHead("tcp", D, "proto", Num(6)), IsHead(D, "src", "proto", Num(6)), IsHead("arp", D, "protochain", Num(6)), IsHead(D, D, "proto", Name(Ace)),
    Term1([is |-> "ifname"]), Proto("radio"), Broadcast("arp"), Multicast("arp"), Term1([is |-> "pf"]), Atm("lane"), Inbound(TRUE),
    IsHead(D, D, "net", Prefixed(<<10>>, 33)), IsHead(D, D, "net", Ip6(A6, 10)), Ands(Mpls(NoNumber), Vlan(2)), Ands(Mpls(NoNumber), Proto("arp")),
    Equal(Index("radio", N(0), "B"), N(0)), Equal(Index("isis", N(0), "B"), N(0)), Equal(Index("ip", N(0), "X"), N(0)),
    Equal(Sum(16), N(17)), Equal(N(1), Sum(15)), Term1([is |-> "wlan type", v |-> 8, mask |-> 12]), Term1([is |-> "mtp2", type |-> "msu"]),
    Field("mtp3", "sio", <<256>>, "jeq", FALSE), IsHead("link", D, "host", IsValue([is |-> "aid", addr |-> <<1>>])) }

-----------------------------------------------------------------------------
(* Sessions *)

Item(dlt, e, valid) ==
  [dlt |-> dlt, netmask |-> <<255, 255, 255, 0>>, snaplen |-> 96, e |-> e, valid |-> valid, tokens |-> Tokens(e),
   chain |-> e = IsHead(D, D, "protochain", Num(17))]
Spelt(dlt, written, e) == [Item(dlt, e, TRUE) EXCEPT !.tokens = Tokens(written)]
All(dlt, filters) == {Item(dlt, e, TRUE) : e \in filters}
None(dlt, filters) == {Item(dlt, e, FALSE) : e \in filters}

CoreLinks ==
  LinkTypes \ (Juniper \cup NoTypes \cup {"FRELAY", "SLIP", "SLIP_BSDOS", "BACNET_MS_TP"})
OnCoreLinks == UNION {All(dlt, CoreFilters) : dlt \in CoreLinks}
OnEthernet == All("EN10MB", Keywords \cup Values \cup Kinds \cup Arithmetic \cup Compounds \cup Encapsulations \cup LinkHosts)
OnSpellings == {Spelt("EN10MB", s[1], s[2]) : s \in Spellable} \cup {Spelt("MTP2", Term1([is |-> "mtp2", type |-> "lsu"]), Term1([is |-> "mtp2", type |-> "lssu"]))}
OnOthers ==
  UNION {All(dlt, (LinkHosts \ {Multicast(D)}) \cup {Equal(Index("link", N(7), "B"), N(0))}) : dlt \in {"FDDI", "IEEE802", "IP_OVER_FC", "NETANALYZER"}}
  \cup UNION {All(dlt, {Proto("iso"), Proto("isis"), Proto("l1"), Proto("clnp"), Proto("ipx"), Proto("atalk")}) :
                dlt \in {"FDDI", "IEEE802", "ATM_RFC1483", "IP_OVER_FC", "IEEE802_11", "IEEE802_11_RADIO"}}
  \cup UNION {All(dlt, {Multicast(D)}) : dlt \in {"FDDI", "IEEE802", "IP_OVER_FC"}}
  \cup UNION {All(dlt, StationFilters) : dlt \in Wlan}
  \cup UNION {All(dlt, WlanTypes) : dlt \in Wlan \ {"PPI"}}
  \cup UNION {All(dlt, Radio) : dlt \in HasRadio}
  \cup All("SUNATM", AtmFilters)
  \cup UNION {All(dlt, Ss7Filters) : dlt \in Ss7Links}
  \cup UNION {All(dlt, {Inbound(out) : out \in BOOLEAN}) : dlt \in {"LINUX_SLL", "IPNET", "PPP_PPPD", "SLIP"} \cup Juniper}
  \cup All("LINUX_SLL", {Proto(k) : k \in DOMAIN LinkKeywords})
  \cup UNION {All(dlt, {Proto("ip"), Proto("ip6")}) : dlt \in {"FRELAY"}}
  \cup UNION {All(dlt, {Proto("iso"), Proto("atalk")}) : dlt \in {"PPP_SERIAL", "PPP_ETHER", "PPP_BSDOS"}}
  \cup UNION {All(dlt, {Mpls(NoNumber), Mpls(16), Ands(Mpls(16), Mpls(100000)), Ands(Mpls(NoNumber), Host(A))}) : dlt \in {"PPP", "C_HDLC"}}
  \cup All("C_HDLC", {Proto("iso"), Proto("esis"), Proto("clnp")})
  \cup UNION {All(dlt, {Broadcast("link"), Multicast(D), Proto("arp"), Proto("rarp")}
                       \cup {IsHead("link", d, "host", IsValue([is |-> "aid", addr |-> <<a>>])) : d \in {"src", "dst", D}, a \in {1, 2}}) :
                dlt \in {"ARCNET", "ARCNET_LINUX"}}
  \cup All("EN10MB", LenFilters \cup {[is |-> "all"]})
Refused ==
  None("EN10MB", Senseless)
  \cup UNION {None(dlt, {Proto("ip"), Host(A), Port(80)}) : dlt \in NoTypes}
  \cup UNION {None(dlt, {IsHead("link", D, "host", MacOf(Mac(1))), Broadcast(D), Multicast("link"), Vlan(2)}) : dlt \in {"RAW", "PPP", "SUNATM"}}
  \cup None("PPP_ETHER", {Mpls(16)})
  \cup None("IEEE802_11", {Named(<<"voice", "">>), Named(<<"ctl", "beacon">>), Named(<<"", "voice">>)})
  \cup None("ARCNET", {IsHead("link", D, "host", MacOf(Mac(1)))})
  \cup None("EN10MB", {IsHead("link", d, "host", MacOf(Mac(1))) : d \in {"ra", "addr1"}})
  \cup {Item("unknown", Proto("ip"), FALSE), [Item("EN10MB", Proto("ip"), FALSE) EXCEPT !.snaplen = 0],
        [Item("EN10MB", Proto("ip"), FALSE) EXCEPT !.netmask = PCAP_NETMASK_UNKNOWN, !.e = Broadcast("ip"), !.tokens = Tokens(Broadcast("ip"))]}
\* No rule of the grammar has these tokens.
BadSyntax ==
  {[Item("EN10MB", Proto("ip"), FALSE) EXCEPT !.tokens = t] :
     t \in { Tokens(Proto("ip")) \o Tokens(Proto("tcp")), <<[t |-> "not"]>>, <<[t |-> "and"]>>, Append(Tokens(Proto("ip")), [t |-> "or"]),
             <<[t |-> "illegal"]>>, <<[t |-> "paren"]>> \o Tokens(Proto("ip")), Append(Tokens(Host(A)), [t |-> "close"]),
             <<[t |-> "paren"], [t |-> "close"]>>, <<[t |-> "head", q |-> Q(D, "src", D)]>> }}

\* An expression that leaves other offsets, or has failed with registers in use, and what follows it.
Before ==
  All("EN10MB", {Ands(Mpls(NoNumber), Mpls(NoNumber)), Ands(Vlan(2), Vlan(3)), Pppoes, IsHead(D, D, "protochain", Num(17))})
  \cup All("SUNATM", {Atm("lane")}) \cup All("IEEE802_11_RADIO", {Proto("ip")}) \cup All("MTP2", {Term1([is |-> "mtp2", type |-> "msu"])})
  \cup None("EN10MB", {Equal(N(1), Sum(15)), Ands(Mpls(NoNumber), Proto("arp"))})
After1 ==
  All("EN10MB", {Host(A), Ands(Vlan(NoNumber), Port(80)), Mpls(100000), Equal(Sum(15), N(16)), IsHead("link", "src", "host", MacOf(Mac(1)))})
  \cup All("SUNATM", {Host(A)}) \cup All("PPP", {Ands(Mpls(16), Mpls(100000))}) \cup All("IEEE802_11", {Port(80)}) \cup None("EN10MB", {Atm("llc")})

SomeSessions ==
  {<<i>> : i \in OnCoreLinks \cup OnEthernet \cup OnSpellings \cup OnOthers \cup Refused \cup BadSyntax}
  \cup {<<i, j>> : i \in Before, j \in After1}
=============================================================================
