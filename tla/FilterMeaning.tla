---------------------------- MODULE FilterMeaning ----------------------------
(***************************************************************************)
(* What the manual, pcap-filter, says that an expression means, for the    *)
(* packets of a small world, and that the code that pcap_compile generates *)
(* means the same.  A packet is a record of what its headers say; Frame is *)
(* the sequence of bytes that the standards of its link type make of it.   *)
(*                                                                         *)
(* Not every expression has a meaning for every packet: after vlan, mpls   *)
(* or pppoes the rest is about what the tag, label or session encapsulates *)
(* and a packet without one has nothing of that kind.                      *)
(***************************************************************************)
EXTENDS FilterParser

CONSTANT Packets          \* the packets that are looked at: a set for every link type

-----------------------------------------------------------------------------
(* Frames *)

Two(n) == <<n \div 256, n % 256>>
Zeros(n) == [i \in 1 .. n |-> 0]
IsSap(type) == type <= ETHERMTU

\* What follows the header of the link layer.
TransportHeader(P) == Two(P.sport) \o Two(P.dport) \o Zeros(9) \o <<P.flags>> \o Zeros(16)
Ipv4(P) ==
  <<64 + P.ihl, 0, 0, 60, 0, 1>> \o Two(P.frag) \o <<64, P.upper, 0, 0>> \o P.src \o P.dst \o Zeros(4 * (P.ihl - 5))
Ipv6(P) ==
  <<96, 0, 0, 0, 0, 20, IF P.ext THEN IPPROTO_FRAGMENT ELSE P.upper, 64>> \o P.src \o P.dst
  \o (IF P.ext THEN <<P.upper>> \o Zeros(7) ELSE <<>>)
Arp(P) == <<0, 1, 8, 0, 6, 4, 0, 1>> \o P.msrc \o P.src \o P.mdst \o P.dst
\* A DECnet header: the addresses are little-endian, as is the length before them.
Decnet(P) == <<20, 0>> \o (IF P.long THEN <<6, 0, 0, 170, 0, 4, 0>> \o P.dst \o <<0, 0, 170, 0, 4, 0>> \o P.src
                           ELSE <<2>> \o P.dst \o P.src)
Iso(P) == <<P.nlpid, 27, 1, 0, P.pdu, 1, 0, 0>>
NetworkHeader(P) ==
  CASE P.type = ETHERTYPE_IP -> Ipv4(P)
    [] P.type = ETHERTYPE_IPV6 -> Ipv6(P)
    [] P.type \in {ETHERTYPE_ARP, ETHERTYPE_REVARP} -> Arp(P)
    [] P.type = ETHERTYPE_DN -> Decnet(P)
    [] P.type = LLCSAP_ISONS -> Iso(P)
    [] P.type \notin {ETHERTYPE_IP, ETHERTYPE_IPV6, ETHERTYPE_ARP, ETHERTYPE_REVARP, ETHERTYPE_DN, LLCSAP_ISONS} -> Zeros(8)

\* 802.2: the SAPs of the protocol, or those of SNAP, with an organisation and an Ethernet type.
Llc(type) ==
  IF IsSap(type) THEN <<type, type, 3>>
  ELSE <<170, 170, 3>> \o (IF type = ETHERTYPE_ATALK THEN <<8, 0, 7>> ELSE <<0, 0, 0>>) \o Two(type)
Labels(P) ==
  FlattenSeq([i \in DOMAIN P.labels |->
    <<P.labels[i] \div 4096, (P.labels[i] \div 16) % 256, (P.labels[i] % 16) * 16 + (IF i = Len(P.labels) THEN 1 ELSE 0), 64>>])
OuterType(P) ==
  IF P.labels # <<>> THEN ETHERTYPE_MPLS ELSE IF P.session THEN ETHERTYPE_PPPOES ELSE P.type
PppNumber(type) ==
  CASE type = ETHERTYPE_IP -> 33 [] type = ETHERTYPE_IPV6 -> 87 [] type = ETHERTYPE_ATALK -> 41
    [] type = LLCSAP_ISONS -> 35 [] type = ETHERTYPE_MPLS -> 641
    [] type \notin {ETHERTYPE_IP, ETHERTYPE_IPV6, ETHERTYPE_ATALK, LLCSAP_ISONS, ETHERTYPE_MPLS} -> type
Session(P) == IF P.session THEN <<17, 0, 0, 1, 0, 60>> \o Two(PppNumber(P.type)) ELSE <<>>

\* Ethernet: tags, then the type, or a length and an 802.2 header.
EthernetType(P) ==
  FlattenSeq([i \in DOMAIN P.tags |-> Two(ETHERTYPE_8021Q) \o Two(P.tags[i] + 8192)])
  \o (IF IsSap(OuterType(P)) \/ P.snap THEN Two(60) \o Llc(OuterType(P)) ELSE Two(OuterType(P)))
Ethernet(P) == P.mdst \o P.msrc \o EthernetType(P)

\* 802.11: whose the addresses are depends on the bits to and from the distribution system.
WlanAddresses(P) ==
  LET w == P.wlan
  IN  CASE w.kind = "ack" -> <<P.mdst>>
        [] w.kind = "mgmt" -> <<P.mdst, P.msrc, w.bss>>
        [] w.kind = "data" /\ ~w.to /\ ~w.from -> <<P.mdst, P.msrc, w.bss>>
        [] w.kind = "data" /\ ~w.to /\ w.from -> <<P.mdst, w.bss, P.msrc>>
        [] w.kind = "data" /\ w.to /\ ~w.from -> <<w.bss, P.msrc, P.mdst>>
        [] w.kind = "data" /\ w.to /\ w.from -> <<w.bss, w.peer, P.mdst, P.msrc>>
WlanHeader(dlt, P) ==
  LET w == P.wlan
      a == WlanAddresses(P)
      kind == CASE w.kind = "mgmt" -> 128 [] w.kind = "ack" -> 212 [] w.kind = "data" -> IF w.qos THEN 136 ELSE 8
      direction == (IF w.to THEN 1 ELSE 0) + (IF w.from THEN 2 ELSE 0)
      three == <<kind, direction, 0, 0>> \o a[1] \o (IF Len(a) > 1 THEN a[2] \o a[3] \o <<0, 0>> ELSE <<>>)
  IN  IF w.kind # "data" THEN three \o Zeros(2)
      ELSE three \o (IF Len(a) = 4 THEN a[4] ELSE <<>>) \o (IF w.qos THEN <<0, 0>> ELSE <<>>)
           \o (IF dlt = "IEEE802_11_RADIO" /\ w.padded /\ w.qos THEN <<0, 0>> ELSE <<>>)
WlanFrame(dlt, P) == WlanHeader(dlt, P) \o (IF P.wlan.kind = "data" THEN Llc(P.type) ELSE <<>>)
\* What a driver puts before it.  The radiotap header has a time stamp, or not, and flags; its
\* length is a multiple of four here, as rounding up adds it to that of the MAC header.
Prefix80211(dlt, P) ==
  CASE dlt = "IEEE802_11" -> <<>>
    [] dlt = "PRISM_HEADER" -> IF P.wlan.avs THEN <<128, 33, 16, 1, 0, 0, 0, 64>> \o Zeros(56) ELSE Zeros(144)
    [] dlt = "IEEE802_11_RADIO_AVS" -> <<128, 33, 16, 1, 0, 0, 0, 64>> \o Zeros(56)
    [] dlt = "IEEE802_11_RADIO" ->
         LET flags == IF P.wlan.padded THEN 32 ELSE 16
         IN  IF P.wlan.avs THEN <<0, 0, 20, 0, 3, 0, 0, 0>> \o Zeros(8) \o <<flags, 0, 0, 0>>
             ELSE <<0, 0, 12, 0, 2, 0, 0, 0, flags, 0, 0, 0>>
    [] dlt = "PPI" -> <<0, 0, 12, 0, 105, 0, 0, 0>> \o Zeros(4)

Family(type) == IF type = ETHERTYPE_IP THEN 2 ELSE IF type = ETHERTYPE_IPV6 THEN 10 ELSE 99
ArcnetType(type) ==
  CASE type = ETHERTYPE_IP -> 212 [] type = ETHERTYPE_ARP -> 213 [] type = ETHERTYPE_REVARP -> 214
    [] type = ETHERTYPE_IPV6 -> 196 [] type = ETHERTYPE_ATALK -> 221
    [] type \notin {ETHERTYPE_IP, ETHERTYPE_ARP, ETHERTYPE_REVARP, ETHERTYPE_IPV6, ETHERTYPE_ATALK} -> 1
Nlpid(P) ==
  CASE P.type = ETHERTYPE_IP -> 204 [] P.type = ETHERTYPE_IPV6 -> 142 [] P.type = LLCSAP_ISONS -> P.nlpid
    [] P.type \notin {ETHERTYPE_IP, ETHERTYPE_IPV6, LLCSAP_ISONS} -> 0
RoutingLabel(u) ==
  <<u.dpc % 256, u.dpc \div 256 + (u.opc % 4) * 64, (u.opc \div 4) % 256, u.opc \div 1024 + u.sls * 16>>
SignalUnit(u) == <<1, 1, u.li, u.sio>> \o RoutingLabel(u)

\* The bytes before the network header.
LinkHeader(dlt, P) ==
  CASE dlt = "EN10MB" -> Ethernet(P)
    [] dlt = "NETANALYZER" -> Zeros(4) \o Ethernet(P)
    [] dlt = "NETANALYZER_TRANSPARENT" -> Zeros(12) \o Ethernet(P)
    [] dlt = "FDDI" -> <<80>> \o P.mdst \o P.msrc \o Llc(P.type)
    [] dlt = "IEEE802" -> <<16, 64>> \o P.mdst \o P.msrc \o Llc(P.type)
    [] dlt = "IP_OVER_FC" -> <<16, 0>> \o P.mdst \o <<16, 0>> \o P.msrc \o Llc(P.type)
    [] dlt \in {"ATM_RFC1483", "ATM_CLIP"} -> Llc(P.type)
    [] dlt = "SUNATM" ->
         <<P.cell.proto, P.cell.vpi>> \o Two(P.cell.vci)
         \o (CASE P.cell.proto = 1 -> <<P.cell.control, 0>> \o Ethernet(P)
               [] P.cell.proto = 2 -> Llc(P.type)
               [] P.cell.proto = 6 -> <<9, 3, 0, 0, 1, P.cell.msg>>)
    [] dlt \in Wlan -> Prefix80211(dlt, P) \o WlanFrame(dlt, P)
    [] dlt = "LINUX_SLL" ->
         Two(P.side) \o <<0, 1, 0, 6>> \o P.msrc \o <<0, 0>>
         \o (IF IsSap(P.type) \/ P.snap THEN Two(4) \o Llc(P.type) ELSE Two(P.type))
    [] dlt \in {"RAW", "IPV4", "IPV6", "LTALK"} -> <<>>
    [] dlt = "NULL" -> <<Family(P.type), 0, 0, 0>>
    [] dlt = "LOOP" -> <<0, 0, 0, Family(P.type)>>
    [] dlt = "ENC" -> <<Family(P.type), 0, 0, 0>> \o Zeros(8)
    [] dlt \in {"PPP", "PPP_SERIAL"} -> <<255, 3>> \o Two(PppNumber(OuterType(P)))
    [] dlt = "PPP_PPPD" -> <<P.side % 2, 3>> \o Two(PppNumber(P.type))
    [] dlt = "PPP_ETHER" -> <<17, 0, 0, 1, 0, 60>> \o Two(PppNumber(P.type))
    [] dlt = "PPP_BSDOS" -> Zeros(5) \o Two(PppNumber(P.type)) \o Zeros(17)
    [] dlt = "C_HDLC" -> <<15, 0>> \o (IF IsSap(P.type) THEN <<P.type, P.type, 3>> ELSE Two(OuterType(P)))
    [] dlt = "FRELAY" -> <<24, 65, 3, Nlpid(P)>>
    [] dlt = "ARCNET" -> P.asrc \o P.adst \o <<ArcnetType(P.type), 0, 0, 1>>
    [] dlt = "ARCNET_LINUX" -> P.asrc \o P.adst \o <<0, 0, ArcnetType(P.type), 0, 0, 1>>
    [] dlt = "APPLE_IP_OVER_IEEE1394" -> Zeros(16) \o Two(P.type)
    [] dlt = "SYMANTEC_FIREWALL" -> Zeros(6) \o Two(P.type) \o Zeros(36)
    [] dlt = "IPNET" -> <<1, IF P.type = ETHERTYPE_IP THEN 2 ELSE 26>> \o Two(IF P.side = 1 THEN 1 ELSE 2) \o Zeros(20)
    [] dlt = "SLIP" -> <<P.side % 2>> \o Zeros(15)
    [] dlt \in Juniper -> <<77, 71, 67, P.side % 2>> \o Zeros(20)
    [] dlt = "MTP2" -> SignalUnit(P.unit)
    [] dlt = "MTP2_WITH_PHDR" -> Zeros(4) \o SignalUnit(P.unit)
    [] dlt = "ERF" -> Zeros(20) \o SignalUnit(P.unit)
    [] dlt \in {"MFR", "PFSYNC", "AX25_KISS"} \cup RawOnly -> Zeros(4)

\* The bytes, and where the headers of the layers begin.
LinkStart(dlt, P) == IF dlt \in Wlan THEN Len(Prefix80211(dlt, P)) ELSE 0
NetStart(dlt, P) ==
  Len(LinkHeader(dlt, P)) + Len(Labels(P)) + (IF P.session THEN 8 ELSE 0)
Frame(dlt, P) ==
  LET net == NetworkHeader(P)
      from == NetStart(dlt, P)
  IN  [bytes |-> LinkHeader(dlt, P) \o Labels(P) \o Session(P) \o net \o TransportHeader(P) \o Zeros(40),
       link |-> LinkStart(dlt, P), net |-> from, transport |-> from + Len(net)]
Framed == [dlt \in LinkTypes |-> {P @@ ("frame" :> Frame(dlt, P)) : P \in Packets[dlt]}]

-----------------------------------------------------------------------------
(* Three values: an expression may have no meaning for a packet. *)

Is(b) == IF b THEN "yes" ELSE "no"
Negated(m) == CASE m = "yes" -> "no" [] m = "no" -> "yes" [] m = "unknown" -> m
\* As the operators are defined: what decides is enough.
Also(m, n) == IF "no" \in {m, n} THEN "no" ELSE IF "unknown" \in {m, n} THEN "unknown" ELSE "yes"
Otherwise(m, n) == Negated(Also(Negated(m), Negated(n)))
AnyMeaning(s) == FoldLeft(Otherwise, "no", s)

\* How far the tags, the labels and the session have been passed.
Outermost == [tags |-> 0, labels |-> 0, session |-> FALSE, lane |-> FALSE]
Passed(in, P) ==
  in.tags >= Len(P.tags) /\ in.labels >= Len(P.labels) /\ (P.session => in.session)
Beyond(in, P) ==
  in.tags > Len(P.tags) \/ in.labels > Len(P.labels) \/ (in.session /\ ~P.session)
Encapsulates(in, P, types) ==
  IF Beyond(in, P) THEN "unknown" ELSE Is(Passed(in, P) /\ P.type \in types)

\* Only data frames of 802.11 and, of ATM, only LLC cells or those of an emulated LAN carry
\* anything.  The code takes frames between access points for frames with three addresses.
InFrame(dlt, P) ==
  IF dlt \in Wlan /\ P.wlan.kind = "data" /\ P.wlan.to /\ P.wlan.from THEN "unknown"
  ELSE Is(dlt \in Wlan => P.wlan.kind = "data")
InLane(P) == IF P.cell.proto = 1 THEN Is(P.cell.control # 255) ELSE "unknown"
Carries(dlt, in, P, types) ==
  AnyMeaning(<<"no">>
             \o IF dlt = "SUNATM" /\ ~in.lane /\ P.cell.proto # 2 THEN <<>>
                ELSE <<Also(IF in.lane THEN InLane(P) ELSE InFrame(dlt, P),
                           Encapsulates(in, P, types))>>)

-----------------------------------------------------------------------------
(* Values *)

EitherEnd(dir, src, dst) ==
  CASE dir = "src" -> Is(src) [] dir = "dst" -> Is(dst)
    [] dir = "and" -> Is(src /\ dst) [] dir \in {"or", "default"} -> Is(src \/ dst)
    [] dir \notin {"src", "dst", "and", "or", "default"} -> "unknown"

\* The addresses that a value stands for, with their masks.
AddressesOf(v) ==
  CASE v.is = "octets" -> {<<Padded(v.octets), PrefixMask(4, 8 * Len(v.octets))>>}
    [] v.is = "masked" -> {<<Padded(v.octets), v.mask>>}
    [] v.is = "prefix" -> {<<Padded(v.octets), PrefixMask(4, v.masklen)>>}
    [] v.is = "num" -> {<<Quad(v.v), Ones(4)>>}
    [] v.is = "ip6" -> {<<v.addr, PrefixMask(16, v.masklen)>>}
    [] v.is = "name" -> {<<a, Ones(Len(a))>> : a \in ToSet(v.hosts)}
NetsOf(v) ==
  CASE v.is = "name" -> {<<Padded(v.net), PrefixMask(4, 8 * Len(v.net))>>}
    [] v.is = "num" -> LET n == Raised(Quad(v.v)) IN {<<Padded(n), PrefixMask(4, 8 * Len(n))>>}
    [] v.is \notin {"name", "num"} -> AddressesOf(v)
TypesWith(proto, addr) ==
  CASE proto = "default" -> IF Len(addr) = 4 THEN {ETHERTYPE_IP, ETHERTYPE_ARP, ETHERTYPE_REVARP} ELSE {ETHERTYPE_IPV6}
    [] proto = "ip" -> {ETHERTYPE_IP} [] proto = "arp" -> {ETHERTYPE_ARP}
    [] proto = "rarp" -> {ETHERTYPE_REVARP} [] proto = "ip6" -> {ETHERTYPE_IPV6}
InAddress(end, a) == Masked(end, a[2]) = a[1]
HostMeaning(dlt, in, P, q, addresses) ==
  AnyMeaning(SetToSeq({Also(Carries(dlt, in, P, TypesWith(q.proto, a[1])),
                           EitherEnd(q.dir, Len(P.src) = Len(a[1]) /\ InAddress(P.src, a),
                                     Len(P.dst) = Len(a[1]) /\ InAddress(P.dst, a)))
                       : a \in {b \in addresses : ~(q.proto = "ip" /\ Len(b[1]) = 16) /\ ~(q.proto = "ip6" /\ Len(b[1]) = 4)}}))
StationMeaning(dlt, in, P, dir, mac) ==
  IF dlt \in Wlan
  THEN LET a == WlanAddresses(P)
           Nth(n) == Is(Len(a) >= n /\ a[n] = mac)
       IN  CASE dir = "addr1" -> Nth(1) [] dir = "addr2" -> Nth(2) [] dir = "addr3" -> Nth(3) [] dir = "addr4" -> Nth(4)
             [] dir = "ra" -> IF P.wlan.kind = "mgmt" THEN "no" ELSE IF P.wlan.kind = "ack" THEN "unknown" ELSE Nth(1)
             [] dir = "ta" -> IF P.wlan.kind = "mgmt" THEN "no" ELSE Nth(2)
             [] dir \in TwoEnds -> Also(Is(P.wlan.kind # "ack"), EitherEnd(dir, P.msrc = mac, P.mdst = mac))
  ELSE Also(IF in.lane THEN InLane(P) ELSE "yes", EitherEnd(dir, P.msrc = mac, P.mdst = mac))

\* Ports are in the first fragment of a datagram; an extension header hides what follows it.
HasPorts == {IPPROTO_TCP, IPPROTO_UDP, IPPROTO_SCTP}
PortMeaning(dlt, in, P, protocols, dir, low, high) ==
  LET In(port) == low <= port /\ port <= high
      first == IF P.type = ETHERTYPE_IPV6 THEN IF P.ext THEN "unknown" ELSE "yes" ELSE Is(P.frag = 0)
  IN  Also(Carries(dlt, in, P, {ETHERTYPE_IP, ETHERTYPE_IPV6}),
          Also(Is(P.upper \in protocols), Also(EitherEnd(dir, In(P.sport), In(P.dport)), first)))
Protocols(q, named) == IF q.proto = "default" THEN named ELSE {PortQualifiers[q.proto]}
\* The protocols for which a service has the port that its name stands for.
ServiceProtocols(n) ==
  IF n.tcp = n.udp THEN HasPorts ELSE IF n.tcp = Unset THEN {IPPROTO_UDP} ELSE {IPPROTO_TCP}
RangeProtocols(n) == IF ServiceProtocols(n) = ServiceProtocols(n.last) THEN ServiceProtocols(n) ELSE HasPorts
ServicePort(n) == IF n.tcp = Unset THEN n.udp ELSE n.tcp

\* IPX has an Ethernet type besides its service access point.
TypesOf(v) == {v} \cup (IF v = LLCSAP_IPX THEN {ETHERTYPE_IPX} ELSE {})
ProtoMeaning(dlt, in, P, proto, v) ==
  CASE proto = "ip" -> Also(Carries(dlt, in, P, {ETHERTYPE_IP}), Is(P.upper = v))
    [] proto = "ip6" -> Also(Carries(dlt, in, P, {ETHERTYPE_IPV6}), Is(P.upper = v))
    [] proto = "default" -> Also(Carries(dlt, in, P, {ETHERTYPE_IP, ETHERTYPE_IPV6}), Is(P.upper = v))
    [] proto = "link" -> Carries(dlt, in, P, TypesOf(v))
    [] proto = "iso" -> Also(Carries(dlt, in, P, {LLCSAP_ISONS}), Is(P.nlpid = v))
    [] proto = "isis" -> Also(Carries(dlt, in, P, {LLCSAP_ISONS}), Is(P.nlpid = ISO10589_ISIS /\ P.pdu = v))
NumberOf(v, proto) ==
  CASE v.is = "num" -> v.v [] v.is = "name" /\ proto = "link" -> v.etherproto
    [] v.is = "name" /\ proto # "link" -> lookup_proto(v, proto)

ValueMeaning(dlt, in, P, v, q) ==
  CASE v.is = "mac" -> StationMeaning(dlt, in, P, q.dir, v.addr)
    [] v.is = "aid" -> EitherEnd(q.dir, P.asrc = v.addr, P.adst = v.addr)
    [] v.is \notin {"mac", "aid"} /\ q.addr \in {"default", "host", "net"} /\ q.proto = "decnet" ->
         Also(Carries(dlt, in, P, {ETHERTYPE_DN}),
             LET node == IF v.is = "num" THEN v.v ELSE v.octets[1] * 1024 + v.octets[2]
                 At(a) == a[1] + 256 * a[2] = node
             IN  EitherEnd(q.dir, P.type = ETHERTYPE_DN /\ At(P.src), P.type = ETHERTYPE_DN /\ At(P.dst)))
    [] v.is = "name" /\ q.proto = "link" /\ q.addr \in {"default", "host"} -> StationMeaning(dlt, in, P, q.dir, v.ether)
    [] v.is \notin {"mac", "aid"} /\ q.addr \in {"default", "host"} /\ q.proto \notin {"decnet", "link"} ->
         HostMeaning(dlt, in, P, q, AddressesOf(v))
    [] q.addr = "net" /\ q.proto # "decnet" -> HostMeaning(dlt, in, P, q, NetsOf(v))
    [] q.addr = "port" /\ v.is = "name" ->
         PortMeaning(dlt, in, P, Protocols(q, ServiceProtocols(v)), q.dir, ServicePort(v), ServicePort(v))
    [] q.addr = "portrange" /\ v.is = "name" ->
         PortMeaning(dlt, in, P, Protocols(q, RangeProtocols(v)), q.dir, ServicePort(v), ServicePort(v.last))
    [] q.addr \in {"port", "portrange"} /\ v.is = "num" -> PortMeaning(dlt, in, P, Protocols(q, HasPorts), q.dir, v.v, v.v)
    [] q.addr = "proto" -> ProtoMeaning(dlt, in, P, q.proto, NumberOf(v, q.proto))
    [] q.addr = "protochain" ->
         LET types == CASE q.proto = "ip" -> {ETHERTYPE_IP} [] q.proto = "ip6" -> {ETHERTYPE_IPV6}
                        [] q.proto = "default" -> {ETHERTYPE_IP, ETHERTYPE_IPV6}
         IN  Also(Carries(dlt, in, P, types),
                 Is(NumberOf(v, q.proto) \in {P.upper} \cup (IF P.ext /\ P.type = ETHERTYPE_IPV6 THEN {IPPROTO_FRAGMENT} ELSE {})))

-----------------------------------------------------------------------------
(* Terms *)

IpVersions(proto) ==
  CASE proto \in DOMAIN BothVersions -> {ETHERTYPE_IP, ETHERTYPE_IPV6}
    [] proto \in DOMAIN OneVersion -> {ETHERTYPE_IP} [] proto = "icmp6" -> {ETHERTYPE_IPV6}
Number(proto) ==
  CASE proto \in DOMAIN BothVersions -> BothVersions[proto]
    [] proto \in DOMAIN OneVersion -> OneVersion[proto] [] proto = "icmp6" -> IPPROTO_ICMPV6
KeywordMeaning(dlt, in, P, proto) ==
  CASE proto \in DOMAIN LinkKeywords -> Carries(dlt, in, P, TypesOf(LinkKeywords[proto]))
    [] proto \in DOMAIN BothVersions \cup DOMAIN OneVersion \cup {"icmp6"} ->
         Also(Carries(dlt, in, P, IpVersions(proto)), Is(P.upper = Number(proto)))
    [] proto \in DOMAIN IsoKeywords -> ProtoMeaning(dlt, in, P, "iso", IsoKeywords[proto])
    [] proto \in DOMAIN IsisKeywords ->
         AnyMeaning([i \in DOMAIN IsisKeywords[proto] |-> ProtoMeaning(dlt, in, P, "isis", IsisKeywords[proto][i])])

\* The value of an arithmetic expression; <<>> when the packet does not have what it asks for.
RECURSIVE Number4(_, _, _, _)
Number4(dlt, in, P, a) ==
  CASE a.is = "num" -> <<a.v>>
    [] a.is = "length" -> <<Len(P.frame.bytes)>>
    [] a.is = "neg" -> MapSome(Number4(dlt, in, P, a.of), LAMBDA v : <<-v>>)
    [] a.is = "arth" ->
         MapSome(Number4(dlt, in, P, a.a0), LAMBDA v : MapSome(Number4(dlt, in, P, a.a1), LAMBDA w : Operate(a.op, v, w)))
    [] a.is = "index" ->
         LET F == P.frame
             there == CASE a.proto = "link" -> "yes"
                        [] a.proto = "radio" -> "yes"
                        [] a.proto \notin {"link", "radio"} -> KeywordMeaning(dlt, in, P, a.proto)
             \* "but the TCP header of an IPv6 packet is not found"
             four == a.proto \in Transport => P.type = ETHERTYPE_IP /\ P.frag = 0
             from == CASE a.proto = "link" -> F.link [] a.proto = "radio" -> 0
                       [] a.proto \in Transport -> F.transport
                       [] a.proto \notin Transport \cup {"link", "radio"} -> F.net
         IN  IF there # "yes" \/ ~four THEN <<>>
             ELSE MapSome(Number4(dlt, in, P, a.at), LAMBDA i :
                    MapSome(Bytes(F.bytes, from + i, Size(a.size)), LAMBDA b : <<WordOf(b)>>))
RelationMeaning(dlt, in, P, t) ==
  LET v == Number4(dlt, in, P, t.a0)
      w == Number4(dlt, in, P, t.a1)
  IN  IF v = <<>> \/ w = <<>> THEN "no" ELSE Is(Compare(t.code, v[1], w[1]) # t.reversed)

FieldMeaning(t, of) ==
  AnyMeaning([i \in DOMAIN t.v |-> Is(Compare(t.code, of, t.v[i]) # t.reversed)])
CellField(cell, field) ==
  CASE field = "VPI" -> cell.vpi [] field = "VCI" -> cell.vci
Cells ==
  [metac |-> {1}, bcc |-> {2}, oamf4sc |-> {3}, oamf4ec |-> {4}, sc |-> {5}, ilmic |-> {16}, oam |-> {3, 4}, oamf4 |-> {3, 4}]
CellMeaning(P, type) ==
  CASE type \in DOMAIN Cells -> Is(P.cell.vpi = 0 /\ P.cell.vci \in Cells[type])
    [] type = "lane" -> Is(P.cell.proto = 1)
    [] type = "llc" -> Is(P.cell.proto = 2)
    [] type = "connectmsg" ->
         Also(Is(P.cell.vpi = 0 /\ P.cell.vci = 5), IF P.cell.proto = 6 THEN Is(P.cell.msg \in {2, 5, 7, 15, 77, 90}) ELSE "unknown")
    [] type = "metaconnect" ->
         Also(Is(P.cell.vpi = 0 /\ P.cell.vci = 1), IF P.cell.proto = 6 THEN Is(P.cell.msg \in {2, 5, 7, 77, 90}) ELSE "unknown")

MulticastMeaning(dlt, in, P, proto) ==
  CASE proto = "ip" -> Also(Carries(dlt, in, P, {ETHERTYPE_IP}), Is(P.dst[1] >= 224))
    [] proto = "ip6" -> Also(Carries(dlt, in, P, {ETHERTYPE_IPV6}), Is(P.dst[1] = 255))
    [] proto \in {"default", "link"} /\ dlt \in {"ARCNET", "ARCNET_LINUX"} -> Is(P.adst = <<0>>)
    [] proto \in {"default", "link"} /\ dlt \notin {"ARCNET", "ARCNET_LINUX"} ->
         Also(Is(dlt \notin Wlan \/ P.wlan.kind # "ack"),
             Also(IF in.lane THEN InLane(P) ELSE "yes", Is(P.mdst[1] % 2 = 1)))
\* A host part of all zeros or all ones.
BroadcastMeaning(dlt, in, P, proto, netmask) ==
  CASE proto = "ip" ->
         LET host == Masked(P.dst, [i \in 1 .. 4 |-> 255 - netmask[i]])
         IN  Also(Carries(dlt, in, P, {ETHERTYPE_IP}),
                 Is(P.type = ETHERTYPE_IP /\ host \in {Zeros(4), [i \in 1 .. 4 |-> 255 - netmask[i]]}))
    [] proto \in {"default", "link"} ->
         IF dlt \in {"ARCNET", "ARCNET_LINUX"} THEN Is(P.adst = <<0>>) ELSE StationMeaning(dlt, in, P, "dst", Ones(6))

\* Sent by the machine that captures.
Outgoing(dlt, P) ==
  CASE dlt = "LINUX_SLL" -> P.side = 4 [] dlt = "IPNET" -> P.side = 1
    [] dlt \in {"PPP_PPPD", "SLIP"} -> P.side % 2 = 1 [] dlt \in Juniper -> P.side % 2 = 0

\* A keyword for what encapsulates the rest: is it there, and what is passed after it.
TagMeaning(in, P, v) ==
  IF in.tags > Len(P.tags) THEN "unknown"
  ELSE Is(in.tags < Len(P.tags) /\ v \in {NoNumber, P.tags[in.tags + 1]})
LabelMeaning(in, P, v) ==
  IF in.tags > Len(P.tags) \/ in.labels > Len(P.labels) THEN "unknown"
  ELSE Is(in.tags = Len(P.tags) /\ in.labels < Len(P.labels) /\ v \in {NoNumber, P.labels[in.labels + 1]})
Meant(m, in) == [m |-> m, in |-> in]
TermMeaning(dlt, netmask, in, P, t) ==
  LET F == P.frame
      Same(m) == Meant(m, in)
  IN  CASE t.is = "proto" -> Same(KeywordMeaning(dlt, in, P, t.proto))
        [] t.is = "relation" -> Same(RelationMeaning(dlt, in, P, t))
        [] t.is = "broadcast" -> Same(BroadcastMeaning(dlt, in, P, t.proto, netmask))
        [] t.is = "multicast" -> Same(MulticastMeaning(dlt, in, P, t.proto))
        [] t.is = "less" -> Same(Is(Len(F.bytes) <= t.v))
        [] t.is = "greater" -> Same(Is(Len(F.bytes) >= t.v))
        [] t.is = "byte" ->
             LET b == F.bytes[F.link + t.at + 1]
             IN  Same(Is(CASE t.op = "=" -> b = t.v [] t.op = "<" -> b < t.v [] t.op = ">" -> b > t.v))
        [] t.is = "inbound" -> Same(Is(Outgoing(dlt, P) = t.out))
        [] t.is = "vlan" -> Meant(TagMeaning(in, P, t.v), [in EXCEPT !.tags = @ + 1])
        [] t.is = "mpls" -> Meant(LabelMeaning(in, P, t.v), [in EXCEPT !.labels = @ + 1])
        [] t.is = "pppoed" -> Same(Carries(dlt, in, P, {ETHERTYPE_PPPOED}))
        [] t.is = "pppoes" ->
             Meant(IF in.tags > Len(P.tags) THEN "unknown" ELSE Is(in.tags = Len(P.tags) /\ P.session),
                   [in EXCEPT !.session = TRUE])
        [] t.is = "wlan name" ->
             LET w == P.wlan
                 kind == CASE w.kind = "mgmt" -> <<"mgt", "beacon">> [] w.kind = "ack" -> <<"ctl", "ack">>
                           [] w.kind = "data" -> <<"data", IF w.qos THEN "qos-data" ELSE "data">>
             IN  Same(Is(t.type \in {"", kind[1]} /\ t.subtype \in {"", kind[2]}))
        [] t.is = "wlan type" -> Same(Is(F.bytes[F.link + 1] & t.mask = t.v))
        [] t.is = "wlan dir" -> Same(Is(F.bytes[F.link + 2] & 3 = t.v))
        [] t.is = "atm" -> Meant(CellMeaning(P, t.type), [in EXCEPT !.lane = @ \/ t.type = "lane"])
        [] t.is = "atm cells" -> Same(CellMeaning(P, t.type))
        [] t.is = "atm field" -> Same(FieldMeaning(t, CellField(P.cell, t.field)))
        [] t.is = "mtp2" ->
             Same(Is(P.unit.li \in CASE t.type = "fisu" -> {0} [] t.type = "lssu" -> {1, 2} [] t.type = "msu" -> 3 .. 63))
        [] t.is = "mtp3" -> Same(FieldMeaning(t, P.unit[t.field]))

-----------------------------------------------------------------------------
(* Expressions: m is what one means, q the qualifiers of its last value    *)
(* and in what has been passed after it.                                   *)

RECURSIVE Meaning(_, _, _, _, _, _)
Meaning(dlt, netmask, P, e, q, in) ==
  CASE e.is = "all" -> [m |-> "yes", q |-> q, in |-> in]
    [] e.is = "value" -> [m |-> ValueMeaning(dlt, in, P, e.v, q), q |-> q, in |-> in]
    [] e.is = "head" -> Meaning(dlt, netmask, P, e.of, e.q, in)
    [] e.is = "term" -> LET t == TermMeaning(dlt, netmask, in, P, e.term) IN [m |-> t.m, q |-> qerr, in |-> t.in]
    [] e.is = "not" -> LET n == Meaning(dlt, netmask, P, e.of, q, in) IN [n EXCEPT !.m = Negated(n.m)]
    [] e.is = "paren" -> Meaning(dlt, netmask, P, e.of, q, in)
    [] e.is \in {"and", "or"} ->
         LET left == Meaning(dlt, netmask, P, e.left, q, in)
             right == Meaning(dlt, netmask, P, e.right, left.q, left.in)
         IN  [right EXCEPT !.m = IF e.is = "and" THEN Also(left.m, right.m) ELSE Otherwise(left.m, right.m)]

RECURSIVE Tokens(_)
Tokens(e) ==
  CASE e.is = "all" -> <<>>
    [] e.is = "value" -> <<[t |-> "value", v |-> e.v]>>
    [] e.is = "head" -> <<[t |-> "head", q |-> e.q]>> \o Tokens(e.of)
    [] e.is = "term" -> <<[t |-> "term"] @@ e.term>>
    [] e.is = "not" -> <<[t |-> "not"]>> \o Tokens(e.of)
    [] e.is = "paren" -> <<[t |-> "paren"]>> \o Tokens(e.of) \o <<[t |-> "close"]>>
    [] e.is \in {"and", "or", "&&", "||"} -> Tokens(e.left) \o <<[t |-> e.is]>> \o Tokens(e.right)

-----------------------------------------------------------------------------
(* What compiling promises *)

\* The filter accepts the packets that the manual says the expression means, whatever was
\* compiled before it and left in the static variables (pcap_compile, gencode.c:415).
SameMeaning ==
  phase = "done" =>
    \A P \in Framed[filter.dlt] :
      Meaning(filter.dlt, filter.netmask, P, filter.e, qerr, Outermost).m
        \in {"unknown", Is(Accepts(filter.dlt, root, P.frame.bytes))}

\* An expression that means something on its link type is compiled, and any other is refused,
\* by an error and never by the end of the process (abort).
Judged ==
  /\ phase # "aborted"
  /\ phase = "done" => filter.valid
  /\ phase = "failed" => ~filter.valid

\* An expression that has been compiled has returned the registers of its arithmetic
\* (regused, gencode.c:7061), except a protochain of no IP version.
RegistersReturned ==
  phase = "done" /\ ~filter.chain => regs.used = {}

\* Every variable keeps its type; a register that is handed out is a word of the memory.
TypeOK ==
  /\ session \in Sessions /\ compiled \in 0 .. Len(session)
  /\ phase \in {"idle", "parsing", "done", "failed", "aborted"}
  /\ regs.used \subseteq 0 .. BPF_MEMWORDS - 1 /\ regs.curreg \in 0 .. BPF_MEMWORDS - 1
  /\ layout.label_stack_depth \in Int /\ IsCode(root)

\* The registers of all the compilations of a session are in the memory, and come back.
RegistersFit == TypeOK /\ RegistersReturned
=============================================================================
