---------------------------- MODULE FilterAddress ----------------------------
(***************************************************************************)
(* The tests of addresses, protocols and ports, in gencode.c.  An address  *)
(* is a sequence of 4, 16 or 6 bytes, as is its mask.                      *)
(***************************************************************************)
EXTENDS FilterLink

IPPROTO_ICMP == 1
IPPROTO_IGMP == 2
IPPROTO_TCP == 6
IPPROTO_IGRP == 9
IPPROTO_UDP == 17
IPPROTO_FRAGMENT == 44
IPPROTO_ESP == 50
IPPROTO_AH == 51
IPPROTO_ICMPV6 == 58
IPPROTO_PIM == 103
IPPROTO_VRRP == 112
IPPROTO_SCTP == 132
PROTO_UNDEF == -1
Ones(n) == [i \in 1 .. n |-> 255]
PrefixMask(n, bits) ==
  [i \in 1 .. n |-> IF bits >= 8 * i THEN 255 ELSE IF bits <= 8 * (i - 1) THEN 0 ELSE 256 - 2 ^ (8 * i - bits)]

\* The source, the destination, either, or both.
Ends(dir, src, dst) ==
  CASE dir = "src" -> src [] dir = "dst" -> dst
    [] dir = "and" -> gen_and(src, dst) [] dir \in {"or", "default"} -> gen_or(src, dst)
TwoEnds == {"src", "dst", "and", "or", "default"}

-----------------------------------------------------------------------------
(* Addresses of the network layer *)

gen_hostop(L, addr, mask, dir, proto, src_off, dst_off) ==
  LET Tested(offset) ==
        gen_and(LinkType(proto), gen_mcmp(L, "OR_NET", offset, "W", WordOf(addr), mask))
  IN  IF dir \in TwoEnds THEN Ends(dir, Tested(src_off), Tested(dst_off)) ELSE abort

gen_hostop6(L, addr, mask, dir, proto, src_off, dst_off) ==
  LET Word(s, i) == SubSeq(s, 4 * i - 3, 4 * i)
      Tested(offset) ==
        gen_and(LinkType(proto),
                AllOf([i \in 1 .. 4 |-> gen_mcmp(L, "OR_NET", offset + 4 * i - 4, "W", WordOf(Word(addr, i)), Word(mask, i))]))
  IN  IF dir \in TwoEnds THEN Ends(dir, Tested(src_off), Tested(dst_off)) ELSE abort

\* DECnet: the flags tell a long header from a short one, with or without a byte of padding.
Swapped(v) == (v % 256) * 256 + v \div 256
gen_dnhostop(L, addr, dir) ==
  LET Is(offset) == gen_cmp(L, "OR_NET", offset, "H", Swapped(addr))
      Tested(lh, sh) ==
        gen_and(LinkType(ETHERTYPE_DN), AnyOf(<<gen_and(gen_mcmp(L, "OR_NET", 2, "B", 2, <<7>>), Is(2 + sh)),
                gen_and(gen_mcmp(L, "OR_NET", 2, "H", Swapped(641), <<255, 7>>), Is(3 + sh)),
                gen_and(gen_mcmp(L, "OR_NET", 2, "B", 6, <<7>>), Is(2 + lh)),
                gen_and(gen_mcmp(L, "OR_NET", 2, "H", Swapped(1665), <<255, 7>>), Is(3 + lh))>>))
  IN  IF dir \in TwoEnds THEN Ends(dir, Tested(15, 3), Tested(7, 1)) ELSE abort

\* A host of no protocol in particular is one of IPv4, of ARP or of RARP; behind a label there
\* is but IP.  A DECnet address is a number, of an area and a node.
HostTypes ==
  ("ip" :> <<ETHERTYPE_IP>>) @@ ("arp" :> <<ETHERTYPE_ARP>>) @@ ("rarp" :> <<ETHERTYPE_REVARP>>)
  @@ ("default" :> <<ETHERTYPE_IP, ETHERTYPE_ARP, ETHERTYPE_REVARP>>)
AnyHostOf(L, addr, mask, dir, types) ==
  AnyOf([i \in DOMAIN types |-> LET ip == types[i] = ETHERTYPE_IP
                                IN  gen_hostop(L, addr, mask, dir, types[i], IF ip THEN 12 ELSE 14, IF ip THEN 16 ELSE 24)])
gen_host(L, addr, mask, proto, dir) ==
  CASE proto \in DOMAIN HostTypes ->
         AnyHostOf(L, addr, mask, dir, IF proto = "default" /\ L.label_stack_depth > 0 THEN <<ETHERTYPE_IP>> ELSE HostTypes[proto])
    [] proto = "decnet" -> gen_dnhostop(L, addr, dir)
    [] proto \notin DOMAIN HostTypes \cup {"decnet"} -> bpf_error
gen_host6(L, addr, mask, proto, dir) ==
  IF proto \in {"default", "ip6"} THEN gen_hostop6(L, addr, mask, dir, ETHERTYPE_IPV6, 8, 24) ELSE bpf_error

-----------------------------------------------------------------------------
(* Addresses of the link layer *)

EthernetEnds(L, addr, dir, src_off, dst_off) ==
  IF dir \in TwoEnds
  THEN Ends(dir, gen_bcmp(L, "OR_LINK", src_off, addr), gen_bcmp(L, "OR_LINK", dst_off, addr))
  ELSE bpf_error
gen_ehostop(L, eaddr, dir) == EthernetEnds(L, eaddr, dir, L.off_mac + 6, L.off_mac)
gen_fhostop(L, eaddr, dir) == EthernetEnds(L, eaddr, dir, 7, 1)
gen_thostop(L, eaddr, dir) == EthernetEnds(L, eaddr, dir, 8, 2)
gen_ipfchostop(L, eaddr, dir) == EthernetEnds(L, eaddr, dir, 10, 2)
gen_ahostop(L, eaddr, dir) == EthernetEnds(L, eaddr, dir, 0, 1)

\* The first byte of the frame control: no management frame is a data frame (8), no control
\* frame has more than a receiver (4).  The second: to (1) and from (2) the distribution system.
NotControl(L) == gen_not(gen_bit(L, 0, 4))
IfBit(L, offset, bit, yes, no) ==
  gen_or(gen_and(gen_not(gen_bit(L, offset, bit)), no), gen_and(gen_bit(L, offset, bit), yes))
WlanTransmitter(L) ==
  gen_or(gen_not(gen_mcmp(L, "OR_LINK", 0, "B", 4, <<12>>)),
         gen_and(gen_not(gen_mcmp(L, "OR_LINK", 0, "B", 192, <<240>>)),
                 gen_not(gen_mcmp(L, "OR_LINK", 0, "B", 208, <<240>>))))
AddressAt(L, offset, eaddr) == gen_bcmp(L, "OR_LINK", offset, eaddr)
WlanSource(L, eaddr) ==
  LET At(offset) == AddressAt(L, offset, eaddr)
  IN  gen_and(NotControl(L), IfBit(L, 0, 8, IfBit(L, 1, 2, IfBit(L, 1, 1, At(24), At(16)), At(10)), At(10)))
WlanDestination(L, eaddr) ==
  LET At(offset) == AddressAt(L, offset, eaddr)
  IN  gen_and(NotControl(L), IfBit(L, 0, 8, IfBit(L, 1, 1, At(16), At(4)), At(4)))
WlanReceiver(L, eaddr, dir) ==
  IF dir = "ra" THEN gen_and(gen_bit(L, 0, 8), AddressAt(L, 4, eaddr))
  ELSE gen_and(gen_and(gen_bit(L, 0, 8), WlanTransmitter(L)), AddressAt(L, 10, eaddr))
gen_wlanhostop(L, eaddr, dir) ==
  LET At(offset) == AddressAt(L, offset, eaddr)
  IN  CASE dir \in TwoEnds -> Ends(dir, WlanSource(L, eaddr), WlanDestination(L, eaddr))
        [] dir \in {"ra", "ta"} -> WlanReceiver(L, eaddr, dir)
        [] dir = "addr1" -> At(4)
        [] dir = "addr2" -> gen_and(WlanTransmitter(L), At(10))
        [] dir = "addr3" -> gen_and(gen_not(gen_mcmp(L, "OR_LINK", 0, "B", 4, <<12>>)), At(16))
        [] dir = "addr4" -> gen_and(gen_mcmp(L, "OR_LINK", 1, "B", 3, <<3>>), At(24))

\* gen_ecode, and the tests of a station's address wherever else the link type decides.
StationIs(L, eaddr, dir) ==
  CASE L.linktype \in Ethernets -> gen_ehostop(L, eaddr, dir)
    [] L.linktype = "FDDI" -> gen_fhostop(L, eaddr, dir)
    [] L.linktype = "IEEE802" -> gen_thostop(L, eaddr, dir)
    [] L.linktype \in Wlan -> gen_wlanhostop(L, eaddr, dir)
    [] L.linktype = "IP_OVER_FC" -> gen_ipfchostop(L, eaddr, dir)
    [] L.linktype = "SUNATM" ->
         IF L.is_lane THEN gen_and(LaneData(L), gen_ehostop(L, eaddr, dir)) ELSE bpf_error
    [] L.linktype \notin Ethernets \cup Wlan \cup {"FDDI", "IEEE802", "IP_OVER_FC", "SUNATM"} -> bpf_error

-----------------------------------------------------------------------------
(* Protocols *)

\* The protocol number, in the header of the protocol that carries it; with IPv6 it may follow a
\* fragment header.
NumberIs(L, v, proto) ==
  CASE proto = "ip" -> gen_cmp(L, "OR_NET", 9, "B", v)
    [] proto = "ip6" ->
         gen_or(gen_cmp(L, "OR_NET", 6, "B", v),
                gen_and(gen_cmp(L, "OR_NET", 6, "B", IPPROTO_FRAGMENT), gen_cmp(L, "OR_NET", 40, "B", v)))
    [] proto = "iso" -> gen_cmp(L, "OR_NET_NOSNAP", IF L.linktype = "C_HDLC" THEN 1 ELSE 0, "B", v)
CarrierOf(L, proto) ==
  CASE proto = "ip" -> ETHERTYPE_IP [] proto = "ip6" -> ETHERTYPE_IPV6
    [] proto = "iso" -> IF L.linktype = "C_HDLC" THEN TwoSaps(LLCSAP_ISONS) ELSE LLCSAP_ISONS
ProtoIs(L, v, proto) ==
  IF proto = "iso" /\ L.linktype = "FRELAY" THEN gen_cmp(L, "OR_LINK", 2, "H", 768 + v)
  ELSE gen_and(LinkType(CarrierOf(L, proto)), NumberIs(L, v, proto))
\* 'udp proto' and the like are bogus: another protocol has no field for one.
HasProtos(proto) == proto \in {"default", "ip", "ip6", "iso", "isis", "link"}
gen_proto(L, v, proto, dir) ==
  CASE dir # "default" \/ ~HasProtos(proto) -> bpf_error
    [] dir = "default" /\ proto \in {"default", "ip", "ip6", "iso"} ->
         LET carriers == IF proto = "default" THEN <<"ip", "ip6">> ELSE <<proto>>
         IN  AnyOf([i \in DOMAIN carriers |-> ProtoIs(L, v, carriers[i])])
    [] dir = "default" /\ proto = "isis" ->
         gen_and(ProtoIs(L, ISO10589_ISIS, "iso"), gen_cmp(L, "OR_NET_NOSNAP", 4, "B", v))
    [] dir = "default" /\ proto = "link" -> LinkType(v)

LinkKeywords ==
  ("ip" :> ETHERTYPE_IP) @@ ("arp" :> ETHERTYPE_ARP) @@ ("rarp" :> ETHERTYPE_REVARP) @@ ("ip6" :> ETHERTYPE_IPV6)
  @@ ("atalk" :> ETHERTYPE_ATALK) @@ ("aarp" :> ETHERTYPE_AARP) @@ ("decnet" :> ETHERTYPE_DN)
  @@ ("sca" :> ETHERTYPE_SCA) @@ ("lat" :> ETHERTYPE_LAT) @@ ("mopdl" :> ETHERTYPE_MOPDL)
  @@ ("moprc" :> ETHERTYPE_MOPRC) @@ ("iso" :> LLCSAP_ISONS) @@ ("stp" :> LLCSAP_8021D)
  @@ ("ipx" :> LLCSAP_IPX) @@ ("netbeui" :> LLCSAP_NETBEUI)
BothVersions ==
  ("sctp" :> IPPROTO_SCTP) @@ ("tcp" :> IPPROTO_TCP) @@ ("udp" :> IPPROTO_UDP) @@ ("pim" :> IPPROTO_PIM)
  @@ ("ah" :> IPPROTO_AH) @@ ("esp" :> IPPROTO_ESP)
OneVersion ==
  ("icmp" :> IPPROTO_ICMP) @@ ("igmp" :> IPPROTO_IGMP) @@ ("igrp" :> IPPROTO_IGRP) @@ ("vrrp" :> IPPROTO_VRRP)
  @@ ("carp" :> IPPROTO_VRRP)
IsoKeywords == ("esis" :> ISO9542_ESIS) @@ ("isis" :> ISO10589_ISIS) @@ ("clnp" :> ISO8473_CLNP)
\* IS-IS PDU types: hellos 15, 16 and, between two systems, 17; link state 18, 20; sequence
\* numbers, complete 24, 25 and partial 26, 27.
IsisKeywords ==
  ("l1" :> <<26, 24, 18, 15, 17>>) @@ ("l2" :> <<27, 25, 20, 16, 17>>) @@ ("iih" :> <<17, 15, 16>>)
  @@ ("lsp" :> <<18, 20>>) @@ ("snp" :> <<27, 26, 24, 25>>) @@ ("csnp" :> <<24, 25>>) @@ ("psnp" :> <<26, 27>>)

NumbersIn(proto, numbers) == [i \in DOMAIN numbers |-> [proto |-> proto, v |-> numbers[i]]]
AbbrevOf(proto) ==
  CASE proto \in DOMAIN LinkKeywords -> NumbersIn("link", <<LinkKeywords[proto]>>)
    [] proto \in DOMAIN BothVersions -> NumbersIn("ip6", <<BothVersions[proto]>>) \o NumbersIn("ip", <<BothVersions[proto]>>)
    [] proto \in DOMAIN OneVersion -> NumbersIn("ip", <<OneVersion[proto]>>)
    [] proto = "icmp6" -> NumbersIn("ip6", <<IPPROTO_ICMPV6>>)
    [] proto \in DOMAIN IsoKeywords -> NumbersIn("iso", <<IsoKeywords[proto]>>)
    [] proto \in DOMAIN IsisKeywords -> NumbersIn("isis", IsisKeywords[proto])
AnyProto(L, protos) == AnyOf([i \in DOMAIN protos |-> gen_proto(L, protos[i].v, protos[i].proto, "default")])
gen_proto_abbrev(L, proto) ==
  IF proto \in {"link", "radio"} THEN bpf_error ELSE AnyProto(L, AbbrevOf(proto))

\* The loop over the headers is one node here; it does without the offset of a variable header.
gen_protochain(L, v, proto) ==
  LET versions == IF proto = "default" THEN <<"ip", "ip6">> ELSE <<proto>>
      Loop(version) == [is |-> "chain", at |-> L.off_macpl + L.off_nl, v |-> v, six |-> version = "ip6"]
  IN  IF proto \notin {"ip", "ip6", "default"} \/ L.linktype \in Wlan THEN bpf_error
      ELSE AnyOf([i \in DOMAIN versions |-> gen_and(LinkType(CarrierOf(L, versions[i])), Loop(versions[i]))])

-----------------------------------------------------------------------------
(* Ports *)

\* Only the first fragment of a datagram has them.
gen_ipfrag(L) == gen_mcmp(L, "OR_NET", 6, "H", 0, <<31, 255>>)

gen_portrangeatom(L, offrel, off, v1, v2) ==
  LET low == IF v1 > v2 THEN v2 ELSE v1
      high == IF v1 > v2 THEN v1 ELSE v2
  IN  IF v1 = v2 THEN gen_cmp(L, offrel, off, "H", v1)
      ELSE gen_and(gen_cmp_ge(L, offrel, off, "H", low), gen_cmp_le(L, offrel, off, "H", high))
PortEnds(L, offrel, v1, v2, dir) ==
  IF dir \in TwoEnds
  THEN Ends(dir, gen_portrangeatom(L, offrel, 0, v1, v2), gen_portrangeatom(L, offrel, 2, v1, v2))
  ELSE abort
gen_portrangeop(L, v1, v2, proto, dir) ==
  gen_and(gen_and(gen_cmp(L, "OR_NET", 9, "B", proto), gen_ipfrag(L)), PortEnds(L, "OR_TRAN_IPV4", v1, v2, dir))
gen_portrangeop6(L, v1, v2, proto, dir) ==
  gen_and(gen_cmp(L, "OR_NET", 6, "B", proto), PortEnds(L, "OR_TRAN_IPV6", v1, v2, dir))

PortProtocols(ip_proto) == IF ip_proto = PROTO_UNDEF THEN <<IPPROTO_SCTP, IPPROTO_TCP, IPPROTO_UDP>> ELSE <<ip_proto>>
gen_portrange(L, v1, v2, ip_proto, dir) ==
  gen_and(LinkType(ETHERTYPE_IP),
          AnyOf([i \in DOMAIN PortProtocols(ip_proto) |-> gen_portrangeop(L, v1, v2, PortProtocols(ip_proto)[i], dir)]))
gen_portrange6(L, v1, v2, ip_proto, dir) ==
  gen_and(LinkType(ETHERTYPE_IPV6),
          AnyOf([i \in DOMAIN PortProtocols(ip_proto) |-> gen_portrangeop6(L, v1, v2, PortProtocols(ip_proto)[i], dir)]))
\* A port is a range of one: the functions for it make the code of the range.
gen_port(L, port, ip_proto, dir) == gen_portrange(L, port, port, ip_proto, dir)
gen_port6(L, port, ip_proto, dir) == gen_portrange6(L, port, port, ip_proto, dir)

-----------------------------------------------------------------------------
(* Values with the qualifiers that apply to them.  A name is a record of   *)
(* what the system's databases say of it.                                  *)

\* What is above the eighth bit of a number between the points is dropped.
pcap_atoin(numbers) == [i \in DOMAIN numbers |-> numbers[i] % 256]
\* A DECnet address: six bits of area, ten of node.
pcap_atodn(numbers) == (numbers[1] % 64) * 1024 + (numbers[2] % 1024)
Padded(octets) == [i \in 1 .. 4 |-> IF i <= Len(octets) THEN octets[i] ELSE 0]
Quad(v) == <<v \div 16777216, (v \div 65536) % 256, (v \div 256) % 256, v % 256>>
\* A network's number is moved up to the first byte.
Raised(quad) == LET zeros == Cardinality({i \in 1 .. 4 : \A j \in 1 .. i : quad[j] = 0})
                IN  IF zeros = 4 THEN quad ELSE SubSeq(quad, zeros + 1, 4)
HasBitsOutside(addr, mask) == Masked(addr, mask) # addr

PortQualifiers ==
  ("udp" :> IPPROTO_UDP) @@ ("tcp" :> IPPROTO_TCP) @@ ("sctp" :> IPPROTO_SCTP) @@ ("default" :> PROTO_UNDEF)

\* The ports of a service, by protocol; where TCP and UDP differ the one of TCP is meant.
pcap_nametoport(name) ==
  CASE name.tcp = Unset /\ name.udp = Unset -> [port |-> Unset, proto |-> PROTO_UNDEF]
    [] name.tcp = Unset /\ name.udp # Unset -> [port |-> name.udp, proto |-> IPPROTO_UDP]
    [] name.tcp # Unset -> [port |-> name.tcp, proto |-> IF name.udp = name.tcp THEN PROTO_UNDEF ELSE IPPROTO_TCP]
\* The protocol of both ends of a range.
pcap_nametoportrange(first, last) ==
  LET p1 == pcap_nametoport(first)
      p2 == pcap_nametoport(last)
  IN  [port1 |-> p1.port, port2 |-> p2.port, proto |-> IF p1.proto = p2.proto THEN p1.proto ELSE PROTO_UNDEF]
\* The qualifier and the service must agree.
Agree(proto, real_proto) ==
  proto \in DOMAIN PortQualifiers
  /\ (PortQualifiers[proto] # PROTO_UNDEF => real_proto \in {PortQualifiers[proto], PROTO_UNDEF})
Narrowed(proto, real_proto) == IF PortQualifiers[proto] = PROTO_UNDEF THEN real_proto ELSE PortQualifiers[proto]
NamedPort(L, service, q) ==
  IF service.port = Unset \/ ~Agree(q.proto, service.proto) THEN bpf_error
  ELSE LET real_proto == Narrowed(q.proto, service.proto)
       IN  gen_or(gen_port6(L, service.port, real_proto, q.dir), gen_port(L, service.port, real_proto, q.dir))
NamedRange(L, range, q) ==
  IF Unset \in {range.port1, range.port2} \/ ~Agree(q.proto, range.proto) THEN bpf_error
  ELSE LET real_proto == Narrowed(q.proto, range.proto)
       IN  gen_or(gen_portrange6(L, range.port1, range.port2, real_proto, q.dir),
                  gen_portrange(L, range.port1, range.port2, real_proto, q.dir))

\* A name may have several addresses, of either version.
NamedHosts(L, hosts, q) ==
  LET typeless == L.off_linktype = Unset /\ q.proto = "default"
      only == [v4 |-> IF typeless THEN "ip" ELSE q.proto, v6 |-> IF typeless THEN "ip6" ELSE q.proto]
      Usable(addr) == IF Len(addr) = 4 THEN only.v4 # "ip6" ELSE only.v6 # "ip"
      used == SelectSeq(hosts, Usable)
  IN  IF used = <<>> THEN bpf_error
      ELSE AnyOf([i \in DOMAIN used |->
                    IF Len(used[i]) = 4 THEN gen_host(L, used[i], Ones(4), only.v4, q.dir)
                    ELSE gen_host6(L, used[i], Ones(16), only.v6, q.dir)])

\* Protocols by name: the program has tables of its own for those of the link layer.
eproto_db ==
  ("pup" :> 512) @@ ("xns" :> ETHERTYPE_NS) @@ ("ip" :> ETHERTYPE_IP) @@ ("ip6" :> ETHERTYPE_IPV6)
  @@ ("arp" :> ETHERTYPE_ARP) @@ ("rarp" :> ETHERTYPE_REVARP) @@ ("sprite" :> 1280) @@ ("mopdl" :> ETHERTYPE_MOPDL)
  @@ ("moprc" :> ETHERTYPE_MOPRC) @@ ("decnet" :> ETHERTYPE_DN) @@ ("lat" :> ETHERTYPE_LAT) @@ ("sca" :> ETHERTYPE_SCA)
  @@ ("lanbridge" :> 32824) @@ ("vexp" :> 32859) @@ ("vprod" :> 32860) @@ ("atalk" :> ETHERTYPE_ATALK)
  @@ ("atalkarp" :> ETHERTYPE_AARP) @@ ("loopback" :> 36864) @@ ("decdts" :> 32830) @@ ("decdns" :> 32828)
llc_db == ("iso" :> LLCSAP_ISONS) @@ ("stp" :> LLCSAP_8021D) @@ ("ipx" :> LLCSAP_IPX) @@ ("netbeui" :> LLCSAP_NETBEUI)
NumberIn(db, word) == IF word \in DOMAIN db THEN db[word] ELSE PROTO_UNDEF
pcap_nametoeproto(word) == NumberIn(eproto_db, word)
pcap_nametollc(word) == NumberIn(llc_db, word)

\* The number of a protocol's name depends on the layer that is meant.
lookup_proto(name, proto) ==
  CASE proto \in {"default", "ip", "ip6"} -> name.ipproto
    [] proto = "link" -> IF pcap_nametoeproto(name.word) = PROTO_UNDEF THEN pcap_nametollc(name.word) ELSE pcap_nametoeproto(name.word)
    [] proto = "iso" -> name.isoproto
    [] proto \notin {"default", "ip", "ip6", "link", "iso"} -> PROTO_UNDEF
NamedProto(L, name, q) ==
  LET v == lookup_proto(name, q.proto)
  IN  IF v = PROTO_UNDEF THEN bpf_error
      ELSE IF q.addr = "proto" THEN gen_proto(L, v, q.proto, q.dir) ELSE gen_protochain(L, v, q.proto)

gen_scode(L, name, q) ==
  CASE q.addr = "net" -> IF name.net = <<>> THEN bpf_error
                         ELSE gen_host(L, Padded(name.net), PrefixMask(4, 8 * Len(name.net)), q.proto, q.dir)
    [] q.addr \in {"default", "host"} /\ q.proto = "link" ->
         IF name.ether = <<>> THEN bpf_error ELSE StationIs(L, name.ether, q.dir)
    [] q.addr \in {"default", "host"} /\ q.proto = "decnet" -> bpf_error
    [] q.addr \in {"default", "host"} /\ q.proto \notin {"link", "decnet"} -> NamedHosts(L, name.hosts, q)
    [] q.addr = "port" -> NamedPort(L, pcap_nametoport(name), q)
    [] q.addr = "portrange" -> NamedRange(L, pcap_nametoportrange(name, name.last), q)
    [] q.addr \in {"proto", "protochain"} -> NamedProto(L, name, q)
    [] q.addr \in {"gateway", "undef"} -> bpf_error

\* An IPv4 address with a mask, or with the length of its prefix.
gen_mcode(L, value, q) ==
  LET mask == IF value.is = "masked" THEN Padded(pcap_atoin(value.mask)) ELSE PrefixMask(4, value.masklen)
      addr == Padded(pcap_atoin(value.octets))
  IN  IF \/ value.is = "prefix" /\ value.masklen > 32
         \/ HasBitsOutside(addr, mask) \/ q.addr # "net"
      THEN bpf_error
      ELSE gen_host(L, addr, mask, q.proto, q.dir)

\* Octets that may be fewer than four, or a number (s is NULL).
gen_ncode(L, value, q) ==
  LET number == value.is = "num"
      octets == CASE ~number -> pcap_atoin(value.octets)
                  [] number -> IF q.addr = "net" THEN Raised(Quad(value.v)) ELSE Quad(value.v)
      v == IF number THEN value.v ELSE WordOf(Padded(octets))
  IN  CASE q.addr \in {"default", "host", "net"} /\ q.proto = "decnet" ->
             gen_dnhostop(L, IF number THEN value.v ELSE pcap_atodn(value.octets), q.dir)
        [] q.addr \in {"default", "host", "net"} /\ q.proto = "link" -> bpf_error
        [] q.addr \in {"default", "host", "net"} /\ q.proto \notin {"decnet", "link"} ->
             gen_host(L, Padded(octets), PrefixMask(4, 8 * Len(octets)), q.proto, q.dir)
        [] q.addr \in {"port", "portrange"} ->
             IF q.proto \notin DOMAIN PortQualifiers \/ v > 65535 THEN bpf_error
             ELSE gen_or(gen_port6(L, v, PortQualifiers[q.proto], q.dir), gen_port(L, v, PortQualifiers[q.proto], q.dir))
        [] q.addr = "proto" -> gen_proto(L, v, q.proto, q.dir)
        [] q.addr = "protochain" -> gen_protochain(L, v, q.proto)
        [] q.addr \in {"gateway", "undef"} -> bpf_error

gen_mcode6(L, addr, masklen, q) ==
  LET mask == PrefixMask(16, masklen)
  IN  IF \/ masklen > 128 \/ HasBitsOutside(addr, mask)
         \/ q.addr \notin {"default", "host", "net"} \/ (q.addr \in {"default", "host"} /\ masklen # 128)
      THEN bpf_error
      ELSE gen_host6(L, addr, mask, q.proto, q.dir)

gen_ecode(L, eaddr, q) ==
  IF q.addr \in {"host", "default"} /\ q.proto = "link" THEN StationIs(L, eaddr, q.dir) ELSE bpf_error
gen_acode(L, eaddr, q) ==
  IF L.linktype \in {"ARCNET", "ARCNET_LINUX"} /\ q.addr \in {"host", "default"} /\ q.proto = "link"
  THEN gen_ahostop(L, eaddr, q.dir) ELSE bpf_error
=============================================================================
