--------------------------- MODULE FilterKeywords ---------------------------
(***************************************************************************)
(* What gencode.c makes of the rest of the filter language: arithmetic, in *)
(* registers that are words of the scratch memory, the keywords for kinds  *)
(* of packets, and those after which the offsets are others.               *)
(***************************************************************************)
EXTENDS FilterAddress, FilterScanner

-----------------------------------------------------------------------------
(* Registers *)

BPF_MEMWORDS == 16
NoneUsed == [used |-> {}, curreg |-> 0]

\* The register that is next in turn and free; Unset when there is none.
alloc_reg(R) ==
  LET free == {n \in 0 .. BPF_MEMWORDS - 1 : (R.curreg + n) % BPF_MEMWORDS \notin R.used}
  IN  IF free = {} THEN Unset ELSE (R.curreg + CHOOSE n \in free : \A m \in free : n <= m) % BPF_MEMWORDS
Using(R, r) == [used |-> R.used \cup {r}, curreg |-> r]
free_reg(R, r) == [R EXCEPT !.used = @ \ {r}]

-----------------------------------------------------------------------------
(* Arithmetic.  An expression that has been generated has the registers in *)
(* use, the instructions, the register with its value, and the tests that  *)
(* must succeed before it is computed.                                     *)

Failed(R) == [R |-> R, s |-> <<>>, r |-> Unset, b |-> bpf_error]
Instruction(op, r0, r1) == [op |-> op, k |-> 0, r0 |-> r0, r1 |-> r1, load |-> LoadAt("packet", 0, 0, "B")]
St(r) == [Instruction("st", 0, 0) EXCEPT !.k = r]

\* A value in a register of its own.
Stored(R, s, b) ==
  LET r == alloc_reg(R) IN IF r = Unset THEN Failed(R) ELSE [R |-> Using(R, r), s |-> s \o <<St(r)>>, r |-> r, b |-> b]
gen_loadlen(R) == Stored(R, <<Instruction("len", 0, 0)>>, gen_true)
gen_loadi(R, val) == Stored(R, <<[Instruction("imm", 0, 0) EXCEPT !.k = val]>>, gen_true)
gen_neg(a) ==
  IF IsCode(a.b) THEN [a EXCEPT !.s = @ \o <<Instruction("neg", a.r, 0), St(a.r)>>] ELSE a

Guarded(b0, b) == IF b0 = gen_true THEN b ELSE gen_and(b0, b)

\* Of the tests that the operands need, those of the left one are kept.
gen_arth(op, a0, a1) ==
  IF ~IsCode(a1.b) THEN Failed(a1.R)
  ELSE Stored(free_reg(free_reg(a1.R, a0.r), a1.r), a0.s \o a1.s \o <<Instruction(op, a0.r, a1.r)>>, a0.b)

NetworkLayer == {"ip", "arp", "rarp", "atalk", "decnet", "sca", "lat", "moprc", "mopdl", "ip6"}
Transport == {"sctp", "tcp", "udp", "icmp", "igmp", "igrp", "pim", "vrrp", "carp"}
HasRadio == {"IEEE802_11_RADIO_AVS", "IEEE802_11_RADIO", "PRISM_HEADER"}

\* The bytes at the index inst of a header, and the tests that the header is there.
LoadOf(L, proto, size) ==
  CASE proto = "radio" -> LoadAt("packet", 0, 0, size)
    [] proto = "link" -> gen_load_llrel(L, 0, size)
    [] proto \in NetworkLayer -> gen_load_macplrel(L, L.off_nl, size)
    [] proto \in Transport -> gen_load_a(L, "OR_TRAN_IPV4", 0, size)
TransportGuard(L, proto, inst) ==
  gen_and(gen_proto_abbrev(L, "ip"), Guarded(inst, gen_and(gen_proto_abbrev(L, proto), gen_ipfrag(L))))
IndexGuard(L, proto, inst) ==
  CASE proto = "radio" -> IF L.linktype \in HasRadio THEN inst ELSE bpf_error
    [] proto = "link" -> inst
    [] proto \in NetworkLayer -> Guarded(inst, gen_proto_abbrev(L, proto))
    [] proto \in Transport -> TransportGuard(L, proto, inst)
    [] proto \notin {"radio", "link"} \cup NetworkLayer \cup Transport -> bpf_error
LoadGuarded(L, proto, inst, size, b) ==
  LET r == alloc_reg(inst.R)
  IN  IF ~IsCode(b) \/ r = Unset \/ size \notin {"B", "H", "W"} THEN Failed(inst.R)
      ELSE [R |-> free_reg(Using(inst.R, r), inst.r), r |-> r, b |-> b,
            s |-> inst.s \o <<[Instruction("load", inst.r, 0) EXCEPT !.load = LoadOf(L, proto, size)], St(r)>>]
gen_load(L, proto, inst, size) ==
  LoadGuarded(L, proto, inst, size, IF IsCode(inst.b) THEN IndexGuard(L, proto, inst.b) ELSE inst.b)

\* An expression as the parser reduces it: the left operand, then the right one.
RECURSIVE Arth(_, _, _)
Arth2(L, op, a0, a) == IF IsCode(a0.b) THEN gen_arth(op, a0, Arth(L, a0.R, a)) ELSE a0
Arth(L, R, a) ==
  CASE a.is = "num" -> gen_loadi(R, a.v)
    [] a.is = "digits" -> gen_loadi(R, stoi(a.prefix, a.digits))
    [] a.is = "word" -> gen_loadi(R, NumberWords[a.word])
    [] Word(a.is) = "length" -> gen_loadlen(R)
    [] a.is = "neg" -> gen_neg(Arth(L, R, a.of))
    [] a.is = "index" -> gen_load(L, Word(a.proto), Arth(L, R, a.at), a.size)
    [] a.is = "arth" -> Arth2(L, a.op, Arth(L, R, a.a0), a.a1)

gen_relationHeld(code, a0, a1, reversed) ==
  LET b == Reversed([is |-> "rel", stmts |-> a0.s \o a1.s, op |-> code, r0 |-> a0.r, r1 |-> a1.r], reversed)
  IN  IF ~IsCode(a1.b) THEN [R |-> a1.R, b |-> a1.b]
      ELSE [R |-> free_reg(a1.R, a0.r), b |-> Guarded(a0.b, Guarded(a1.b, b))]
\* Both operands' tests come before the comparison, and both registers are free again.
gen_relation(code, a0, a1, reversed) ==
  LET b == Reversed([is |-> "rel", stmts |-> a0.s \o a1.s, op |-> code, r0 |-> a0.r, r1 |-> a1.r], reversed)
  IN  IF ~IsCode(a1.b) THEN [R |-> a1.R, b |-> a1.b]
      ELSE [R |-> free_reg(free_reg(a1.R, a0.r), a1.r), b |-> Guarded(a0.b, Guarded(a1.b, b))]
RelationTo(L, code, a0, a, reversed) ==
  IF IsCode(a0.b) THEN gen_relation(code, a0, Arth(L, a0.R, a), reversed) ELSE [R |-> a0.R, b |-> a0.b]
Relation(L, R, code, a, a2, reversed) == RelationTo(L, code, Arth(L, R, a), a2, reversed)

-----------------------------------------------------------------------------
(* Kinds of packets *)

gen_greater(n) == [is |-> "len", op |-> "jge", v |-> n]
gen_less(n) == gen_not([is |-> "len", op |-> "jgt", v |-> n])

\* The operators | and & make code that tests what A was left with, and are left out.
gen_byteop(L, op, idx, val) ==
  CASE op = "=" -> gen_cmp(L, "OR_LINK", idx, "B", val)
    [] op = "<" -> gen_cmp_lt(L, "OR_LINK", idx, "B", val)
    [] op = ">" -> gen_cmp_gt(L, "OR_LINK", idx, "B", val)

PCAP_NETMASK_UNKNOWN == Ones(4)
gen_broadcast(L, proto, netmask) ==
  CASE proto \in {"default", "link"} ->
         IF L.linktype \in {"ARCNET", "ARCNET_LINUX"} THEN gen_ahostop(L, <<0>>, "dst") ELSE StationIs(L, Ones(6), "dst")
    [] proto = "ip" ->
         LET hostmask == [i \in 1 .. 4 |-> 255 - netmask[i]]
             HostIs(bytes) == gen_mcmp(L, "OR_NET", 16, "W", WordOf(bytes), hostmask)
         IN  IF netmask = PCAP_NETMASK_UNKNOWN THEN bpf_error
             ELSE gen_and(LinkType(ETHERTYPE_IP), gen_or(HostIs(<<0, 0, 0, 0>>), HostIs(hostmask)))
    [] proto \notin {"default", "link", "ip"} -> bpf_error

gen_mac_multicast(L, offset) == gen_bit(L, offset, 1)
MulticastLink(L) ==
  CASE L.linktype \in {"ARCNET", "ARCNET_LINUX"} -> gen_ahostop(L, <<0>>, "dst")
    [] L.linktype \in Ethernets -> gen_mac_multicast(L, 0)
    [] L.linktype = "FDDI" -> gen_mac_multicast(L, 1)
    [] L.linktype \in {"IEEE802", "IP_OVER_FC"} -> gen_mac_multicast(L, 2)
    [] L.linktype \in Wlan ->
         gen_and(NotControl(L),
                 IfBit(L, 0, 8, IfBit(L, 1, 1, gen_mac_multicast(L, 16), gen_mac_multicast(L, 4)), gen_mac_multicast(L, 4)))
    [] L.linktype = "SUNATM" ->
         IF L.is_lane THEN gen_and(LaneData(L), gen_mac_multicast(L, L.off_mac)) ELSE bpf_error
    [] L.linktype \notin {"ARCNET", "ARCNET_LINUX", "FDDI", "IEEE802", "IP_OVER_FC", "SUNATM"} \cup Ethernets \cup Wlan ->
         bpf_error
gen_multicast(L, proto) ==
  CASE proto \in {"default", "link"} -> MulticastLink(L)
    [] proto = "ip" -> gen_and(LinkType(ETHERTYPE_IP), gen_cmp_ge(L, "OR_NET", 16, "B", 224))
    [] proto = "ip6" -> gen_and(LinkType(ETHERTYPE_IPV6), gen_cmp(L, "OR_NET", 24, "B", 255))
    [] proto \notin {"default", "link", "ip", "ip6"} -> bpf_error

\* On a live capture the kernel says of a packet whether it is outgoing; that is not in it.
IsZero(a, reversed) == gen_relation("jeq", a, gen_loadi(a.R, 0), reversed).b
gen_inbound(L, dir) ==
  CASE L.linktype = "SLIP" -> IsZero(gen_load(L, "link", gen_loadi(NoneUsed, 0), "B"), dir)
    [] L.linktype = "IPNET" -> gen_cmp(L, "OR_LINK", 2, "H", IF dir THEN 1 ELSE 2)
    [] L.linktype = "LINUX_SLL" ->
         Reversed(gen_cmp(L, "OR_LINK", 0, "H", 4), ~dir)
    [] L.linktype = "PPP_PPPD" -> gen_cmp(L, "OR_LINK", 0, "B", IF dir THEN 1 ELSE 0)
    [] L.linktype \in Juniper -> gen_mcmp(L, "OR_LINK", 3, "B", IF dir THEN 0 ELSE 1, <<1>>)
    [] L.linktype \notin {"SLIP", "IPNET", "LINUX_SLL", "PPP_PPPD"} \cup Juniper -> bpf_error

\* PPI is not among the link types here.
gen_p80211_type(L, type, mask) ==
  IF L.linktype \in Wlan \ {"PPI"} THEN gen_mcmp(L, "OR_LINK", 0, "B", type, <<mask>>) ELSE bpf_error
gen_p80211_fcdir(L, fcdir) ==
  IF L.linktype \in Wlan \ {"PPI"} THEN gen_mcmp(L, "OR_LINK", 1, "B", fcdir, <<3>>) ELSE bpf_error
gen_pf == bpf_error

\* Frame types and subtypes by name, as they are in the frame control; "" is for no name.
ieee80211_types == ("data" :> 8) @@ ("mgt" :> 0) @@ ("management" :> 0) @@ ("ctl" :> 4) @@ ("control" :> 4)
ieee80211_mgt_subtypes ==
  ("assocreq" :> 0) @@ ("assocresp" :> 16) @@ ("reassocreq" :> 32) @@ ("reassocresp" :> 48) @@ ("probereq" :> 64)
  @@ ("proberesp" :> 80) @@ ("beacon" :> 128) @@ ("atim" :> 144) @@ ("disassoc" :> 160) @@ ("auth" :> 176) @@ ("deauth" :> 192)
ieee80211_ctl_subtypes ==
  ("ps-poll" :> 160) @@ ("rts" :> 176) @@ ("cts" :> 192) @@ ("ack" :> 208) @@ ("cf-end" :> 224) @@ ("cf-end-ack" :> 240)
ieee80211_data_subtypes ==
  ("data" :> 0) @@ ("data-cf-ack" :> 16) @@ ("data-cf-poll" :> 32) @@ ("data-cf-ack-poll" :> 48) @@ ("null" :> 64)
  @@ ("cf-ack" :> 80) @@ ("cf-poll" :> 96) @@ ("cf-ack-poll" :> 112) @@ ("qos-data" :> 128) @@ ("qos-data-cf-ack" :> 144)
  @@ ("qos-data-cf-poll" :> 160) @@ ("qos-data-cf-ack-poll" :> 176) @@ ("qos" :> 192) @@ ("qos-cf-poll" :> 224)
  @@ ("qos-cf-ack-poll" :> 240)
ieee80211_type_subtypes == (0 :> ieee80211_mgt_subtypes) @@ (4 :> ieee80211_ctl_subtypes) @@ (8 :> ieee80211_data_subtypes)

\* "type", "type subtype" or "subtype" alone, which is looked for among those of each type in turn.
p80211(L, type, subtype) ==
  LET types == IF type = "" THEN <<0, 4, 8>> ELSE IF type \in DOMAIN ieee80211_types THEN <<ieee80211_types[type]>> ELSE <<>>
      named == SelectSeq(types, LAMBDA t : subtype \in DOMAIN ieee80211_type_subtypes[t])
  IN  IF subtype = "" THEN IF types = <<>> THEN bpf_error ELSE gen_p80211_type(L, types[1], 12)
      ELSE IF named = <<>> THEN bpf_error
      ELSE gen_p80211_type(L, ieee80211_type_subtypes[named[1]][subtype] + named[1], 252)

-----------------------------------------------------------------------------
(* Keywords that change the offsets for the rest of the expression.  They  *)
(* come with the layout that the rest is compiled with.                    *)

With(L, b) == [L |-> L, b |-> b]
NoNumber == Unset

AndNumbered(b, number, is) == IF number = NoNumber THEN b ELSE gen_and(b, is)
IsTagged(L, vlan_num) ==
  AndNumbered(gen_or(LinkTypeIs(L, ETHERTYPE_8021Q), LinkTypeIs(L, ETHERTYPE_8021QINQ)),
              vlan_num, gen_mcmp(L, "OR_MACPL", 0, "H", vlan_num, <<15, 255>>))
gen_vlanAnywhere(L, vlan_num) ==
  With([L EXCEPT !.orig_nl = L.off_nl, !.off_macpl = @ + 4, !.off_linktype = @ + 4], IsTagged(L, vlan_num))
gen_vlan(L, vlan_num) ==
  IF L.label_stack_depth > 0 \/ L.linktype \notin Ethernets THEN With(L, bpf_error)
  ELSE With([L EXCEPT !.orig_nl = L.off_nl, !.off_macpl = @ + 4, !.off_linktype = @ + 4], IsTagged(L, vlan_num))

\* A label is in the high 20 bits of an entry of the stack, above the bit of the last entry.
IsLabelled(L) ==
  CASE L.label_stack_depth > 0 -> gen_mcmp(L, "OR_MACPL", L.off_nl - 2, "B", 0, <<1>>)
    [] L.label_stack_depth = 0 /\ L.linktype \in Ethernets \cup {"C_HDLC", "PPP"} ->
         LinkType(IF L.linktype = "PPP" THEN PPP_MPLS_UCAST ELSE ETHERTYPE_MPLS)
    [] L.label_stack_depth = 0 /\ L.linktype \notin Ethernets \cup {"C_HDLC", "PPP"} -> bpf_error
gen_mpls(L, label_num) ==
  With([L EXCEPT !.orig_nl = L.off_nl, !.off_nl_nosnap = @ + 4, !.off_nl = @ + 4, !.label_stack_depth = @ + 1],
       AndNumbered(IsLabelled(L), label_num,
                   gen_mcmp(L, "OR_MACPL", L.off_nl, "W", label_num * 4096, <<255, 255, 240, 0>>)))

gen_pppoed(L) == LinkType(ETHERTYPE_PPPOED)
\* The PPP protocol follows six bytes of PPPoE header, relative to the payload of the MAC layer.
gen_pppoes(L) ==
  With([L EXCEPT !.orig_linktype = L.off_linktype, !.orig_nl = L.off_nl, !.is_pppoes = TRUE,
                 !.off_linktype = L.off_nl + 6, !.off_nl = 8, !.off_nl_nosnap = 8],
       LinkType(ETHERTYPE_PPPOES))

-----------------------------------------------------------------------------
(* ATM and SS7 *)

MetaCells == ("metac" :> 1) @@ ("bcc" :> 2) @@ ("oamf4sc" :> 3) @@ ("oamf4ec" :> 4) @@ ("sc" :> 5) @@ ("ilmic" :> 16)
CellIs(L, field, v) == gen_atmfield_code(L, field, v, "jeq", FALSE)
gen_atmtype_abbrev(L, type) ==
  CASE ~L.is_atm -> With(L, bpf_error)
    [] L.is_atm /\ type \in DOMAIN MetaCells ->
         With(L, gen_and(CellIs(L, "VPI", 0), CellIs(L, "VCI", MetaCells[type])))
    [] L.is_atm /\ type = "lane" ->
         LET mac == L.off_payload + 2
         IN  With([L EXCEPT !.is_lane = TRUE, !.off_mac = mac, !.off_linktype = mac + 12, !.off_macpl = mac + 14,
                            !.off_nl = 0, !.off_nl_nosnap = 3],
                  CellIs(L, "PROTOTYPE", 1))
    [] L.is_atm /\ type = "llc" -> With([L EXCEPT !.is_lane = FALSE], CellIs(L, "PROTOTYPE", 2))

\* Q.2931 messages: SETUP 5, CALL PROCEEDING 2, CONNECT 7 and its acknowledgement 15, RELEASE
\* 77 and RELEASE COMPLETE 90.
gen_msg_abbrev(L, message) == CellIs(L, "MSGTYPE", message)
gen_atmmulti_abbrev(L, type) ==
  LET Messages(m) == AnyOf([i \in DOMAIN m |-> gen_msg_abbrev(L, m[i])])
      On(cells) == gen_atmtype_abbrev(L, cells).b
  IN  CASE ~L.is_atm -> bpf_error
        [] L.is_atm /\ type \in {"oam", "oamf4"} ->
             gen_and(CellIs(L, "VPI", 0), gen_or(CellIs(L, "VCI", 3), CellIs(L, "VCI", 4)))
        [] L.is_atm /\ type = "connectmsg" -> gen_and(On("sc"), Messages(<<90, 77, 15, 7, 5, 2>>))
        [] L.is_atm /\ type = "metaconnect" -> gen_and(On("metac"), Messages(<<90, 77, 7, 5, 2>>))

Ss7Links == {"MTP2", "ERF", "MTP2_WITH_PHDR"}
\* The length indicator of an MTP2 signal unit is 0 in a fill-in, at most 2 in a status unit.
gen_mtp2type_abbrev(L, type) ==
  LET Li(jtype, reverse, v) == gen_ncmp(L, "OR_PACKET", L.off_li, "B", <<63>>, jtype, reverse, v)
  IN  CASE L.linktype \notin Ss7Links -> bpf_error
        [] L.linktype \in Ss7Links /\ type = "fisu" -> Li("jeq", FALSE, 0)
        [] L.linktype \in Ss7Links /\ type = "lssu" -> gen_and(Li("jgt", FALSE, 0), Li("jgt", TRUE, 2))
        [] L.linktype \in Ss7Links /\ type = "msu" -> Li("jgt", FALSE, 2)

\* Point codes of 14 bits lie across the bytes of the routing label, the least significant first.
PointCode(field, v) ==
  CASE field = "opc" -> <<0, (v % 4) * 64, (v \div 4) % 256, v \div 1024>>
    [] field = "dpc" -> <<v % 256, v \div 256, 0, 0>>
gen_mtp3field_code(L, field, v, jtype, reverse) ==
  LET Code(offset, mask) == gen_ncmp(L, "OR_PACKET", offset, "W", mask, jtype, reverse, WordOf(PointCode(field, v)))
  IN  CASE L.off_sio = Unset \/ v > (CASE field = "sio" -> 255 [] field = "sls" -> 15 [] field \in {"opc", "dpc"} -> 16383) ->
             bpf_error
        [] L.off_sio # Unset /\ field = "sio" /\ v <= 255 ->
             gen_ncmp(L, "OR_PACKET", L.off_sio, "B", <<>>, jtype, reverse, v)
        [] L.off_sio # Unset /\ field = "opc" /\ v <= 16383 -> Code(L.off_opc, <<0, 192, 255, 15>>)
        [] L.off_sio # Unset /\ field = "dpc" /\ v <= 16383 -> Code(L.off_dpc, <<255, 63, 0, 0>>)
        [] L.off_sio # Unset /\ field = "sls" /\ v <= 15 ->
             gen_ncmp(L, "OR_PACKET", L.off_sls, "B", <<240>>, jtype, reverse, v * 16)
=============================================================================
