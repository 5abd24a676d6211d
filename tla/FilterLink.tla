----------------------------- MODULE FilterLink -----------------------------
(***************************************************************************)
(* The link layer, in gencode.c: where its headers are for each link type  *)
(* (init_linktype), the test of the protocol that a packet carries         *)
(* (gen_linktype and the functions it calls), and the keywords after which *)
(* the offsets are others (vlan, mpls, pppoes, lane).                      *)
(***************************************************************************)
EXTENDS FilterCode

ETHERTYPE_IP == 2048
ETHERTYPE_IPV6 == 34525
ETHERTYPE_ARP == 2054
ETHERTYPE_REVARP == 32821
ETHERTYPE_NS == 1536
ETHERTYPE_DN == 24579
ETHERTYPE_SCA == 24583
ETHERTYPE_LAT == 24580
ETHERTYPE_MOPDL == 24577
ETHERTYPE_MOPRC == 24578
ETHERTYPE_ATALK == 32923
ETHERTYPE_AARP == 33011
ETHERTYPE_IPX == 33079
ETHERTYPE_MPLS == 34887
ETHERTYPE_PPPOED == 34915
ETHERTYPE_PPPOES == 34916
ETHERTYPE_8021Q == 33024
ETHERTYPE_8021QINQ == 37120
LLCSAP_IP == 6
LLCSAP_8021D == 66
LLCSAP_SNAP == 170
LLCSAP_IPX == 224
LLCSAP_NETBEUI == 240
LLCSAP_ISONS == 254
PPP_IP == 33
PPP_IPV6 == 87
PPP_MPLS_UCAST == 641
ETHERMTU == 1500
ISO8473_CLNP == 129
ISO9542_ESIS == 130
ISO10589_ISIS == 131

Juniper ==
  {"JUNIPER_MFR", "JUNIPER_MLFR", "JUNIPER_MLPPP", "JUNIPER_PPP", "JUNIPER_CHDLC", "JUNIPER_FRELAY",
   "JUNIPER_ATM1", "JUNIPER_ATM2", "JUNIPER_PPPOE", "JUNIPER_ETHER", "JUNIPER_PPPOE_ATM", "JUNIPER_GGSN",
   "JUNIPER_ES", "JUNIPER_MONITOR", "JUNIPER_SERVICES", "JUNIPER_VP", "JUNIPER_ST", "JUNIPER_ISM",
   "JUNIPER_VS", "JUNIPER_SRX_E2E", "JUNIPER_FIBRECHANNEL", "JUNIPER_ATM_CEMIC"}

-----------------------------------------------------------------------------
(* init_linktype *)

\* off_linktype, off_macpl, off_nl, off_nl_nosnap and the other offsets a link type sets.
Offsets(type, macpl, nl, nosnap) ==
  [off_linktype |-> type, off_macpl |-> macpl, off_nl |-> nl, off_nl_nosnap |-> nosnap]
NoOffsets == Offsets(Unset, Unset, Unset, Unset)

LanOffsets(dlt) ==
  CASE dlt = "ARCNET" -> Offsets(2, 6, 0, 0)
    [] dlt = "ARCNET_LINUX" -> Offsets(4, 8, 0, 0)
    [] dlt = "EN10MB" -> Offsets(12, 14, 0, 3)
    [] dlt = "SLIP" -> Offsets(Unset, 16, 0, 0)
    [] dlt = "SLIP_BSDOS" -> Offsets(Unset, 24, 0, 0)
    [] dlt \in {"NULL", "LOOP"} -> Offsets(0, 4, 0, 0)
    [] dlt = "ENC" -> Offsets(0, 12, 0, 0)
    [] dlt \in {"PPP", "PPP_PPPD", "C_HDLC", "PPP_SERIAL"} -> Offsets(2, 4, 0, 0)
    [] dlt = "PPP_ETHER" -> Offsets(6, 8, 0, 0)
    [] dlt = "PPP_BSDOS" -> Offsets(5, 24, 0, 0)
    [] dlt = "FDDI" -> Offsets(13, 13, 8, 3)
    [] dlt = "IEEE802" -> Offsets(14, 14, 8, 3)
Lan == {"ARCNET", "ARCNET_LINUX", "EN10MB", "SLIP", "SLIP_BSDOS", "NULL", "LOOP", "ENC", "PPP", "PPP_PPPD",
        "C_HDLC", "PPP_SERIAL", "PPP_ETHER", "PPP_BSDOS", "FDDI", "IEEE802"}

\* The 802.11 header has no fixed length: off_macpl_is_variable.
WanOffsets(dlt) ==
  CASE dlt \in Wlan -> [off_macpl_is_variable |-> TRUE] @@ Offsets(24, 0, 8, 3)
    [] dlt \in {"ATM_RFC1483", "ATM_CLIP"} -> Offsets(0, 0, 8, 3)
    [] dlt = "SUNATM" ->
         [is_atm |-> TRUE, off_vpi |-> 1, off_vci |-> 2, off_proto |-> 0, off_mac |-> Unset, off_payload |-> 4]
         @@ Offsets(4, 4, 8, 3)
    [] dlt \in {"RAW", "IPV4", "IPV6", "LTALK", "FRELAY"} -> Offsets(Unset, 0, 0, 0)
    [] dlt = "LINUX_SLL" -> Offsets(14, 16, 0, 0)
    [] dlt = "IP_OVER_FC" -> Offsets(16, 16, 8, 3)
    [] dlt = "MFR" -> Offsets(Unset, 0, 4, 0)
    [] dlt = "APPLE_IP_OVER_IEEE1394" -> Offsets(16, 18, 0, 0)
    [] dlt = "SYMANTEC_FIREWALL" -> Offsets(6, 44, 0, 0)
Wan == Wlan \cup {"ATM_RFC1483", "ATM_CLIP", "SUNATM", "RAW", "IPV4", "IPV6", "LTALK", "FRELAY", "LINUX_SLL",
                  "IP_OVER_FC", "MFR", "APPLE_IP_OVER_IEEE1394", "SYMANTEC_FIREWALL"}

JuniperOffsets(dlt) ==
  CASE dlt \in {"JUNIPER_MFR", "JUNIPER_MLFR", "JUNIPER_MLPPP", "JUNIPER_PPP", "JUNIPER_CHDLC", "JUNIPER_FRELAY"} ->
         Offsets(4, 4, 0, Unset)
    [] dlt = "JUNIPER_ATM1" -> Offsets(4, 4, 0, 10)
    [] dlt = "JUNIPER_ATM2" -> Offsets(8, 8, 0, 10)
    [] dlt \in {"JUNIPER_PPPOE", "JUNIPER_ETHER"} -> Offsets(16, 14, 18, 21)
    [] dlt = "JUNIPER_PPPOE_ATM" -> Offsets(4, 6, 0, Unset)
    [] dlt = "JUNIPER_GGSN" -> Offsets(6, 12, 0, Unset)
    [] dlt = "JUNIPER_ES" -> [NoOffsets EXCEPT !.off_linktype = 6]
    [] dlt = "JUNIPER_MONITOR" -> Offsets(12, 12, 0, Unset)
    [] dlt = "JUNIPER_SERVICES" -> [NoOffsets EXCEPT !.off_linktype = 12]
    [] dlt \in {"JUNIPER_VP", "JUNIPER_ST"} -> [NoOffsets EXCEPT !.off_linktype = 18]
    [] dlt \in {"JUNIPER_ISM", "JUNIPER_VS", "JUNIPER_SRX_E2E", "JUNIPER_FIBRECHANNEL", "JUNIPER_ATM_CEMIC"} ->
         [NoOffsets EXCEPT !.off_linktype = 8]

\* The offsets of SS7 signalling units, and the last link types.
Ss7(li) == [off_li |-> li, off_sio |-> li + 1, off_opc |-> li + 2, off_dpc |-> li + 2, off_sls |-> li + 5]
OtherOffsets(dlt) ==
  CASE dlt = "MTP2" -> Ss7(2) @@ NoOffsets
    [] dlt = "MTP2_WITH_PHDR" -> Ss7(6) @@ NoOffsets
    [] dlt = "ERF" -> Ss7(22) @@ NoOffsets
    [] dlt = "PFSYNC" -> Offsets(Unset, 4, 0, 0)
    [] dlt = "AX25_KISS" -> [off_mac |-> 1] @@ NoOffsets
    [] dlt = "IPNET" -> Offsets(1, 24, 0, Unset)
    [] dlt = "NETANALYZER" -> [off_mac |-> 4] @@ Offsets(16, 18, 0, 3)
    [] dlt = "NETANALYZER_TRANSPARENT" -> [off_mac |-> 12] @@ Offsets(24, 26, 0, 3)
Others == {"MTP2", "MTP2_WITH_PHDR", "ERF", "PFSYNC", "AX25_KISS", "IPNET", "NETANALYZER", "NETANALYZER_TRANSPARENT"}

\* Link types without a case of their own, between DLT_MATCHING_MIN and DLT_MATCHING_MAX.
RawOnly ==
  {"USB", "CAN20B", "BACNET_MS_TP", "LINUX_IRDA", "DOCSIS", "LINUX_LAPD", "USB_LINUX", "BLUETOOTH_HCI_H4",
   "CAN_SOCKETCAN", "IEEE802_15_4", "IEEE802_16_MAC_CPS_RADIO", "SITA", "RAIF1", "IPMB"}

LinkTypes == Lan \cup Wan \cup Juniper \cup Others \cup RawOnly

\* The variables that are reset whatever the link type is; was is the layout of the expression
\* that was compiled before, if only to say that nothing of it is left.
ResetOffsets(was, dlt) ==
  [was EXCEPT !.linktype = dlt, !.off_mac = 0, !.is_atm = FALSE, !.is_lane = FALSE, !.off_vpi = Unset,
     !.off_vci = Unset, !.off_proto = Unset, !.off_payload = Unset, !.is_pppoes = FALSE, !.off_li = Unset,
     !.off_sio = Unset, !.off_opc = Unset, !.off_dpc = Unset, !.off_sls = Unset, !.off_ll = 0, !.off_macpl = 0,
     !.off_macpl_is_variable = FALSE, !.orig_linktype = Unset, !.orig_nl = Unset, !.label_stack_depth = 0]

OffsetsOf(dlt) ==
  CASE dlt \in Lan -> LanOffsets(dlt) [] dlt \in Wan -> WanOffsets(dlt)
    [] dlt \in Juniper -> JuniperOffsets(dlt) [] dlt \in Others -> OtherOffsets(dlt)
    [] dlt \in RawOnly -> NoOffsets

init_linktypeInSession(was, dlt) ==
  OffsetsOf(dlt) @@ [ResetOffsets(was, dlt) EXCEPT !.is_pppoes = was.is_pppoes]
init_linktype(was, dlt) == OffsetsOf(dlt) @@ ResetOffsets(was, dlt)

\* What the static variables hold before the first expression.
NoLayout ==
  [linktype |-> "NULL", off_ll |-> 0, off_mac |-> 0, off_macpl |-> 0, off_macpl_is_variable |-> FALSE,
   off_linktype |-> 0, off_nl |-> 0, off_nl_nosnap |-> 0, is_pppoes |-> FALSE, is_atm |-> FALSE,
   is_lane |-> FALSE, off_vpi |-> 0, off_vci |-> 0, off_proto |-> 0, off_li |-> 0, off_sio |-> 0,
   off_opc |-> 0, off_dpc |-> 0, off_sls |-> 0, off_payload |-> 0, orig_linktype |-> Unset, orig_nl |-> Unset,
   label_stack_depth |-> Unset]

-----------------------------------------------------------------------------
(* Fields of an ATM pseudo-header *)

gen_atmfield_code(L, atmfield, jvalue, jtype, reverse) ==
  CASE atmfield = "VPI" ->
         IF ~L.is_atm THEN bpf_error ELSE gen_ncmp(L, "OR_LINK", L.off_vpi, "B", <<>>, jtype, reverse, jvalue)
    [] atmfield = "VCI" ->
         IF ~L.is_atm THEN bpf_error ELSE gen_ncmp(L, "OR_LINK", L.off_vci, "H", <<>>, jtype, reverse, jvalue)
    [] atmfield = "PROTOTYPE" ->
         IF L.off_proto = Unset THEN abort
         ELSE gen_ncmp(L, "OR_LINK", L.off_proto, "B", <<15>>, jtype, reverse, jvalue)
    [] atmfield = "MSGTYPE" ->
         IF L.off_payload = Unset THEN abort
         ELSE gen_ncmp(L, "OR_LINK", L.off_payload + 5, "B", <<>>, jtype, reverse, jvalue)
    [] atmfield = "CALLREFTYPE" ->
         IF ~L.is_atm THEN bpf_error ELSE gen_ncmp(L, "OR_LINK", L.off_proto, "B", <<>>, jtype, reverse, jvalue)

\* An Ethernet frame of LANE, not a control frame.
LaneData(L) == gen_not(gen_cmp(L, "OR_LINK", 4, "H", 65280))

-----------------------------------------------------------------------------
(* gen_linktype *)

TwoSaps(sap) == 257 * sap
\* An 802.3 frame: what other frames have as their type is its length.
IsLength(L) == gen_not(gen_cmp_gt(L, "OR_LINK", L.off_linktype, "H", ETHERMTU))
LinkTypeIs(L, proto) == gen_cmp(L, "OR_LINK", L.off_linktype, "H", proto)
SapsAre(L, sap) == gen_cmp(L, "OR_MACPL", 0, "H", TwoSaps(sap))

gen_snap(L, orgcode, ptype) ==
  gen_bcmp(L, "OR_MACPL", 0, <<LLCSAP_SNAP, LLCSAP_SNAP, 3>> \o orgcode \o <<ptype \div 256, ptype % 256>>)
Encapsulated == <<0, 0, 0>>
Apple == <<8, 0, 7>>

gen_ether_linktype(L, proto) ==
  CASE proto \in {LLCSAP_ISONS, LLCSAP_IP, LLCSAP_NETBEUI} -> gen_and(IsLength(L), SapsAre(L, proto))
    [] proto = LLCSAP_IPX ->
         LET raw == gen_or(gen_cmp(L, "OR_MACPL", 0, "B", LLCSAP_IPX), gen_cmp(L, "OR_MACPL", 0, "H", 65535))
             llc == gen_or(gen_snap(L, Encapsulated, ETHERTYPE_IPX), raw)
         IN  gen_or(LinkTypeIs(L, ETHERTYPE_IPX), gen_and(IsLength(L), llc))
    [] proto = ETHERTYPE_ATALK ->
         gen_or(LinkTypeIs(L, proto), gen_and(IsLength(L), gen_snap(L, Apple, proto)))
    [] proto = ETHERTYPE_AARP ->
         gen_or(LinkTypeIs(L, proto), gen_and(IsLength(L), gen_snap(L, Encapsulated, proto)))
    [] proto \notin {LLCSAP_ISONS, LLCSAP_IP, LLCSAP_NETBEUI, LLCSAP_IPX, ETHERTYPE_ATALK, ETHERTYPE_AARP} ->
         IF proto > ETHERMTU THEN LinkTypeIs(L, proto)
         ELSE gen_and(IsLength(L), gen_cmp(L, "OR_LINK", L.off_linktype + 2, "B", proto))

gen_ipnet_linktype(L, proto) ==
  CASE proto = ETHERTYPE_IP -> gen_cmp(L, "OR_LINK", L.off_linktype, "B", 2)
    [] proto = ETHERTYPE_IPV6 -> gen_cmp(L, "OR_LINK", L.off_linktype, "B", 26)
    [] proto \notin {ETHERTYPE_IP, ETHERTYPE_IPV6} -> gen_false

LINUX_SLL_P_802_3 == 1
LINUX_SLL_P_802_2 == 4
gen_linux_sll_linktype(L, proto) ==
  LET llc == LinkTypeIs(L, LINUX_SLL_P_802_2)
  IN  CASE proto \in {LLCSAP_ISONS, LLCSAP_IP, LLCSAP_NETBEUI} -> gen_and(llc, SapsAre(L, proto))
        [] proto = LLCSAP_IPX ->
             AnyOf(<<LinkTypeIs(L, ETHERTYPE_IPX), LinkTypeIs(L, LINUX_SLL_P_802_3),
                     gen_and(llc, gen_or(gen_cmp(L, "OR_MACPL", 0, "B", LLCSAP_IPX),
                                         gen_snap(L, Encapsulated, ETHERTYPE_IPX)))>>)
        [] proto = ETHERTYPE_ATALK -> gen_or(LinkTypeIs(L, proto), gen_and(llc, gen_snap(L, Apple, proto)))
        [] proto = ETHERTYPE_AARP -> gen_or(LinkTypeIs(L, proto), gen_and(llc, gen_snap(L, Encapsulated, proto)))
        [] proto \notin {LLCSAP_ISONS, LLCSAP_IP, LLCSAP_NETBEUI, LLCSAP_IPX, ETHERTYPE_ATALK, ETHERTYPE_AARP} ->
             IF proto > ETHERMTU THEN LinkTypeIs(L, proto)
             ELSE gen_and(llc, gen_cmp(L, "OR_LINK", L.off_macpl, "B", proto))

\* Ethernet types and SAPs that PPP has other numbers for.
PppTypes ==
  ETHERTYPE_IP :> PPP_IP @@ ETHERTYPE_IPV6 :> PPP_IPV6 @@ ETHERTYPE_DN :> 39 @@ ETHERTYPE_ATALK :> 41
  @@ ETHERTYPE_NS :> 37 @@ LLCSAP_ISONS :> 35 @@ LLCSAP_8021D :> 49 @@ LLCSAP_IPX :> 43
ethertype_to_ppptype(proto) == IF proto \in DOMAIN PppTypes THEN PppTypes[proto] ELSE proto

gen_llc_linktype(L, proto) ==
  CASE proto \in {LLCSAP_IP, LLCSAP_ISONS, LLCSAP_NETBEUI} -> SapsAre(L, proto)
    [] proto = LLCSAP_IPX -> gen_cmp(L, "OR_MACPL", 0, "B", LLCSAP_IPX)
    [] proto = ETHERTYPE_ATALK -> gen_snap(L, Apple, ETHERTYPE_ATALK)
    [] proto \notin {LLCSAP_IP, LLCSAP_ISONS, LLCSAP_NETBEUI, LLCSAP_IPX, ETHERTYPE_ATALK} ->
         IF proto <= ETHERMTU THEN gen_cmp(L, "OR_MACPL", 0, "B", proto)
         ELSE gen_cmp(L, "OR_MACPL", 6, "H", proto)

\* A data frame: bit 3 of the frame control is set, bit 2 is not.
gen_check_802_11_data_frame(L) == gen_and(gen_not(gen_bit(L, 0, 4)), gen_bit(L, 0, 8))

\* The last label is that of the bottom of the stack, and an IP header of that version follows.
gen_mpls_linktype(L, version) ==
  gen_and(gen_mcmp(L, "OR_NET", -2, "B", 1, <<1>>), gen_mcmp(L, "OR_NET", 0, "B", 16 * version, <<240>>))

\* An IP header says itself of what version it is; nothing else is carried.
gen_raw_linktype(L, proto) ==
  CASE proto = ETHERTYPE_IP -> gen_mcmp(L, "OR_LINK", 0, "B", 64, <<240>>)
    [] proto = ETHERTYPE_IPV6 -> gen_mcmp(L, "OR_LINK", 0, "B", 96, <<240>>)
    [] proto \notin {ETHERTYPE_IP, ETHERTYPE_IPV6} -> gen_false

\* The address family of the machine that captured, in its byte order: little-endian here.
gen_null_linktype(L, proto) ==
  LET family == IF proto = ETHERTYPE_IP THEN 2 ELSE 10
  IN  IF proto \notin {ETHERTYPE_IP, ETHERTYPE_IPV6} THEN gen_false
      ELSE gen_cmp(L, "OR_LINK", 0, "W", IF L.linktype = "LOOP" THEN family ELSE family * 16777216)

gen_arcnet_linktype(L, proto) ==
  LET TypeIs(t) == gen_cmp(L, "OR_LINK", L.off_linktype, "B", t)
  IN  CASE proto = ETHERTYPE_IPV6 -> TypeIs(196)
        [] proto = ETHERTYPE_IP -> gen_or(TypeIs(212), TypeIs(240))
        [] proto = ETHERTYPE_ARP -> gen_or(TypeIs(213), TypeIs(241))
        [] proto = ETHERTYPE_REVARP -> TypeIs(214)
        [] proto = ETHERTYPE_ATALK -> TypeIs(221)
        [] proto \notin {ETHERTYPE_IPV6, ETHERTYPE_IP, ETHERTYPE_ARP, ETHERTYPE_REVARP, ETHERTYPE_ATALK} -> gen_false

\* A control byte and an NLPID.
gen_frelay_linktype(L, proto) ==
  LET NlpidIs(n) == gen_cmp(L, "OR_LINK", 2, "H", 768 + n)
  IN  CASE proto = ETHERTYPE_IP -> NlpidIs(204)
        [] proto = ETHERTYPE_IPV6 -> NlpidIs(142)
        [] proto = LLCSAP_ISONS ->
             gen_or(NlpidIs(ISO8473_CLNP), gen_or(NlpidIs(ISO9542_ESIS), NlpidIs(ISO10589_ISIS)))
        [] proto \notin {ETHERTYPE_IP, ETHERTYPE_IPV6, LLCSAP_ISONS} -> gen_false

gen_sunatm_linktype(L, proto) ==
  IF L.is_lane THEN gen_and(LaneData(L), gen_ether_linktype(L, proto))
  ELSE gen_and(gen_atmfield_code(L, "PROTOTYPE", 2, "jeq", FALSE), gen_llc_linktype(L, proto))

\* PPP over a BSD/OS link may compress the headers of TCP.
gen_ppp_bsdos_linktype(L, proto) ==
  IF proto = ETHERTYPE_IP
  THEN gen_or(gen_or(LinkTypeIs(L, PPP_IP), LinkTypeIs(L, 45)), LinkTypeIs(L, 47))
  ELSE LinkTypeIs(L, ethertype_to_ppptype(proto))

Ethernets == {"EN10MB", "NETANALYZER", "NETANALYZER_TRANSPARENT"}
NoTypes ==
  {"MFR", "MTP2", "MTP2_WITH_PHDR", "ERF", "PFSYNC", "AX25_KISS"} \cup (RawOnly \ {"BACNET_MS_TP"})

gen_linktype_of(L, proto) ==
  CASE L.linktype \in Ethernets -> gen_ether_linktype(L, proto)
    [] L.linktype = "C_HDLC" -> LinkTypeIs(L, IF proto = LLCSAP_ISONS THEN TwoSaps(proto) ELSE proto)
    [] L.linktype \in Wlan -> gen_and(gen_check_802_11_data_frame(L), gen_llc_linktype(L, proto))
    [] L.linktype \in {"FDDI", "IEEE802", "ATM_RFC1483", "ATM_CLIP", "IP_OVER_FC"} -> gen_llc_linktype(L, proto)
    [] L.linktype = "SUNATM" -> gen_sunatm_linktype(L, proto)
    [] L.linktype = "LINUX_SLL" -> gen_linux_sll_linktype(L, proto)
    [] L.linktype \in {"SLIP", "SLIP_BSDOS", "RAW"} -> gen_raw_linktype(L, proto)
    [] L.linktype = "IPV4" -> IF proto = ETHERTYPE_IP THEN gen_true ELSE gen_false
    [] L.linktype = "IPV6" -> IF proto = ETHERTYPE_IPV6 THEN gen_true ELSE gen_false
    [] L.linktype \in {"PPP", "PPP_PPPD", "PPP_SERIAL", "PPP_ETHER"} -> LinkTypeIs(L, ethertype_to_ppptype(proto))
    [] L.linktype = "PPP_BSDOS" -> gen_ppp_bsdos_linktype(L, proto)
    [] L.linktype \in {"NULL", "LOOP", "ENC"} -> gen_null_linktype(L, proto)
    [] L.linktype \in {"ARCNET", "ARCNET_LINUX"} -> gen_arcnet_linktype(L, proto)
    [] L.linktype = "LTALK" -> IF proto = ETHERTYPE_ATALK THEN gen_true ELSE gen_false
    [] L.linktype = "FRELAY" -> gen_frelay_linktype(L, proto)
    [] L.linktype \in Juniper -> gen_mcmp(L, "OR_LINK", 0, "W", WordOf(<<77, 71, 67, 0>>), <<255, 255, 255, 0>>)
    [] L.linktype = "IPNET" -> gen_ipnet_linktype(L, proto)
    [] L.linktype \in NoTypes -> bpf_error
    [] L.linktype \in {"APPLE_IP_OVER_IEEE1394", "SYMANTEC_FIREWALL", "BACNET_MS_TP"} ->
         IF L.off_linktype = Unset THEN abort ELSE LinkTypeIs(L, proto)

\* proto is an Ethernet type, a SAP if at most ETHERMTU, or with PPP the number PPP has for it.
gen_linktype(L, proto) ==
  IF L.label_stack_depth > 0
  THEN CASE proto \in {ETHERTYPE_IP, PPP_IP} -> gen_mpls_linktype(L, 4)
         [] proto \in {ETHERTYPE_IPV6, PPP_IPV6} -> gen_mpls_linktype(L, 6)
         [] proto \notin {ETHERTYPE_IP, PPP_IP, ETHERTYPE_IPV6, PPP_IPV6} -> bpf_error
  ELSE IF L.is_pppoes THEN gen_cmp(L, "OR_MACPL", L.off_linktype, "H", ethertype_to_ppptype(proto))
  ELSE gen_linktype_of(L, proto)

\* A call of gen_linktype, of which Generated makes the code with the offsets that hold then.
LinkType(proto) == [is |-> "linktype", proto |-> proto]
RECURSIVE Generated(_, _)
Generated(L, b) ==
  CASE b.is = "linktype" -> gen_linktype(L, b.proto)
    [] b.is = "not" -> gen_not(Generated(L, b.of))
    [] b.is \in {"and", "or"} -> Both(b.is, Generated(L, b.left), Generated(L, b.right))
    [] b.is \notin {"linktype", "not", "and", "or"} -> b
=============================================================================
