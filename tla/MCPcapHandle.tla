---------------------------- MODULE MCPcapHandle ----------------------------
(***************************************************************************)
(* Instances of LinuxActivate: a few devices, each with the kernels and    *)
(* the options that matter for it; there is traffic on some of them.       *)
(***************************************************************************)
EXTENDS LinuxActivate, Interfaces

I(cls, op, arg, k, jt, jf) == [cls |-> cls, op |-> op, arg |-> arg, k |-> k, jt |-> jt, jf |-> jf]
If(size, offset, v) ==
  << I("ld", "abs", size, offset, 0, 0), I("jmp", "jeq", "k", v, 0, 1),
     I("ret", "k", "-", 17, 0, 0), I("ret", "k", "-", 0, 0, 0) >>
TooLong == <<I("misc", "tax", "-", 0, 0, 0)>> \o If("B", 13, 1)

\* A protocol, with a program that fits into the kernel and one that does not; for cooked capture
\* the protocol and the direction in the header, and a load that cannot be turned into the kernel's.
SomeFilters ==
  (FALSE :> {If("H", 12, 1), TooLong}) @@ (TRUE :> {If("H", 14, 1), If("H", 0, 4), If("B", 5, 0)})

Pkt(proto, out, on, tci) == [proto |-> proto, out |-> out, on |-> on, tci |-> tci]
SomePackets == {Pkt(2, FALSE, "here", 0), Pkt(1, TRUE, "here", 3), Pkt(2, TRUE, "lo", 0), Pkt(1, FALSE, "elsewhere", 0)}
SomeCounts == {2, -1}
SomeArrivals == [packet |-> 2, sock_packet |-> 2, mmap |-> 3]

SomeArpTypes ==
  [ st0 |-> [m \in {"managed", "monitor"} |-> "METRICOM"], eth1 |-> [m \in {"managed", "monitor"} |-> "ETHER"],
    ppp0 |-> [m \in {"managed", "monitor"} |-> "PPP"], isdn0 |-> [m \in {"managed", "monitor"} |-> "ETHER"],
    irda0 |-> [m \in {"managed", "monitor"} |-> "IRDA"], tun0 |-> [m \in {"managed", "monitor"} |-> "NONE"],
    any |-> [m \in {"managed", "monitor"} |-> "ETHER"], new0 |-> [m \in {"managed", "monitor"} |-> "unknown"],
    wlan0 |-> [managed |-> "ETHER", monitor |-> "IEEE80211_RADIOTAP"] ]
SomeDevices == DOMAIN SomeArpTypes

Modern == {"packet", "ring", "v2", "filter", "stats"}
SomeKernels ==
  [ d \in SomeDevices |->
      CASE d = "st0" -> {Modern}
        [] d = "ppp0" -> {{"packet", "filter", "v2", "stats", "so_error"}}
        [] d = "wlan0" -> {Modern \cup {"wext"}, Modern \cup {"mac80211"}, Modern}
        [] d = "eth1" -> {Modern \ {"v2"}, Modern \cup {"offload"}, {"packet", "so_error"}, {}}
        [] d = "any" -> {{"packet"}, {}}
        [] OTHER -> {Modern, {}} ]

Opt(snapshot, promisc, rfmon, tstamp, buffer_size) ==
  [ is |-> "opt", snapshot |-> snapshot, promisc |-> promisc, rfmon |-> rfmon, timeout |-> 5,
    tstamp |-> tstamp, buffer_size |-> buffer_size ]
SomeOptions ==
  [ d \in SomeDevices |->
      CASE d = "st0" -> {Opt(17, FALSE, FALSE, "host", 0)}
        [] d = "ppp0" -> {Opt(17, TRUE, FALSE, "host", 0)}
        [] d = "wlan0" -> {Opt(17, promisc, rfmon, "host", 0) : promisc, rfmon \in BOOLEAN}
        [] d = "eth1" -> {Opt(s, promisc, FALSE, t, b) :
                            s \in {60, 200}, promisc \in {FALSE}, t \in {"host", "adapter"}, b \in {100, 900}}
        [] d = "any" -> {Opt(17, TRUE, rfmon, "host", 0) : rfmon \in BOOLEAN}
        [] OTHER -> {Opt(s, TRUE, rfmon, "host", 0) : s \in {1, 17}, rfmon \in BOOLEAN} ]

SomePrivateCalls == {<<>>, <<"monitor1">>, <<"other", "monitor2">>}

Shut == Interface(FALSE, FALSE, "managed")
Open == Interface(TRUE, FALSE, "managed")
Monitor == Interface(TRUE, TRUE, "monitor")
SomeInterfaces ==
  [ d \in SomeDevices |-> CASE d \in {"st0", "ppp0"} -> {Open} [] d = "wlan0" -> {Shut, Open, Monitor} [] OTHER -> {Open, Shut} ]

SomeNames == {"eth1", "wlan0", "lo", "dummy0"}
SomeNumbers == [eth1 |-> 1, wlan0 |-> 0, lo |-> 0, dummy0 |-> 0]
TellOf(name, alias, addr) == [name |-> name, alias |-> alias, addr |-> addr]
SomeAddresses ==
  { <<TellOf("lo", 0, 1), TellOf("eth1", 0, 2), TellOf("eth1", 1, 3)>>, <<TellOf("dummy0", 0, 1), TellOf("wlan0", 0, 2)>> }
SomeSources == {<<"getad", "sys">>, <<"gifc", "proc">>}
SomeOpenable == {SomeNames, {"lo", "eth1"}}

\* Devices are listed before a pcap_t is created.
Listing == p.life = "none" /\ InterfacesNext /\ UNCHANGED vars
Handling == scan = NoScan /\ ActivateNext /\ UNCHANGED scanVars
MCInit == ActivateInit /\ InterfacesInit
MCSpec == MCInit /\ [][Listing \/ Handling]_<<vars, scanVars>>
=============================================================================
