--------------------------- MODULE LinuxActivate ---------------------------
(***************************************************************************)
(* A pcap_t on Linux from pcap_create to pcap_close (pcap.c, pcap-linux.c):*)
(* activating it opens and binds a socket, puts the interface into monitor *)
(* or promiscuous mode, and maps a ring of frames, each by system calls of *)
(* which any may fail; then LinuxCapture takes over.                       *)
(***************************************************************************)
EXTENDS LinuxCapture

CONSTANTS
  Devices,     \* names that may be opened, "any" among them
  ArpTypes,    \* the hardware type of each device, given whether it is in monitor mode
  Kernels,     \* what the kernel has, for each device: sets of features
  Options,     \* the options that may be set, for each device
  PrivateCalls,\* the private calls a wireless driver may have: sequences of names
  Busy,        \* the devices on which there is traffic
  Interfaces,  \* what each device may be like: sets of Interface(up, promisc, mode)
  PageSize, TpHdrLen, MaxLinkHeader, Mtu, DefaultBuffer,  \* numbers of bytes
  ShrinkFrom   \* below this number of frames, a ring that is too large is tried with one less

VARIABLES
  p,       \* the pcap_t outside of what LinuxCapture reads
  sys,     \* what the process holds of the system, and what it lost track of
  iface,   \* the interface
  at       \* the next step of the activation, or "idle"

\* The settings that may be asked for, and a longest packet that a block of the largest size that is
\* tried holds with what goes in front of it.
Settings ==
  [ is : {"opt"}, snapshot : Nat, promisc : BOOLEAN, rfmon : BOOLEAN, timeout : Int, tstamp : STRING,
    buffer_size : Nat ]
ASSUME ActivateAssumption ==
  /\ {PageSize, TpHdrLen, ShrinkFrom} \subseteq Nat \ {0} /\ {MaxLinkHeader, Mtu, DefaultBuffer} \subseteq Nat
  /\ \A device \in Devices : \A opt \in Options[device] :
       /\ opt \in Settings
       /\ TpHdrLen + MaxLinkHeader + opt.snapshot + 128 <= PageSize * 2 ^ 8

activateVars == <<p, sys, iface, at>>
vars == <<captureVars, activateVars>>

-----------------------------------------------------------------------------
(* Link-layer types *)

\* map_arphrd_to_dlt, without the types that depend on whether cooked capture is possible.
LinkTypes ==
  [ ETHER |-> "EN10MB", METRICOM |-> "EN10MB", LOOPBACK |-> "EN10MB", EETHER |-> "EN3MB",
    AX25 |-> "AX25_KISS", PRONET |-> "PRONET", CHAOS |-> "CHAOS", CAN |-> "CAN_SOCKETCAN",
    IEEE802_TR |-> "IEEE802", IEEE802 |-> "IEEE802", ARCNET |-> "ARCNET_LINUX", FDDI |-> "FDDI",
    IEEE80211 |-> "IEEE802_11", IEEE80211_PRISM |-> "PRISM_HEADER",
    IEEE80211_RADIOTAP |-> "IEEE802_11_RADIO", CISCO |-> "C_HDLC",
    TUNNEL |-> "RAW", SIT |-> "RAW", CSLIP |-> "RAW", SLIP6 |-> "RAW", CSLIP6 |-> "RAW",
    ADAPT |-> "RAW", SLIP |-> "RAW", RAWHDLC |-> "RAW", DLCI |-> "RAW", NONE |-> "RAW",
    FRAD |-> "FRELAY", LOCALTLK |-> "LTALK", FCPP |-> "IP_OVER_FC", FCAL |-> "IP_OVER_FC",
    FCPL |-> "IP_OVER_FC", FCFABRIC |-> "IP_OVER_FC", IRDA |-> "LINUX_IRDA",
    LAPD |-> "LINUX_LAPD", IEEE802154 |-> "IEEE802_15_4_NOFCS" ]

map_arphrd_to_dlt(arptype, cooked_ok) ==
  CASE arptype \in {"ATM", "PPP"} /\ cooked_ok -> "LINUX_SLL"
    [] arptype = "PPP" /\ ~cooked_ok -> "RAW"
    [] arptype \in DOMAIN LinkTypes -> LinkTypes[arptype]
    [] OTHER -> "none"

\* Ethernet may be told to be DOCSIS.
DltList(arptype) == IF arptype = "ETHER" THEN {"EN10MB", "DOCSIS"} ELSE {}

\* These are captured with a header that the library makes up, whatever the device has.
NeedsCooked(device, linktype) ==
  \/ linktype \in {"none", "LINUX_SLL", "LINUX_IRDA", "LINUX_LAPD"}
  \/ linktype = "EN10MB" /\ device \in {"isdn0", "isdY0"}
CookedType(linktype) == IF linktype \in {"LINUX_IRDA", "LINUX_LAPD"} THEN linktype ELSE "LINUX_SLL"

-----------------------------------------------------------------------------
(* pcap_create, the settings and pcap_close *)

NoSocket == [is |-> "none"]
Socket(type) == [is |-> type, bound |-> FALSE, member |-> FALSE, ring |-> FALSE]

NoRing == [frame_size |-> 0, block_size |-> 0, per_block |-> 0, frame_nr |-> 0, macoff |-> 0]

\* What an interface was like when the pcap_t was created is there for the properties.
Interface(up, promisc, mode) ==
  [up |-> up, promisc |-> promisc, mode |-> mode, wasUp |-> up, wasPromisc |-> promisc, was |-> mode]

\* mem: the fields that point to allocated memory; must: must_do_on_close.
NewPcap(device, opt, features) ==
  [ life |-> "created", device |-> device, opt |-> opt, features |-> features, status |-> 0,
    mem |-> {"source", "tstamp_types"}, must |-> {}, oldmode |-> "managed", linktype |-> "none",
    dlts |-> {}, cooked |-> FALSE, mode |-> "packet", ring |-> NoRing, montype |-> "WEXT", oldup |-> FALSE ]
\* An interface is found in some state, which is what it will be put back to.
ASSUME InterfaceAssumption ==
  \A device \in Devices : \A i \in Interfaces[device] :
    i.wasPromisc \in BOOLEAN /\ i = Interface(i.wasUp, i.wasPromisc, i.was)

NoPcap == [NewPcap("none", [is |-> "none"], {}) EXCEPT !.life = "none", !.mem = {}]

\* fd: the socket of the pcap_t; local: the one that is still a variable of activate_new;
\* monif: the interface that was added for monitor mode; lost: what nothing refers to any more.
NewSys == [fd |-> NoSocket, local |-> NoSocket, mapped |-> FALSE, lost |-> {}, listed |-> FALSE, monif |-> FALSE]

Unopened == Opened("none", FALSE, FALSE, 0, 0, FALSE, 0)

pcap_create ==
  /\ p.life = "none"
  /\ \E device \in Devices : \E opt \in Options[device], features \in Kernels[device] :
       /\ p' = NewPcap(device, opt, features)
       /\ iface' \in Interfaces[device]
  /\ sys' = NewSys
  /\ UNCHANGED <<captureVars, at>>

\* The settings are refused once the pcap_t is activated; after a failure they may be changed.
pcap_set ==
  /\ p.life = "failed" /\ at = "idle"
  /\ \E opt \in Options[p.device] : p' = [p EXCEPT !.opt = opt, !.life = "created"]
  /\ UNCHANGED <<captureVars, sys, iface, at>>

-----------------------------------------------------------------------------
(* pcap_cleanup_linux and pcap_cleanup_linux_mmap, as what they make of the pcap_t, the process
   and the interface.  Without a socket the interface cannot be restored: the user is told. *)

CanRestore == sys.fd # NoSocket
Restored(i) ==
  LET calm == IF "promisc" \in p.must /\ CanRestore THEN [i EXCEPT !.promisc = FALSE] ELSE i
  IN  IF "rfmon" \in p.must /\ CanRestore THEN [calm EXCEPT !.mode = p.oldmode] ELSE calm

pcap_cleanup_live_common(s) == [s EXCEPT !.fd = NoSocket]
LiveMemory == {"buffer", "dlt_list", "tstamp_types", "fcode"}

\* destroy_ring
WithoutRingUnmapped(s) == [s EXCEPT !.fd.ring = FALSE]
WithoutRing(s) == [s EXCEPT !.mapped = FALSE, !.fd.ring = FALSE]
pcap_remove_from_pcaps_to_close(s) == IF p.must # {} THEN [s EXCEPT !.listed = FALSE] ELSE s

del_mon_if(s) == IF "monif" \in p.must /\ CanRestore THEN [s EXCEPT !.monif = FALSE] ELSE s

pcap_cleanup_linux(s) == pcap_cleanup_live_common(pcap_remove_from_pcaps_to_close(del_mon_if(s)))
pcap_cleanup_linux_mmap(s) == pcap_cleanup_linux(WithoutRing(s))

CleanedMemory(mem, mode) ==
  mem \ (LiveMemory \cup {"device"} \cup (IF mode = "mmap" THEN {"oneshot"} ELSE {}))

Close ==
  /\ p' = NoPcap
  /\ IF p.life = "activated"
     THEN /\ iface' = Restored(iface)
          /\ sys' = LET s == IF p.mode = "mmap" THEN pcap_cleanup_linux_mmap(sys) ELSE pcap_cleanup_linux(sys)
                    IN  [s EXCEPT !.lost = @ \cup (CleanedMemory(p.mem, p.mode) \ {"source"})]
     ELSE /\ UNCHANGED iface
          /\ sys' = [pcap_cleanup_live_common(sys) EXCEPT !.lost = @ \cup (p.mem \ (LiveMemory \cup {"source"}))]
  /\ handle' = Unopened /\ kernel' = NewKernel({}, 0)
  /\ call' = Idle /\ given' = None /\ held' = None /\ result' = NoResult /\ events' = 0
  /\ UNCHANGED at

pcap_close ==
  /\ p.life \in {"created", "failed", "activated"} /\ at = "idle" /\ call.at = "idle"
  /\ Close

\* The process exits: pcap_close_all closes what is listed, and the system takes back the rest.
Exit ==
  /\ p.life = "activated" /\ call.at = "idle"
  /\ IF sys.listed THEN iface' = Restored(iface) ELSE UNCHANGED iface
  /\ p' = NoPcap
  /\ sys' = [NewSys EXCEPT !.lost = sys.lost, !.monif = IF sys.listed THEN del_mon_if(sys).monif ELSE sys.monif]
  /\ handle' = Unopened /\ kernel' = NewKernel({}, 0)
  /\ call' = Idle /\ given' = None /\ held' = None /\ result' = NoResult /\ events' = 0
  /\ UNCHANGED at

-----------------------------------------------------------------------------
(* pcap_activate: pcap_activate_linux in steps, one for each system call that matters *)

Goto(step) == at' = step
PCAP_ERROR_RFMON_NOTSUP == -6
PCAP_WARNING_TSTAMP_TYPE_NOTSUP == 3
PCAP_ERROR_NO_SUCH_DEVICE == -5
PCAP_ERROR_PERM_DENIED == -8
PCAP_ERROR_IFACE_NOT_UP == -9

\* "goto fail" of pcap_activate_linux, and initialize_ops: what the pcap_t holds is given back.
FailAfter(s, mem, status) ==
  /\ iface' = Restored(iface)
  /\ sys' = pcap_cleanup_linux(s)
  /\ p' = [p EXCEPT !.life = "failed", !.status = status, !.mem = CleanedMemory(mem, "packet"),
                    !.dlts = {}, !.cooked = FALSE, !.linktype = "none", !.mode = "packet", !.ring = NoRing]
  /\ Goto("idle")
Fail(status) == FailAfter(sys, p.mem, status)

\* activate_new closes the socket that is not yet in the pcap_t before it returns an error.
LocalClosed == [sys EXCEPT !.local = NoSocket]
FailNew(status) == FailAfter(LocalClosed, p.mem, status)

\* The list of what is closed at exit.
pcap_add_to_pcaps_to_close(s) == [s EXCEPT !.listed = TRUE]

\* A step of the activation leaves the rest alone.
Step(step) == at = step /\ UNCHANGED captureVars

pcap_activate ==
  /\ p.life = "created" /\ at = "idle"
  /\ p' = [p EXCEPT !.life = "activating", !.mem = @ \cup {"device"},
                    !.opt.promisc = @ /\ p.device # "any"]
  /\ Goto("socket")
  /\ UNCHANGED <<captureVars, sys, iface>>

\* socket(PF_PACKET): kernels that do not have it lead to activate_old.
OpenSocket ==
  /\ Step("socket")
  /\ \/ /\ "packet" \in p.features
        /\ sys' = [sys EXCEPT !.local = Socket(IF p.device = "any" THEN "dgram" ELSE "raw")]
        /\ Goto(IF p.device = "any" THEN "any" ELSE IF p.opt.rfmon THEN "phy" ELSE "arptype")
        /\ UNCHANGED <<p, iface>>
     \/ /\ "packet" \notin p.features
        /\ Goto("old")
        /\ UNCHANGED <<p, sys, iface>>
     \/ \E status \in {PCAP_ERROR_PERM_DENIED, PCAP_ERROR} : Fail(status)

\* The device that captures on all interfaces has no monitor mode; its socket is forgotten then.
AnyDevice ==
  /\ Step("any")
  /\ IF p.opt.rfmon
     THEN FailAfter([sys EXCEPT !.local = NoSocket, !.lost = @ \cup {"socket"}], p.mem, PCAP_ERROR_RFMON_NOTSUP)
     ELSE /\ p' = [p EXCEPT !.cooked = TRUE, !.linktype = "LINUX_SLL"]
          /\ Goto("auxdata")
          /\ UNCHANGED <<sys, iface>>

-----------------------------------------------------------------------------
(* enter_rfmon_mode_mac80211: an interface of the same radio is added, in monitor mode *)

\* get_mac80211_phydev
FindPhy ==
  /\ Step("phy")
  /\ \/ Goto(IF "mac80211" \in p.features THEN "add" ELSE "wext") /\ UNCHANGED <<p, sys, iface>>
     \/ FailNew(PCAP_ERROR)

\* nl80211_init, add_mon_if under the first name that is free, pcap_do_addexit
AddMonitor ==
  /\ Step("add")
  /\ \/ /\ sys' = [sys EXCEPT !.monif = TRUE]
        /\ Goto("mon_up")
        /\ UNCHANGED <<p, iface>>
     \/ FailNew(PCAP_ERROR)
     \/ FailAfter([LocalClosed EXCEPT !.monif = TRUE, !.lost = @ \cup {"monif"}], p.mem, PCAP_ERROR_RFMON_NOTSUP)

\* The interface is deleted again if it does not come up.
BringMonitorUp ==
  /\ Step("mon_up")
  /\ \/ /\ p' = [p EXCEPT !.must = @ \cup {"monif"}]
        /\ sys' = pcap_add_to_pcaps_to_close(sys)
        /\ Goto("arptype")
        /\ UNCHANGED iface
     \/ FailAfter([LocalClosed EXCEPT !.monif = FALSE], p.mem, PCAP_ERROR)

enter_rfmon_mode_mac80211 == FindPhy \/ AddMonitor \/ BringMonitorUp

-----------------------------------------------------------------------------
(* enter_rfmon_mode_wext: monitor mode with the wireless extensions *)

\* What each of the private calls that drivers have says of the driver, and how many arguments it
\* takes; the first that is known and has the arguments expected decides.
MonitorTypes ==
  [ monitor_type |-> "HOSTAP", set_prismhdr |-> "PRISM54", forceprismheader |-> "RT2570",
    forceprism |-> "RT73", prismhdr |-> "RTL8XXX", rfmontx |-> "RT2500",
    monitor1 |-> "PRISM", monitor2 |-> "ACX100" ]
MonitorType(privates) ==
  LET known == {n \in DOMAIN privates : privates[n] \in DOMAIN MonitorTypes}
  IN  IF known = {} THEN "WEXT" ELSE MonitorTypes[privates[Min(known)]]

\* has_wext and SIOCGIWPRIV
FindDriver ==
  /\ Step("wext")
  /\ \/ "wext" \notin p.features /\ \E status \in {PCAP_ERROR_RFMON_NOTSUP, PCAP_ERROR_NO_SUCH_DEVICE} : FailNew(status)
     \/ FailNew(PCAP_ERROR)
     \/ /\ "wext" \in p.features
        /\ \E privates \in PrivateCalls : p' = [p EXCEPT !.montype = MonitorType(privates)]
        /\ Goto("mode")
        /\ UNCHANGED <<sys, iface>>

\* Nothing is to be done, nor undone, for an interface that is in monitor mode.
GetMode ==
  /\ Step("mode")
  /\ \/ FailNew(PCAP_ERROR_RFMON_NOTSUP)
     \/ /\ iface.mode = "monitor"
        /\ Goto("arptype")
        /\ UNCHANGED <<p, sys, iface>>
     \/ /\ iface.mode # "monitor"
        /\ p' = [p EXCEPT !.oldmode = iface.mode]
        /\ Goto(IF p.montype = "PRISM" THEN "prism" ELSE "down")
        /\ UNCHANGED <<sys, iface>>

\* must_do_on_close is set.
InMonitorMode(pp) == [pp EXCEPT !.must = @ \cup {"rfmon"}]

\* A Prism driver does it all in one call; if it refuses, the usual way is tried.
Prism ==
  /\ Step("prism")
  /\ \/ /\ iface' = [iface EXCEPT !.mode = "monitor"]
        /\ p' = InMonitorMode(p)
        /\ sys' = pcap_add_to_pcaps_to_close(sys)
        /\ Goto("arptype")
     \/ Goto("down") /\ UNCHANGED <<p, sys, iface>>

\* The mode of an interface can be changed while it is down.
TakeDown ==
  /\ Step("down")
  /\ \/ FailNew(PCAP_ERROR)
     \/ /\ p' = [p EXCEPT !.oldup = iface.up]
        /\ iface' = [iface EXCEPT !.up = FALSE]
        /\ Goto("monitor")
        /\ UNCHANGED sys

SetMode ==
  /\ Step("monitor")
  /\ \/ /\ iface' = [iface EXCEPT !.mode = "monitor"]
        /\ Goto("headers")
        /\ UNCHANGED <<p, sys>>
     \/ \E up \in {p.oldup, FALSE} :
          /\ p' = [p EXCEPT !.life = "failed", !.mem = CleanedMemory(p.mem, "packet"), !.mode = "packet",
                            !.status = IF up = p.oldup THEN PCAP_ERROR_RFMON_NOTSUP ELSE PCAP_ERROR]
          /\ sys' = [pcap_cleanup_linux(LocalClosed) EXCEPT !.lost = IF up = p.oldup THEN @ ELSE @ \cup {"up"}]
          /\ iface' = [iface EXCEPT !.up = up]
          /\ Goto("idle")

\* Headers with the signal strength are asked for by a call of the driver's own, whose failure is
\* ignored, except that the channel of an ACX100 is needed for it.
AskForHeaders ==
  /\ Step("headers")
  /\ \/ Goto("up") /\ UNCHANGED <<p, sys, iface>>
     \/ p.montype = "ACX100" /\ FailAfter([LocalClosed EXCEPT !.lost = @ \cup {"up", "mode"}], p.mem, PCAP_ERROR)

\* If it does not come up again, the mode is set back through the socket of the pcap_t, which is
\* not open yet.
BringUp ==
  /\ Step("up")
  /\ \/ /\ iface' = [iface EXCEPT !.up = p.oldup]
        /\ p' = InMonitorMode(p)
        /\ sys' = pcap_add_to_pcaps_to_close(sys)
        /\ Goto("arptype")
     \/ p.oldup /\ FailAfter([LocalClosed EXCEPT !.lost = @ \cup {"up", "mode"}], p.mem, PCAP_ERROR)

enter_rfmon_mode_wext ==
  FindDriver \/ GetMode \/ Prism \/ TakeDown \/ SetMode \/ AskForHeaders \/ BringUp
enter_rfmon_mode == enter_rfmon_mode_mac80211 \/ enter_rfmon_mode_wext

-----------------------------------------------------------------------------
(* activate_new, after monitor mode *)

\* Without a socket in the pcap_t, the mode is not set back when the activation fails from here.
FailUnrestored(status) ==
  FailAfter([LocalClosed EXCEPT !.lost = @ \cup (IF "rfmon" \in p.must /\ iface.mode # iface.was THEN {"mode"} ELSE {})
                                            \cup (IF sys.monif THEN {"monif"} ELSE {})], p.mem, status)

ArpType == ArpTypes[p.device][IF sys.monif THEN "monitor" ELSE iface.mode]

\* iface_get_arptype; a device that needs it gets another socket, for cooked capture.
GetArpType ==
  /\ Step("arptype")
  /\ \/ \E status \in {PCAP_ERROR_NO_SUCH_DEVICE, PCAP_ERROR} : FailUnrestored(status)
     \/ LET linktype == map_arphrd_to_dlt(ArpType, TRUE)
            cooked == NeedsCooked(p.device, linktype)
            dlts == IF cooked THEN {} ELSE DltList(ArpType)
        IN  /\ p' = [p EXCEPT !.cooked = cooked, !.linktype = IF cooked THEN CookedType(linktype) ELSE linktype,
                              !.dlts = dlts, !.mem = IF dlts = {} THEN @ ELSE @ \cup {"dlt_list"}]
            /\ sys' = IF cooked THEN LocalClosed ELSE sys
            /\ Goto(IF cooked THEN "reopen" ELSE "bind")
            /\ UNCHANGED iface

Reopen ==
  /\ Step("reopen")
  /\ \/ /\ sys' = [sys EXCEPT !.local = Socket("dgram")]
        /\ Goto("bind")
        /\ UNCHANGED <<p, iface>>
     \/ \E status \in {PCAP_ERROR_PERM_DENIED, PCAP_ERROR} : FailUnrestored(status)

\* iface_get_id and iface_bind; an error that is left on the socket leads to activate_old.
Bind ==
  /\ Step("bind")
  /\ \/ /\ iface.up \/ sys.monif
        /\ sys' = [sys EXCEPT !.local.bound = TRUE]
        /\ Goto("promisc")
        /\ UNCHANGED <<p, iface>>
     \/ ~iface.up /\ ~sys.monif /\ FailUnrestored(PCAP_ERROR_IFACE_NOT_UP)
     \/ FailUnrestored(PCAP_ERROR)
     \/ /\ "so_error" \in p.features
        /\ sys' = LocalClosed
        /\ Goto("old")
        /\ UNCHANGED <<p, iface>>

\* The membership lasts as long as the socket.
JoinPromisc ==
  /\ Step("promisc")
  /\ \/ /\ sys' = [sys EXCEPT !.local.member = p.opt.promisc]
        /\ Goto("auxdata")
        /\ UNCHANGED <<p, iface>>
     \/ p.opt.promisc /\ FailUnrestored(PCAP_ERROR)

\* Cooked packets have their header; the socket is now the pcap_t's.
AskForTags ==
  /\ Step("auxdata")
  /\ \/ /\ sys' = [sys EXCEPT !.fd = sys.local, !.local = NoSocket]
        /\ p' = [p EXCEPT !.opt.snapshot = IF p.cooked /\ @ < SLL_HDR_LEN + 1 THEN SLL_HDR_LEN + 1 ELSE @]
        /\ Goto("oneshot")
        /\ UNCHANGED iface
     \/ FailUnrestored(PCAP_ERROR)

activate_new ==
  OpenSocket \/ AnyDevice \/ enter_rfmon_mode \/ GetArpType \/ Reopen \/ Bind \/ JoinPromisc \/ AskForTags

-----------------------------------------------------------------------------
(* activate_mmap *)

FailMmap(s, status) == FailAfter(s, p.mem \ {"oneshot"}, status)

\* A buffer size is chosen for the ring; it is kept for a socket without one.
AllocateOneshot ==
  /\ Step("oneshot")
  /\ \/ /\ p' = [p EXCEPT !.mem = @ \cup {"oneshot"}, !.opt.buffer_size = IF @ = 0 THEN DefaultBuffer ELSE @]
        /\ Goto("prepare")
        /\ UNCHANGED <<sys, iface>>
     \/ Fail(PCAP_ERROR)

\* prepare_tpacket_socket: version 2 of the ring, with room for a tag, if the kernel has it.
PrepareSocket ==
  /\ Step("prepare")
  /\ \/ Goto("tstamp") /\ UNCHANGED <<p, sys, iface>>
     \/ "v2" \in p.features /\ FailMmap(sys, PCAP_ERROR)

\* create_ring: the time stamps of the adapter are the user's wish only.
SetTimeStamps ==
  /\ Step("tstamp")
  /\ IF p.opt.tstamp = "adapter"
     THEN \/ \E warning \in {0, PCAP_WARNING_TSTAMP_TYPE_NOTSUP} :
               /\ p' = [p EXCEPT !.status = warning]
               /\ Goto("ring")
               /\ UNCHANGED <<sys, iface>>
          \/ \E status \in {PCAP_ERROR_PERM_DENIED, PCAP_ERROR} : FailMmap(sys, status)
     ELSE Goto("ring") /\ UNCHANGED <<p, sys, iface>>

(* create_ring: frames of a size, in blocks of whole pages *)

AlignDown(n) == 16 * (n \div 16)
Align(n) == 16 * ((n + 15) \div 16)
Least(a, b) == IF a < b THEN a ELSE b
Most(a, b) == IF a > b THEN a ELSE b

\* Ethernet packets are no longer than the MTU and their header, unless the device puts them together.
BytesOfPacket(pp) ==
  IF pp.linktype = "EN10MB" /\ "offload" \notin pp.features
  THEN Least(pp.opt.snapshot, Mtu + 18) ELSE pp.opt.snapshot

\* frame_nr is what the buffer asked for has room for; NoBlocks leaves it to be rounded.
tp_reserve(pp) == IF "v2" \in pp.features THEN 4 ELSE 0
AskedRing(pp) ==
  LET maclen == IF pp.cooked THEN 0 ELSE MaxLinkHeader
      macoff == Align(TpHdrLen + Most(maclen, 16)) + tp_reserve(pp) - maclen
      frame_size == Align(macoff + BytesOfPacket(pp))
      block_size == Min({size \in {PageSize * 2 ^ n : n \in 0 .. 8} : size >= frame_size})
  IN  [ frame_size |-> frame_size, block_size |-> block_size, per_block |-> block_size \div frame_size,
        frame_nr |-> pp.opt.buffer_size \div frame_size, macoff |-> macoff ]

block_nr(ring) == ring.frame_nr \div ring.per_block
Rounded(ring) == [ring EXCEPT !.frame_nr = block_nr(ring) * ring.per_block]
Smaller(ring) == [ring EXCEPT !.frame_nr = IF @ < ShrinkFrom THEN @ - 1 ELSE @ - @ \div ShrinkFrom]

AskForRing ==
  /\ Step("ring")
  /\ \/ /\ p' = [p EXCEPT !.ring = Rounded(AskedRing(p))]
        /\ Goto("try_ring")
        /\ UNCHANGED <<sys, iface>>
     \/ FailMmap(sys, PCAP_ERROR)

\* ENOMEM: less is tried, while there is more than one block; ENOPROTOOPT: a kernel without rings.
TryRing ==
  /\ Step("try_ring")
  /\ \/ /\ "ring" \in p.features
        /\ sys' = [sys EXCEPT !.fd.ring = block_nr(p.ring) > 0]
        /\ Goto("mmap")
        /\ UNCHANGED <<p, iface>>
     \/ /\ "ring" \in p.features /\ block_nr(p.ring) > 1
        /\ p' = [p EXCEPT !.ring = Rounded(Smaller(p.ring))]
        /\ UNCHANGED <<sys, iface, at>>
     \/ /\ "ring" \notin p.features
        /\ p' = [p EXCEPT !.mem = @ \ {"oneshot"}, !.ring = NoRing, !.status = 0]
        /\ Goto("rcvbuf")
        /\ UNCHANGED <<sys, iface>>
     \/ FailMmap(sys, PCAP_ERROR)

MapRing ==
  /\ Step("mmap")
  /\ \/ /\ sys.fd.ring
        /\ sys' = [sys EXCEPT !.mapped = TRUE]
        /\ Goto("frames")
        /\ UNCHANGED <<p, iface>>
     \/ FailMmap(WithoutRing(sys), PCAP_ERROR)

\* The pointers to the frames are the buffer of a pcap_t with a ring.
ListFrames ==
  /\ Step("frames")
  /\ \/ /\ p' = [p EXCEPT !.mem = @ \cup {"buffer"}, !.mode = "mmap"]
        /\ Goto("opened")
        /\ UNCHANGED <<sys, iface>>
     \/ FailMmap(WithoutRing(sys), PCAP_ERROR)

activate_mmap ==
  AllocateOneshot \/ PrepareSocket \/ SetTimeStamps \/ AskForRing \/ TryRing \/ MapRing \/ ListFrames

-----------------------------------------------------------------------------
(* activate_old: SOCK_PACKET sockets *)

OpenOld ==
  /\ Step("old")
  /\ \/ FailUnrestored(PCAP_ERROR_PERM_DENIED)
     \/ p.device = "any" /\ Fail(PCAP_ERROR)
     \/ /\ p.device # "any"
        /\ sys' = [sys EXCEPT !.fd = Socket("old")]
        /\ p' = [p EXCEPT !.cooked = FALSE, !.mode = "sock_packet"]
        /\ Goto("bind_old")
        /\ UNCHANGED iface

\* iface_bind_old, iface_get_arptype.  A list of link types that activate_new left is lost.
BindOld ==
  LET linktype == map_arphrd_to_dlt(ArpType, FALSE)
      dlts == DltList(ArpType)
  IN  /\ Step("bind_old")
      /\ \/ Fail(PCAP_ERROR)
         \/ /\ linktype # "none"
            /\ p' = [p EXCEPT !.linktype = linktype, !.dlts = IF dlts = {} THEN @ ELSE dlts,
                              !.mem = IF dlts = {} THEN @ ELSE @ \cup {"dlt_list"}]
            /\ sys' = [sys EXCEPT !.fd.bound = TRUE,
                                  !.lost = IF dlts # {} /\ "dlt_list" \in p.mem THEN @ \cup {"dlt_list"} ELSE @]
            /\ Goto("promisc_old")
            /\ UNCHANGED iface

\* The flag of the interface is set, and is to be cleared, unless it was set already.
PromiscOld ==
  /\ Step("promisc_old")
  /\ \/ /\ ~p.opt.promisc \/ iface.promisc
        /\ Goto("mtu_old")
        /\ UNCHANGED <<p, sys, iface>>
     \/ /\ p.opt.promisc /\ ~iface.promisc
        /\ iface' = [iface EXCEPT !.promisc = TRUE]
        /\ p' = [p EXCEPT !.must = @ \cup {"promisc"}]
        /\ sys' = pcap_add_to_pcaps_to_close(sys)
        /\ Goto("mtu_old")
     \/ p.opt.promisc /\ Fail(PCAP_ERROR)

MtuOld ==
  /\ Step("mtu_old")
  /\ \/ Goto("rcvbuf") /\ UNCHANGED <<p, sys, iface>>
     \/ Fail(PCAP_ERROR)

activate_old == OpenOld \/ BindOld \/ PromiscOld \/ MtuOld

-----------------------------------------------------------------------------
(* The end of pcap_activate_linux for a socket without a ring, and of every activation *)

SetBufferSize ==
  /\ Step("rcvbuf")
  /\ \/ Goto("buffer") /\ UNCHANGED <<p, sys, iface>>
     \/ p.opt.buffer_size # 0 /\ Fail(PCAP_ERROR)

AllocateBuffer ==
  /\ Step("buffer")
  /\ \/ /\ p' = [p EXCEPT !.mem = @ \cup {"buffer"}, !.status = 0]
        /\ Goto("opened")
        /\ UNCHANGED <<sys, iface>>
     \/ Fail(PCAP_ERROR)

\* Until the socket was bound it was given the packets of all interfaces; a ring starts empty.
Early == {pkt \in Packets : pkt.on = "elsewhere" /\ p.mode = "packet" /\ p.device # "any"}

Activated ==
  /\ at = "opened"
  /\ p' = [p EXCEPT !.life = "activated"]
  /\ handle' = Opened(p.mode, p.device = "any", p.cooked, p.opt.snapshot, p.opt.timeout, p.opt.promisc, p.ring.frame_nr)
  /\ LET opened == NewKernel(p.features, p.ring.frame_nr)
     IN  \/ kernel' = opened
         \/ \E pkt \in Early : kernel' = Received(opened, pkt, Len(Raw(handle', pkt)))
  /\ Goto("idle")
  /\ UNCHANGED <<call, given, held, result, events, sys, iface>>

pcap_activate_linux == activate_new \/ activate_mmap \/ activate_old \/ SetBufferSize \/ AllocateBuffer \/ Activated

\* One of the link types that the device has may be chosen instead.
pcap_set_datalink ==
  /\ p.life = "activated" /\ call.at = "idle"
  /\ \E dlt \in p.dlts : p' = [p EXCEPT !.linktype = dlt]
  /\ UNCHANGED <<captureVars, sys, iface, at>>

-----------------------------------------------------------------------------
(* The whole *)

Capture == p.life = "activated" /\ p.device \in Busy /\ CaptureNext /\ UNCHANGED activateVars

ActivateInit ==
  /\ IsOpened(Unopened, NewKernel({}, 0))
  /\ p = NoPcap /\ sys = NewSys /\ iface = Interface(TRUE, FALSE, "managed") /\ at = "idle"

ActivateNext ==
  \/ pcap_create \/ pcap_set \/ pcap_activate \/ pcap_activate_linux \/ pcap_set_datalink
  \/ pcap_close \/ Exit \/ Capture

ActivateSpec == ActivateInit /\ [][ActivateNext]_vars

-----------------------------------------------------------------------------
(* Properties *)

ActivateTypeOK ==
  /\ CaptureTypeOK
  /\ p.life \in {"none", "created", "activating", "activated", "failed"}
  /\ p.must \subseteq {"promisc", "rfmon", "monif"} /\ p.dlts \subseteq {"EN10MB", "DOCSIS"}
  /\ p.mode \in {"packet", "mmap", "sock_packet"} /\ p.ring.frame_nr \in Nat
  /\ sys.fd.is \in {"none", "raw", "dgram", "old"} /\ sys.local.is \in {"none", "raw", "dgram"}
  /\ sys.mapped \in BOOLEAN /\ sys.listed \in BOOLEAN
  /\ at = "idle" <=> p.life # "activating"

\* Once an activation has failed, or a pcap_t has been closed, whatever the step at which a system
\* call failed, no socket, mapping or memory of it is left, and it is in no list.  (The socket of
\* "any" in monitor mode is; so may be a list of link types, on the way to activate_old.)
Released ==
  /\ p.life \in {"none", "failed"} =>
       /\ sys.fd = NoSocket /\ sys.local = NoSocket /\ ~sys.mapped /\ ~sys.listed
       /\ p.mem \subseteq {"source"}
  /\ p.life = "activated" =>
       /\ sys.fd # NoSocket /\ sys.local = NoSocket
       /\ sys.mapped <=> p.mode = "mmap"
       /\ sys.listed => p.must # {}
  /\ sys.lost \subseteq {"mode", "up", "monif", "dlt_list", "socket"}

\* The interface is as it was before, up or down and in its mode, promiscuous if it was: after a
\* failure, a close or an exit of the process, unless there was no socket to do that with; so is the
\* interface that was added deleted.
InterfaceRestored ==
  p.life \in {"none", "failed"} =>
    /\ iface.promisc = iface.wasPromisc
    /\ iface.mode = iface.was \/ "mode" \in sys.lost
    /\ iface.up = iface.wasUp \/ "up" \in sys.lost
    /\ sys.monif => "monif" \in sys.lost

\* The link-layer type says whether the library makes up the header, and the device is bound,
\* promiscuous and in monitor mode as asked.  (Old kernels have no monitor mode; nothing tells so.)
LinkTypeTells ==
  p.life = "activated" =>
    /\ p.mode # "sock_packet" => (p.cooked <=> p.linktype \in {"LINUX_SLL", "LINUX_IRDA", "LINUX_LAPD"})
    /\ p.cooked => sys.fd.is = "dgram" /\ p.opt.snapshot > SLL_HDR_LEN
    /\ sys.fd.bound <=> p.device # "any"
    /\ p.opt.promisc => p.device # "any" /\ (sys.fd.member \/ iface.promisc)
    /\ p.opt.rfmon => p.mode = "sock_packet" \/ ((iface.mode = "monitor" \/ sys.monif) /\ p.device # "any")

\* Every frame of a ring has room for the packet that was asked for and for the header and the tag
\* that are put in front of it, and the frames fit into the blocks that were mapped.
LongestPacket == BytesOfPacket(IF p.linktype = "DOCSIS" THEN [p EXCEPT !.linktype = "EN10MB"] ELSE p)
RingHolds ==
  p.life = "activated" /\ p.mode = "mmap" =>
    /\ p.ring.frame_nr > 0
    /\ p.ring.macoff + LongestPacket <= p.ring.frame_size
    /\ p.ring.per_block * p.ring.frame_size <= p.ring.block_size
    /\ p.ring.frame_nr * p.ring.frame_size <= p.opt.buffer_size
    /\ p.cooked => p.ring.macoff - tp_reserve(p) - SLL_HDR_LEN >= TpHdrLen
    /\ handle.snapshot = p.opt.snapshot /\ DOMAIN kernel.frames = 0 .. p.ring.frame_nr - 1

\* Descriptor, ring, counters and what the kernel keeps for them fit together at every step: reading
\* is where the packet is that has waited longest, and every packet is accounted for.
Consistent == ActivateTypeOK /\ Accounted /\ OldestIsNext

\* Whatever failed, nothing is left behind: no socket, mapping or memory, and the interface is as
\* it was found.
NothingLeft == Released /\ InterfaceRestored

\* What was activated is what was asked for, and its ring holds what it will give.
AsAsked == LinkTypeTells /\ RingHolds
=============================================================================
