----------------------------- MODULE Interfaces -----------------------------
(***************************************************************************)
(* The list of devices that can be captured on (inet.c, fad-getad.c,       *)
(* fad-gifc.c, pcap-linux.c): addresses come from the system first, then   *)
(* the entries of /sys/class/net or the lines of /proc/net/dev, then "any";*)
(* a device is listed once, if it is up and can be opened, and the list is *)
(* kept in order while the system's interfaces come and go.                *)
(*                                                                         *)
(* An entry is [name, alias, addr]: what the system calls eth0:1 is the    *)
(* alias 1 of eth0.  A name of the list is <<name, alias>>, 0 for none.    *)
(***************************************************************************)
EXTENDS Integers, Sequences, FiniteSets, SequencesExt

CONSTANTS
  Names,      \* the names of interfaces
  Instance,   \* the number in each name
  Loopback,   \* those that are loopback interfaces
  Dummy,      \* those whose names start with dummy
  Addresses,  \* the entries that the system may tell of: a set of sequences
  Sources,    \* where the addresses and the names come from: <<getad or gifc, sys or proc>>
  Openable    \* sets of names that pcap_open_live opens

ASSUME InterfacesAssumption ==
  /\ Instance \in [Names -> Nat]
  /\ \A told \in Addresses : told \in Seq(ToSet(told))
  /\ \A openable \in Openable : openable \subseteq Names

VARIABLES
  devlist,  \* the list
  scan      \* where pcap_findalldevs is

scanVars == <<devlist, scan>>

any == <<"any", 0>>
INT_MAX == 2147483647
get_instance(dev) == IF dev = any THEN INT_MAX ELSE Instance[dev[1]]
IsLoopback(dev) == dev # any /\ dev[1] \in Loopback

-----------------------------------------------------------------------------
(* add_or_find_if and add_addr_to_iflist, as what they make of the list *)

Listed(list, dev) == \E n \in DOMAIN list : list[n].dev = dev

\* A loopback interface goes behind the others; the numbers decide among those of a kind.
GoesBeforeByNumber(dev, next) ==
  (~IsLoopback(dev) /\ IsLoopback(next)) \/ get_instance(dev) < get_instance(next)
GoesBefore(dev, next) ==
  \/ ~IsLoopback(dev) /\ IsLoopback(next)
  \/ get_instance(dev) < get_instance(next) /\ (~IsLoopback(dev) \/ IsLoopback(next))

Place(list, dev) ==
  LET later == {n \in DOMAIN list : GoesBefore(dev, list[n].dev)}
  IN  IF later = {} THEN Len(list) + 1 ELSE Min(later)
add_or_find_if(list, dev) ==
  IF Listed(list, dev) \/ dev \notin scan.openable THEN list
  ELSE InsertAt(list, Place(list, dev), [dev |-> dev, addresses |-> <<>>])

add_addr_to_iflist(list, dev, addr) ==
  LET found == add_or_find_if(list, dev)
  IN  [n \in DOMAIN found |-> IF found[n].dev = dev THEN [found[n] EXCEPT !.addresses = Append(@, addr)] ELSE found[n]]

-----------------------------------------------------------------------------
(* pcap_findalldevs and pcap_platform_finddevs in steps.  scan.todo are the entries that the      *)
(* addresses are told by, scan.left the names that are still to be read; told, up and status are  *)
(* what was told and found up, and the result, for the properties.                                *)

NoScan == [at |-> "idle", todo |-> <<>>, left |-> {}, from |-> <<"none", "none">>, openable |-> {},
           told |-> <<>>, up |-> {}, status |-> "none"]
InterfacesInit == devlist = <<>> /\ scan = NoScan

pcap_findalldevs ==
  /\ scan.at = "idle" /\ devlist = <<>>
  /\ \E from \in Sources, todo \in Addresses, openable \in Openable :
       scan' = [NoScan EXCEPT !.at = "addresses", !.from = from, !.todo = todo,
                              !.openable = {<<n, 0>> : n \in openable} \cup {<<n, 1>> : n \in openable} \cup {any}]
  /\ UNCHANGED devlist

\* getifaddrs tells of aliases by their names, which are cut; SIOCGIFCONF tells of dummies, which
\* are left out, and is asked again with a larger buffer until all fits.
NameIn(entry) == <<entry.name, IF scan.from[1] = "getad" THEN 0 ELSE entry.alias>>
LeftOut(entry) == scan.from[1] = "gifc" /\ entry.name \in Dummy

\* pcap_freealldevs
Failed == devlist' = <<>> /\ scan' = [scan EXCEPT !.at = "idle", !.status = "error", !.todo = <<>>, !.left = {}]

\* An interface that is down is passed over.  A flag, a netmask or memory that cannot be had is an
\* error.
TakeAddress ==
  /\ scan.at = "addresses" /\ scan.todo # <<>>
  /\ LET entry == Head(scan.todo)
         rest == [scan EXCEPT !.todo = Tail(@)]
     IN  \/ devlist' = devlist /\ scan' = rest
         \/ /\ ~LeftOut(entry)
            /\ devlist' = add_addr_to_iflist(devlist, NameIn(entry), entry.addr)
            /\ scan' = [rest EXCEPT !.told = Append(@, entry), !.up = @ \cup {NameIn(entry)}]
         \/ Failed

TakenAddresses ==
  /\ scan.at = "addresses" /\ scan.todo = <<>>
  /\ scan' = [scan EXCEPT !.at = "names", !.left = Names]
  /\ UNCHANGED devlist

\* scan_sys_class_net, scan_proc_net_dev: in whatever order the system has them.  The interface may
\* be gone, which only the first takes for granted, or down; aliases are cut.
TakeName ==
  /\ scan.at = "names"
  /\ \E name \in scan.left :
       \/ devlist' = devlist /\ scan' = [scan EXCEPT !.left = @ \ {name}]
       \/ /\ devlist' = add_or_find_if(devlist, <<name, 0>>)
          /\ scan' = [scan EXCEPT !.left = @ \ {name}, !.up = @ \cup {<<name, 0>>}]
       \/ Failed

\* A system without /sys is asked by way of /proc; then "any" is added.
TakenNames ==
  /\ scan.at = "names" /\ scan.left = {}
  /\ \/ devlist' = add_or_find_if(devlist, any) /\ scan' = [scan EXCEPT !.at = "idle", !.status = "ok", !.up = @ \cup {any}]
     \/ Failed

\* Where in the list the device is that pcap_lookupdev returns: it is the first, but a loopback
\* interface is not returned.
pcap_lookupdev == {n \in DOMAIN devlist : n = 1 /\ ~IsLoopback(devlist[n].dev)}

pcap_freealldevs ==
  /\ scan.at = "idle" /\ scan.status # "none"
  /\ devlist' = <<>> /\ scan' = NoScan

InterfacesNext ==
  pcap_findalldevs \/ TakeAddress \/ TakenAddresses \/ TakeName \/ TakenNames \/ pcap_freealldevs

InterfacesSpec == InterfacesInit /\ [][InterfacesNext]_scanVars

-----------------------------------------------------------------------------
(* Properties *)

\* Loopback interfaces are last and the others first, each by their numbers, in whatever order they
\* were found: so that the device that is used if none is named is never a loopback interface when
\* there is another.
Before(a, b) == IF IsLoopback(a) = IsLoopback(b) THEN get_instance(a) <= get_instance(b) ELSE IsLoopback(b)
InOrder ==
  /\ \A m, n \in DOMAIN devlist : m < n => Before(devlist[m].dev, devlist[n].dev)
  /\ pcap_lookupdev = {} => \A n \in DOMAIN devlist : IsLoopback(devlist[n].dev)

\* The addresses of a device are those that were told of it, each at its place `where' among all,
\* in that order.
ToldOf(dev) == {k \in DOMAIN scan.told : NameIn(scan.told[k]) = dev}
HasWhatWasTold(entry) ==
  \E where \in [DOMAIN entry.addresses -> ToldOf(entry.dev)] :
    /\ Range(where) = ToldOf(entry.dev)
    /\ \A m, n \in DOMAIN entry.addresses : m < n => where[m] < where[n]
    /\ \A n \in DOMAIN entry.addresses : entry.addresses[n] = scan.told[where[n]].addr

\* A device is in the list once, exactly if it was found up and can be opened, with all its addresses
\* in their order; after an error there is no list.
ListsWhatIsUp ==
  /\ IsInjective([n \in DOMAIN devlist |-> devlist[n].dev])
  /\ \A n \in DOMAIN devlist :
       /\ HasWhatWasTold(devlist[n])
       /\ scan.from[1] = "getad" => devlist[n].dev[2] = 0
  /\ scan.status # "error" => {devlist[n].dev : n \in DOMAIN devlist} = scan.up \cap scan.openable
  /\ scan.status = "error" => devlist = <<>>

\* The list is the same whatever the order in which the system tells of devices and addresses.
DeviceList == InOrder /\ ListsWhatIsUp
=============================================================================
