---------------------------- MODULE LinuxCapture ----------------------------
(***************************************************************************)
(* Capturing with an activated pcap_t on Linux (pcap-linux.c, pcap.c): the *)
(* kernel puts packets that pass the filter of the socket into its queue,  *)
(* or into a ring of frames that it shares with the program, while one     *)
(* thread reads them, sets filters and so on, and another thread, a signal *)
(* handler or the callback may ask it to stop.                             *)
(*                                                                         *)
(* A packet is [proto, out, on, tci]: its protocol, whether it is sent by  *)
(* this host, the interface it is on, and the VLAN tag that the hardware   *)
(* has taken out of it (0: none).                                          *)
(***************************************************************************)
EXTENDS BpfCode

CONSTANTS
  Packets,         \* the packets that may arrive
  Filters,         \* the programs the user may install, given whether the capture is cooked
  QueueRoom,       \* packets the queue of a socket has room for
  Counts,          \* the counts to ask pcap_loop and pcap_dispatch for; -1 is no limit
  MaxFilterLength, \* longest program to try in the kernel: USHRT_MAX
  MaxArrivals,     \* bound: packets that arrive, for each mode of reading
  MaxEvents        \* bound: settings, requests to stop and failures of the interface

VARIABLES
  handle,   \* the pcap_t
  kernel,   \* the socket: its filter, its packets, its counters
  call,     \* what the thread that uses the pcap_t is doing
  given,    \* the packet the callback has been given in this step
  held,     \* the memory that holds the packet pcap_next has returned
  result,   \* the call that has returned in this step
  events    \* how many of the steps that MaxEvents bounds there were

ASSUME CountAssumption == Counts \subseteq Int /\ QueueRoom \in Nat

captureVars == <<handle, kernel, call, given, held, result, events>>

SLL_HDR_LEN == 16
ETH_ALEN == 6
None == [is |-> "none"]

\* What activation has made of the pcap_t (mode: of reading; cc: the frames of its ring), and the
\* rest that reading depends on.
Opened(mode, any, cooked, snapshot, timeout, promisc, cc) ==
  [ mode |-> mode, any |-> any, cooked |-> cooked, snapshot |-> snapshot, timeout |-> timeout,
    promisc |-> promisc, cc |-> cc, fcode |-> <<>>, use_bpf |-> 0, offset |-> 0, direction |-> "inout",
    break_loop |-> FALSE, packets_read |-> 0, proc_dropped |-> 0,
    stat |-> [recv |-> 0, drop |-> 0, ifdrop |-> 0] ]

Mapped == handle.mode = "mmap"

-----------------------------------------------------------------------------
(* Packets, and what each side sees of them *)

\* What the kernel has: the network header's data, after the link header unless it is cooked.
Raw(h, pkt) ==
  (IF h.cooked THEN <<>> ELSE [n \in 1 .. 2 * ETH_ALEN |-> 0] \o <<0, pkt.proto>>) \o <<pkt.proto, 1>>

map_packet_type_to_sll_type(pkt) == IF pkt.out THEN 4 ELSE 0

\* struct sll_header, with an address of no bytes
SllHeader(pkt) ==
  <<0, map_packet_type_to_sll_type(pkt), 0, 1, 0, 0>> \o [n \in 1 .. 8 |-> 0] \o <<0, pkt.proto>>

\* The tag is put back after the addresses: ETH_P_8021Q and the tag.
WithTag(bytes, tci) ==
  IF tci = 0 \/ Len(bytes) < 2 * ETH_ALEN THEN bytes
  ELSE SubSeq(bytes, 1, 2 * ETH_ALEN) \o <<8, 1, 0, tci>> \o SubSeq(bytes, 2 * ETH_ALEN + 1, Len(bytes))

Upto(bytes, n) == SubSeq(bytes, 1, IF n < Len(bytes) THEN n ELSE Len(bytes))

\* The packet as the link-layer type of the pcap_t says it is laid out.
Layout(h, pkt) ==
  IF h.cooked THEN SllHeader(pkt) \o Raw(h, pkt) ELSE WithTag(Raw(h, pkt), pkt.tci)

-----------------------------------------------------------------------------
(* Filters *)

NoFilter == <<>>
bpf_filter(f, bytes) == CHOOSE v \in Outcomes(f, bytes, [i \in MemIndex |-> 0]) : TRUE

\* The program that attaches to the socket to empty its queue.
total_fcode == << [cls |-> "ret", op |-> "k", arg |-> "-", k |-> 0, jt |-> 0, jf |-> 0] >>

\* Offsets into the header that the kernel does not have are turned into offsets into the packet,
\* or into the kernel's own word for what the header will say (SKF_AD_OFF).
CanFixOffset(i) == i.k >= SLL_HDR_LEN \/ i.k \in {0, 14} \/ Signed(i.k) <= 0
fix_offset(i) ==
  IF i.k >= SLL_HDR_LEN THEN [i EXCEPT !.k = i.k - SLL_HDR_LEN]
  ELSE IF i.k = 0 THEN [i EXCEPT !.op = "pkttype"]
  ELSE IF i.k = 14 THEN [i EXCEPT !.op = "protocol"]
  ELSE i

OfPacket(i) == i.cls \in {"ld", "ldx"} /\ i.op \in {"abs", "ind", "msh"}
\* recvmsg would report the length of what the filter lets through, not that of the packet.
KeepAll(i) == IF i.k = 0 THEN i ELSE [i EXCEPT !.k = 65535]

CanFix(h, f) == \A n \in DOMAIN f : h.cooked /\ OfPacket(f[n]) => CanFixOffset(f[n])
fix_program(h, f) ==
  [n \in DOMAIN f |-> IF f[n].cls = "ret" /\ h.mode # "mmap" THEN KeepAll(f[n])
                      ELSE IF h.cooked /\ OfPacket(f[n]) THEN fix_offset(f[n])
                      ELSE f[n]]

\* The kernel's own words are known when the filter runs.
Ancillary(i, pkt) ==
  CASE i.op = "pkttype" -> [i EXCEPT !.op = "imm", !.arg = "W", !.k = map_packet_type_to_sll_type(pkt)]
    [] i.op = "protocol" -> [i EXCEPT !.op = "imm", !.arg = "W", !.k = pkt.proto]
    [] OTHER -> i

\* How much of a packet the filter of the socket lets through.
KernelVerdict(h, f, pkt) ==
  IF f = NoFilter THEN Len(Raw(h, pkt))
  ELSE LET v == bpf_filter([n \in DOMAIN f |-> Ancillary(f[n], pkt)], Raw(h, pkt))
       IN  IF v < Len(Raw(h, pkt)) THEN v ELSE Len(Raw(h, pkt))

-----------------------------------------------------------------------------
(* The kernel *)

SlotsOf(cc) == 0 .. cc - 1
NewKernel(features, cc) ==
  [ filter |-> NoFilter, features |-> features, queue |-> <<>>, frames |-> [s \in SlotsOf(cc) |-> None],
    head |-> 0, nonblock |-> FALSE, error |-> FALSE, arrivals |-> 0,
    packets |-> 0, drops |-> 0, ifdrops |-> 0 ]

Frame(pkt, snap) == [is |-> "packet", id |-> kernel.arrivals + 1, pkt |-> pkt, snap |-> snap]
InKernel(k) == {fr \in ToSet(k.queue) \cup {k.frames[s] : s \in DOMAIN k.frames} : fr # None}

\* Numbers are given to the packets that pass, in the order of arrival.
Enqueued(k, fr) ==
  IF Mapped THEN [k EXCEPT !.frames[k.head] = fr, !.head = (k.head + 1) % handle.cc]
  ELSE [k EXCEPT !.queue = Append(@, fr)]
HasRoom(k) == IF Mapped THEN k.frames[k.head] = None ELSE Len(k.queue) < QueueRoom

\* A packet that passes the filter is counted and put into the queue, or dropped.  The frame it
\* is put into may be the one that a packet was given to the user from.
Received(k, pkt, snap) ==
  LET counted == [k EXCEPT !.packets = @ + 1, !.arrivals = @ + 1]
  IN  IF HasRoom(k) THEN Enqueued(counted, Frame(pkt, snap)) ELSE [counted EXCEPT !.drops = @ + 1]

Overwrites(k) == held = [is |-> "frame", slot |-> k.head] /\ Mapped /\ HasRoom(k)

\* A step that tells the user nothing.
NoResult == [op |-> "none", asked |-> 0, total |-> 0, value |-> 0]
Quiet == given' = None /\ result' = NoResult
Event == events < MaxEvents /\ events' = events + 1

Reaches(pkt) == handle.any \/ pkt.on # "lo"

Deliver(pkt) ==
  LET snap == KernelVerdict(handle, kernel.filter, pkt)
  IN  /\ kernel.arrivals < MaxArrivals[handle.mode]
      /\ snap > 0
      /\ kernel' = Received(kernel, pkt, snap)
      /\ held' = IF Overwrites(kernel) THEN [is |-> "overwritten"] ELSE held

Arrive ==
  /\ \E pkt \in Packets : Reaches(pkt) /\ pkt.on # "elsewhere" /\ Deliver(pkt)
  /\ Quiet
  /\ UNCHANGED <<handle, call, events>>

\* The interface goes down: the next call on the socket tells so.
GoDown ==
  /\ ~kernel.error /\ Event
  /\ kernel' = [kernel EXCEPT !.error = TRUE]
  /\ Quiet
  /\ UNCHANGED <<handle, call, held>>

\* The device drops a packet before the kernel sees it: /proc/net/dev counts it.
DropOnDevice ==
  /\ handle.promisc /\ Event
  /\ kernel' = [kernel EXCEPT !.ifdrops = @ + 1]
  /\ Quiet
  /\ UNCHANGED <<handle, call, held>>

-----------------------------------------------------------------------------
(* The calls.  call.at is where the thread is: "idle" outside of any call.  *)
(* asked and total, what was asked for and the packets given in the call,  *)
(* are there for the properties.                                           *)

Idle == [op |-> "none", at |-> "idle", cnt |-> 0, pkts |-> 0, asked |-> 0, total |-> 0]
PCAP_ERROR == -1
PCAP_ERROR_BREAK == -2

Return(c, n) ==
  /\ call' = Idle
  /\ result' = [op |-> c.op, asked |-> c.asked, total |-> c.total, value |-> n]

Entry == IF Mapped THEN "first" ELSE "check"

\* The packet of the last pcap_next is gone.
Begin(op, cnt) ==
  /\ call.at = "idle"
  /\ call' = [op |-> op, at |-> Entry, cnt |-> cnt, pkts |-> 0, asked |-> cnt, total |-> 0]
  /\ held' = None
  /\ Quiet
  /\ UNCHANGED <<handle, kernel, events>>

pcap_loop == \E cnt \in Counts : Begin("loop", cnt)
pcap_dispatch == \E cnt \in Counts : Begin("dispatch", cnt)
pcap_next == Begin("next", 1)

\* The read operation returns n: pcap_loop reads again when that was nothing, or not enough.
AgainCounted(c, cnt) ==
  /\ call' = [c EXCEPT !.at = Entry, !.cnt = cnt]
  /\ result' = NoResult
Again(c, cnt) ==
  /\ call' = [c EXCEPT !.at = Entry, !.pkts = 0, !.cnt = cnt]
  /\ result' = NoResult
ReadReturns(c, n) ==
  IF c.op # "loop" \/ n < 0 THEN Return(c, n)
  ELSE IF n = 0 \/ c.cnt <= 0 THEN Again(c, c.cnt)
  ELSE IF c.cnt - n <= 0 THEN Return(c, 0)
  ELSE Again(c, c.cnt - n)

Broken == handle' = [handle EXCEPT !.break_loop = FALSE] /\ Return(call, PCAP_ERROR_BREAK)

\* The callback of pcap_next leaves the caller a pointer to the packet.
pcap_oneshot(slot) == IF Mapped THEN [is |-> "frame", slot |-> slot] ELSE [is |-> "buffer"]
pcap_oneshot_mmap(slot) == [is |-> "oneshot_buffer"]
oneshot_callbackUncopied(slot) == pcap_oneshot(slot)
oneshot_callback(slot) == IF Mapped THEN pcap_oneshot_mmap(slot) ELSE pcap_oneshot(slot)

Given == [call EXCEPT !.pkts = @ + 1, !.total = @ + 1]
Give(fr, bytes, len, slot) ==
  /\ given' = [is |-> "packet", id |-> fr.id, pkt |-> fr.pkt, bytes |-> Upto(bytes, handle.snapshot), len |-> len]
  /\ held' = IF call.op = "next" THEN oneshot_callback(slot) ELSE held

-----------------------------------------------------------------------------
(* pcap_read_packet: one packet with recvmsg *)

BreakBeforeReading ==
  /\ call.at = "check"
  /\ given' = None
  /\ IF handle.break_loop THEN Broken
     ELSE call' = [call EXCEPT !.at = "recv"] /\ result' = NoResult /\ UNCHANGED handle
  /\ UNCHANGED <<kernel, held, events>>

\* Packets of other interfaces come from before the socket was bound.
FromElsewhere(pkt) == ~handle.any /\ pkt.on = "elsewhere"

\* Sent packets of the loopback interface are seen twice.
WrongWayOut(pkt) ==
  IF pkt.out THEN pkt.on = "lo" \/ handle.direction # "out" ELSE handle.direction = "out"
WrongWay(pkt) ==
  IF pkt.out THEN pkt.on = "lo" \/ handle.direction = "in" ELSE handle.direction = "out"

\* Kernels that tell the tag do so with the packet and, in version 2 of the header, with the frame.
TagToldUnread(pkt) == 0
TagTold(pkt) == IF "v2" \in kernel.features THEN pkt.tci ELSE 0

\* What recvmsg puts into the buffer, behind the room for the header, and the length it tells.
Buffered(fr) ==
  LET data == SubSeq(Raw(handle, fr.pkt), 1, fr.snap)
      head == IF handle.cooked THEN SllHeader(fr.pkt) ELSE <<>>
  IN  [ bytes |-> WithTag(head \o Upto(data, handle.snapshot - Len(head)), TagTold(fr.pkt)),
        len |-> Len(WithTag(head \o data, TagTold(fr.pkt))) ]

PassesInBuffer(fr) ==
  handle.use_bpf = 0 /\ handle.fcode # NoFilter =>
    bpf_filter(handle.fcode, Upto(Buffered(fr).bytes, handle.snapshot)) # 0

Skipped(fr) ==
  \/ handle.mode = "packet" /\ (FromElsewhere(fr.pkt) \/ WrongWay(fr.pkt))
  \/ ~PassesInBuffer(fr)

ReadPacket ==
  /\ call.at = "recv" /\ kernel.queue # <<>> /\ ~kernel.error
  /\ LET fr == Head(kernel.queue)
     IN  IF Skipped(fr) THEN ReadReturns(call, 0) /\ given' = None /\ UNCHANGED <<handle, held>>
         ELSE /\ handle' = [handle EXCEPT !.packets_read = @ + 1]
              /\ Give(fr, Buffered(fr).bytes, Buffered(fr).len, 0)
              /\ ReadReturns(Given, 1)
  /\ kernel' = [kernel EXCEPT !.queue = Tail(@)]
  /\ UNCHANGED events

\* EAGAIN
ReadWouldBlock ==
  /\ call.at = "recv" /\ kernel.queue = <<>> /\ ~kernel.error /\ kernel.nonblock
  /\ ReadReturns(call, 0)
  /\ given' = None
  /\ UNCHANGED <<handle, kernel, held, events>>

\* ENETDOWN
ReadFails ==
  /\ call.at = "recv" /\ kernel.error
  /\ kernel' = [kernel EXCEPT !.error = FALSE]
  /\ Return(call, PCAP_ERROR)
  /\ given' = None
  /\ UNCHANGED <<handle, held, events>>

-----------------------------------------------------------------------------
(* pcap_read_linux_mmap: the packets that are in the ring *)

pcap_get_ring_frame == kernel.frames[handle.offset] # None

FirstFrame ==
  /\ call.at = "first"
  /\ call' = [call EXCEPT !.at = IF pcap_get_ring_frame THEN "frames" ELSE "poll"]
  /\ Quiet
  /\ UNCHANGED <<handle, kernel, held, events>>

\* A timeout below 0 is non-blocking mode, 0 waits for ever.
PollReturns ==
  /\ call.at = "poll" /\ ~kernel.error
  /\ InKernel(kernel) # {} \/ handle.timeout # 0
  /\ IF handle.break_loop THEN Broken
     ELSE call' = [call EXCEPT !.at = "frames"] /\ result' = NoResult /\ UNCHANGED handle
  /\ given' = None
  /\ UNCHANGED <<kernel, held, events>>

\* POLLERR, and recv(MSG_PEEK) tells why.
PollFails ==
  /\ call.at = "poll" /\ kernel.error
  /\ kernel' = [kernel EXCEPT !.error = FALSE]
  /\ Return(call, PCAP_ERROR)
  /\ given' = None
  /\ UNCHANGED <<handle, held, events>>

\* After a filter has been set, packets that passed the one before are filtered here.
run_bpfUncounted == handle.use_bpf = 0
run_bpf == handle.use_bpf # 1
AfterFiltering == [handle EXCEPT !.use_bpf = IF @ > 1 THEN @ - 1 ELSE @]

PassesInRing(fr) ==
  run_bpf /\ handle.fcode # NoFilter =>
    bpf_filter(handle.fcode, Upto(Raw(handle, fr.pkt), fr.snap)) # 0

\* The header and the tag go in front of the packet, into room that is there for them.
FromRing(fr) ==
  LET head == IF handle.cooked THEN SllHeader(fr.pkt) ELSE <<>>
  IN  [ bytes |-> WithTag(head \o Upto(Raw(handle, fr.pkt), fr.snap), TagTold(fr.pkt)),
        len |-> Len(WithTag(head \o Raw(handle, fr.pkt), TagTold(fr.pkt))) ]

NextSlotEarly(offset) == IF offset + 2 >= handle.cc THEN 0 ELSE offset + 1
NextSlot(offset) == IF offset + 1 >= handle.cc THEN 0 ELSE offset + 1

ReadFrame ==
  /\ call.at = "frames"
  /\ call.pkts < call.cnt \/ call.cnt <= 0
  /\ pcap_get_ring_frame
  /\ LET fr == kernel.frames[handle.offset]
         skip == ~PassesInRing(fr) \/ WrongWay(fr.pkt)
         read == IF skip THEN 0 ELSE 1
     IN  /\ IF skip THEN given' = None /\ held' = held
            ELSE Give(fr, FromRing(fr).bytes, FromRing(fr).len, handle.offset)
         /\ call' = [(IF skip THEN call ELSE Given) EXCEPT !.at = "between"]
         /\ handle' = [AfterFiltering EXCEPT !.offset = NextSlot(@), !.packets_read = @ + read]
  /\ kernel' = [kernel EXCEPT !.frames[handle.offset] = None]
  /\ result' = NoResult
  /\ UNCHANGED events

BreakBetweenFrames ==
  /\ call.at = "between"
  /\ given' = None
  /\ IF handle.break_loop THEN Broken
     ELSE call' = [call EXCEPT !.at = "frames"] /\ result' = NoResult /\ UNCHANGED handle
  /\ UNCHANGED <<kernel, held, events>>

NoMoreFrames ==
  /\ call.at = "frames"
  /\ ~pcap_get_ring_frame \/ (call.cnt > 0 /\ call.pkts >= call.cnt)
  /\ given' = None
  /\ ReadReturns(call, call.pkts)
  /\ UNCHANGED <<handle, kernel, held, events>>

Read ==
  \/ BreakBeforeReading \/ ReadPacket \/ ReadWouldBlock \/ ReadFails
  \/ FirstFrame \/ PollReturns \/ PollFails \/ ReadFrame \/ BreakBetweenFrames \/ NoMoreFrames

-----------------------------------------------------------------------------
(* pcap_breakloop, from another thread or the callback at any time, or from a signal handler, *)
(* which interrupts the system call that the thread waits in. *)

pcap_breakloop ==
  /\ ~handle.break_loop /\ Event
  /\ handle' = [handle EXCEPT !.break_loop = TRUE]
  /\ \/ UNCHANGED call
     \/ call.at = "recv" /\ call' = [call EXCEPT !.at = "check"]
  /\ Quiet
  /\ UNCHANGED <<kernel, held>>

\* EINTR from poll: break_loop is looked at, and the poll is made again.
PollInterrupted ==
  /\ call.at = "poll" /\ handle.break_loop
  /\ Broken
  /\ given' = None
  /\ UNCHANGED <<kernel, held, events>>

-----------------------------------------------------------------------------
(* pcap_setfilter: pcap_setfilter_linux_common, and the count of frames with a ring *)

\* install_bpf_program, then the attempt to attach it to the socket behind the total filter.
StartSetFilter(f) ==
  /\ call.at = "idle" /\ Event
  /\ Quiet
  /\ handle' = [handle EXCEPT !.fcode = f, !.use_bpf = 0]
  /\ IF Len(f) <= MaxFilterLength /\ CanFix(handle, f) /\ "filter" \in kernel.features
     THEN /\ kernel' = [kernel EXCEPT !.filter = total_fcode]
          /\ call' = [Idle EXCEPT !.op = "setfilter", !.at = "drain"]
     ELSE /\ kernel' = [kernel EXCEPT !.filter = NoFilter]
          /\ UNCHANGED call
  /\ UNCHANGED held

pcap_setfilter == \E f \in Filters[handle.cooked] : StartSetFilter(f)

\* recv until EAGAIN; another error is fatal, with the filter left to be run by the program.
Drain ==
  /\ call.at = "drain"
  /\ IF kernel.error
     THEN /\ kernel' = [kernel EXCEPT !.filter = NoFilter, !.error = FALSE]
          /\ Return(call, PCAP_ERROR)
     ELSE /\ kernel' = [kernel EXCEPT !.queue = <<>>]
          /\ call' = [call EXCEPT !.at = "attach"]
          /\ result' = NoResult
  /\ given' = None
  /\ UNCHANGED <<handle, held, events>>

\* The free frames before the current one, going backward from the one before the last.
Back(offset, n) == (offset - n + 2 * handle.cc) % handle.cc
FreeBehind ==
  LET free(n) == kernel.frames[Back(handle.offset, n + 1)] = None
  IN  CHOOSE n \in 0 .. handle.cc :
        /\ \A m \in 1 .. n : free(m)
        /\ n < handle.cc => ~free(n + 1)

Attach ==
  /\ call.at = "attach"
  /\ \/ /\ kernel' = [kernel EXCEPT !.filter = fix_program(handle, handle.fcode)]
        /\ handle' = [handle EXCEPT !.use_bpf = IF Mapped THEN 1 + (handle.cc - FreeBehind) ELSE 1]
     \/ /\ kernel' = [kernel EXCEPT !.filter = NoFilter]
        /\ UNCHANGED handle
  /\ Return(call, 0)
  /\ given' = None
  /\ UNCHANGED <<held, events>>

-----------------------------------------------------------------------------
(* Operations of one step, while the thread is in no other call *)

Operation ==
  /\ call.at = "idle" /\ Event
  /\ Quiet
  /\ UNCHANGED call

pcap_setdirection ==
  /\ Operation /\ UNCHANGED <<kernel, held>>
  /\ handle.mode # "sock_packet"
  /\ \E d \in {"in", "out", "inout"} : handle' = [handle EXCEPT !.direction = d]

\* pcap_setnonblock_mmap, pcap_setnonblock_fd
Nonblocking(timeout) == IF timeout >= 0 THEN timeout * (-1) - 1 ELSE timeout
Blocking(timeout) == IF timeout < 0 THEN (timeout + 1) * (-1) ELSE timeout
pcap_setnonblock ==
  \E nonblock \in BOOLEAN :
    /\ Operation /\ UNCHANGED held
    /\ IF Mapped
       THEN /\ handle' = [handle EXCEPT !.timeout = IF nonblock THEN Nonblocking(@) ELSE Blocking(@)]
            /\ UNCHANGED kernel
       ELSE kernel' = [kernel EXCEPT !.nonblock = nonblock] /\ UNCHANGED handle

\* A packet that is sent is seen by the socket, as one going out.
pcap_inject ==
  /\ Operation /\ UNCHANGED handle
  /\ handle.mode = "sock_packet" \/ ~(handle.any \/ handle.cooked)
  /\ \E pkt \in {q \in Packets : q.out} : Deliver(pkt)

\* The kernel's counters start again when they are read.
WithDrops(h) ==
  IF h.promisc
  THEN [h EXCEPT !.proc_dropped = kernel.ifdrops, !.stat.ifdrop = @ + (kernel.ifdrops - h.proc_dropped)]
  ELSE h
WithCountsOnly(h) ==
  [h EXCEPT !.stat.recv = kernel.packets, !.stat.drop = kernel.drops]
WithCounts(h) ==
  [h EXCEPT !.stat.recv = @ + kernel.packets, !.stat.drop = @ + kernel.drops]
pcap_stats ==
  /\ Operation /\ UNCHANGED held
  /\ IF "stats" \in kernel.features
     THEN /\ handle' = WithCounts(WithDrops(handle))
          /\ kernel' = [kernel EXCEPT !.packets = 0, !.drops = 0]
     ELSE handle' = WithDrops(handle) /\ UNCHANGED kernel

Use ==
  \/ pcap_loop \/ pcap_dispatch \/ pcap_next \/ pcap_setfilter \/ pcap_setdirection
  \/ pcap_setnonblock \/ pcap_inject \/ pcap_stats
Set == Drain \/ Attach
Environment == Arrive \/ GoDown \/ DropOnDevice \/ pcap_breakloop \/ PollInterrupted

CaptureNext == Use \/ Read \/ Set \/ Environment

IsOpened(h, k) ==
  /\ handle = h /\ kernel = k
  /\ call = Idle /\ given = None /\ held = None /\ result = NoResult /\ events = 0

-----------------------------------------------------------------------------
(* Properties *)

Loads(f) == {f[n] : n \in {m \in DOMAIN f : OfPacket(f[m])}}

\* The filter is run on another layout of the packet than the link-layer type's: one with the tag
\* still out of it, or, in a ring, one without the header of a cooked capture.
OtherLayout(h, pkt) ==
  \/ h.mode = "mmap" /\ h.cooked
  \/ pkt.tci # 0 /\ \E i \in Loads(h.fcode) : i.k >= 2 * ETH_ALEN

Passes(h, pkt) ==
  h.fcode = NoFilter \/ bpf_filter(h.fcode, Upto(Layout(h, pkt), h.snapshot)) # 0 \/ OtherLayout(h, pkt)

OurWay(h, pkt) ==
  /\ ~(pkt.on = "elsewhere" /\ ~h.any) /\ ~(pkt.out /\ pkt.on = "lo")
  /\ h.direction # (IF pkt.out THEN "in" ELSE "out")
Wanted(h, pkt) == Passes(h, pkt) /\ (h.mode = "sock_packet" \/ OurWay(h, pkt))

CaptureTypeOK ==
  /\ handle.offset = 0 \/ handle.offset \in DOMAIN kernel.frames
  /\ handle.use_bpf \in 0 .. handle.cc + 1
  /\ handle.direction \in {"in", "out", "inout"} /\ handle.break_loop \in BOOLEAN
  /\ kernel.head \in 0 .. handle.cc /\ Len(kernel.queue) <= QueueRoom
  /\ Mapped => kernel.queue = <<>>
  /\ call.at \in {"idle", "check", "recv", "first", "poll", "frames", "between", "drain", "attach"}

\* A packet that is given to the callback passes the filter that was set last, is of the interface
\* and of the direction asked for: whichever filter was in force when it arrived, and whether the
\* kernel or the program filters.
OnlyWanted == given # None => Wanted(handle, given.pkt)

\* It is the packet as it was on the wire, tag and header put back, up to the snapshot length.
\* (The tag of a cooked packet is put into the middle of its header; some kernels tell no tag.)
RightBytes ==
  given # None /\ (given.pkt.tci # 0 => ~handle.cooked /\ "v2" \in kernel.features) =>
    /\ given.bytes = Upto(Layout(handle, given.pkt), handle.snapshot)
    /\ given.len = Len(Layout(handle, given.pkt))

\* While packets wait, what reading will look at is the one that has waited longest, wherever the
\* ring's ends and the place reading has got to are: it stops at no free frame before one that is
\* taken.
NextToRead == IF Mapped THEN kernel.frames[handle.offset] ELSE Head(kernel.queue)
Oldest(fr) == \A other \in InKernel(kernel) : fr.id <= other.id
OldestIsNext == InKernel(kernel) # {} => NextToRead # None /\ Oldest(NextToRead)

\* Packets leave the kernel in their order, each once: for the callback, or because they are not
\* wanted, or to empty the queue for a filter that is being set, or as the pcap_t is closed.
Gone == {fr \in InKernel(kernel) : fr \notin InKernel(kernel')}
LeavesForAReason ==
  [][ \A fr \in Gone :
        \/ Drain \/ handle'.mode = "none"
        \/ /\ Oldest(fr)
           /\ (given' # None /\ given'.id = fr.id) \/ ~Wanted(handle, fr.pkt) \/ OtherLayout(handle, fr.pkt) ]_captureVars

\* The packet that pcap_next returned stays as it is until the next call: frames are given back to
\* the kernel, which writes to them, before pcap_next returns.
NextIsStable == held.is # "overwritten"

\* A count that pcap_dispatch returns is that of the packets of the call, which are no more than
\* asked for; pcap_loop returns 0 exactly when it has given all that were asked for.
ReturnsTell ==
  /\ result.asked > 0 => result.total <= result.asked
  /\ result.op = "dispatch" /\ result.value >= 0 => result.value = result.total
  /\ result.op = "loop" => result.value <= 0 /\ (result.value = 0 => result.total = result.asked)
  /\ result.op = "loop" /\ result.value < 0 /\ result.asked > 0 => result.total <= result.asked
  /\ result.op = "next" /\ result.value > 0 => held # None

\* Every packet that passes is counted once, whenever statistics are asked for, and is either
\* dropped or waiting or read or left out.
Accounted ==
  /\ "stats" \in kernel.features => handle.stat.recv + kernel.packets = kernel.arrivals
  /\ handle.packets_read + handle.stat.drop + kernel.drops + Cardinality(InKernel(kernel)) <= kernel.arrivals
  /\ handle.promisc => handle.stat.ifdrop = handle.proc_dropped /\ handle.proc_dropped <= kernel.ifdrops
=============================================================================
