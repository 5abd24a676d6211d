------------------------ MODULE LinuxActivateProofs ------------------------
(***************************************************************************)
(* Proof that an activation that fails leaves nothing behind, nor does a   *)
(* pcap_t that is closed or the exit of the process: for any devices,      *)
(* kernels and options, whichever call fails, and however often it is      *)
(* tried again.                                                            *)
(*                                                                         *)
(* must_do_on_close, the list for the exit and the descriptor that the     *)
(* interface can be restored through come about in different steps.  The   *)
(* invariant says of each point of the activation which of them there are, *)
(* and of all that was done to the interface that it is undone from there  *)
(* or is among what the code loses track of.                               *)
(*                                                                         *)
(* Also, what the calls on an activated handle return, what was activated, *)
(* what the counters say, and the list of devices to choose one from.      *)
(***************************************************************************)
EXTENDS LinuxActivate, Interfaces, QueueProofs

-----------------------------------------------------------------------------
(* The steps, by what the activation has come to. *)

\* The interface is put into monitor mode.
Entering ==
  {"phy", "add", "mon_up", "wext", "mode", "prism", "down", "monitor", "headers", "up"}

\* The socket is a variable of activate_new.
Binding == Entering \cup {"any", "arptype", "bind", "promisc", "auxdata"}

\* There is no socket.
Between == {"socket", "reopen", "old"}

\* The packet that pcap_next gives has its buffer, and a ring is made.
WithOneshot == {"prepare", "tstamp", "ring", "try_ring", "mmap", "frames"}

ActivateOld == {"bind_old", "promisc_old", "mtu_old"}

\* The socket is the pcap_t's.
Owning == {"oneshot", "rcvbuf", "buffer", "opened"} \cup WithOneshot \cup ActivateOld

Owns == at \in Owning \/ p.life = "activated"

-----------------------------------------------------------------------------
(* The inductive invariant. *)

PcapFields ==
  {"life", "device", "opt", "features", "status", "mem", "must", "oldmode", "linktype",
   "dlts", "cooked", "mode", "ring", "montype", "oldup"}
SysFields == {"fd", "local", "mapped", "lost", "listed", "monif"}
IfaceFields == {"up", "promisc", "mode", "wasUp", "wasPromisc", "was"}
SocketFields == {"is", "bound", "member", "ring"}

Shape ==
  /\ DOMAIN p = PcapFields /\ DOMAIN sys = SysFields /\ DOMAIN iface = IfaceFields
  /\ p.life \in {"none", "created", "activating", "activated", "failed"}
  /\ at \in {"idle"} \cup Between \cup Binding \cup Owning
  /\ at = "idle" <=> p.life # "activating"

Descriptor(s) == DOMAIN s = SocketFields /\ s.is \in {"raw", "dgram", "old"}

SocketsHeld ==
  /\ IF Owns THEN Descriptor(sys.fd) ELSE sys.fd = NoSocket
  /\ IF at \in Binding THEN Descriptor(sys.local) ELSE sys.local = NoSocket

\* What the code loses track of.
Losses == {"mode", "up", "monif", "dlt_list", "socket"}
Memory == {"source", "tstamp_types", "device", "dlt_list", "buffer", "oneshot"}

MemoryHeld ==
  /\ sys.mapped <=> at = "frames" \/ p.mode = "mmap"
  /\ p.mode = "mmap" => at = "opened" \/ p.life = "activated"
  /\ p.mem \subseteq Memory
  /\ "oneshot" \in p.mem => at \in WithOneshot \/ p.mode = "mmap"
  /\ p.life = "created" => p.mem \subseteq {"source", "tstamp_types"}
  /\ p.life \in {"none", "failed"} => p.mem \subseteq {"source"}
  /\ sys.lost \subseteq Losses

\* What is closed at exit has something to undo, and a descriptor, or will have one; there
\* is nothing to be undone on all interfaces.
ListedToUndo ==
  /\ sys.listed => /\ p.must # {}
                   /\ at \notin Entering \cup {"socket", "any"}
                   /\ p.life \in {"activating", "activated"}
  /\ p.device = "any" =>
       /\ p.must = {}
       /\ at \notin Entering \cup {"arptype", "reopen", "bind", "promisc"} \cup ActivateOld

PromiscToUndo ==
  /\ iface.wasPromisc \in BOOLEAN
  /\ "promisc" \in p.must => ~iface.wasPromisc
  /\ iface.promisc = iface.wasPromisc \/ ("promisc" \in p.must /\ sys.listed /\ Owns)

ModeToUndo ==
  /\ iface.mode \in {iface.was, "monitor"}
  /\ "rfmon" \in p.must \/ at \in {"prism", "down", "monitor", "headers", "up"} =>
       p.oldmode = iface.was
  /\ \/ iface.mode = iface.was
     \/ "mode" \in sys.lost
     \/ at \in {"headers", "up"}
     \/ "rfmon" \in p.must /\ sys.listed

UpToUndo ==
  /\ iface.up = iface.wasUp \/ "up" \in sys.lost \/ at \in {"monitor", "headers", "up"}
  /\ at \in {"monitor", "headers", "up"} => p.oldup = iface.wasUp \/ "up" \in sys.lost

MonitorToUndo ==
  sys.monif => "monif" \in sys.lost \/ at = "mon_up" \/ ("monif" \in p.must /\ sys.listed)

IfaceToUndo == PromiscToUndo /\ ModeToUndo /\ UpToUndo /\ MonitorToUndo

ToUndo == Shape /\ SocketsHeld /\ MemoryHeld /\ ListedToUndo /\ IfaceToUndo

-----------------------------------------------------------------------------
(* What a failure does. *)

\* pcap_cleanup_linux gives the descriptor back, takes the pcap_t off the list if it has
\* anything to undo, and deletes the interface that was added if it can.
LEMMA CleanupGives ==
  ASSUME NEW s, DOMAIN s = SysFields
  PROVE  LET c == pcap_cleanup_linux(s) IN
         /\ DOMAIN c = SysFields
         /\ c.fd = NoSocket
         /\ c.local = s.local /\ c.mapped = s.mapped /\ c.lost = s.lost
         /\ c.listed = IF p.must # {} THEN FALSE ELSE s.listed
         /\ c.monif = IF "monif" \in p.must /\ CanRestore THEN FALSE ELSE s.monif
<1>1. /\ DOMAIN del_mon_if(s) = SysFields
      /\ \A f \in SysFields \ {"monif"} : del_mon_if(s)[f] = s[f]
      /\ del_mon_if(s).monif = IF "monif" \in p.must /\ CanRestore THEN FALSE ELSE s.monif
  BY DEF del_mon_if, SysFields
<1> DEFINE d == del_mon_if(s)
           r == pcap_remove_from_pcaps_to_close(d)
<1> HIDE DEF d
<1>2. /\ DOMAIN r = SysFields
      /\ \A f \in SysFields \ {"listed"} : r[f] = d[f]
      /\ r.listed = IF p.must # {} THEN FALSE ELSE d.listed
  BY <1>1 DEF pcap_remove_from_pcaps_to_close, SysFields, d
<1> HIDE DEF r
<1>3. /\ DOMAIN pcap_cleanup_live_common(r) = SysFields
      /\ \A f \in SysFields \ {"fd"} : pcap_cleanup_live_common(r)[f] = r[f]
      /\ pcap_cleanup_live_common(r).fd = NoSocket
  BY <1>2 DEF pcap_cleanup_live_common, SysFields
<1>4. pcap_cleanup_linux(s) = pcap_cleanup_live_common(r)
  BY DEF pcap_cleanup_linux, r, d
<1> QED
  BY <1>1, <1>2, <1>3, <1>4 DEF SysFields, d

\* What is restored of the interface.
LEMMA RestoredGives ==
  ASSUME Shape
  PROVE  /\ DOMAIN Restored(iface) = IfaceFields
         /\ Restored(iface).up = iface.up /\ Restored(iface).wasUp = iface.wasUp
         /\ Restored(iface).wasPromisc = iface.wasPromisc /\ Restored(iface).was = iface.was
         /\ Restored(iface).promisc = IF "promisc" \in p.must /\ CanRestore THEN FALSE ELSE iface.promisc
         /\ Restored(iface).mode = IF "rfmon" \in p.must /\ CanRestore THEN p.oldmode ELSE iface.mode
BY DEF Restored, Shape, IfaceFields

LEMMA CanRestoreIsOwns ==
  ASSUME SocketsHeld
  PROVE  CanRestore <=> Owns
<1>1. NoSocket.is = "none"
  BY DEF NoSocket
<1> QED
  BY <1>1 DEF SocketsHeld, CanRestore, Descriptor

\* What FailAfter leaves of the pcap_t.
LEMMA FailedPcap ==
  ASSUME Shape, NEW s, NEW mem, NEW status, FailAfter(s, mem, status)
  PROVE  /\ DOMAIN p' = PcapFields
         /\ p'.life = "failed" /\ p'.mode = "packet" /\ p'.mem = CleanedMemory(mem, "packet")
         /\ p'.must = p.must /\ p'.device = p.device /\ p'.oldmode = p.oldmode /\ p'.oldup = p.oldup
BY DEF FailAfter, Shape, PcapFields

\* A failure undoes what can be undone: all of it once there is a descriptor, and before that
\* only what s accounts for.
LEMMA FailureLeavesNothing ==
  ASSUME ToUndo, at # "idle",
         NEW s, NEW mem, NEW status, FailAfter(s, mem, status),
         DOMAIN s = SysFields, s.local = NoSocket, ~s.mapped, s.listed = sys.listed,
         sys.lost \subseteq s.lost, s.lost \subseteq Losses,
         mem \subseteq Memory \ {"oneshot"},
         Owns => s.monif = sys.monif,
         ~Owns => /\ iface.mode = iface.was \/ "mode" \in s.lost
                  /\ iface.up = iface.wasUp \/ "up" \in s.lost
                  /\ s.monif => "monif" \in s.lost
  PROVE  ToUndo'
<1>1. /\ Shape /\ SocketsHeld /\ MemoryHeld /\ ListedToUndo /\ PromiscToUndo
      /\ ModeToUndo /\ UpToUndo /\ MonitorToUndo
  BY DEF ToUndo, IfaceToUndo
<1>2. /\ DOMAIN p' = PcapFields
      /\ p'.life = "failed" /\ p'.mode = "packet" /\ p'.mem = CleanedMemory(mem, "packet")
      /\ p'.must = p.must /\ p'.device = p.device /\ p'.oldmode = p.oldmode
  BY <1>1, FailedPcap
<1>3. /\ DOMAIN sys' = SysFields
      /\ sys'.fd = NoSocket /\ sys'.local = NoSocket /\ ~sys'.mapped /\ sys'.lost = s.lost
      /\ sys'.listed = IF p.must # {} THEN FALSE ELSE s.listed
      /\ sys'.monif = IF "monif" \in p.must /\ CanRestore THEN FALSE ELSE s.monif
  BY CleanupGives DEF FailAfter
<1>4. /\ DOMAIN iface' = IfaceFields
      /\ iface'.up = iface.up /\ iface'.wasUp = iface.wasUp
      /\ iface'.wasPromisc = iface.wasPromisc /\ iface'.was = iface.was
      /\ iface'.promisc = IF "promisc" \in p.must /\ CanRestore THEN FALSE ELSE iface.promisc
      /\ iface'.mode = IF "rfmon" \in p.must /\ CanRestore THEN p.oldmode ELSE iface.mode
  BY <1>1, RestoredGives DEF FailAfter
<1>5. at' = "idle"
  BY DEF FailAfter, Goto
<1>6. CanRestore <=> Owns
  BY <1>1, CanRestoreIsOwns
<1>7. ~sys'.listed
  BY <1>1, <1>3 DEF ListedToUndo
<1>8. ~Owns'
  BY <1>2, <1>5 DEF Owns, Owning, WithOneshot, ActivateOld
<1>9. Shape'
  BY <1>2, <1>3, <1>4, <1>5 DEF Shape
<1>10. SocketsHeld'
  BY <1>3, <1>5, <1>8 DEF SocketsHeld, Binding, Entering
<1>11. MemoryHeld'
  <2>1. p'.mem \subseteq {"source"}
    BY <1>2 DEF CleanedMemory, LiveMemory, Memory
  <2>2. QED
    BY <1>2, <1>3, <1>5, <2>1 DEF MemoryHeld, Memory
<1>12. ListedToUndo'
  BY <1>1, <1>2, <1>5, <1>7 DEF ListedToUndo, Entering, ActivateOld
<1>13. PromiscToUndo'
  BY <1>1, <1>2, <1>3, <1>4, <1>6 DEF PromiscToUndo
<1>14. ModeToUndo'
  <2>1. "rfmon" \in p.must => p.oldmode = iface.was
    BY <1>1 DEF ModeToUndo
  <2>2. iface'.mode \in {iface'.was, "monitor"}
    BY <1>1, <1>4, <2>1 DEF ModeToUndo
  <2>3. iface'.mode = iface'.was \/ "mode" \in sys'.lost
    <3>1. CASE Owns
      <4>1. at \notin {"headers", "up"}
        BY <1>1, <3>1 DEF Owns, Owning, WithOneshot, ActivateOld, Shape
      <4>2. QED
        BY <1>1, <1>3, <1>4, <1>6, <2>1, <3>1, <4>1 DEF ModeToUndo
    <3>2. CASE ~Owns
      BY <1>3, <1>4, <1>6, <3>2
    <3>3. QED
      BY <3>1, <3>2
  <2>4. QED
    BY <1>2, <1>4, <1>5, <2>1, <2>2, <2>3 DEF ModeToUndo
<1>15. UpToUndo'
  <2>1. iface.up = iface.wasUp \/ "up" \in s.lost
    <3>1. CASE Owns
      <4>1. at \notin {"monitor", "headers", "up"}
        BY <1>1, <3>1 DEF Owns, Owning, WithOneshot, ActivateOld, Shape
      <4>2. QED
        BY <1>1, <4>1 DEF UpToUndo
    <3>2. QED
      BY <3>1
  <2>2. QED
    BY <1>3, <1>4, <1>5, <2>1 DEF UpToUndo
<1>16. MonitorToUndo'
  <2>1. CASE Owns
    <3>1. at # "mon_up"
      BY <1>1, <2>1 DEF Owns, Owning, WithOneshot, ActivateOld, Shape
    <3>2. QED
      BY <1>1, <1>3, <1>6, <2>1, <3>1 DEF MonitorToUndo
  <2>2. CASE ~Owns
    BY <1>3, <1>6, <2>2 DEF MonitorToUndo
  <2>3. QED
    BY <2>1, <2>2
<1> QED
  BY <1>9, <1>10, <1>11, <1>12, <1>13, <1>14, <1>15, <1>16 DEF ToUndo, IfaceToUndo

\* Before there is a ring, nothing is mapped and there is no buffer for pcap_next.
LEMMA BeforeTheRing ==
  ASSUME ToUndo, at \notin WithOneshot \cup {"opened", "idle"}
  PROVE  p.mem \subseteq Memory \ {"oneshot"} /\ ~sys.mapped
<1>1. p.life # "activated" /\ at # "opened" /\ at \notin WithOneshot /\ at # "frames"
  BY DEF ToUndo, Shape, WithOneshot
<1>2. p.mode # "mmap"
  BY <1>1 DEF ToUndo, MemoryHeld
<1> QED
  BY <1>1, <1>2 DEF ToUndo, MemoryHeld

\* A failure with the descriptor of the pcap_t, or before there is anything to undo.
LEMMA FailLeavesNothing ==
  ASSUME ToUndo, NEW status, Fail(status),
         at \in (Owning \ (WithOneshot \cup {"opened"})) \cup {"socket"} \/ (at = "old" /\ p.device = "any")
  PROVE  ToUndo'
<1>1. at \notin WithOneshot \cup {"opened", "idle"} /\ at \notin Binding
  BY DEF Owning, WithOneshot, ActivateOld, Binding, Entering
<1>2. p.mem \subseteq Memory \ {"oneshot"} /\ ~sys.mapped
  BY <1>1, BeforeTheRing
<1>3. DOMAIN sys = SysFields /\ sys.local = NoSocket /\ sys.lost \subseteq Losses
  BY <1>1 DEF ToUndo, Shape, SocketsHeld, MemoryHeld
<1>4. ~Owns => ~sys.listed
  BY DEF ToUndo, ListedToUndo, Owns
<1>5. at \notin {"headers", "up", "monitor", "mon_up"}
  BY <1>1 DEF Binding, Entering
<1>6. ~Owns => /\ iface.mode = iface.was \/ "mode" \in sys.lost
               /\ iface.up = iface.wasUp \/ "up" \in sys.lost
               /\ sys.monif => "monif" \in sys.lost
  BY <1>4, <1>5 DEF ToUndo, IfaceToUndo, ModeToUndo, UpToUndo, MonitorToUndo
<1> QED
  BY <1>1, <1>2, <1>3, <1>6, FailureLeavesNothing DEF Fail

\* The socket that is not the pcap_t's yet is closed.
LEMMA LocalClosedGives ==
  ASSUME ToUndo, NEW more
  PROVE  LET s == [LocalClosed EXCEPT !.lost = @ \cup more] IN
         /\ DOMAIN LocalClosed = SysFields /\ DOMAIN s = SysFields
         /\ LocalClosed.local = NoSocket /\ s.local = NoSocket
         /\ LocalClosed.lost = sys.lost /\ s.lost = sys.lost \cup more
         /\ \A f \in {"fd", "mapped", "listed", "monif"} : LocalClosed[f] = sys[f] /\ s[f] = sys[f]
BY DEF ToUndo, Shape, SysFields, LocalClosed

\* While the interface is put into monitor mode nothing is listed yet.
LEMMA FailNewLeavesNothing ==
  ASSUME ToUndo, NEW status, FailNew(status), at \in Entering \ {"headers", "up", "monitor", "mon_up"}
  PROVE  ToUndo'
<1>1. at \notin WithOneshot \cup {"opened", "idle"} /\ at \notin Owning
  BY DEF WithOneshot, Entering, Owning, ActivateOld
<1>2. ~Owns /\ ~sys.listed
  BY <1>1 DEF ToUndo, Shape, ListedToUndo, Owns
<1>3. p.mem \subseteq Memory \ {"oneshot"} /\ ~sys.mapped /\ sys.lost \subseteq Losses
  BY <1>1, BeforeTheRing DEF ToUndo, MemoryHeld
<1>4. /\ iface.mode = iface.was \/ "mode" \in sys.lost
      /\ iface.up = iface.wasUp \/ "up" \in sys.lost
      /\ sys.monif => "monif" \in sys.lost
  BY <1>2 DEF ToUndo, IfaceToUndo, ModeToUndo, UpToUndo, MonitorToUndo
<1> QED
  BY <1>1, <1>2, <1>3, <1>4, LocalClosedGives, FailureLeavesNothing DEF FailNew

\* After that what cannot be restored is lost.
LEMMA FailUnrestoredLeavesNothing ==
  ASSUME ToUndo, NEW status, FailUnrestored(status),
         at \in {"arptype", "reopen", "bind", "promisc", "auxdata", "old"}
  PROVE  ToUndo'
<1> DEFINE more == (IF "rfmon" \in p.must /\ iface.mode # iface.was THEN {"mode"} ELSE {})
           monif == IF sys.monif THEN {"monif"} ELSE {}
           s == [LocalClosed EXCEPT !.lost = @ \cup more \cup monif]
<1>1. at \notin WithOneshot \cup {"opened", "idle"} /\ ~Owns
  BY DEF ToUndo, Shape, WithOneshot, Owns, Owning, ActivateOld
<1>2. p.mem \subseteq Memory \ {"oneshot"} /\ ~sys.mapped /\ sys.lost \subseteq Losses
  BY <1>1, BeforeTheRing DEF ToUndo, MemoryHeld
<1>3. /\ DOMAIN s = SysFields /\ s.local = NoSocket /\ s.lost = sys.lost \cup more \cup monif
      /\ s.mapped = sys.mapped /\ s.listed = sys.listed /\ s.monif = sys.monif
  <2> HIDE DEF more, monif
  <2> QED
    BY DEF ToUndo, Shape, SysFields, LocalClosed
<1>4. sys.lost \subseteq s.lost /\ s.lost \subseteq Losses
  BY <1>2, <1>3 DEF Losses
<1>5. iface.mode = iface.was \/ "mode" \in s.lost
  BY <1>3 DEF ToUndo, IfaceToUndo, ModeToUndo
<1>6. iface.up = iface.wasUp \/ "up" \in s.lost
  BY <1>4 DEF ToUndo, IfaceToUndo, UpToUndo
<1>7. s.monif => "monif" \in s.lost
  BY <1>3
<1>8. FailAfter(s, p.mem, status)
  BY DEF FailUnrestored
<1> HIDE DEF s
<1> QED
  BY <1>1, <1>2, <1>3, <1>4, <1>5, <1>6, <1>7, <1>8, FailureLeavesNothing

\* A ring that could not be made is not there.
LEMMA FailMmapLeavesNothing ==
  ASSUME ToUndo, NEW status, at \in WithOneshot,
         \/ FailMmap(sys, status) /\ at # "frames"
         \/ FailMmap(WithoutRing(sys), status)
  PROVE  ToUndo'
<1>1. Owns /\ at # "idle" /\ at \notin Binding /\ at # "opened"
  BY DEF Owns, Owning, WithOneshot, Binding, Entering
<1>2. DOMAIN sys = SysFields /\ sys.local = NoSocket /\ sys.lost \subseteq Losses
  BY <1>1 DEF ToUndo, Shape, SocketsHeld, MemoryHeld
<1>3. p.mem \ {"oneshot"} \subseteq Memory \ {"oneshot"}
  BY DEF ToUndo, MemoryHeld
<1>4. at # "frames" => ~sys.mapped
  BY <1>1 DEF ToUndo, Shape, MemoryHeld
<1>5. /\ DOMAIN WithoutRing(sys) = SysFields /\ ~WithoutRing(sys).mapped
      /\ \A f \in {"local", "lost", "listed", "monif"} : WithoutRing(sys)[f] = sys[f]
  BY <1>2 DEF WithoutRing, SysFields
<1>6. CASE FailMmap(sys, status) /\ at # "frames"
  BY <1>1, <1>2, <1>3, <1>4, <1>6, FailureLeavesNothing DEF FailMmap
<1>7. CASE FailMmap(WithoutRing(sys), status)
  <2>1. FailAfter(WithoutRing(sys), p.mem \ {"oneshot"}, status)
    BY <1>7 DEF FailMmap
  <2> DEFINE s == WithoutRing(sys)
  <2>2. DOMAIN s = SysFields /\ ~s.mapped /\ s.local = NoSocket /\ s.lost = sys.lost /\ s.listed = sys.listed
        /\ s.monif = sys.monif
    BY <1>2, <1>5
  <2> HIDE DEF s
  <2>3. FailAfter(s, p.mem \ {"oneshot"}, status)
    BY <2>1 DEF s
  <2> QED
    BY <1>1, <1>2, <1>3, <2>2, <2>3, FailureLeavesNothing
<1> QED
  BY <1>6, <1>7

\* While the socket is still a variable of activate_new.
LEMMA FailLocalLeavesNothing ==
  ASSUME ToUndo, at \in Binding, NEW s, NEW status, FailAfter(s, p.mem, status),
         DOMAIN s = SysFields, s.local = NoSocket, s.mapped = sys.mapped, s.listed = sys.listed,
         sys.lost \subseteq s.lost, s.lost \subseteq Losses,
         iface.mode = iface.was \/ "mode" \in s.lost,
         iface.up = iface.wasUp \/ "up" \in s.lost,
         s.monif => "monif" \in s.lost
  PROVE  ToUndo'
<1>1. at \notin WithOneshot \cup {"opened", "idle"} /\ at \notin Owning
  BY DEF WithOneshot, Entering, Owning, ActivateOld, Binding
<1>2. ~Owns
  BY <1>1 DEF ToUndo, Shape, Owns
<1>3. p.mem \subseteq Memory \ {"oneshot"} /\ ~sys.mapped
  BY <1>1, BeforeTheRing
<1> QED
  BY <1>1, <1>2, <1>3, FailureLeavesNothing

-----------------------------------------------------------------------------
(* Each step of the activation, when it succeeds and when it fails.  What it holds is in the one
   half of the invariant, what it did to the interface in the other. *)

Held == Shape /\ SocketsHeld /\ MemoryHeld
Undoable == ListedToUndo /\ IfaceToUndo

USE DEF Goto, Step, Owns, Owning, WithOneshot, ActivateOld, Between, Binding, Entering

\* A socket is opened, or there is none of that kind.
LEMMA OpenSocketKeeps ==
  ASSUME ToUndo, OpenSocket
  PROVE  ToUndo'
<1>1. CASE /\ at = "socket"
           /\ sys' = [sys EXCEPT !.local = Socket(IF p.device = "any" THEN "dgram" ELSE "raw")]
           /\ Goto(IF p.device = "any" THEN "any" ELSE IF p.opt.rfmon THEN "phy" ELSE "arptype")
           /\ UNCHANGED <<p, iface>>
  <2>1. /\ DOMAIN sys' = SysFields
        /\ Descriptor(sys'.local)
        /\ \A f \in SysFields \ {"local"} : sys'[f] = sys[f]
    BY <1>1 DEF ToUndo, Shape, SysFields, Socket, Descriptor, SocketFields
  <2>2. Held'
    BY <1>1, <2>1 DEF ToUndo, Held, Shape, SocketsHeld, MemoryHeld, Descriptor, Losses, Memory, SysFields
  <2>3. Undoable'
    BY <1>1, <2>1 DEF ToUndo, Undoable, Shape, ListedToUndo, IfaceToUndo, PromiscToUndo, ModeToUndo,
      UpToUndo, MonitorToUndo, SysFields
  <2> QED
    BY <2>2, <2>3 DEF ToUndo, Held, Undoable
<1>2. CASE at = "socket" /\ Goto("old") /\ UNCHANGED <<p, sys, iface>>
  <2>1. Held'
    BY <1>2 DEF ToUndo, Held, Shape, SocketsHeld, MemoryHeld, Descriptor
  <2>2. Undoable'
    BY <1>2 DEF ToUndo, Undoable, Shape, ListedToUndo, IfaceToUndo, PromiscToUndo, ModeToUndo,
      UpToUndo, MonitorToUndo
  <2> QED
    BY <2>1, <2>2 DEF ToUndo, Held, Undoable
<1>3. CASE at = "socket" /\ \E status \in {PCAP_ERROR_PERM_DENIED, PCAP_ERROR} : Fail(status)
  BY <1>3, FailLeavesNothing
<1> QED
  BY <1>1, <1>2, <1>3 DEF OpenSocket

\* The device that stands for all of them.
LEMMA AnyDeviceKeeps ==
  ASSUME ToUndo, AnyDevice
  PROVE  ToUndo'
<1>1. CASE at = "any" /\ FailAfter([sys EXCEPT !.local = NoSocket, !.lost = @ \cup {"socket"}], p.mem, PCAP_ERROR_RFMON_NOTSUP)
  <2> DEFINE s == [sys EXCEPT !.local = NoSocket, !.lost = @ \cup {"socket"}]
  <2>1. /\ DOMAIN s = SysFields /\ s.local = NoSocket
        /\ s.lost = sys.lost \cup {"socket"}
        /\ \A f \in SysFields \ {"local", "lost"} : s[f] = sys[f]
    BY DEF ToUndo, Shape, SysFields, LocalClosed
  <2>2. FailAfter(s, p.mem, PCAP_ERROR_RFMON_NOTSUP)
    BY <1>1
  <2> HIDE DEF s
  <2>3. sys.lost \subseteq s.lost /\ s.lost \subseteq Losses /\ s.mapped = sys.mapped /\ s.listed = sys.listed
    BY <2>1 DEF ToUndo, MemoryHeld, Losses, SysFields
  <2>4. /\ iface.mode = iface.was \/ "mode" \in s.lost
        /\ iface.up = iface.wasUp \/ "up" \in s.lost
        /\ s.monif => "monif" \in s.lost
    BY <1>1, <2>1 DEF ToUndo, ListedToUndo, IfaceToUndo, ModeToUndo, UpToUndo, MonitorToUndo, SysFields
  <2>5. at \in Binding
    BY <1>1
  <2> QED
    BY <2>1, <2>2, <2>3, <2>4, <2>5, FailLocalLeavesNothing
<1>2. CASE /\ at = "any" /\ p' = [p EXCEPT !.cooked = TRUE, !.linktype = "LINUX_SLL"]
           /\ Goto("auxdata")
           /\ UNCHANGED <<sys, iface>>
  <2>1. /\ DOMAIN p' = PcapFields
        /\ \A f \in PcapFields \ {"cooked", "linktype"} : p'[f] = p[f]
    BY <1>2 DEF ToUndo, Shape, PcapFields
  <2>2. Held'
    BY <1>2, <2>1 DEF ToUndo, Held, Shape, SocketsHeld, MemoryHeld, Descriptor, Losses, Memory, PcapFields
  <2>3. Undoable'
    BY <1>2, <2>1 DEF ToUndo, Undoable, Shape, ListedToUndo, IfaceToUndo, PromiscToUndo, ModeToUndo,
      UpToUndo, MonitorToUndo, PcapFields
  <2> QED
    BY <2>2, <2>3 DEF ToUndo, Held, Undoable
<1> QED
  BY <1>1, <1>2 DEF AnyDevice

\* The radio is looked for, and an interface added to it.
LEMMA FindPhyKeeps ==
  ASSUME ToUndo, FindPhy
  PROVE  ToUndo'
<1>1. CASE at = "phy" /\ Goto(IF "mac80211" \in p.features THEN "add" ELSE "wext") /\ UNCHANGED <<p, sys, iface>>
  <2>1. Held'
    BY <1>1 DEF ToUndo, Held, Shape, SocketsHeld, MemoryHeld, Descriptor
  <2>2. Undoable'
    BY <1>1 DEF ToUndo, Undoable, Shape, ListedToUndo, IfaceToUndo, PromiscToUndo, ModeToUndo,
      UpToUndo, MonitorToUndo
  <2> QED
    BY <2>1, <2>2 DEF ToUndo, Held, Undoable
<1>2. CASE at = "phy" /\ FailNew(PCAP_ERROR)
  BY <1>2, FailNewLeavesNothing
<1> QED
  BY <1>1, <1>2 DEF FindPhy

\* Nothing deletes the interface again when it cannot be listed; it is lost then.
LEMMA AddMonitorKeeps ==
  ASSUME ToUndo, AddMonitor
  PROVE  ToUndo'
<1>1. CASE /\ at = "add" /\ sys' = [sys EXCEPT !.monif = TRUE]
           /\ Goto("mon_up")
           /\ UNCHANGED <<p, iface>>
  <2>1. /\ DOMAIN sys' = SysFields
        /\ \A f \in SysFields \ {"monif"} : sys'[f] = sys[f]
    BY <1>1 DEF ToUndo, Shape, SysFields
  <2>2. Held'
    BY <1>1, <2>1 DEF ToUndo, Held, Shape, SocketsHeld, MemoryHeld, Descriptor, Losses, Memory, SysFields
  <2>3. Undoable'
    BY <1>1, <2>1 DEF ToUndo, Undoable, Shape, ListedToUndo, IfaceToUndo, PromiscToUndo, ModeToUndo,
      UpToUndo, MonitorToUndo, SysFields
  <2> QED
    BY <2>2, <2>3 DEF ToUndo, Held, Undoable
<1>2. CASE at = "add" /\ FailNew(PCAP_ERROR)
  BY <1>2, FailNewLeavesNothing
<1>3. CASE at = "add" /\ FailAfter([LocalClosed EXCEPT !.monif = TRUE, !.lost = @ \cup {"monif"}], p.mem, PCAP_ERROR_RFMON_NOTSUP)
  <2> DEFINE s == [LocalClosed EXCEPT !.monif = TRUE, !.lost = @ \cup {"monif"}]
  <2>1. /\ DOMAIN s = SysFields /\ s.local = NoSocket
        /\ s.monif = TRUE
        /\ s.lost = sys.lost \cup {"monif"}
        /\ \A f \in SysFields \ {"local", "monif", "lost"} : s[f] = sys[f]
    BY DEF ToUndo, Shape, SysFields, LocalClosed
  <2>2. FailAfter(s, p.mem, PCAP_ERROR_RFMON_NOTSUP)
    BY <1>3
  <2> HIDE DEF s
  <2>3. sys.lost \subseteq s.lost /\ s.lost \subseteq Losses /\ s.mapped = sys.mapped /\ s.listed = sys.listed
    BY <2>1 DEF ToUndo, MemoryHeld, Losses, SysFields
  <2>4. /\ iface.mode = iface.was \/ "mode" \in s.lost
        /\ iface.up = iface.wasUp \/ "up" \in s.lost
        /\ s.monif => "monif" \in s.lost
    BY <1>3, <2>1 DEF ToUndo, ListedToUndo, IfaceToUndo, ModeToUndo, UpToUndo, MonitorToUndo, SysFields
  <2>5. at \in Binding
    BY <1>3
  <2> QED
    BY <2>1, <2>2, <2>3, <2>4, <2>5, FailLocalLeavesNothing
<1> QED
  BY <1>1, <1>2, <1>3 DEF AddMonitor

\* An interface that comes up is to be deleted when the pcap_t is closed.
LEMMA BringMonitorUpKeeps ==
  ASSUME ToUndo, BringMonitorUp
  PROVE  ToUndo'
<1>1. CASE /\ at = "mon_up" /\ p' = [p EXCEPT !.must = @ \cup {"monif"}]
           /\ sys' = pcap_add_to_pcaps_to_close(sys)
           /\ Goto("arptype")
           /\ UNCHANGED iface
  <2>1. /\ DOMAIN p' = PcapFields
        /\ p'.must = p.must \cup {"monif"}
        /\ \A f \in PcapFields \ {"must"} : p'[f] = p[f]
    BY <1>1 DEF ToUndo, Shape, PcapFields
  <2>2. /\ DOMAIN sys' = SysFields
        /\ sys'.listed
        /\ \A f \in SysFields \ {"listed"} : sys'[f] = sys[f]
    BY <1>1 DEF ToUndo, Shape, SysFields, pcap_add_to_pcaps_to_close
  <2>3. Held'
    BY <1>1, <2>1, <2>2 DEF ToUndo, Held, Shape, SocketsHeld, MemoryHeld, Descriptor, Losses, Memory, PcapFields, SysFields
  <2>4. Undoable'
    BY <1>1, <2>1, <2>2 DEF ToUndo, Undoable, Shape, ListedToUndo, IfaceToUndo, PromiscToUndo, ModeToUndo,
      UpToUndo, MonitorToUndo, PcapFields, SysFields
  <2> QED
    BY <2>3, <2>4 DEF ToUndo, Held, Undoable
<1>2. CASE at = "mon_up" /\ FailAfter([LocalClosed EXCEPT !.monif = FALSE], p.mem, PCAP_ERROR)
  <2> DEFINE s == [LocalClosed EXCEPT !.monif = FALSE]
  <2>1. /\ DOMAIN s = SysFields /\ s.local = NoSocket
        /\ s.monif = FALSE
        /\ \A f \in SysFields \ {"local", "monif"} : s[f] = sys[f]
    BY DEF ToUndo, Shape, SysFields, LocalClosed
  <2>2. FailAfter(s, p.mem, PCAP_ERROR)
    BY <1>2
  <2> HIDE DEF s
  <2>3. sys.lost \subseteq s.lost /\ s.lost \subseteq Losses /\ s.mapped = sys.mapped /\ s.listed = sys.listed
    BY <2>1 DEF ToUndo, MemoryHeld, Losses, SysFields
  <2>4. /\ iface.mode = iface.was \/ "mode" \in s.lost
        /\ iface.up = iface.wasUp \/ "up" \in s.lost
        /\ s.monif => "monif" \in s.lost
    BY <1>2, <2>1 DEF ToUndo, ListedToUndo, IfaceToUndo, ModeToUndo, UpToUndo, MonitorToUndo, SysFields
  <2>5. at \in Binding
    BY <1>2
  <2> QED
    BY <2>1, <2>2, <2>3, <2>4, <2>5, FailLocalLeavesNothing
<1> QED
  BY <1>1, <1>2 DEF BringMonitorUp

\* A driver with the wireless extensions is looked for.
LEMMA FindDriverKeeps ==
  ASSUME ToUndo, FindDriver
  PROVE  ToUndo'
<1>1. CASE at = "wext" /\ \E status \in {PCAP_ERROR_RFMON_NOTSUP, PCAP_ERROR_NO_SUCH_DEVICE} : FailNew(status)
  BY <1>1, FailNewLeavesNothing
<1>2. CASE at = "wext" /\ FailNew(PCAP_ERROR)
  BY <1>2, FailNewLeavesNothing
<1>3. CASE /\ at = "wext" /\ \E privates \in PrivateCalls : p' = [p EXCEPT !.montype = MonitorType(privates)]
           /\ Goto("mode")
           /\ UNCHANGED <<sys, iface>>
  <2>1. /\ DOMAIN p' = PcapFields
        /\ \A f \in PcapFields \ {"montype"} : p'[f] = p[f]
    BY <1>3 DEF ToUndo, Shape, PcapFields
  <2>2. Held'
    BY <1>3, <2>1 DEF ToUndo, Held, Shape, SocketsHeld, MemoryHeld, Descriptor, Losses, Memory, PcapFields
  <2>3. Undoable'
    BY <1>3, <2>1 DEF ToUndo, Undoable, Shape, ListedToUndo, IfaceToUndo, PromiscToUndo, ModeToUndo,
      UpToUndo, MonitorToUndo, PcapFields
  <2> QED
    BY <2>2, <2>3 DEF ToUndo, Held, Undoable
<1> QED
  BY <1>1, <1>2, <1>3 DEF FindDriver

\* The mode it is in is what it will be put back to.
LEMMA GetModeKeeps ==
  ASSUME ToUndo, GetMode
  PROVE  ToUndo'
<1>1. CASE at = "mode" /\ FailNew(PCAP_ERROR_RFMON_NOTSUP)
  BY <1>1, FailNewLeavesNothing
<1>2. CASE at = "mode" /\ iface.mode = "monitor" /\ Goto("arptype") /\ UNCHANGED <<p, sys, iface>>
  <2>1. Held'
    BY <1>2 DEF ToUndo, Held, Shape, SocketsHeld, MemoryHeld, Descriptor
  <2>2. Undoable'
    BY <1>2 DEF ToUndo, Undoable, Shape, ListedToUndo, IfaceToUndo, PromiscToUndo, ModeToUndo,
      UpToUndo, MonitorToUndo
  <2> QED
    BY <2>1, <2>2 DEF ToUndo, Held, Undoable
<1>3. CASE /\ at = "mode" /\ iface.mode # "monitor" /\ p' = [p EXCEPT !.oldmode = iface.mode]
           /\ Goto(IF p.montype = "PRISM" THEN "prism" ELSE "down")
           /\ UNCHANGED <<sys, iface>>
  <2>1. /\ DOMAIN p' = PcapFields
        /\ p'.oldmode = iface.mode
        /\ \A f \in PcapFields \ {"oldmode"} : p'[f] = p[f]
    BY <1>3 DEF ToUndo, Shape, PcapFields
  <2>2. Held'
    BY <1>3, <2>1 DEF ToUndo, Held, Shape, SocketsHeld, MemoryHeld, Descriptor, Losses, Memory, PcapFields
  <2>3. Undoable'
    BY <1>3, <2>1 DEF ToUndo, Undoable, Shape, ListedToUndo, IfaceToUndo, PromiscToUndo, ModeToUndo,
      UpToUndo, MonitorToUndo, PcapFields
  <2> QED
    BY <2>2, <2>3 DEF ToUndo, Held, Undoable
<1> QED
  BY <1>1, <1>2, <1>3 DEF GetMode

\* The call of a Prism driver.
LEMMA PrismKeeps ==
  ASSUME ToUndo, Prism
  PROVE  ToUndo'
<1>1. CASE /\ at = "prism" /\ iface' = [iface EXCEPT !.mode = "monitor"]
           /\ p' = InMonitorMode(p)
           /\ sys' = pcap_add_to_pcaps_to_close(sys)
           /\ Goto("arptype")
  <2>1. /\ DOMAIN p' = PcapFields
        /\ p'.must = p.must \cup {"rfmon"}
        /\ \A f \in PcapFields \ {"must"} : p'[f] = p[f]
    BY <1>1 DEF ToUndo, Shape, PcapFields, InMonitorMode
  <2>2. /\ DOMAIN sys' = SysFields
        /\ sys'.listed
        /\ \A f \in SysFields \ {"listed"} : sys'[f] = sys[f]
    BY <1>1 DEF ToUndo, Shape, SysFields, pcap_add_to_pcaps_to_close
  <2>3. /\ DOMAIN iface' = IfaceFields
        /\ iface'.mode = "monitor"
        /\ \A f \in IfaceFields \ {"mode"} : iface'[f] = iface[f]
    BY <1>1 DEF ToUndo, Shape, IfaceFields
  <2>4. Held'
    BY <1>1, <2>1, <2>2, <2>3 DEF ToUndo, Held, Shape, SocketsHeld, MemoryHeld, Descriptor, Losses, Memory, PcapFields, SysFields, IfaceFields
  <2>5. Undoable'
    BY <1>1, <2>1, <2>2, <2>3 DEF ToUndo, Undoable, Shape, ListedToUndo, IfaceToUndo, PromiscToUndo, ModeToUndo,
      UpToUndo, MonitorToUndo, PcapFields, SysFields, IfaceFields
  <2> QED
    BY <2>4, <2>5 DEF ToUndo, Held, Undoable
<1>2. CASE at = "prism" /\ Goto("down") /\ UNCHANGED <<p, sys, iface>>
  <2>1. Held'
    BY <1>2 DEF ToUndo, Held, Shape, SocketsHeld, MemoryHeld, Descriptor
  <2>2. Undoable'
    BY <1>2 DEF ToUndo, Undoable, Shape, ListedToUndo, IfaceToUndo, PromiscToUndo, ModeToUndo,
      UpToUndo, MonitorToUndo
  <2> QED
    BY <2>1, <2>2 DEF ToUndo, Held, Undoable
<1> QED
  BY <1>1, <1>2 DEF Prism

\* The interface is taken down, and whether it was up is kept.
LEMMA TakeDownKeeps ==
  ASSUME ToUndo, TakeDown
  PROVE  ToUndo'
<1>1. CASE at = "down" /\ FailNew(PCAP_ERROR)
  BY <1>1, FailNewLeavesNothing
<1>2. CASE /\ at = "down" /\ p' = [p EXCEPT !.oldup = iface.up]
           /\ iface' = [iface EXCEPT !.up = FALSE]
           /\ Goto("monitor")
           /\ UNCHANGED sys
  <2>1. /\ DOMAIN p' = PcapFields
        /\ p'.oldup = iface.up
        /\ \A f \in PcapFields \ {"oldup"} : p'[f] = p[f]
    BY <1>2 DEF ToUndo, Shape, PcapFields
  <2>2. /\ DOMAIN iface' = IfaceFields
        /\ iface'.up = FALSE
        /\ \A f \in IfaceFields \ {"up"} : iface'[f] = iface[f]
    BY <1>2 DEF ToUndo, Shape, IfaceFields
  <2>3. Held'
    BY <1>2, <2>1, <2>2 DEF ToUndo, Held, Shape, SocketsHeld, MemoryHeld, Descriptor, Losses, Memory, PcapFields, IfaceFields
  <2>4. Undoable'
    BY <1>2, <2>1, <2>2 DEF ToUndo, Undoable, Shape, ListedToUndo, IfaceToUndo, PromiscToUndo, ModeToUndo,
      UpToUndo, MonitorToUndo, PcapFields, IfaceFields
  <2> QED
    BY <2>3, <2>4 DEF ToUndo, Held, Undoable
<1> QED
  BY <1>1, <1>2 DEF TakeDown

\* Its mode is set, or it is brought up again, if that succeeds.
LEMMA SetModeKeeps ==
  ASSUME ToUndo, SetMode
  PROVE  ToUndo'
<1>1. CASE /\ at = "monitor" /\ iface' = [iface EXCEPT !.mode = "monitor"]
           /\ Goto("headers")
           /\ UNCHANGED <<p, sys>>
  <2>1. /\ DOMAIN iface' = IfaceFields
        /\ iface'.mode = "monitor"
        /\ \A f \in IfaceFields \ {"mode"} : iface'[f] = iface[f]
    BY <1>1 DEF ToUndo, Shape, IfaceFields
  <2>2. Held'
    BY <1>1, <2>1 DEF ToUndo, Held, Shape, SocketsHeld, MemoryHeld, Descriptor, IfaceFields
  <2>3. Undoable'
    BY <1>1, <2>1 DEF ToUndo, Undoable, Shape, ListedToUndo, IfaceToUndo, PromiscToUndo, ModeToUndo,
      UpToUndo, MonitorToUndo, IfaceFields
  <2> QED
    BY <2>2, <2>3 DEF ToUndo, Held, Undoable
<1>2. ASSUME at = "monitor", NEW up \in {p.oldup, FALSE},
             p' = [p EXCEPT !.life = "failed", !.mem = CleanedMemory(p.mem, "packet"), !.mode = "packet",
                            !.status = IF up = p.oldup THEN PCAP_ERROR_RFMON_NOTSUP ELSE PCAP_ERROR],
             sys' = [pcap_cleanup_linux(LocalClosed) EXCEPT !.lost = IF up = p.oldup THEN @ ELSE @ \cup {"up"}],
             iface' = [iface EXCEPT !.up = up],
             Goto("idle")
      PROVE  ToUndo'
  <2>1. /\ DOMAIN p' = PcapFields
        /\ p'.life = "failed" /\ p'.mem = CleanedMemory(p.mem, "packet") /\ p'.mode = "packet"
        /\ \A f \in PcapFields \ {"life", "mem", "mode", "status"} : p'[f] = p[f]
    BY <1>2 DEF ToUndo, Shape, PcapFields
  <2>2. /\ DOMAIN iface' = IfaceFields /\ iface'.up = up
        /\ \A f \in IfaceFields \ {"up"} : iface'[f] = iface[f]
    BY <1>2 DEF ToUndo, Shape, IfaceFields
  <2>3. DOMAIN LocalClosed = SysFields /\ LocalClosed.local = NoSocket /\ LocalClosed.lost = sys.lost
        /\ LocalClosed.mapped = sys.mapped /\ LocalClosed.listed = sys.listed /\ LocalClosed.monif = sys.monif
    BY DEF ToUndo, Shape, SysFields, LocalClosed
  <2> DEFINE c == pcap_cleanup_linux(LocalClosed)
  <2>4. ~CanRestore
    BY <1>2, CanRestoreIsOwns DEF ToUndo, Shape
  <2>5. /\ DOMAIN c = SysFields
        /\ c.fd = NoSocket /\ c.local = NoSocket
        /\ c.mapped = sys.mapped /\ c.lost = sys.lost /\ c.monif = sys.monif
        /\ c.listed = IF p.must # {} THEN FALSE ELSE sys.listed
    BY <2>3, <2>4, CleanupGives
  <2> HIDE DEF c
  <2>6. sys' = [c EXCEPT !.lost = IF up = p.oldup THEN @ ELSE @ \cup {"up"}]
    BY <1>2 DEF c
  <2>7. /\ DOMAIN sys' = SysFields
        /\ sys'.fd = NoSocket /\ sys'.local = NoSocket /\ sys'.mapped = sys.mapped /\ sys'.monif = sys.monif
        /\ sys'.lost = IF up = p.oldup THEN sys.lost ELSE sys.lost \cup {"up"}
        /\ sys'.listed = c.listed
    BY <2>5, <2>6 DEF SysFields
  <2>8. ~sys.listed /\ ~sys'.listed
    BY <1>2, <2>5, <2>7 DEF ToUndo, ListedToUndo
  <2>9. p'.mem \subseteq {"source"}
    <3>1. p.mem \subseteq Memory \ {"oneshot"}
      BY <1>2, BeforeTheRing
    <3> QED
      BY <2>1, <3>1 DEF CleanedMemory, LiveMemory, Memory
  <2>10. Held'
    BY <1>2, <2>1, <2>2, <2>7, <2>9 DEF ToUndo, Held, Shape, SocketsHeld, MemoryHeld, Losses, Memory, PcapFields
  <2>11. Undoable'
    BY <1>2, <2>1, <2>2, <2>7, <2>8 DEF ToUndo, Undoable, Shape, ListedToUndo, IfaceToUndo, PromiscToUndo, ModeToUndo,
      UpToUndo, MonitorToUndo, PcapFields, IfaceFields
  <2> QED
    BY <2>10, <2>11 DEF ToUndo, Held, Undoable
<1> QED
  BY <1>1, <1>2 DEF SetMode

\* The driver is asked for headers.
LEMMA AskForHeadersKeeps ==
  ASSUME ToUndo, AskForHeaders
  PROVE  ToUndo'
<1>1. CASE at = "headers" /\ Goto("up") /\ UNCHANGED <<p, sys, iface>>
  <2>1. Held'
    BY <1>1 DEF ToUndo, Held, Shape, SocketsHeld, MemoryHeld, Descriptor
  <2>2. Undoable'
    BY <1>1 DEF ToUndo, Undoable, Shape, ListedToUndo, IfaceToUndo, PromiscToUndo, ModeToUndo,
      UpToUndo, MonitorToUndo
  <2> QED
    BY <2>1, <2>2 DEF ToUndo, Held, Undoable
<1>2. CASE at = "headers" /\ FailAfter([LocalClosed EXCEPT !.lost = @ \cup {"up", "mode"}], p.mem, PCAP_ERROR)
  <2> DEFINE s == [LocalClosed EXCEPT !.lost = @ \cup {"up", "mode"}]
  <2>1. /\ DOMAIN s = SysFields /\ s.local = NoSocket
        /\ s.lost = sys.lost \cup {"up", "mode"}
        /\ \A f \in SysFields \ {"local", "lost"} : s[f] = sys[f]
    BY DEF ToUndo, Shape, SysFields, LocalClosed
  <2>2. FailAfter(s, p.mem, PCAP_ERROR)
    BY <1>2
  <2> HIDE DEF s
  <2>3. sys.lost \subseteq s.lost /\ s.lost \subseteq Losses /\ s.mapped = sys.mapped /\ s.listed = sys.listed
    BY <2>1 DEF ToUndo, MemoryHeld, Losses, SysFields
  <2>4. /\ iface.mode = iface.was \/ "mode" \in s.lost
        /\ iface.up = iface.wasUp \/ "up" \in s.lost
        /\ s.monif => "monif" \in s.lost
    BY <1>2, <2>1 DEF ToUndo, ListedToUndo, IfaceToUndo, ModeToUndo, UpToUndo, MonitorToUndo, SysFields
  <2>5. at \in Binding
    BY <1>2
  <2> QED
    BY <2>1, <2>2, <2>3, <2>4, <2>5, FailLocalLeavesNothing
<1> QED
  BY <1>1, <1>2 DEF AskForHeaders

\* It is brought up in its new mode.
LEMMA BringUpKeeps ==
  ASSUME ToUndo, BringUp
  PROVE  ToUndo'
<1>1. CASE /\ at = "up" /\ iface' = [iface EXCEPT !.up = p.oldup]
           /\ p' = InMonitorMode(p)
           /\ sys' = pcap_add_to_pcaps_to_close(sys)
           /\ Goto("arptype")
  <2>1. /\ DOMAIN p' = PcapFields
        /\ p'.must = p.must \cup {"rfmon"}
        /\ \A f \in PcapFields \ {"must"} : p'[f] = p[f]
    BY <1>1 DEF ToUndo, Shape, PcapFields, InMonitorMode
  <2>2. /\ DOMAIN sys' = SysFields
        /\ sys'.listed
        /\ \A f \in SysFields \ {"listed"} : sys'[f] = sys[f]
    BY <1>1 DEF ToUndo, Shape, SysFields, pcap_add_to_pcaps_to_close
  <2>3. /\ DOMAIN iface' = IfaceFields
        /\ iface'.up = p.oldup
        /\ \A f \in IfaceFields \ {"up"} : iface'[f] = iface[f]
    BY <1>1 DEF ToUndo, Shape, IfaceFields
  <2>4. Held'
    BY <1>1, <2>1, <2>2, <2>3 DEF ToUndo, Held, Shape, SocketsHeld, MemoryHeld, Descriptor, Losses, Memory, PcapFields, SysFields, IfaceFields
  <2>5. Undoable'
    BY <1>1, <2>1, <2>2, <2>3 DEF ToUndo, Undoable, Shape, ListedToUndo, IfaceToUndo, PromiscToUndo, ModeToUndo,
      UpToUndo, MonitorToUndo, PcapFields, SysFields, IfaceFields
  <2> QED
    BY <2>4, <2>5 DEF ToUndo, Held, Undoable
<1>2. CASE at = "up" /\ FailAfter([LocalClosed EXCEPT !.lost = @ \cup {"up", "mode"}], p.mem, PCAP_ERROR)
  <2> DEFINE s == [LocalClosed EXCEPT !.lost = @ \cup {"up", "mode"}]
  <2>1. /\ DOMAIN s = SysFields /\ s.local = NoSocket
        /\ s.lost = sys.lost \cup {"up", "mode"}
        /\ \A f \in SysFields \ {"local", "lost"} : s[f] = sys[f]
    BY DEF ToUndo, Shape, SysFields, LocalClosed
  <2>2. FailAfter(s, p.mem, PCAP_ERROR)
    BY <1>2
  <2> HIDE DEF s
  <2>3. sys.lost \subseteq s.lost /\ s.lost \subseteq Losses /\ s.mapped = sys.mapped /\ s.listed = sys.listed
    BY <2>1 DEF ToUndo, MemoryHeld, Losses, SysFields
  <2>4. /\ iface.mode = iface.was \/ "mode" \in s.lost
        /\ iface.up = iface.wasUp \/ "up" \in s.lost
        /\ s.monif => "monif" \in s.lost
    BY <1>2, <2>1 DEF ToUndo, ListedToUndo, IfaceToUndo, ModeToUndo, UpToUndo, MonitorToUndo, SysFields
  <2>5. at \in Binding
    BY <1>2
  <2> QED
    BY <2>1, <2>2, <2>3, <2>4, <2>5, FailLocalLeavesNothing
<1> QED
  BY <1>1, <1>2 DEF BringUp

-----------------------------------------------------------------------------
(* activate_new, after monitor mode *)

\* The link type is known, and a list of others may be allocated.
LEMMA GetArpTypeKeeps ==
  ASSUME ToUndo, GetArpType
  PROVE  ToUndo'
<1>1. CASE at = "arptype" /\ \E status \in {PCAP_ERROR_NO_SUCH_DEVICE, PCAP_ERROR} : FailUnrestored(status)
  BY <1>1, FailUnrestoredLeavesNothing
<1> DEFINE link == map_arphrd_to_dlt(ArpType, TRUE)
           cooked == NeedsCooked(p.device, link)
           dlts == IF cooked THEN {} ELSE DltList(ArpType)
<1>2. CASE /\ at = "arptype"
           /\ p' = [p EXCEPT !.cooked = cooked, !.linktype = IF cooked THEN CookedType(link) ELSE link,
                             !.dlts = dlts, !.mem = IF dlts = {} THEN @ ELSE @ \cup {"dlt_list"}]
           /\ sys' = IF cooked THEN LocalClosed ELSE sys
           /\ Goto(IF cooked THEN "reopen" ELSE "bind")
           /\ UNCHANGED iface
  <2> HIDE DEF link, cooked, dlts
  <2>1. /\ DOMAIN p' = PcapFields /\ p'.mem \subseteq p.mem \cup {"dlt_list"}
        /\ \A f \in PcapFields \ {"cooked", "linktype", "dlts", "mem"} : p'[f] = p[f]
    BY <1>2 DEF ToUndo, Shape, PcapFields
  <2>2. /\ DOMAIN sys' = SysFields
        /\ sys'.local = IF at' = "reopen" THEN NoSocket ELSE sys.local
        /\ \A f \in SysFields \ {"local"} : sys'[f] = sys[f]
    BY <1>2 DEF ToUndo, Shape, SysFields, LocalClosed
  <2>3. Held'
    BY <1>2, <2>1, <2>2 DEF ToUndo, Held, Shape, SocketsHeld, MemoryHeld, Descriptor, Memory, PcapFields, SysFields
  <2>4. Undoable'
    BY <1>2, <2>1, <2>2 DEF ToUndo, Undoable, Shape, ListedToUndo, IfaceToUndo, PromiscToUndo, ModeToUndo,
      UpToUndo, MonitorToUndo, PcapFields, SysFields
  <2> QED
    BY <2>3, <2>4 DEF ToUndo, Held, Undoable
<1> QED
  BY <1>1, <1>2 DEF GetArpType

\* A socket for cooked packets is opened instead.
LEMMA ReopenKeeps ==
  ASSUME ToUndo, Reopen
  PROVE  ToUndo'
<1>1. CASE /\ at = "reopen" /\ sys' = [sys EXCEPT !.local = Socket("dgram")]
           /\ Goto("bind")
           /\ UNCHANGED <<p, iface>>
  <2>1. /\ DOMAIN sys' = SysFields
        /\ Descriptor(sys'.local)
        /\ \A f \in SysFields \ {"local"} : sys'[f] = sys[f]
    BY <1>1 DEF ToUndo, Shape, SysFields, Socket, Descriptor, SocketFields
  <2>2. Held'
    BY <1>1, <2>1 DEF ToUndo, Held, Shape, SocketsHeld, MemoryHeld, Descriptor, Losses, Memory, SysFields
  <2>3. Undoable'
    BY <1>1, <2>1 DEF ToUndo, Undoable, Shape, ListedToUndo, IfaceToUndo, PromiscToUndo, ModeToUndo,
      UpToUndo, MonitorToUndo, SysFields
  <2> QED
    BY <2>2, <2>3 DEF ToUndo, Held, Undoable
<1>2. CASE at = "reopen" /\ \E status \in {PCAP_ERROR_PERM_DENIED, PCAP_ERROR} : FailUnrestored(status)
  BY <1>2, FailUnrestoredLeavesNothing
<1> QED
  BY <1>1, <1>2 DEF Reopen

\* The socket is bound, or given up for one of the old kind.
LEMMA BindKeeps ==
  ASSUME ToUndo, Bind
  PROVE  ToUndo'
<1>1. CASE /\ at = "bind" /\ sys' = [sys EXCEPT !.local.bound = TRUE]
           /\ Goto("promisc")
           /\ UNCHANGED <<p, iface>>
  <2>1. /\ DOMAIN sys' = SysFields
        /\ Descriptor(sys'.local)
        /\ \A f \in SysFields \ {"local"} : sys'[f] = sys[f]
    BY <1>1 DEF ToUndo, Shape, SysFields, SocketsHeld, Descriptor, SocketFields
  <2>2. Held'
    BY <1>1, <2>1 DEF ToUndo, Held, Shape, SocketsHeld, MemoryHeld, Descriptor, Losses, Memory, SysFields
  <2>3. Undoable'
    BY <1>1, <2>1 DEF ToUndo, Undoable, Shape, ListedToUndo, IfaceToUndo, PromiscToUndo, ModeToUndo,
      UpToUndo, MonitorToUndo, SysFields
  <2> QED
    BY <2>2, <2>3 DEF ToUndo, Held, Undoable
<1>2. CASE at = "bind" /\ FailUnrestored(PCAP_ERROR_IFACE_NOT_UP)
  BY <1>2, FailUnrestoredLeavesNothing
<1>3. CASE at = "bind" /\ FailUnrestored(PCAP_ERROR)
  BY <1>3, FailUnrestoredLeavesNothing
<1>4. CASE at = "bind" /\ sys' = LocalClosed /\ Goto("old") /\ UNCHANGED <<p, iface>>
  <2>1. /\ DOMAIN sys' = SysFields
        /\ sys'.local = NoSocket
        /\ \A f \in SysFields \ {"local"} : sys'[f] = sys[f]
    BY <1>4 DEF ToUndo, Shape, SysFields, LocalClosed
  <2>2. Held'
    BY <1>4, <2>1 DEF ToUndo, Held, Shape, SocketsHeld, MemoryHeld, Descriptor, Losses, Memory, SysFields
  <2>3. Undoable'
    BY <1>4, <2>1 DEF ToUndo, Undoable, Shape, ListedToUndo, IfaceToUndo, PromiscToUndo, ModeToUndo,
      UpToUndo, MonitorToUndo, SysFields
  <2> QED
    BY <2>2, <2>3 DEF ToUndo, Held, Undoable
<1> QED
  BY <1>1, <1>2, <1>3, <1>4 DEF Bind

\* The socket becomes a member of the promiscuous group.
LEMMA JoinPromiscKeeps ==
  ASSUME ToUndo, JoinPromisc
  PROVE  ToUndo'
<1>1. CASE /\ at = "promisc" /\ sys' = [sys EXCEPT !.local.member = p.opt.promisc]
           /\ Goto("auxdata")
           /\ UNCHANGED <<p, iface>>
  <2>1. /\ DOMAIN sys' = SysFields
        /\ Descriptor(sys'.local)
        /\ \A f \in SysFields \ {"local"} : sys'[f] = sys[f]
    BY <1>1 DEF ToUndo, Shape, SysFields, SocketsHeld, Descriptor, SocketFields
  <2>2. Held'
    BY <1>1, <2>1 DEF ToUndo, Held, Shape, SocketsHeld, MemoryHeld, Descriptor, Losses, Memory, SysFields
  <2>3. Undoable'
    BY <1>1, <2>1 DEF ToUndo, Undoable, Shape, ListedToUndo, IfaceToUndo, PromiscToUndo, ModeToUndo,
      UpToUndo, MonitorToUndo, SysFields
  <2> QED
    BY <2>2, <2>3 DEF ToUndo, Held, Undoable
<1>2. CASE at = "promisc" /\ FailUnrestored(PCAP_ERROR)
  BY <1>2, FailUnrestoredLeavesNothing
<1> QED
  BY <1>1, <1>2 DEF JoinPromisc

\* The pcap_t has its socket.
LEMMA AskForTagsKeeps ==
  ASSUME ToUndo, AskForTags
  PROVE  ToUndo'
<1>1. CASE /\ at = "auxdata" /\ sys' = [sys EXCEPT !.fd = sys.local, !.local = NoSocket]
           /\ p' = [p EXCEPT !.opt.snapshot = IF p.cooked /\ @ < SLL_HDR_LEN + 1 THEN SLL_HDR_LEN + 1 ELSE @]
           /\ Goto("oneshot")
           /\ UNCHANGED iface
  <2>1. /\ DOMAIN p' = PcapFields
        /\ \A f \in PcapFields \ {"opt"} : p'[f] = p[f]
    BY <1>1 DEF ToUndo, Shape, PcapFields
  <2>2. /\ DOMAIN sys' = SysFields
        /\ sys'.fd = sys.local /\ sys'.local = NoSocket
        /\ \A f \in SysFields \ {"fd", "local"} : sys'[f] = sys[f]
    BY <1>1 DEF ToUndo, Shape, SysFields
  <2>3. Held'
    BY <1>1, <2>1, <2>2 DEF ToUndo, Held, Shape, SocketsHeld, MemoryHeld, Descriptor, Losses, Memory, PcapFields, SysFields
  <2>4. Undoable'
    BY <1>1, <2>1, <2>2 DEF ToUndo, Undoable, Shape, ListedToUndo, IfaceToUndo, PromiscToUndo, ModeToUndo,
      UpToUndo, MonitorToUndo, PcapFields, SysFields
  <2> QED
    BY <2>3, <2>4 DEF ToUndo, Held, Undoable
<1>2. CASE at = "auxdata" /\ FailUnrestored(PCAP_ERROR)
  BY <1>2, FailUnrestoredLeavesNothing
<1> QED
  BY <1>1, <1>2 DEF AskForTags

-----------------------------------------------------------------------------
(* activate_mmap *)

\* The buffer for pcap_next is allocated.
LEMMA AllocateOneshotKeeps ==
  ASSUME ToUndo, AllocateOneshot
  PROVE  ToUndo'
<1>1. CASE /\ at = "oneshot" /\ p' = [p EXCEPT !.mem = @ \cup {"oneshot"}, !.opt.buffer_size = IF @ = 0 THEN DefaultBuffer ELSE @]
           /\ Goto("prepare")
           /\ UNCHANGED <<sys, iface>>
  <2>1. /\ DOMAIN p' = PcapFields
        /\ p'.mem = p.mem \cup {"oneshot"}
        /\ \A f \in PcapFields \ {"mem", "opt"} : p'[f] = p[f]
    BY <1>1 DEF ToUndo, Shape, PcapFields
  <2>2. Held'
    BY <1>1, <2>1 DEF ToUndo, Held, Shape, SocketsHeld, MemoryHeld, Descriptor, Losses, Memory, PcapFields
  <2>3. Undoable'
    BY <1>1, <2>1 DEF ToUndo, Undoable, Shape, ListedToUndo, IfaceToUndo, PromiscToUndo, ModeToUndo,
      UpToUndo, MonitorToUndo, PcapFields
  <2> QED
    BY <2>2, <2>3 DEF ToUndo, Held, Undoable
<1>2. CASE at = "oneshot" /\ Fail(PCAP_ERROR)
  BY <1>2, FailLeavesNothing
<1> QED
  BY <1>1, <1>2 DEF AllocateOneshot

\* The version of the ring is chosen.
LEMMA PrepareSocketKeeps ==
  ASSUME ToUndo, PrepareSocket
  PROVE  ToUndo'
<1>1. CASE at = "prepare" /\ Goto("tstamp") /\ UNCHANGED <<p, sys, iface>>
  <2>1. Held'
    BY <1>1 DEF ToUndo, Held, Shape, SocketsHeld, MemoryHeld, Descriptor
  <2>2. Undoable'
    BY <1>1 DEF ToUndo, Undoable, Shape, ListedToUndo, IfaceToUndo, PromiscToUndo, ModeToUndo,
      UpToUndo, MonitorToUndo
  <2> QED
    BY <2>1, <2>2 DEF ToUndo, Held, Undoable
<1>2. CASE at = "prepare" /\ FailMmap(sys, PCAP_ERROR)
  BY <1>2, FailMmapLeavesNothing
<1> QED
  BY <1>1, <1>2 DEF PrepareSocket

\* Time stamps are asked for.
LEMMA SetTimeStampsKeeps ==
  ASSUME ToUndo, SetTimeStamps
  PROVE  ToUndo'
<1>1. CASE /\ at = "tstamp" /\ \E warning \in {0, PCAP_WARNING_TSTAMP_TYPE_NOTSUP} : p' = [p EXCEPT !.status = warning]
           /\ Goto("ring")
           /\ UNCHANGED <<sys, iface>>
  <2>1. /\ DOMAIN p' = PcapFields
        /\ \A f \in PcapFields \ {"status"} : p'[f] = p[f]
    BY <1>1 DEF ToUndo, Shape, PcapFields
  <2>2. Held'
    BY <1>1, <2>1 DEF ToUndo, Held, Shape, SocketsHeld, MemoryHeld, Descriptor, Losses, Memory, PcapFields
  <2>3. Undoable'
    BY <1>1, <2>1 DEF ToUndo, Undoable, Shape, ListedToUndo, IfaceToUndo, PromiscToUndo, ModeToUndo,
      UpToUndo, MonitorToUndo, PcapFields
  <2> QED
    BY <2>2, <2>3 DEF ToUndo, Held, Undoable
<1>2. CASE at = "tstamp" /\ \E status \in {PCAP_ERROR_PERM_DENIED, PCAP_ERROR} : FailMmap(sys, status)
  BY <1>2, FailMmapLeavesNothing
<1>3. CASE at = "tstamp" /\ Goto("ring") /\ UNCHANGED <<p, sys, iface>>
  <2>1. Held'
    BY <1>3 DEF ToUndo, Held, Shape, SocketsHeld, MemoryHeld, Descriptor
  <2>2. Undoable'
    BY <1>3 DEF ToUndo, Undoable, Shape, ListedToUndo, IfaceToUndo, PromiscToUndo, ModeToUndo,
      UpToUndo, MonitorToUndo
  <2> QED
    BY <2>1, <2>2 DEF ToUndo, Held, Undoable
<1> QED
  BY <1>1, <1>2, <1>3 DEF SetTimeStamps

\* The size of the ring is computed.
LEMMA AskForRingKeeps ==
  ASSUME ToUndo, AskForRing
  PROVE  ToUndo'
<1>1. CASE /\ at = "ring" /\ p' = [p EXCEPT !.ring = Rounded(AskedRing(p))]
           /\ Goto("try_ring")
           /\ UNCHANGED <<sys, iface>>
  <2>1. /\ DOMAIN p' = PcapFields
        /\ \A f \in PcapFields \ {"ring"} : p'[f] = p[f]
    BY <1>1 DEF ToUndo, Shape, PcapFields
  <2>2. Held'
    BY <1>1, <2>1 DEF ToUndo, Held, Shape, SocketsHeld, MemoryHeld, Descriptor, Losses, Memory, PcapFields
  <2>3. Undoable'
    BY <1>1, <2>1 DEF ToUndo, Undoable, Shape, ListedToUndo, IfaceToUndo, PromiscToUndo, ModeToUndo,
      UpToUndo, MonitorToUndo, PcapFields
  <2> QED
    BY <2>2, <2>3 DEF ToUndo, Held, Undoable
<1>2. CASE at = "ring" /\ FailMmap(sys, PCAP_ERROR)
  BY <1>2, FailMmapLeavesNothing
<1> QED
  BY <1>1, <1>2 DEF AskForRing

\* The kernel makes a ring, or a smaller one is asked for, or there will be none.
LEMMA TryRingKeeps ==
  ASSUME ToUndo, TryRing
  PROVE  ToUndo'
<1>1. CASE /\ at = "try_ring" /\ sys' = [sys EXCEPT !.fd.ring = block_nr(p.ring) > 0]
           /\ Goto("mmap")
           /\ UNCHANGED <<p, iface>>
  <2>1. /\ DOMAIN sys' = SysFields
        /\ Descriptor(sys'.fd)
        /\ \A f \in SysFields \ {"fd"} : sys'[f] = sys[f]
    BY <1>1 DEF ToUndo, Shape, SysFields, SocketsHeld, Descriptor, SocketFields
  <2>2. Held'
    BY <1>1, <2>1 DEF ToUndo, Held, Shape, SocketsHeld, MemoryHeld, Descriptor, Losses, Memory, SysFields
  <2>3. Undoable'
    BY <1>1, <2>1 DEF ToUndo, Undoable, Shape, ListedToUndo, IfaceToUndo, PromiscToUndo, ModeToUndo,
      UpToUndo, MonitorToUndo, SysFields
  <2> QED
    BY <2>2, <2>3 DEF ToUndo, Held, Undoable
<1>2. CASE /\ at = "try_ring" /\ p' = [p EXCEPT !.ring = Rounded(Smaller(p.ring))]
           /\ UNCHANGED <<sys, iface, at>>
  <2>1. /\ DOMAIN p' = PcapFields
        /\ \A f \in PcapFields \ {"ring"} : p'[f] = p[f]
    BY <1>2 DEF ToUndo, Shape, PcapFields
  <2>2. Held'
    BY <1>2, <2>1 DEF ToUndo, Held, Shape, SocketsHeld, MemoryHeld, Descriptor, Losses, Memory, PcapFields
  <2>3. Undoable'
    BY <1>2, <2>1 DEF ToUndo, Undoable, Shape, ListedToUndo, IfaceToUndo, PromiscToUndo, ModeToUndo,
      UpToUndo, MonitorToUndo, PcapFields
  <2> QED
    BY <2>2, <2>3 DEF ToUndo, Held, Undoable
<1>3. CASE /\ at = "try_ring" /\ p' = [p EXCEPT !.mem = @ \ {"oneshot"}, !.ring = NoRing, !.status = 0]
           /\ Goto("rcvbuf")
           /\ UNCHANGED <<sys, iface>>
  <2>1. /\ DOMAIN p' = PcapFields
        /\ p'.mem = p.mem \ {"oneshot"}
        /\ \A f \in PcapFields \ {"mem", "ring", "status"} : p'[f] = p[f]
    BY <1>3 DEF ToUndo, Shape, PcapFields
  <2>2. Held'
    BY <1>3, <2>1 DEF ToUndo, Held, Shape, SocketsHeld, MemoryHeld, Descriptor, Losses, Memory, PcapFields
  <2>3. Undoable'
    BY <1>3, <2>1 DEF ToUndo, Undoable, Shape, ListedToUndo, IfaceToUndo, PromiscToUndo, ModeToUndo,
      UpToUndo, MonitorToUndo, PcapFields
  <2> QED
    BY <2>2, <2>3 DEF ToUndo, Held, Undoable
<1>4. CASE at = "try_ring" /\ FailMmap(sys, PCAP_ERROR)
  BY <1>4, FailMmapLeavesNothing
<1> QED
  BY <1>1, <1>2, <1>3, <1>4 DEF TryRing

\* The ring is mapped.
LEMMA MapRingKeeps ==
  ASSUME ToUndo, MapRing
  PROVE  ToUndo'
<1>1. CASE /\ at = "mmap" /\ sys' = [sys EXCEPT !.mapped = TRUE]
           /\ Goto("frames")
           /\ UNCHANGED <<p, iface>>
  <2>1. /\ DOMAIN sys' = SysFields
        /\ sys'.mapped
        /\ \A f \in SysFields \ {"mapped"} : sys'[f] = sys[f]
    BY <1>1 DEF ToUndo, Shape, SysFields
  <2>2. Held'
    BY <1>1, <2>1 DEF ToUndo, Held, Shape, SocketsHeld, MemoryHeld, Descriptor, Losses, Memory, SysFields
  <2>3. Undoable'
    BY <1>1, <2>1 DEF ToUndo, Undoable, Shape, ListedToUndo, IfaceToUndo, PromiscToUndo, ModeToUndo,
      UpToUndo, MonitorToUndo, SysFields
  <2> QED
    BY <2>2, <2>3 DEF ToUndo, Held, Undoable
<1>2. CASE at = "mmap" /\ FailMmap(WithoutRing(sys), PCAP_ERROR)
  BY <1>2, FailMmapLeavesNothing
<1> QED
  BY <1>1, <1>2 DEF MapRing

\* Its frames are listed.
LEMMA ListFramesKeeps ==
  ASSUME ToUndo, ListFrames
  PROVE  ToUndo'
<1>1. CASE /\ at = "frames" /\ p' = [p EXCEPT !.mem = @ \cup {"buffer"}, !.mode = "mmap"]
           /\ Goto("opened")
           /\ UNCHANGED <<sys, iface>>
  <2>1. /\ DOMAIN p' = PcapFields
        /\ p'.mem = p.mem \cup {"buffer"} /\ p'.mode = "mmap"
        /\ \A f \in PcapFields \ {"mem", "mode"} : p'[f] = p[f]
    BY <1>1 DEF ToUndo, Shape, PcapFields
  <2>2. Held'
    BY <1>1, <2>1 DEF ToUndo, Held, Shape, SocketsHeld, MemoryHeld, Descriptor, Losses, Memory, PcapFields
  <2>3. Undoable'
    BY <1>1, <2>1 DEF ToUndo, Undoable, Shape, ListedToUndo, IfaceToUndo, PromiscToUndo, ModeToUndo,
      UpToUndo, MonitorToUndo, PcapFields
  <2> QED
    BY <2>2, <2>3 DEF ToUndo, Held, Undoable
<1>2. CASE at = "frames" /\ FailMmap(WithoutRing(sys), PCAP_ERROR)
  BY <1>2, FailMmapLeavesNothing
<1> QED
  BY <1>1, <1>2 DEF ListFrames

-----------------------------------------------------------------------------
(* activate_old, and the end of the activation *)

\* A socket of the old kind is opened.
LEMMA OpenOldKeeps ==
  ASSUME ToUndo, OpenOld
  PROVE  ToUndo'
<1>1. CASE at = "old" /\ FailUnrestored(PCAP_ERROR_PERM_DENIED)
  BY <1>1, FailUnrestoredLeavesNothing
<1>2. CASE at = "old" /\ p.device = "any" /\ Fail(PCAP_ERROR)
  BY <1>2, FailLeavesNothing
<1>3. CASE /\ at = "old" /\ p.device # "any"
           /\ sys' = [sys EXCEPT !.fd = Socket("old")]
           /\ p' = [p EXCEPT !.cooked = FALSE, !.mode = "sock_packet"]
           /\ Goto("bind_old")
           /\ UNCHANGED iface
  <2>1. /\ DOMAIN p' = PcapFields
        /\ p'.mode = "sock_packet"
        /\ \A f \in PcapFields \ {"cooked", "mode"} : p'[f] = p[f]
    BY <1>3 DEF ToUndo, Shape, PcapFields
  <2>2. /\ DOMAIN sys' = SysFields
        /\ Descriptor(sys'.fd)
        /\ \A f \in SysFields \ {"fd"} : sys'[f] = sys[f]
    BY <1>3 DEF ToUndo, Shape, SysFields, Socket, Descriptor, SocketFields
  <2>3. Held'
    BY <1>3, <2>1, <2>2 DEF ToUndo, Held, Shape, SocketsHeld, MemoryHeld, Descriptor, Losses, Memory, PcapFields, SysFields
  <2>4. Undoable'
    BY <1>3, <2>1, <2>2 DEF ToUndo, Undoable, Shape, ListedToUndo, IfaceToUndo, PromiscToUndo, ModeToUndo,
      UpToUndo, MonitorToUndo, PcapFields, SysFields
  <2> QED
    BY <2>3, <2>4 DEF ToUndo, Held, Undoable
<1> QED
  BY <1>1, <1>2, <1>3 DEF OpenOld

\* It is bound; a list of link types that was there is lost.
LEMMA BindOldKeeps ==
  ASSUME ToUndo, BindOld
  PROVE  ToUndo'
<1>1. CASE at = "bind_old" /\ Fail(PCAP_ERROR)
  BY <1>1, FailLeavesNothing
<1>2. ASSUME at = "bind_old", NEW linktype, NEW dlts, NEW more,
             p' = [p EXCEPT !.linktype = linktype, !.dlts = more,
                            !.mem = IF dlts = {} THEN @ ELSE @ \cup {"dlt_list"}],
             sys' = [sys EXCEPT !.fd.bound = TRUE,
                                !.lost = IF dlts # {} /\ "dlt_list" \in p.mem THEN @ \cup {"dlt_list"} ELSE @],
             Goto("promisc_old"),
             UNCHANGED iface
      PROVE  ToUndo'
  <2>1. /\ DOMAIN p' = PcapFields /\ p'.mem \subseteq p.mem \cup {"dlt_list"}
        /\ \A f \in PcapFields \ {"linktype", "dlts", "mem"} : p'[f] = p[f]
    BY <1>2 DEF ToUndo, Shape, PcapFields
  <2>2. /\ DOMAIN sys' = SysFields /\ Descriptor(sys'.fd)
        /\ sys.lost \subseteq sys'.lost /\ sys'.lost \subseteq sys.lost \cup {"dlt_list"}
        /\ \A f \in SysFields \ {"fd", "lost"} : sys'[f] = sys[f]
    BY <1>2 DEF ToUndo, Shape, SysFields, SocketsHeld, Descriptor, SocketFields
  <2>3. Held'
    BY <1>2, <2>1, <2>2 DEF ToUndo, Held, Shape, SocketsHeld, MemoryHeld, Descriptor, Memory, Losses, PcapFields, SysFields
  <2>4. Undoable'
    BY <1>2, <2>1, <2>2 DEF ToUndo, Undoable, Shape, ListedToUndo, IfaceToUndo, PromiscToUndo, ModeToUndo,
      UpToUndo, MonitorToUndo, PcapFields, SysFields
  <2> QED
    BY <2>3, <2>4 DEF ToUndo, Held, Undoable
<1> QED
  BY <1>1, <1>2 DEF BindOld

\* The flag of the interface is set.
LEMMA PromiscOldKeeps ==
  ASSUME ToUndo, PromiscOld
  PROVE  ToUndo'
<1>1. CASE at = "promisc_old" /\ Goto("mtu_old") /\ UNCHANGED <<p, sys, iface>>
  <2>1. Held'
    BY <1>1 DEF ToUndo, Held, Shape, SocketsHeld, MemoryHeld, Descriptor
  <2>2. Undoable'
    BY <1>1 DEF ToUndo, Undoable, Shape, ListedToUndo, IfaceToUndo, PromiscToUndo, ModeToUndo,
      UpToUndo, MonitorToUndo
  <2> QED
    BY <2>1, <2>2 DEF ToUndo, Held, Undoable
<1>2. CASE /\ at = "promisc_old" /\ ~iface.promisc
           /\ iface' = [iface EXCEPT !.promisc = TRUE]
           /\ p' = [p EXCEPT !.must = @ \cup {"promisc"}]
           /\ sys' = pcap_add_to_pcaps_to_close(sys)
           /\ Goto("mtu_old")
  <2>1. /\ DOMAIN p' = PcapFields
        /\ p'.must = p.must \cup {"promisc"}
        /\ \A f \in PcapFields \ {"must"} : p'[f] = p[f]
    BY <1>2 DEF ToUndo, Shape, PcapFields
  <2>2. /\ DOMAIN sys' = SysFields
        /\ sys'.listed
        /\ \A f \in SysFields \ {"listed"} : sys'[f] = sys[f]
    BY <1>2 DEF ToUndo, Shape, SysFields, pcap_add_to_pcaps_to_close
  <2>3. /\ DOMAIN iface' = IfaceFields
        /\ iface'.promisc = TRUE
        /\ \A f \in IfaceFields \ {"promisc"} : iface'[f] = iface[f]
    BY <1>2 DEF ToUndo, Shape, IfaceFields
  <2>4. Held'
    BY <1>2, <2>1, <2>2, <2>3 DEF ToUndo, Held, Shape, SocketsHeld, MemoryHeld, Descriptor, Losses, Memory, PcapFields, SysFields, IfaceFields
  <2>5. Undoable'
    BY <1>2, <2>1, <2>2, <2>3 DEF ToUndo, Undoable, Shape, ListedToUndo, IfaceToUndo, PromiscToUndo, ModeToUndo,
      UpToUndo, MonitorToUndo, PcapFields, SysFields, IfaceFields
  <2> QED
    BY <2>4, <2>5 DEF ToUndo, Held, Undoable
<1>3. CASE at = "promisc_old" /\ Fail(PCAP_ERROR)
  BY <1>3, FailLeavesNothing
<1> QED
  BY <1>1, <1>2, <1>3 DEF PromiscOld

\* The MTU is asked for.
LEMMA MtuOldKeeps ==
  ASSUME ToUndo, MtuOld
  PROVE  ToUndo'
<1>1. CASE at = "mtu_old" /\ Goto("rcvbuf") /\ UNCHANGED <<p, sys, iface>>
  <2>1. Held'
    BY <1>1 DEF ToUndo, Held, Shape, SocketsHeld, MemoryHeld, Descriptor
  <2>2. Undoable'
    BY <1>1 DEF ToUndo, Undoable, Shape, ListedToUndo, IfaceToUndo, PromiscToUndo, ModeToUndo,
      UpToUndo, MonitorToUndo
  <2> QED
    BY <2>1, <2>2 DEF ToUndo, Held, Undoable
<1>2. CASE at = "mtu_old" /\ Fail(PCAP_ERROR)
  BY <1>2, FailLeavesNothing
<1> QED
  BY <1>1, <1>2 DEF MtuOld

\* The buffer of the socket is set.
LEMMA SetBufferSizeKeeps ==
  ASSUME ToUndo, SetBufferSize
  PROVE  ToUndo'
<1>1. CASE at = "rcvbuf" /\ Goto("buffer") /\ UNCHANGED <<p, sys, iface>>
  <2>1. Held'
    BY <1>1 DEF ToUndo, Held, Shape, SocketsHeld, MemoryHeld, Descriptor
  <2>2. Undoable'
    BY <1>1 DEF ToUndo, Undoable, Shape, ListedToUndo, IfaceToUndo, PromiscToUndo, ModeToUndo,
      UpToUndo, MonitorToUndo
  <2> QED
    BY <2>1, <2>2 DEF ToUndo, Held, Undoable
<1>2. CASE at = "rcvbuf" /\ Fail(PCAP_ERROR)
  BY <1>2, FailLeavesNothing
<1> QED
  BY <1>1, <1>2 DEF SetBufferSize

\* The buffer of the pcap_t is allocated.
LEMMA AllocateBufferKeeps ==
  ASSUME ToUndo, AllocateBuffer
  PROVE  ToUndo'
<1>1. CASE /\ at = "buffer" /\ p' = [p EXCEPT !.mem = @ \cup {"buffer"}, !.status = 0]
           /\ Goto("opened")
           /\ UNCHANGED <<sys, iface>>
  <2>1. /\ DOMAIN p' = PcapFields
        /\ p'.mem = p.mem \cup {"buffer"}
        /\ \A f \in PcapFields \ {"mem", "status"} : p'[f] = p[f]
    BY <1>1 DEF ToUndo, Shape, PcapFields
  <2>2. Held'
    BY <1>1, <2>1 DEF ToUndo, Held, Shape, SocketsHeld, MemoryHeld, Descriptor, Losses, Memory, PcapFields
  <2>3. Undoable'
    BY <1>1, <2>1 DEF ToUndo, Undoable, Shape, ListedToUndo, IfaceToUndo, PromiscToUndo, ModeToUndo,
      UpToUndo, MonitorToUndo, PcapFields
  <2> QED
    BY <2>2, <2>3 DEF ToUndo, Held, Undoable
<1>2. CASE at = "buffer" /\ Fail(PCAP_ERROR)
  BY <1>2, FailLeavesNothing
<1> QED
  BY <1>1, <1>2 DEF AllocateBuffer

\* The pcap_t is activated.
LEMMA ActivatedKeeps ==
  ASSUME ToUndo, Activated
  PROVE  ToUndo'
<1>1. CASE /\ at = "opened" /\ p' = [p EXCEPT !.life = "activated"]
           /\ Goto("idle")
           /\ UNCHANGED <<sys, iface>>
  <2>1. /\ DOMAIN p' = PcapFields
        /\ p'.life = "activated"
        /\ \A f \in PcapFields \ {"life"} : p'[f] = p[f]
    BY <1>1 DEF ToUndo, Shape, PcapFields
  <2>2. Held'
    BY <1>1, <2>1 DEF ToUndo, Held, Shape, SocketsHeld, MemoryHeld, Descriptor, Losses, Memory, PcapFields
  <2>3. Undoable'
    BY <1>1, <2>1 DEF ToUndo, Undoable, Shape, ListedToUndo, IfaceToUndo, PromiscToUndo, ModeToUndo,
      UpToUndo, MonitorToUndo, PcapFields
  <2> QED
    BY <2>2, <2>3 DEF ToUndo, Held, Undoable
<1> QED
  BY <1>1 DEF Activated

-----------------------------------------------------------------------------
(* The rest of the life of a pcap_t *)

\* A pcap_t is activated once more or for the first time.
LEMMA pcap_activateKeeps ==
  ASSUME ToUndo, pcap_activate
  PROVE  ToUndo'
<1>1. CASE /\ p.life = "created" /\ at = "idle"
           /\ p' = [p EXCEPT !.life = "activating", !.mem = @ \cup {"device"},
                             !.opt.promisc = @ /\ p.device # "any"]
           /\ Goto("socket")
           /\ UNCHANGED <<sys, iface>>
  <2>1. /\ DOMAIN p' = PcapFields
        /\ p'.life = "activating" /\ p'.mem = p.mem \cup {"device"}
        /\ \A f \in PcapFields \ {"life", "mem", "opt"} : p'[f] = p[f]
    BY <1>1 DEF ToUndo, Shape, PcapFields
  <2>2. Held'
    BY <1>1, <2>1 DEF ToUndo, Held, Shape, SocketsHeld, MemoryHeld, Descriptor, Losses, Memory, PcapFields
  <2>3. Undoable'
    BY <1>1, <2>1 DEF ToUndo, Undoable, Shape, ListedToUndo, IfaceToUndo, PromiscToUndo, ModeToUndo,
      UpToUndo, MonitorToUndo, PcapFields
  <2> QED
    BY <2>2, <2>3 DEF ToUndo, Held, Undoable
<1> QED
  BY <1>1 DEF pcap_activate

\* The settings are changed after a failure.
LEMMA pcap_setKeeps ==
  ASSUME ToUndo, pcap_set
  PROVE  ToUndo'
<1>1. CASE /\ p.life = "failed" /\ at = "idle"
           /\ \E opt \in Options[p.device] : p' = [p EXCEPT !.opt = opt, !.life = "created"]
           /\ UNCHANGED <<sys, iface, at>>
  <2>1. /\ DOMAIN p' = PcapFields
        /\ p'.life = "created"
        /\ \A f \in PcapFields \ {"opt", "life"} : p'[f] = p[f]
    BY <1>1 DEF ToUndo, Shape, PcapFields
  <2>2. Held'
    BY <1>1, <2>1 DEF ToUndo, Held, Shape, SocketsHeld, MemoryHeld, Descriptor, Losses, Memory, PcapFields
  <2>3. Undoable'
    BY <1>1, <2>1 DEF ToUndo, Undoable, Shape, ListedToUndo, IfaceToUndo, PromiscToUndo, ModeToUndo,
      UpToUndo, MonitorToUndo, PcapFields
  <2> QED
    BY <2>2, <2>3 DEF ToUndo, Held, Undoable
<1> QED
  BY <1>1 DEF pcap_set

\* Another link type is chosen.
LEMMA pcap_set_datalinkKeeps ==
  ASSUME ToUndo, pcap_set_datalink
  PROVE  ToUndo'
<1>1. CASE /\ \E dlt \in p.dlts : p' = [p EXCEPT !.linktype = dlt]
           /\ UNCHANGED <<sys, iface, at>>
  <2>1. /\ DOMAIN p' = PcapFields
        /\ \A f \in PcapFields \ {"linktype"} : p'[f] = p[f]
    BY <1>1 DEF ToUndo, Shape, PcapFields
  <2>2. Held'
    BY <1>1, <2>1 DEF ToUndo, Held, Shape, SocketsHeld, MemoryHeld, Descriptor, Losses, Memory, PcapFields
  <2>3. Undoable'
    BY <1>1, <2>1 DEF ToUndo, Undoable, Shape, ListedToUndo, IfaceToUndo, PromiscToUndo, ModeToUndo,
      UpToUndo, MonitorToUndo, PcapFields
  <2> QED
    BY <2>2, <2>3 DEF ToUndo, Held, Undoable
<1> QED
  BY <1>1 DEF pcap_set_datalink

\* A pcap_t is created, on an interface that is as it is found.
LEMMA pcap_createKeeps ==
  ASSUME ToUndo, pcap_create
  PROVE  ToUndo'
<1>1. PICK device \in Devices : \E opt \in Options[device], features \in Kernels[device] :
        p' = NewPcap(device, opt, features) /\ iface' \in Interfaces[device]
  BY DEF pcap_create
<1>2. /\ DOMAIN p' = PcapFields /\ p'.life = "created" /\ p'.mode = "packet"
      /\ p'.mem = {"source", "tstamp_types"} /\ p'.must = {}
  BY <1>1 DEF NewPcap, PcapFields
<1>3. /\ DOMAIN sys' = SysFields /\ sys'.fd = NoSocket /\ sys'.local = NoSocket
      /\ ~sys'.mapped /\ sys'.lost = {} /\ ~sys'.listed /\ ~sys'.monif
  BY DEF pcap_create, NewSys, SysFields
<1>4. iface'.wasPromisc \in BOOLEAN /\ iface' = Interface(iface'.wasUp, iface'.wasPromisc, iface'.was)
  BY <1>1, InterfaceAssumption
<1>5. DOMAIN iface' = IfaceFields /\ iface'.up = iface'.wasUp
      /\ iface'.promisc = iface'.wasPromisc /\ iface'.mode = iface'.was
  BY <1>4 DEF Interface, IfaceFields
<1>6. at' = "idle"
  BY DEF pcap_create, ToUndo, Shape
<1>7. Held'
  BY <1>2, <1>3, <1>5, <1>6 DEF Held, Shape, SocketsHeld, MemoryHeld, Losses, Memory
<1>8. Undoable'
  BY <1>2, <1>3, <1>4, <1>5, <1>6 DEF Undoable, ListedToUndo, IfaceToUndo, PromiscToUndo, ModeToUndo,
    UpToUndo, MonitorToUndo
<1> QED
  BY <1>7, <1>8 DEF ToUndo, Held, Undoable

\* No pcap_t, and nothing of it left.
LEMMA NothingHeld ==
  ASSUME p' = NoPcap, at' = "idle",
         DOMAIN sys' = SysFields, sys'.fd = NoSocket, sys'.local = NoSocket,
         ~sys'.mapped, ~sys'.listed, sys'.lost \subseteq Losses,
         DOMAIN iface' = IfaceFields, iface'.wasPromisc \in BOOLEAN, iface'.promisc = iface'.wasPromisc,
         iface'.mode \in {iface'.was, "monitor"},
         iface'.mode = iface'.was \/ "mode" \in sys'.lost,
         iface'.up = iface'.wasUp \/ "up" \in sys'.lost,
         sys'.monif => "monif" \in sys'.lost
  PROVE  ToUndo'
<1>1. DOMAIN p' = PcapFields /\ p'.life = "none" /\ p'.mode = "packet" /\ p'.mem = {}
      /\ p'.must = {} /\ p'.device = "none"
  BY DEF NoPcap, NewPcap, PcapFields
<1>2. Held'
  BY <1>1 DEF Held, Shape, SocketsHeld, MemoryHeld, Memory
<1>3. Undoable'
  BY <1>1 DEF Undoable, ListedToUndo, IfaceToUndo, PromiscToUndo, ModeToUndo, UpToUndo, MonitorToUndo
<1> QED
  BY <1>2, <1>3 DEF ToUndo, Held, Undoable

\* With a pcap_t that is activated, the interface is put back to what it was, and the one that
\* was added is deleted, provided that it is listed or being closed.
LEMMA ActivatedIsRestored ==
  ASSUME ToUndo, p.life = "activated"
  PROVE  /\ at = "idle" /\ CanRestore
         /\ DOMAIN Restored(iface) = IfaceFields
         /\ Restored(iface).wasPromisc \in BOOLEAN
         /\ Restored(iface).promisc = Restored(iface).wasPromisc
         /\ Restored(iface).mode \in {Restored(iface).was, "monitor"}
         /\ Restored(iface).mode = Restored(iface).was \/ "mode" \in sys.lost
         /\ Restored(iface).up = Restored(iface).wasUp \/ "up" \in sys.lost
         /\ ~sys.listed => /\ iface.promisc = iface.wasPromisc
                           /\ iface.mode = iface.was \/ "mode" \in sys.lost
                           /\ sys.monif => "monif" \in sys.lost
         /\ sys.monif => "monif" \in sys.lost \/ "monif" \in p.must
<1>1. at = "idle" /\ CanRestore
  BY CanRestoreIsOwns DEF ToUndo, Shape
<1> QED
  BY <1>1, RestoredGives DEF ToUndo, IfaceToUndo, PromiscToUndo, ModeToUndo, UpToUndo, MonitorToUndo

\* pcap_close: of one that is activated, or of one that is not.
LEMMA pcap_closeKeeps ==
  ASSUME ToUndo, pcap_close
  PROVE  ToUndo'
<1>1. p' = NoPcap /\ at = "idle" /\ at' = "idle"
  BY DEF pcap_close, Close
<1>2. CASE p.life = "activated"
  <2> DEFINE s == IF p.mode = "mmap" THEN WithoutRing(sys) ELSE sys
             c == pcap_cleanup_linux(s)
  <2>1. /\ DOMAIN s = SysFields /\ s.local = NoSocket /\ ~s.mapped
        /\ \A f \in {"lost", "listed", "monif"} : s[f] = sys[f]
    BY <1>1, <1>2 DEF ToUndo, Shape, SocketsHeld, MemoryHeld, WithoutRing, SysFields
  <2> HIDE DEF s
  <2>2. /\ DOMAIN c = SysFields /\ c.fd = NoSocket /\ c.local = NoSocket /\ ~c.mapped /\ c.lost = sys.lost
        /\ c.listed = IF p.must # {} THEN FALSE ELSE sys.listed
        /\ c.monif = IF "monif" \in p.must /\ CanRestore THEN FALSE ELSE sys.monif
    BY <2>1, CleanupGives
  <2>3. CleanedMemory(p.mem, p.mode) \ {"source"} = {}
    BY <1>1, <1>2 DEF ToUndo, MemoryHeld, CleanedMemory, LiveMemory, Memory
  <2>4. iface' = Restored(iface) /\ sys' = [c EXCEPT !.lost = @ \cup (CleanedMemory(p.mem, p.mode) \ {"source"})]
    BY <1>2 DEF pcap_close, Close, pcap_cleanup_linux_mmap, s
  <2> HIDE DEF c
  <2>5. DOMAIN sys' = SysFields /\ sys'.lost = sys.lost /\ \A f \in SysFields \ {"lost"} : sys'[f] = c[f]
    BY <2>2, <2>3, <2>4 DEF SysFields
  <2>6. ~sys'.listed
    BY <2>2, <2>5 DEF ToUndo, ListedToUndo, SysFields
  <2>7. sys'.fd = NoSocket /\ sys'.local = NoSocket /\ ~sys'.mapped /\ sys'.lost \subseteq Losses
    BY <2>2, <2>5 DEF ToUndo, MemoryHeld, SysFields
  <2>8. sys'.monif => "monif" \in sys'.lost
    BY <1>2, <2>2, <2>5, ActivatedIsRestored DEF SysFields
  <2> QED
    BY <1>1, <1>2, <2>4, <2>5, <2>6, <2>7, <2>8, ActivatedIsRestored, NothingHeld
<1>3. CASE p.life # "activated"
  <2>1. p.life \in {"created", "failed"} /\ ~Owns
    BY <1>1, <1>3 DEF pcap_close
  <2>2. p.mem \ (LiveMemory \cup {"source"}) = {}
    BY <2>1 DEF ToUndo, MemoryHeld, LiveMemory
  <2>3. iface' = iface /\ sys' = [pcap_cleanup_live_common(sys) EXCEPT !.lost = @ \cup (p.mem \ (LiveMemory \cup {"source"}))]
    BY <1>3 DEF pcap_close, Close
  <2>4. DOMAIN sys' = SysFields /\ sys'.fd = NoSocket /\ sys'.lost = sys.lost
        /\ \A f \in SysFields \ {"fd", "lost"} : sys'[f] = sys[f]
    BY <2>2, <2>3 DEF ToUndo, Shape, pcap_cleanup_live_common, SysFields
  <2>5. ~sys.listed
    BY <2>1 DEF ToUndo, ListedToUndo
  <2>6. sys'.local = NoSocket /\ ~sys'.mapped /\ ~sys'.listed /\ sys'.lost \subseteq Losses /\ sys'.monif = sys.monif
    BY <1>1, <2>1, <2>4, <2>5 DEF ToUndo, SocketsHeld, MemoryHeld, SysFields
  <2>7. /\ DOMAIN iface = IfaceFields /\ iface.wasPromisc \in BOOLEAN /\ iface.promisc = iface.wasPromisc
        /\ iface.mode \in {iface.was, "monitor"}
        /\ iface.mode = iface.was \/ "mode" \in sys.lost
        /\ iface.up = iface.wasUp \/ "up" \in sys.lost
        /\ sys.monif => "monif" \in sys.lost
    BY <1>1, <2>5 DEF ToUndo, Shape, IfaceToUndo, PromiscToUndo, ModeToUndo, UpToUndo, MonitorToUndo
  <2> QED
    BY <1>1, <2>3, <2>4, <2>6, <2>7, NothingHeld
<1> QED
  BY <1>2, <1>3

\* The exit of the process.
LEMMA ExitKeeps ==
  ASSUME ToUndo, Exit
  PROVE  ToUndo'
<1>1. p.life = "activated" /\ p' = NoPcap /\ at' = at
  BY DEF Exit
<1>2. sys' = [NewSys EXCEPT !.lost = sys.lost, !.monif = IF sys.listed THEN del_mon_if(sys).monif ELSE sys.monif]
  BY DEF Exit
<1>3. /\ DOMAIN sys' = SysFields /\ sys'.fd = NoSocket /\ sys'.local = NoSocket
      /\ ~sys'.mapped /\ ~sys'.listed /\ sys'.lost = sys.lost
      /\ sys'.monif = IF sys.listed THEN del_mon_if(sys).monif ELSE sys.monif
  BY <1>2 DEF NewSys, SysFields
<1>4. sys'.monif => "monif" \in sys.lost
  <2>1. DOMAIN sys = SysFields
    BY DEF ToUndo, Shape
  <2>2. del_mon_if(sys).monif = IF "monif" \in p.must /\ CanRestore THEN FALSE ELSE sys.monif
    BY <2>1 DEF del_mon_if, SysFields
  <2> QED
    BY <1>1, <1>3, <2>2, ActivatedIsRestored
<1>5. sys.lost \subseteq Losses
  BY DEF ToUndo, MemoryHeld
<1>6. CASE sys.listed
  <2>1. iface' = Restored(iface)
    BY <1>6 DEF Exit
  <2> QED
    BY <1>1, <1>3, <1>4, <1>5, <2>1, ActivatedIsRestored, NothingHeld
<1>7. CASE ~sys.listed
  <2>1. iface' = iface
    BY <1>7 DEF Exit
  <2>2. /\ DOMAIN iface = IfaceFields /\ iface.wasPromisc \in BOOLEAN /\ iface.mode \in {iface.was, "monitor"}
        /\ iface.up = iface.wasUp \/ "up" \in sys.lost
    BY <1>1, ActivatedIsRestored DEF ToUndo, Shape, IfaceToUndo, PromiscToUndo, ModeToUndo, UpToUndo
  <2> QED
    BY <1>1, <1>3, <1>4, <1>5, <1>7, <2>1, <2>2, ActivatedIsRestored, NothingHeld
<1> QED
  BY <1>6, <1>7

-----------------------------------------------------------------------------
(* The invariant, and what it shows. *)

LEMMA ActivationKeeps ==
  ASSUME ToUndo, pcap_activate_linux
  PROVE  ToUndo'
<1>1. CASE activate_new
  BY <1>1, OpenSocketKeeps, AnyDeviceKeeps, FindPhyKeeps, AddMonitorKeeps, BringMonitorUpKeeps, FindDriverKeeps,
    GetModeKeeps, PrismKeeps, TakeDownKeeps, SetModeKeeps, AskForHeadersKeeps, BringUpKeeps, GetArpTypeKeeps,
    ReopenKeeps, BindKeeps, JoinPromiscKeeps, AskForTagsKeeps
    DEF activate_new, enter_rfmon_mode, enter_rfmon_mode_mac80211, enter_rfmon_mode_wext
<1>2. CASE activate_mmap
  BY <1>2, AllocateOneshotKeeps, PrepareSocketKeeps, SetTimeStampsKeeps, AskForRingKeeps, TryRingKeeps,
    MapRingKeeps, ListFramesKeeps DEF activate_mmap
<1>3. CASE activate_old
  BY <1>3, OpenOldKeeps, BindOldKeeps, PromiscOldKeeps, MtuOldKeeps DEF activate_old
<1> QED
  BY <1>1, <1>2, <1>3, SetBufferSizeKeeps, AllocateBufferKeeps, ActivatedKeeps DEF pcap_activate_linux

LEMMA InitToUndo == ActivateInit => ToUndo
<1> SUFFICES ASSUME ActivateInit PROVE ToUndo
  OBVIOUS
<1>1. DOMAIN p = PcapFields /\ p.life = "none" /\ p.mode = "packet" /\ p.mem = {}
      /\ p.must = {} /\ p.device = "none" /\ at = "idle"
  BY DEF ActivateInit, NoPcap, NewPcap, PcapFields
<1>2. /\ DOMAIN sys = SysFields /\ sys.fd = NoSocket /\ sys.local = NoSocket
      /\ ~sys.mapped /\ sys.lost = {} /\ ~sys.listed /\ ~sys.monif
  BY DEF ActivateInit, NewSys, SysFields
<1>3. /\ DOMAIN iface = IfaceFields /\ iface.wasPromisc = FALSE /\ iface.promisc = iface.wasPromisc
      /\ iface.mode = iface.was /\ iface.up = iface.wasUp
  BY DEF ActivateInit, Interface, IfaceFields
<1>4. Held
  BY <1>1, <1>2, <1>3 DEF Held, Shape, SocketsHeld, MemoryHeld, Memory, Losses
<1>5. Undoable
  BY <1>1, <1>2, <1>3 DEF Undoable, ListedToUndo, IfaceToUndo, PromiscToUndo, ModeToUndo, UpToUndo, MonitorToUndo
<1> QED
  BY <1>4, <1>5 DEF ToUndo, Held, Undoable

LEMMA StepToUndo == ToUndo /\ [ActivateNext]_vars => ToUndo'
<1> SUFFICES ASSUME ToUndo, [ActivateNext]_vars PROVE ToUndo'
  OBVIOUS
<1>1. CASE UNCHANGED activateVars
  BY <1>1 DEF activateVars, ToUndo, Shape, SocketsHeld, MemoryHeld, ListedToUndo, IfaceToUndo, PromiscToUndo,
    ModeToUndo, UpToUndo, MonitorToUndo
<1>2. CASE ActivateNext
  BY <1>1, <1>2, pcap_createKeeps, pcap_setKeeps, pcap_activateKeeps, ActivationKeeps, pcap_set_datalinkKeeps,
    pcap_closeKeeps, ExitKeeps DEF ActivateNext, Capture
<1> QED
  BY <1>1, <1>2 DEF vars, activateVars

\* After a failure, a close or an exit all that is left is what the code loses track of.
LEMMA ToUndoIsEnough == ToUndo => NothingLeft
<1> SUFFICES ASSUME ToUndo PROVE NothingLeft
  OBVIOUS
<1>1. Released
  <2>1. ASSUME p.life \in {"none", "failed"}
        PROVE  /\ sys.fd = NoSocket /\ sys.local = NoSocket /\ ~sys.mapped /\ ~sys.listed
               /\ p.mem \subseteq {"source"}
    BY <2>1 DEF ToUndo, Shape, SocketsHeld, MemoryHeld, ListedToUndo
  <2>2. ASSUME p.life = "activated"
        PROVE  /\ sys.fd # NoSocket /\ sys.local = NoSocket
               /\ sys.mapped <=> p.mode = "mmap"
               /\ sys.listed => p.must # {}
    <3>1. at = "idle"
      BY <2>2 DEF ToUndo, Shape
    <3>2. sys.fd # NoSocket
      BY <2>2 DEF ToUndo, SocketsHeld, Descriptor, NoSocket
    <3> QED
      BY <2>2, <3>1, <3>2 DEF ToUndo, SocketsHeld, MemoryHeld, ListedToUndo
  <2>3. sys.lost \subseteq {"mode", "up", "monif", "dlt_list", "socket"}
    BY DEF ToUndo, MemoryHeld, Losses
  <2> QED
    BY <2>1, <2>2, <2>3 DEF Released
<1>2. InterfaceRestored
  <2>1. ASSUME p.life \in {"none", "failed"}
        PROVE  at = "idle" /\ ~sys.listed
    BY <2>1 DEF ToUndo, Shape, ListedToUndo
  <2> QED
    BY <2>1 DEF InterfaceRestored, ToUndo, IfaceToUndo, PromiscToUndo, ModeToUndo, UpToUndo, MonitorToUndo
<1> QED
  BY <1>1, <1>2 DEF NothingLeft

\* At whatever step an activation fails, and whatever was done by then, it leaves no socket,
\* mapping or memory, and the interface as it was found; so do a close and the exit of the
\* process: but for what the code loses track of, which NothingLeft names.  (pcap-linux.c,
\* pcap_activate_linux and pcap_cleanup_linux.)
THEOREM NothingIsLeft == ActivateSpec => []NothingLeft
BY InitToUndo, StepToUndo, ToUndoIsEnough, PTL DEF ActivateSpec

-----------------------------------------------------------------------------
(* The calls that read: what they have given, what they were asked for and what they return. *)

CallFields == {"op", "at", "cnt", "pkts", "asked", "total"}
Reading == {"check", "recv", "first", "poll", "frames", "between"}

\* What was given before the present turn of pcap_loop is what cnt is less than was asked for.
Counted(c) ==
  /\ DOMAIN c = CallFields /\ c.op \in {"loop", "dispatch", "next"}
  /\ c.cnt \in Int /\ c.asked \in Int /\ c.pkts \in Nat /\ c.total \in Nat
  /\ c.asked > 0 => c.cnt > 0 /\ c.pkts <= c.cnt /\ c.total - c.pkts = c.asked - c.cnt
  /\ c.asked <= 0 => c.cnt = c.asked
  /\ c.op # "loop" => c.total = c.pkts

CallCounted ==
  /\ call.at \in {"idle", "drain", "attach"} \cup Reading
  /\ call.at = "idle" => call = Idle
  /\ call.at \in Reading => Counted(call)
  /\ call.at \in {"check", "recv", "first", "poll"} => call.pkts = 0
  /\ call.at \in {"drain", "attach"} =>
       /\ DOMAIN call = CallFields /\ call.op = "setfilter" /\ call.asked = 0
       /\ call.total = 0 /\ call.pkts = 0
  /\ call.op = "next" /\ call.pkts > 0 => held # None

\* pcap_next returns a copy, or the buffer into which recvmsg puts the next packet.
HeldIsCopy == held \in {None, [is |-> "buffer"], [is |-> "oneshot_buffer"]}

Telling == CallCounted /\ HeldIsCopy /\ ReturnsTell

\* A call that returns an error, or what it has given in its turn, tells so.
LEMMA ReturnTells ==
  ASSUME NEW c, NEW n \in Int, Counted(c), Return(c, n),
         n < 0 \/ (c.op # "loop" /\ n = c.pkts) \/ (c.op = "loop" /\ n = 0 /\ c.total = c.asked),
         c.op = "next" /\ c.pkts > 0 => held' # None
  PROVE  CallCounted' /\ ReturnsTell'
<1>1. call' = Idle /\ result' = [op |-> c.op, asked |-> c.asked, total |-> c.total, value |-> n]
  BY DEF Return
<1>2. CallCounted'
  BY <1>1 DEF CallCounted, Idle, Reading
<1>3. c.asked > 0 => c.total <= c.asked
  BY DEF Counted
<1>4. result'.op = c.op /\ result'.asked = c.asked /\ result'.total = c.total /\ result'.value = n
  BY <1>1
<1>5. c.asked \in Int /\ c.total \in Nat /\ c.pkts \in Nat /\ (c.op # "loop" => c.total = c.pkts)
  BY DEF Counted
<1>6. /\ result'.asked > 0 => result'.total <= result'.asked
      /\ result'.op = "dispatch" /\ result'.value >= 0 => result'.value = result'.total
  BY <1>3, <1>4, <1>5
<1>7. /\ result'.op = "loop" => result'.value <= 0 /\ (result'.value = 0 => result'.total = result'.asked)
      /\ result'.op = "loop" /\ result'.value < 0 /\ result'.asked > 0 => result'.total <= result'.asked
  BY <1>3, <1>4, <1>5
<1>8. result'.op = "next" /\ result'.value > 0 => held' # None
  BY <1>4, <1>5
<1> QED
  BY <1>2, <1>6, <1>7, <1>8 DEF ReturnsTell

LEMMA NoResultTells ==
  ASSUME result' = NoResult
  PROVE  ReturnsTell'
BY DEF ReturnsTell, NoResult

\* The read operation has given what it returns.
LEMMA ReadReturnsTells ==
  ASSUME NEW c, Counted(c), ReadReturns(c, c.pkts),
         c.op = "next" /\ c.pkts > 0 => held' # None
  PROVE  CallCounted' /\ ReturnsTell'
<1>1. c.pkts \in Nat /\ c.cnt \in Int /\ c.asked \in Int /\ c.total \in Nat
  BY DEF Counted
<1>2. CASE c.op # "loop"
  <2>1. Return(c, c.pkts)
    BY <1>2 DEF ReadReturns
  <2> QED
    BY <1>1, <1>2, <2>1, ReturnTells
<1>3. CASE c.op = "loop"
  <2>1. ASSUME NEW cnt \in Int, Again(c, cnt), cnt = c.cnt \/ (c.asked > 0 /\ cnt = c.cnt - c.pkts /\ cnt > 0),
               cnt = c.cnt => c.pkts = 0 \/ c.asked <= 0
        PROVE  CallCounted' /\ ReturnsTell'
    <3>1. /\ DOMAIN call' = CallFields /\ call'.op = "loop" /\ call'.asked = c.asked /\ call'.total = c.total
          /\ call'.at \in {"first", "check"} /\ call'.pkts = 0 /\ call'.cnt = cnt
      BY <1>3, <2>1 DEF Again, Entry, Counted, CallFields
    <3>2. Counted(call')
      BY <1>1, <1>3, <2>1, <3>1 DEF Counted
    <3> QED
      BY <2>1, <3>1, <3>2, NoResultTells DEF CallCounted, Again, Reading
  <2>2. CASE c.pkts = 0 \/ c.cnt <= 0
    BY <1>1, <1>3, <2>1, <2>2 DEF ReadReturns, Counted
  <2>3. CASE c.pkts # 0 /\ c.cnt > 0 /\ c.cnt - c.pkts <= 0
    <3>1. Return(c, 0) /\ c.total = c.asked
      BY <1>1, <1>3, <2>3 DEF ReadReturns, Counted
    <3> QED
      BY <1>3, <3>1, ReturnTells
  <2>4. CASE c.pkts # 0 /\ c.cnt > 0 /\ c.cnt - c.pkts > 0
    <3>1. Again(c, c.cnt - c.pkts) /\ c.asked > 0
      BY <1>1, <1>3, <2>4 DEF ReadReturns, Counted
    <3> QED
      BY <1>1, <2>1, <2>4, <3>1
  <2> QED
    BY <1>1, <2>2, <2>3, <2>4
<1> QED
  BY <1>2, <1>3

-----------------------------------------------------------------------------
(* The steps of the calls *)

\* A call is begun.
LEMMA BeginTells ==
  ASSUME NEW op \in {"loop", "dispatch", "next"}, NEW cnt \in Int, Begin(op, cnt)
  PROVE  Telling'
<1>1. /\ DOMAIN call' = CallFields /\ call'.op = op /\ call'.at \in {"first", "check"}
      /\ call'.cnt = cnt /\ call'.asked = cnt /\ call'.pkts = 0 /\ call'.total = 0
  BY DEF Begin, Entry, CallFields
<1>2. Counted(call')
  BY <1>1 DEF Counted
<1>3. CallCounted'
  BY <1>1, <1>2 DEF CallCounted, Reading
<1>4. HeldIsCopy' /\ result' = NoResult
  BY DEF Begin, Quiet, HeldIsCopy
<1> QED
  BY <1>3, <1>4, NoResultTells DEF Telling

\* A step that goes on within a call.
LEMMA GoingOnTells ==
  ASSUME Telling, call.at \in Reading, NEW step \in Reading, call' = [call EXCEPT !.at = step],
         step \in {"check", "recv", "first", "poll"} => call.pkts = 0,
         held' = held, result' = NoResult
  PROVE  Telling'
<1>1. /\ DOMAIN call' = CallFields /\ call'.at = step
      /\ \A f \in CallFields \ {"at"} : call'[f] = call[f]
  BY DEF Telling, CallCounted, Counted, CallFields
<1>2. Counted(call')
  BY <1>1 DEF Telling, CallCounted, Counted, CallFields
<1>3. CallCounted'
  BY <1>1, <1>2 DEF Telling, CallCounted, Reading, CallFields
<1> QED
  BY <1>3, NoResultTells DEF Telling, HeldIsCopy

\* The call is broken off, or the system call failed.
LEMMA FailedCallTells ==
  ASSUME Telling, call.at \in Reading, NEW n \in Int, n < 0, Return(call, n), held' = held
  PROVE  Telling'
BY ReturnTells DEF Telling, CallCounted, HeldIsCopy

\* A packet is given to the callback: pcap_next is given a copy of it or the buffer it is in.
LEMMA GiveTells ==
  ASSUME Telling, call.at \in Reading, call.cnt <= 0 \/ call.pkts < call.cnt,
         NEW fr, NEW bytes, NEW len, NEW slot, Give(fr, bytes, len, slot)
  PROVE  /\ Counted(Given) /\ Given.pkts = call.pkts + 1 /\ Given.op = call.op /\ Given.at = call.at
         /\ HeldIsCopy' /\ (call.op = "next" => held' # None)
<1>1. Counted(call)
  BY DEF Telling, CallCounted
<1>2. /\ DOMAIN Given = CallFields /\ Given.pkts = call.pkts + 1 /\ Given.total = call.total + 1
      /\ \A f \in CallFields \ {"pkts", "total"} : Given[f] = call[f]
  BY <1>1 DEF Given, Counted, CallFields
<1>3. Counted(Given)
  BY <1>1, <1>2 DEF Counted, CallFields
<1>4. HeldIsCopy' /\ (call.op = "next" => held' # None)
  <2>1. /\ [is |-> "buffer"] # None /\ [is |-> "oneshot_buffer"] # None
    BY DEF None
  <2>2. held' = IF call.op # "next" THEN held ELSE IF Mapped THEN [is |-> "oneshot_buffer"] ELSE [is |-> "buffer"]
    BY DEF Give, oneshot_callback, pcap_oneshot_mmap, pcap_oneshot
  <2> QED
    BY <2>1, <2>2 DEF Telling, HeldIsCopy
<1> QED
  BY <1>2, <1>3, <1>4 DEF CallFields

LEMMA ReadPacketTells ==
  ASSUME Telling, ReadPacket
  PROVE  Telling'
<1> DEFINE fr == Head(kernel.queue)
<1>1. Counted(call) /\ call.pkts = 0 /\ call.at \in Reading
  BY DEF ReadPacket, Telling, CallCounted, Reading
<1>2. CASE Skipped(fr)
  <2>1. ReadReturns(call, 0) /\ held' = held
    BY <1>2 DEF ReadPacket
  <2> QED
    BY <1>1, <2>1, ReadReturnsTells DEF Telling, HeldIsCopy
<1>3. CASE ~Skipped(fr)
  <2>1. Give(fr, Buffered(fr).bytes, Buffered(fr).len, 0) /\ ReadReturns(Given, 1)
    BY <1>3 DEF ReadPacket
  <2>2. call.cnt <= 0 \/ call.pkts < call.cnt
    BY <1>1 DEF Counted
  <2>3. /\ Counted(Given) /\ Given.pkts = 1 /\ Given.op = call.op
        /\ HeldIsCopy' /\ (call.op = "next" => held' # None)
    <3> HIDE DEF fr
    <3> QED
      BY <1>1, <2>1, <2>2, GiveTells
  <2> QED
    BY <2>1, <2>3, ReadReturnsTells DEF Telling
<1> QED
  BY <1>2, <1>3

LEMMA ReadFrameTells ==
  ASSUME Telling, ReadFrame
  PROVE  Telling'
<1> DEFINE fr == kernel.frames[handle.offset]
           skip == ~PassesInRing(fr) \/ WrongWay(fr.pkt)
<1>1. Counted(call) /\ call.at \in Reading
  BY DEF ReadFrame, Telling, CallCounted, Reading
<1>2. CASE skip
  <2>1. call' = [call EXCEPT !.at = "between"] /\ held' = held /\ result' = NoResult
    BY <1>2 DEF ReadFrame
  <2> QED
    BY <1>1, <2>1, GoingOnTells DEF Reading
<1>3. CASE ~skip
  <2>1. /\ Give(fr, FromRing(fr).bytes, FromRing(fr).len, handle.offset)
        /\ call' = [Given EXCEPT !.at = "between"] /\ result' = NoResult
    BY <1>3 DEF ReadFrame
  <2>2. call.cnt <= 0 \/ call.pkts < call.cnt
    BY DEF ReadFrame
  <2>3. /\ Counted(Given) /\ Given.op = call.op
        /\ HeldIsCopy' /\ (call.op = "next" => held' # None)
    <3> HIDE DEF fr
    <3> QED
      BY <1>1, <2>1, <2>2, GiveTells
  <2>4. /\ DOMAIN call' = CallFields /\ call'.at = "between"
        /\ \A f \in CallFields \ {"at"} : call'[f] = Given[f]
    BY <2>1, <2>3 DEF Counted, CallFields
  <2>5. Counted(call')
    BY <2>3, <2>4 DEF Counted, CallFields
  <2>6. CallCounted'
    BY <2>3, <2>4, <2>5 DEF CallCounted, Reading, CallFields
  <2> QED
    BY <2>1, <2>3, <2>6, NoResultTells DEF Telling
<1> QED
  BY <1>2, <1>3

\* Reading, from a socket or from the ring.
LEMMA ReadTells ==
  ASSUME Telling, Read
  PROVE  Telling'
<1>1. ASSUME call.at \in Reading, Broken, held' = held
      PROVE  Telling'
  BY <1>1, FailedCallTells DEF Broken, PCAP_ERROR_BREAK
<1>2. CASE BreakBeforeReading
  <2>1. call.at = "check" /\ held' = held
    BY <1>2 DEF BreakBeforeReading
  <2>2. Broken \/ (call' = [call EXCEPT !.at = "recv"] /\ result' = NoResult)
    BY <1>2 DEF BreakBeforeReading
  <2>3. call.pkts = 0
    BY <2>1 DEF Telling, CallCounted
  <2> QED
    BY <1>1, <2>1, <2>2, <2>3, GoingOnTells DEF Reading
<1>3. CASE ReadWouldBlock
  <2>1. call.at = "recv" /\ ReadReturns(call, 0) /\ held' = held
    BY <1>3 DEF ReadWouldBlock
  <2>2. Counted(call) /\ call.pkts = 0
    BY <2>1 DEF Telling, CallCounted, Reading
  <2> QED
    BY <2>1, <2>2, ReadReturnsTells DEF Telling, HeldIsCopy
<1>4. CASE ReadFails \/ PollFails
  <2>1. call.at \in Reading /\ Return(call, PCAP_ERROR) /\ held' = held
    BY <1>4 DEF ReadFails, PollFails, Reading
  <2> QED
    BY <2>1, FailedCallTells DEF PCAP_ERROR
<1>5. CASE FirstFrame
  <2>1. call.at = "first" /\ held' = held /\ result' = NoResult
    BY <1>5 DEF FirstFrame, Quiet
  <2>2. call' = [call EXCEPT !.at = "frames"] \/ call' = [call EXCEPT !.at = "poll"]
    BY <1>5 DEF FirstFrame
  <2>3. call.pkts = 0
    BY <2>1 DEF Telling, CallCounted
  <2> QED
    BY <2>1, <2>2, <2>3, GoingOnTells DEF Reading
<1>6. CASE PollReturns \/ BreakBetweenFrames
  <2>1. call.at \in Reading /\ held' = held
    BY <1>6 DEF PollReturns, BreakBetweenFrames, Reading
  <2>2. Broken \/ (call' = [call EXCEPT !.at = "frames"] /\ result' = NoResult)
    BY <1>6 DEF PollReturns, BreakBetweenFrames
  <2> QED
    BY <1>1, <2>1, <2>2, GoingOnTells DEF Reading
<1>7. CASE NoMoreFrames
  <2>1. call.at = "frames" /\ ReadReturns(call, call.pkts) /\ held' = held
    BY <1>7 DEF NoMoreFrames
  <2>2. Counted(call)
    BY <2>1 DEF Telling, CallCounted, Reading
  <2> QED
    BY <2>1, <2>2, ReadReturnsTells DEF Telling, CallCounted, HeldIsCopy
<1> QED
  BY <1>2, <1>3, <1>4, <1>5, <1>6, <1>7, ReadPacketTells, ReadFrameTells DEF Read

\* Where the thread is in no call, or in one that goes on, nothing is told.
LEMMA QuietTells ==
  ASSUME Telling, call' = call, held' = held, result' = NoResult
  PROVE  Telling'
BY NoResultTells DEF Telling, CallCounted, HeldIsCopy

\* What pcap_next has returned is in no frame.
LEMMA DeliverHolds ==
  ASSUME Telling, NEW pkt, Deliver(pkt)
  PROVE  held' = held
<1>1. held # [is |-> "frame", slot |-> kernel.head]
  <2>1. "slot" \notin DOMAIN None /\ "slot" \notin DOMAIN [is |-> "buffer"] /\ "slot" \notin DOMAIN [is |-> "oneshot_buffer"]
    BY DEF None
  <2>2. "slot" \in DOMAIN [is |-> "frame", slot |-> kernel.head]
    OBVIOUS
  <2> QED
    BY <2>1, <2>2 DEF Telling, HeldIsCopy
<1> QED
  BY <1>1 DEF Deliver, Overwrites

LEMMA UseTells ==
  ASSUME Telling, Use
  PROVE  Telling'
<1>1. CASE pcap_loop \/ pcap_dispatch \/ pcap_next
  BY <1>1, BeginTells, CountAssumption DEF pcap_loop, pcap_dispatch, pcap_next
<1>2. CASE pcap_setfilter
  <2>1. /\ held' = held /\ result' = NoResult
        /\ call' = call \/ call' = [Idle EXCEPT !.op = "setfilter", !.at = "drain"]
    BY <1>2 DEF pcap_setfilter, StartSetFilter, Quiet
  <2>2. CASE call' = [Idle EXCEPT !.op = "setfilter", !.at = "drain"]
    <3>1. /\ DOMAIN call' = CallFields /\ call'.op = "setfilter" /\ call'.at = "drain"
          /\ call'.asked = 0 /\ call'.total = 0 /\ call'.pkts = 0
      BY <2>2 DEF Idle, CallFields
    <3> QED
      BY <2>1, <3>1, NoResultTells DEF Telling, CallCounted, HeldIsCopy, Reading
  <2> QED
    BY <2>1, <2>2, QuietTells
<1>3. CASE pcap_setdirection \/ pcap_setnonblock \/ pcap_stats
  <2>1. call' = call /\ held' = held /\ result' = NoResult
    BY <1>3 DEF pcap_setdirection, pcap_setnonblock, pcap_stats, Operation, Quiet
  <2> QED
    BY <2>1, QuietTells
<1>4. CASE pcap_inject
  <2>1. call' = call /\ held' = held /\ result' = NoResult
    BY <1>4, DeliverHolds DEF pcap_inject, Operation, Quiet
  <2> QED
    BY <2>1, QuietTells
<1> QED
  BY <1>1, <1>2, <1>3, <1>4 DEF Use

LEMMA SetTells ==
  ASSUME Telling, Set
  PROVE  Telling'
<1>1. call.at \in {"drain", "attach"} /\ held' = held
  BY DEF Set, Drain, Attach
<1>2. DOMAIN call = CallFields /\ call.op = "setfilter" /\ call.asked = 0 /\ call.total = 0 /\ call.pkts = 0
  BY <1>1 DEF Telling, CallCounted
<1>3. ASSUME NEW n, Return(call, n)
      PROVE  Telling'
  <2>1. call' = Idle /\ result' = [op |-> "setfilter", asked |-> 0, total |-> 0, value |-> n]
    BY <1>2, <1>3 DEF Return
  <2>2. ReturnsTell'
    BY <2>1 DEF ReturnsTell
  <2> QED
    BY <1>1, <2>1, <2>2 DEF Telling, CallCounted, HeldIsCopy, Idle, Reading
<1>4. ASSUME call' = [call EXCEPT !.at = "attach"], result' = NoResult
      PROVE  Telling'
  <2>1. /\ DOMAIN call' = CallFields /\ call'.op = "setfilter" /\ call'.at = "attach"
        /\ call'.asked = 0 /\ call'.total = 0 /\ call'.pkts = 0
    BY <1>2, <1>4 DEF CallFields
  <2> QED
    BY <1>1, <1>4, <2>1, NoResultTells DEF Telling, CallCounted, HeldIsCopy, Reading
<1>5. (\E n : Return(call, n)) \/ (call' = [call EXCEPT !.at = "attach"] /\ result' = NoResult)
  BY DEF Set, Drain, Attach
<1> QED
  BY <1>3, <1>4, <1>5

LEMMA EnvironmentTells ==
  ASSUME Telling, Environment
  PROVE  Telling'
<1>1. CASE Arrive
  <2>1. call' = call /\ held' = held /\ result' = NoResult
    BY <1>1, DeliverHolds DEF Arrive, Quiet
  <2> QED
    BY <2>1, QuietTells
<1>2. CASE GoDown \/ DropOnDevice
  <2>1. call' = call /\ held' = held /\ result' = NoResult
    BY <1>2 DEF GoDown, DropOnDevice, Quiet
  <2> QED
    BY <2>1, QuietTells
<1>3. CASE pcap_breakloop
  <2>1. held' = held /\ result' = NoResult
    BY <1>3 DEF pcap_breakloop, Quiet
  <2>2. call' = call \/ (call.at = "recv" /\ call' = [call EXCEPT !.at = "check"])
    BY <1>3 DEF pcap_breakloop
  <2>3. call.at = "recv" => call.pkts = 0
    BY DEF Telling, CallCounted
  <2> QED
    BY <2>1, <2>2, <2>3, QuietTells, GoingOnTells DEF Reading
<1>4. CASE PollInterrupted
  BY <1>4, FailedCallTells DEF PollInterrupted, Broken, Reading, PCAP_ERROR_BREAK
<1> QED
  BY <1>1, <1>2, <1>3, <1>4 DEF Environment

\* A pcap_t that is new or is closed is in no call.
LEMMA NoCallTells ==
  ASSUME call' = Idle, held' = None, result' = NoResult
  PROVE  Telling'
BY NoResultTells DEF Telling, CallCounted, HeldIsCopy, Idle, Reading

LEMMA InitTelling == ActivateInit => Telling
BY DEF ActivateInit, IsOpened, Telling, CallCounted, HeldIsCopy, ReturnsTell, NoResult, Idle, Reading

LEMMA StepTelling == Telling /\ [ActivateNext]_vars => Telling'
<1> SUFFICES ASSUME Telling, [ActivateNext]_vars PROVE Telling'
  OBVIOUS
<1>1. ASSUME UNCHANGED <<call, held, result>>
      PROVE  Telling'
  BY <1>1 DEF Telling, CallCounted, HeldIsCopy, ReturnsTell
<1>2. ASSUME call' = Idle, held' = None, result' = NoResult
      PROVE  Telling'
  BY <1>2, NoCallTells
<1>3. CASE Capture
  BY <1>3, UseTells, ReadTells, SetTells, EnvironmentTells DEF Capture, CaptureNext
<1>4. CASE pcap_close \/ Exit
  BY <1>2, <1>4 DEF pcap_close, Close, Exit
<1>5. CASE pcap_create \/ pcap_set \/ pcap_activate \/ pcap_set_datalink
  BY <1>1, <1>5 DEF pcap_create, pcap_set, pcap_activate, pcap_set_datalink, captureVars
<1>6. CASE pcap_activate_linux
  BY <1>1, <1>6 DEF pcap_activate_linux, activate_new, activate_mmap, activate_old, enter_rfmon_mode,
    enter_rfmon_mode_mac80211, enter_rfmon_mode_wext, OpenSocket, AnyDevice, FindPhy, AddMonitor, BringMonitorUp,
    FindDriver, GetMode, Prism, TakeDown, SetMode, AskForHeaders, BringUp, GetArpType, Reopen, Bind, JoinPromisc,
    AskForTags, AllocateOneshot, PrepareSocket, SetTimeStamps, AskForRing, TryRing, MapRing, ListFrames, OpenOld,
    BindOld, PromiscOld, MtuOld, SetBufferSize, AllocateBuffer, Activated, captureVars
<1>7. CASE UNCHANGED vars
  BY <1>1, <1>7 DEF vars, captureVars
<1> QED
  BY <1>3, <1>4, <1>5, <1>6, <1>7 DEF ActivateNext

\* pcap_dispatch returns how many packets it gave, no more than it was asked for, pcap_loop 0 when it
\* has given all and only then, and pcap_next a packet when it says so: through rounds of pcap_loop,
\* breaks, signals and failures between any two steps.  (pcap.c, pcap-linux.c.)
THEOREM CountsAreTold == ActivateSpec => []ReturnsTell
<1>1. Telling => ReturnsTell
  BY DEF Telling
<1> QED
  BY <1>1, InitTelling, StepTelling, PTL DEF ActivateSpec

\* What pcap_next returned is not written to by the kernel until the next call.
THEOREM NextStaysStable == ActivateSpec => []NextIsStable
<1>1. Telling => NextIsStable
  BY DEF Telling, HeldIsCopy, NextIsStable, None
<1> QED
  BY <1>1, InitTelling, StepTelling, PTL DEF ActivateSpec

-----------------------------------------------------------------------------
(* What an activation has come to, beside what it must undo: the invariant from which it follows
   that what is activated is what was asked for. *)

\* The steps at which the link-layer type is known, and the pcap_t that has a socket of a kernel
\* that is not old.
Linked == {"reopen", "bind", "promisc", "auxdata"}
HasNewSocket == (at \in Owning \ ActivateOld \/ p.life = "activated") /\ p.mode # "sock_packet"

FitsBlocks(opt) == TpHdrLen + MaxLinkHeader + Most(opt.snapshot, SLL_HDR_LEN + 1) + 100 <= PageSize * 2 ^ 8

SettingsKept ==
  /\ p.life # "none" => p.device \in Devices /\ p.opt \in Settings /\ FitsBlocks(p.opt)
  /\ p.life \in {"activating", "activated"} /\ p.opt.promisc => p.device # "any"
  /\ at = "any" => p.device = "any"
  /\ p.dlts # {} => at \in Linked \cup {"old"} \cup Owning \/ p.life = "activated"
  /\ p.mode \in {"packet", "mmap", "sock_packet"}
  /\ at \in ActivateOld => p.mode = "sock_packet"
  /\ p.mode = "sock_packet" => at \in ActivateOld \cup {"rcvbuf", "buffer", "opened"} \/ p.life = "activated"
  /\ p.must \subseteq {"promisc", "rfmon", "monif"} /\ p.dlts \subseteq {"EN10MB", "DOCSIS"}
  /\ sys.mapped \in BOOLEAN /\ sys.listed \in BOOLEAN /\ p.cooked \in BOOLEAN

CookedTypes == {"LINUX_SLL", "LINUX_IRDA", "LINUX_LAPD"}
LinkTypeKept ==
  /\ at \in Linked \/ HasNewSocket =>
       /\ p.cooked <=> p.linktype \in CookedTypes
       /\ p.dlts # {} => ~p.cooked /\ p.linktype \in {"EN10MB", "DOCSIS"}
       /\ p.linktype = "DOCSIS" => p.life = "activated"
  /\ p.mode = "sock_packet" => ~p.cooked

SocketKept ==
  /\ at \in Binding => sys.local.is \in {"raw", "dgram"}
  /\ at = "any" => sys.local.is = "dgram" /\ ~sys.local.bound
  /\ at \in {"bind", "promisc", "auxdata"} /\ p.cooked => sys.local.is = "dgram"
  /\ at = "promisc" => sys.local.bound
  /\ at = "auxdata" => (sys.local.bound <=> p.device # "any") /\ (p.opt.promisc => sys.local.member)
  /\ Owns /\ p.cooked => sys.fd.is = "dgram" /\ p.opt.snapshot > SLL_HDR_LEN
  /\ Owns /\ at # "bind_old" => (sys.fd.bound <=> p.device # "any")
  /\ HasNewSocket /\ p.opt.promisc => sys.fd.member
  /\ p.mode = "sock_packet" /\ at \notin {"bind_old", "promisc_old"} /\ p.opt.promisc => iface.promisc

MonitorKept ==
  /\ at = "mon_up" => sys.monif
  /\ at \in {"headers", "up"} => iface.mode = "monitor"
  /\ (at \in Linked \cup {"arptype"} \/ HasNewSocket) /\ p.opt.rfmon =>
       (iface.mode = "monitor" \/ sys.monif) /\ p.device # "any"

RingFields == {"frame_size", "block_size", "per_block", "frame_nr", "macoff"}
Longest(q) == BytesOfPacket(IF q.linktype = "DOCSIS" THEN [q EXCEPT !.linktype = "EN10MB"] ELSE q)
RingFits(q) ==
  /\ DOMAIN q.ring = RingFields
  /\ {q.ring.frame_size, q.ring.per_block} \subseteq Nat \ {0}
  /\ {q.ring.block_size, q.ring.frame_nr, q.ring.macoff} \subseteq Nat
  /\ q.ring.macoff + Longest(q) <= q.ring.frame_size
  /\ q.ring.per_block * q.ring.frame_size <= q.ring.block_size
  /\ q.ring.frame_nr * q.ring.frame_size <= q.opt.buffer_size
  /\ q.cooked => q.ring.macoff - tp_reserve(q) - SLL_HDR_LEN >= TpHdrLen

RingKept ==
  /\ p.ring.frame_nr \in Nat
  /\ at \in {"try_ring", "mmap", "frames"} \/ p.mode = "mmap" => RingFits(p)
  /\ at \in {"mmap", "frames"} /\ sys.fd.ring => p.ring.frame_nr > 0
  /\ at = "frames" \/ p.mode = "mmap" => p.ring.frame_nr > 0

\* What reading depends on is as the activation has left it.
HandleFields == {"mode", "any", "cooked", "snapshot", "timeout", "promisc", "cc", "fcode", "use_bpf",
                 "offset", "direction", "break_loop", "packets_read", "proc_dropped", "stat"}
KernelFields == {"filter", "features", "queue", "frames", "head", "nonblock", "error", "arrivals",
                 "packets", "drops", "ifdrops"}
HandleKept ==
  /\ DOMAIN handle = HandleFields /\ DOMAIN kernel = KernelFields
  /\ p.life = "activated" =>
       handle.snapshot = p.opt.snapshot /\ DOMAIN kernel.frames = SlotsOf(p.ring.frame_nr)

Meant == SettingsKept /\ LinkTypeKept /\ SocketKept /\ MonitorKept /\ RingKept


LEMMA LongestIs ==
  ASSUME NEW q, DOMAIN q = PcapFields
  PROVE  Longest(q) = IF q.linktype \in {"EN10MB", "DOCSIS"} /\ "offload" \notin q.features
                      THEN Least(q.opt.snapshot, Mtu + 18) ELSE q.opt.snapshot
<1> DEFINE r == [q EXCEPT !.linktype = "EN10MB"]
<1>1. r.linktype = "EN10MB" /\ r.opt = q.opt /\ r.features = q.features
  BY DEF PcapFields
<1> HIDE DEF r
<1>2. Longest(q) = BytesOfPacket(IF q.linktype = "DOCSIS" THEN r ELSE q)
  BY DEF Longest, r
<1>3. CASE q.linktype = "DOCSIS"
  BY <1>1, <1>2, <1>3 DEF BytesOfPacket
<1>4. CASE q.linktype # "DOCSIS"
  BY <1>2, <1>4 DEF BytesOfPacket
<1> QED
  BY <1>3, <1>4

\* A ring still fits when neither it nor the packets have changed.
LEMMA RingFitsStill ==
  ASSUME NEW q, NEW r, DOMAIN q = PcapFields, DOMAIN r = PcapFields, RingFits(q),
         r.ring = q.ring, r.opt = q.opt, r.features = q.features, r.cooked = q.cooked,
         r.linktype = q.linktype \/ {q.linktype, r.linktype} \subseteq {"EN10MB", "DOCSIS"}
  PROVE  RingFits(r)
BY LongestIs DEF RingFits, tp_reserve

\* What a failure starts from.
Flags(s) == DOMAIN s = SysFields /\ s.mapped \in BOOLEAN /\ s.listed \in BOOLEAN

LEMMA FailureMeans ==
  ASSUME ToUndo, Meant, at # "idle", NEW s, NEW mem, NEW status, Flags(s), FailAfter(s, mem, status)
  PROVE  Meant'
<1>1. /\ DOMAIN p' = PcapFields
      /\ p'.life = "failed" /\ p'.mode = "packet" /\ p'.dlts = {} /\ p'.cooked = FALSE /\ p'.ring = NoRing
      /\ p'.must = p.must /\ p'.device = p.device /\ p'.opt = p.opt
  BY DEF FailAfter, ToUndo, Shape, PcapFields
<1>2. sys'.mapped \in BOOLEAN /\ sys'.listed \in BOOLEAN
  BY CleanupGives DEF FailAfter, Flags
<1>3. at' = "idle"
  BY DEF FailAfter
<1>4. p.life = "activating"
  BY DEF ToUndo, Shape
<1>5. SettingsKept'
  BY <1>1, <1>2, <1>3, <1>4 DEF Meant, SettingsKept
<1>6. LinkTypeKept' /\ SocketKept' /\ MonitorKept'
  BY <1>1, <1>3 DEF LinkTypeKept, SocketKept, MonitorKept, HasNewSocket, Linked
<1>7. p'.ring.frame_nr = 0
  BY <1>1 DEF NoRing
<1>8. RingKept'
  BY <1>1, <1>3, <1>7 DEF RingKept
<1> QED
  BY <1>5, <1>6, <1>8 DEF Meant

LEMMA FailMeans ==
  ASSUME ToUndo, Meant, at # "idle", NEW status, Fail(status)
  PROVE  Meant'
<1>1. Flags(sys)
  BY DEF ToUndo, Shape, Meant, SettingsKept, Flags
<1> QED
  BY <1>1, FailureMeans DEF Fail

LEMMA LocalClosedFlags ==
  ASSUME ToUndo, Meant
  PROVE  Flags(LocalClosed) /\ Flags(WithoutRing(sys))
BY DEF ToUndo, Shape, Meant, SettingsKept, Flags, LocalClosed, WithoutRing, SysFields

LEMMA FailNewMeans ==
  ASSUME ToUndo, Meant, at # "idle", NEW status, FailNew(status)
  PROVE  Meant'
BY LocalClosedFlags, FailureMeans DEF FailNew

LEMMA FailUnrestoredMeans ==
  ASSUME ToUndo, Meant, at # "idle", NEW status, FailUnrestored(status)
  PROVE  Meant'
<1> DEFINE more == (IF "rfmon" \in p.must /\ iface.mode # iface.was THEN {"mode"} ELSE {})
           monif == IF sys.monif THEN {"monif"} ELSE {}
           s == [LocalClosed EXCEPT !.lost = @ \cup more \cup monif]
<1>1. Flags(s)
  <2> HIDE DEF more, monif
  <2> QED
    BY LocalClosedFlags DEF Flags, SysFields
<1>2. FailAfter(s, p.mem, status)
  BY DEF FailUnrestored
<1> HIDE DEF s
<1> QED
  BY <1>1, <1>2, FailureMeans

LEMMA FailMmapMeans ==
  ASSUME ToUndo, Meant, at # "idle", NEW status, FailMmap(sys, status) \/ FailMmap(WithoutRing(sys), status)
  PROVE  Meant'
<1>1. Flags(sys)
  BY DEF ToUndo, Shape, Meant, SettingsKept, Flags
<1>2. CASE FailMmap(sys, status)
  BY <1>1, <1>2, FailureMeans DEF FailMmap
<1>3. CASE FailMmap(WithoutRing(sys), status)
  <2> DEFINE s == WithoutRing(sys)
  <2>1. Flags(s) /\ FailAfter(s, p.mem \ {"oneshot"}, status)
    BY <1>3, LocalClosedFlags DEF FailMmap
  <2> HIDE DEF s
  <2> QED
    BY <2>1, FailureMeans
<1> QED
  BY <1>2, <1>3

-----------------------------------------------------------------------------
(* Each step of the activation once more *)

\* The socket and what follows it depend on the device and on the mode asked for.
LEMMA OpenSocketMeans ==
  ASSUME ToUndo, Meant, OpenSocket
  PROVE  Meant'
<1>1. CASE /\ at = "socket"
           /\ sys' = [sys EXCEPT !.local = Socket(IF p.device = "any" THEN "dgram" ELSE "raw")]
           /\ Goto(IF p.device = "any" THEN "any" ELSE IF p.opt.rfmon THEN "phy" ELSE "arptype")
           /\ UNCHANGED <<p, iface>>
  <2>1. /\ DOMAIN sys' = SysFields
        /\ sys'.local.is = IF p.device = "any" THEN "dgram" ELSE "raw"
        /\ sys'.local.bound = FALSE
        /\ \A f \in SysFields \ {"local"} : sys'[f] = sys[f]
    BY <1>1 DEF ToUndo, Shape, SysFields, Socket
  <2>2. SettingsKept'
    BY <1>1, <2>1 DEF ToUndo, Meant, Shape, MemoryHeld, SettingsKept, Linked, SysFields
  <2>3. LinkTypeKept' /\ MonitorKept'
    BY <1>1, <2>1 DEF ToUndo, Meant, Shape, ListedToUndo, MemoryHeld, SettingsKept, LinkTypeKept, MonitorKept, HasNewSocket, Linked, CookedTypes, SysFields
  <2>4. SocketKept'
    BY <1>1, <2>1 DEF ToUndo, Meant, Shape, SocketsHeld, ListedToUndo, MemoryHeld, SettingsKept, SocketKept,
      LinkTypeKept, HasNewSocket, Linked, SysFields
  <2>5. RingKept'
    BY <1>1, <2>1 DEF ToUndo, Meant, Shape, MemoryHeld, RingKept, SysFields
  <2> QED
    BY <2>2, <2>3, <2>4, <2>5 DEF Meant
<1>2. CASE at = "socket" /\ Goto("old") /\ UNCHANGED <<p, sys, iface>>
  <2>1. SettingsKept'
    BY <1>2 DEF ToUndo, Meant, Shape, MemoryHeld, SettingsKept, Linked
  <2>2. LinkTypeKept' /\ MonitorKept'
    BY <1>2 DEF ToUndo, Meant, Shape, ListedToUndo, MemoryHeld, SettingsKept, LinkTypeKept, MonitorKept, HasNewSocket, Linked, CookedTypes
  <2>3. SocketKept'
    BY <1>2 DEF ToUndo, Meant, Shape, SocketsHeld, ListedToUndo, MemoryHeld, SettingsKept, SocketKept,
      LinkTypeKept, HasNewSocket, Linked
  <2>4. RingKept'
    BY <1>2 DEF ToUndo, Meant, Shape, MemoryHeld, RingKept
  <2> QED
    BY <2>1, <2>2, <2>3, <2>4 DEF Meant
<1>3. CASE at = "socket" /\ \E status \in {PCAP_ERROR_PERM_DENIED, PCAP_ERROR} : Fail(status)
  BY <1>3, FailMeans
<1> QED
  BY <1>1, <1>2, <1>3 DEF OpenSocket

\* The device that stands for all is cooked and has no monitor mode.
LEMMA AnyDeviceMeans ==
  ASSUME ToUndo, Meant, AnyDevice
  PROVE  Meant'
<1>1. CASE at = "any" /\ FailAfter([sys EXCEPT !.local = NoSocket, !.lost = @ \cup {"socket"}], p.mem, PCAP_ERROR_RFMON_NOTSUP)
  <2> DEFINE s == [sys EXCEPT !.local = NoSocket, !.lost = @ \cup {"socket"}]
  <2>1. Flags(s)
    BY LocalClosedFlags DEF ToUndo, Shape, Meant, SettingsKept, Flags, SysFields
  <2>2. FailAfter(s, p.mem, PCAP_ERROR_RFMON_NOTSUP)
    BY <1>1
  <2> HIDE DEF s
  <2> QED
    BY <1>1, <2>1, <2>2, FailureMeans
<1>2. CASE /\ at = "any" /\ ~p.opt.rfmon /\ p' = [p EXCEPT !.cooked = TRUE, !.linktype = "LINUX_SLL"]
           /\ Goto("auxdata")
           /\ UNCHANGED <<sys, iface>>
  <2>1. /\ DOMAIN p' = PcapFields
        /\ p'.cooked = TRUE /\ p'.linktype = "LINUX_SLL"
        /\ \A f \in PcapFields \ {"cooked", "linktype"} : p'[f] = p[f]
    BY <1>2 DEF ToUndo, Shape, PcapFields
  <2>2. SettingsKept'
    BY <1>2, <2>1 DEF ToUndo, Meant, Shape, MemoryHeld, SettingsKept, Linked, PcapFields
  <2>3. LinkTypeKept' /\ MonitorKept'
    BY <1>2, <2>1 DEF ToUndo, Meant, Shape, ListedToUndo, MemoryHeld, SettingsKept, LinkTypeKept, MonitorKept, HasNewSocket, Linked, CookedTypes, PcapFields
  <2>4. SocketKept'
    BY <1>2, <2>1 DEF ToUndo, Meant, Shape, SocketsHeld, ListedToUndo, MemoryHeld, SettingsKept, SocketKept,
      LinkTypeKept, HasNewSocket, Linked, PcapFields
  <2>5. RingKept'
    BY <1>2, <2>1 DEF ToUndo, Meant, Shape, MemoryHeld, RingKept, PcapFields
  <2> QED
    BY <2>2, <2>3, <2>4, <2>5 DEF Meant
<1> QED
  BY <1>1, <1>2 DEF AnyDevice

\* The radio is found or not.
LEMMA FindPhyMeans ==
  ASSUME ToUndo, Meant, FindPhy
  PROVE  Meant'
<1>1. CASE at = "phy" /\ Goto(IF "mac80211" \in p.features THEN "add" ELSE "wext") /\ UNCHANGED <<p, sys, iface>>
  <2>1. SettingsKept'
    BY <1>1 DEF ToUndo, Meant, Shape, MemoryHeld, SettingsKept, Linked
  <2>2. LinkTypeKept' /\ MonitorKept'
    BY <1>1 DEF ToUndo, Meant, Shape, ListedToUndo, MemoryHeld, SettingsKept, LinkTypeKept, MonitorKept, HasNewSocket, Linked, CookedTypes
  <2>3. SocketKept'
    BY <1>1 DEF ToUndo, Meant, Shape, SocketsHeld, ListedToUndo, MemoryHeld, SettingsKept, SocketKept,
      LinkTypeKept, HasNewSocket, Linked
  <2>4. RingKept'
    BY <1>1 DEF ToUndo, Meant, Shape, MemoryHeld, RingKept
  <2> QED
    BY <2>1, <2>2, <2>3, <2>4 DEF Meant
<1>2. CASE at = "phy" /\ FailNew(PCAP_ERROR)
  BY <1>2, FailNewMeans
<1> QED
  BY <1>1, <1>2 DEF FindPhy

\* An interface is added.
LEMMA AddMonitorMeans ==
  ASSUME ToUndo, Meant, AddMonitor
  PROVE  Meant'
<1>1. CASE /\ at = "add" /\ sys' = [sys EXCEPT !.monif = TRUE]
           /\ Goto("mon_up")
           /\ UNCHANGED <<p, iface>>
  <2>1. /\ DOMAIN sys' = SysFields
        /\ sys'.monif = TRUE
        /\ \A f \in SysFields \ {"monif"} : sys'[f] = sys[f]
    BY <1>1 DEF ToUndo, Shape, SysFields
  <2>2. SettingsKept'
    BY <1>1, <2>1 DEF ToUndo, Meant, Shape, MemoryHeld, SettingsKept, Linked, SysFields
  <2>3. LinkTypeKept' /\ MonitorKept'
    BY <1>1, <2>1 DEF ToUndo, Meant, Shape, ListedToUndo, MemoryHeld, SettingsKept, LinkTypeKept, MonitorKept, HasNewSocket, Linked, CookedTypes, SysFields
  <2>4. SocketKept'
    BY <1>1, <2>1 DEF ToUndo, Meant, Shape, SocketsHeld, ListedToUndo, MemoryHeld, SettingsKept, SocketKept,
      LinkTypeKept, HasNewSocket, Linked, SysFields
  <2>5. RingKept'
    BY <1>1, <2>1 DEF ToUndo, Meant, Shape, MemoryHeld, RingKept, SysFields
  <2> QED
    BY <2>2, <2>3, <2>4, <2>5 DEF Meant
<1>2. CASE at = "add" /\ FailNew(PCAP_ERROR)
  BY <1>2, FailNewMeans
<1>3. CASE at = "add" /\ FailAfter([LocalClosed EXCEPT !.monif = TRUE, !.lost = @ \cup {"monif"}], p.mem, PCAP_ERROR_RFMON_NOTSUP)
  <2> DEFINE s == [LocalClosed EXCEPT !.monif = TRUE, !.lost = @ \cup {"monif"}]
  <2>1. Flags(s)
    BY LocalClosedFlags DEF ToUndo, Shape, Meant, SettingsKept, Flags, SysFields
  <2>2. FailAfter(s, p.mem, PCAP_ERROR_RFMON_NOTSUP)
    BY <1>3
  <2> HIDE DEF s
  <2> QED
    BY <1>3, <2>1, <2>2, FailureMeans
<1> QED
  BY <1>1, <1>2, <1>3 DEF AddMonitor

\* It is the one captured on.
LEMMA BringMonitorUpMeans ==
  ASSUME ToUndo, Meant, BringMonitorUp
  PROVE  Meant'
<1>1. CASE /\ at = "mon_up" /\ p' = [p EXCEPT !.must = @ \cup {"monif"}]
           /\ sys' = pcap_add_to_pcaps_to_close(sys)
           /\ Goto("arptype")
           /\ UNCHANGED iface
  <2>1. /\ DOMAIN p' = PcapFields
        /\ p'.must = p.must \cup {"monif"}
        /\ \A f \in PcapFields \ {"must"} : p'[f] = p[f]
    BY <1>1 DEF ToUndo, Shape, PcapFields
  <2>2. /\ DOMAIN sys' = SysFields
        /\ sys'.listed = TRUE
        /\ \A f \in SysFields \ {"listed"} : sys'[f] = sys[f]
    BY <1>1 DEF ToUndo, Shape, SysFields, pcap_add_to_pcaps_to_close
  <2>3. SettingsKept'
    BY <1>1, <2>1, <2>2 DEF ToUndo, Meant, Shape, MemoryHeld, SettingsKept, Linked, PcapFields, SysFields
  <2>4. LinkTypeKept' /\ MonitorKept'
    BY <1>1, <2>1, <2>2 DEF ToUndo, Meant, Shape, ListedToUndo, MemoryHeld, SettingsKept, LinkTypeKept, MonitorKept, HasNewSocket, Linked, CookedTypes, PcapFields, SysFields
  <2>5. SocketKept'
    BY <1>1, <2>1, <2>2 DEF ToUndo, Meant, Shape, SocketsHeld, ListedToUndo, MemoryHeld, SettingsKept, SocketKept,
      LinkTypeKept, HasNewSocket, Linked, PcapFields, SysFields
  <2>6. RingKept'
    BY <1>1, <2>1, <2>2 DEF ToUndo, Meant, Shape, MemoryHeld, RingKept, PcapFields, SysFields
  <2> QED
    BY <2>3, <2>4, <2>5, <2>6 DEF Meant
<1>2. CASE at = "mon_up" /\ FailAfter([LocalClosed EXCEPT !.monif = FALSE], p.mem, PCAP_ERROR)
  <2> DEFINE s == [LocalClosed EXCEPT !.monif = FALSE]
  <2>1. Flags(s)
    BY LocalClosedFlags DEF ToUndo, Shape, Meant, SettingsKept, Flags, SysFields
  <2>2. FailAfter(s, p.mem, PCAP_ERROR)
    BY <1>2
  <2> HIDE DEF s
  <2> QED
    BY <1>2, <2>1, <2>2, FailureMeans
<1> QED
  BY <1>1, <1>2 DEF BringMonitorUp

\* The driver is asked for what it can do.
LEMMA FindDriverMeans ==
  ASSUME ToUndo, Meant, FindDriver
  PROVE  Meant'
<1>1. CASE at = "wext" /\ \E status \in {PCAP_ERROR_RFMON_NOTSUP, PCAP_ERROR_NO_SUCH_DEVICE} : FailNew(status)
  BY <1>1, FailNewMeans
<1>2. CASE at = "wext" /\ FailNew(PCAP_ERROR)
  BY <1>2, FailNewMeans
<1>3. CASE /\ at = "wext" /\ \E privates \in PrivateCalls : p' = [p EXCEPT !.montype = MonitorType(privates)]
           /\ Goto("mode")
           /\ UNCHANGED <<sys, iface>>
  <2>1. /\ DOMAIN p' = PcapFields
        /\ \A f \in PcapFields \ {"montype"} : p'[f] = p[f]
    BY <1>3 DEF ToUndo, Shape, PcapFields
  <2>2. SettingsKept'
    BY <1>3, <2>1 DEF ToUndo, Meant, Shape, MemoryHeld, SettingsKept, Linked, PcapFields
  <2>3. LinkTypeKept' /\ MonitorKept'
    BY <1>3, <2>1 DEF ToUndo, Meant, Shape, ListedToUndo, MemoryHeld, SettingsKept, LinkTypeKept, MonitorKept, HasNewSocket, Linked, CookedTypes, PcapFields
  <2>4. SocketKept'
    BY <1>3, <2>1 DEF ToUndo, Meant, Shape, SocketsHeld, ListedToUndo, MemoryHeld, SettingsKept, SocketKept,
      LinkTypeKept, HasNewSocket, Linked, PcapFields
  <2>5. RingKept'
    BY <1>3, <2>1 DEF ToUndo, Meant, Shape, MemoryHeld, RingKept, PcapFields
  <2> QED
    BY <2>2, <2>3, <2>4, <2>5 DEF Meant
<1> QED
  BY <1>1, <1>2, <1>3 DEF FindDriver

\* An interface that is in monitor mode stays in it.
LEMMA GetModeMeans ==
  ASSUME ToUndo, Meant, GetMode
  PROVE  Meant'
<1>1. CASE at = "mode" /\ FailNew(PCAP_ERROR_RFMON_NOTSUP)
  BY <1>1, FailNewMeans
<1>2. CASE at = "mode" /\ iface.mode = "monitor" /\ Goto("arptype") /\ UNCHANGED <<p, sys, iface>>
  <2>1. SettingsKept'
    BY <1>2 DEF ToUndo, Meant, Shape, MemoryHeld, SettingsKept, Linked
  <2>2. LinkTypeKept' /\ MonitorKept'
    BY <1>2 DEF ToUndo, Meant, Shape, ListedToUndo, MemoryHeld, SettingsKept, LinkTypeKept, MonitorKept, HasNewSocket, Linked, CookedTypes
  <2>3. SocketKept'
    BY <1>2 DEF ToUndo, Meant, Shape, SocketsHeld, ListedToUndo, MemoryHeld, SettingsKept, SocketKept,
      LinkTypeKept, HasNewSocket, Linked
  <2>4. RingKept'
    BY <1>2 DEF ToUndo, Meant, Shape, MemoryHeld, RingKept
  <2> QED
    BY <2>1, <2>2, <2>3, <2>4 DEF Meant
<1>3. CASE /\ at = "mode" /\ iface.mode # "monitor" /\ p' = [p EXCEPT !.oldmode = iface.mode]
           /\ Goto(IF p.montype = "PRISM" THEN "prism" ELSE "down")
           /\ UNCHANGED <<sys, iface>>
  <2>1. /\ DOMAIN p' = PcapFields
        /\ \A f \in PcapFields \ {"oldmode"} : p'[f] = p[f]
    BY <1>3 DEF ToUndo, Shape, PcapFields
  <2>2. SettingsKept'
    BY <1>3, <2>1 DEF ToUndo, Meant, Shape, MemoryHeld, SettingsKept, Linked, PcapFields
  <2>3. LinkTypeKept' /\ MonitorKept'
    BY <1>3, <2>1 DEF ToUndo, Meant, Shape, ListedToUndo, MemoryHeld, SettingsKept, LinkTypeKept, MonitorKept, HasNewSocket, Linked, CookedTypes, PcapFields
  <2>4. SocketKept'
    BY <1>3, <2>1 DEF ToUndo, Meant, Shape, SocketsHeld, ListedToUndo, MemoryHeld, SettingsKept, SocketKept,
      LinkTypeKept, HasNewSocket, Linked, PcapFields
  <2>5. RingKept'
    BY <1>3, <2>1 DEF ToUndo, Meant, Shape, MemoryHeld, RingKept, PcapFields
  <2> QED
    BY <2>2, <2>3, <2>4, <2>5 DEF Meant
<1> QED
  BY <1>1, <1>2, <1>3 DEF GetMode

\* One call is enough.
LEMMA PrismMeans ==
  ASSUME ToUndo, Meant, Prism
  PROVE  Meant'
<1>1. CASE /\ at = "prism" /\ iface' = [iface EXCEPT !.mode = "monitor"]
           /\ p' = InMonitorMode(p)
           /\ sys' = pcap_add_to_pcaps_to_close(sys)
           /\ Goto("arptype")
  <2>1. /\ DOMAIN p' = PcapFields
        /\ p'.must = p.must \cup {"rfmon"}
        /\ p'.must \subseteq {"promisc", "rfmon", "monif"}
        /\ \A f \in PcapFields \ {"must"} : p'[f] = p[f]
    BY <1>1 DEF ToUndo, Shape, PcapFields, InMonitorMode, Meant, SettingsKept
  <2>2. /\ DOMAIN sys' = SysFields
        /\ sys'.listed = TRUE
        /\ \A f \in SysFields \ {"listed"} : sys'[f] = sys[f]
    BY <1>1 DEF ToUndo, Shape, SysFields, pcap_add_to_pcaps_to_close
  <2>3. /\ DOMAIN iface' = IfaceFields
        /\ iface'.mode = "monitor"
        /\ \A f \in IfaceFields \ {"mode"} : iface'[f] = iface[f]
    BY <1>1 DEF ToUndo, Shape, IfaceFields
  <2>4. at = "prism" /\ Goto("arptype")
    BY <1>1
  <2>5. SettingsKept'
    BY <2>4, <2>1, <2>2 DEF ToUndo, Meant, Shape, MemoryHeld, SettingsKept, Linked, PcapFields, SysFields
  <2>6. LinkTypeKept' /\ MonitorKept'
    BY <1>1, <2>1, <2>2, <2>3 DEF ToUndo, Meant, Shape, ListedToUndo, MemoryHeld, SettingsKept, LinkTypeKept, MonitorKept, HasNewSocket, Linked, CookedTypes, PcapFields, SysFields, IfaceFields
  <2>7. SocketKept'
    BY <1>1, <2>1, <2>2, <2>3 DEF ToUndo, Meant, Shape, SocketsHeld, ListedToUndo, MemoryHeld, SettingsKept, SocketKept,
      LinkTypeKept, HasNewSocket, Linked, PcapFields, SysFields, IfaceFields
  <2>8. RingKept'
    BY <1>1, <2>1, <2>2, <2>3 DEF ToUndo, Meant, Shape, MemoryHeld, RingKept, PcapFields, SysFields, IfaceFields
  <2> QED
    BY <2>5, <2>6, <2>7, <2>8 DEF Meant
<1>2. CASE at = "prism" /\ Goto("down") /\ UNCHANGED <<p, sys, iface>>
  <2>1. SettingsKept'
    BY <1>2 DEF ToUndo, Meant, Shape, MemoryHeld, SettingsKept, Linked
  <2>2. LinkTypeKept' /\ MonitorKept'
    BY <1>2 DEF ToUndo, Meant, Shape, ListedToUndo, MemoryHeld, SettingsKept, LinkTypeKept, MonitorKept, HasNewSocket, Linked, CookedTypes
  <2>3. SocketKept'
    BY <1>2 DEF ToUndo, Meant, Shape, SocketsHeld, ListedToUndo, MemoryHeld, SettingsKept, SocketKept,
      LinkTypeKept, HasNewSocket, Linked
  <2>4. RingKept'
    BY <1>2 DEF ToUndo, Meant, Shape, MemoryHeld, RingKept
  <2> QED
    BY <2>1, <2>2, <2>3, <2>4 DEF Meant
<1> QED
  BY <1>1, <1>2 DEF Prism

\* The interface is taken down.
LEMMA TakeDownMeans ==
  ASSUME ToUndo, Meant, TakeDown
  PROVE  Meant'
<1>1. CASE at = "down" /\ FailNew(PCAP_ERROR)
  BY <1>1, FailNewMeans
<1>2. CASE /\ at = "down" /\ p' = [p EXCEPT !.oldup = iface.up]
           /\ iface' = [iface EXCEPT !.up = FALSE]
           /\ Goto("monitor")
           /\ UNCHANGED sys
  <2>1. /\ DOMAIN p' = PcapFields
        /\ \A f \in PcapFields \ {"oldup"} : p'[f] = p[f]
    BY <1>2 DEF ToUndo, Shape, PcapFields
  <2>2. /\ DOMAIN iface' = IfaceFields
        /\ \A f \in IfaceFields \ {"up"} : iface'[f] = iface[f]
    BY <1>2 DEF ToUndo, Shape, IfaceFields
  <2>3. SettingsKept'
    BY <1>2, <2>1 DEF ToUndo, Meant, Shape, MemoryHeld, SettingsKept, Linked, PcapFields
  <2>4. LinkTypeKept' /\ MonitorKept'
    BY <1>2, <2>1, <2>2 DEF ToUndo, Meant, Shape, ListedToUndo, MemoryHeld, SettingsKept, LinkTypeKept, MonitorKept, HasNewSocket, Linked, CookedTypes, PcapFields, IfaceFields
  <2>5. SocketKept'
    BY <1>2, <2>1, <2>2 DEF ToUndo, Meant, Shape, SocketsHeld, ListedToUndo, MemoryHeld, SettingsKept, SocketKept,
      LinkTypeKept, HasNewSocket, Linked, PcapFields, IfaceFields
  <2>6. RingKept'
    BY <1>2, <2>1, <2>2 DEF ToUndo, Meant, Shape, MemoryHeld, RingKept, PcapFields, IfaceFields
  <2> QED
    BY <2>3, <2>4, <2>5, <2>6 DEF Meant
<1> QED
  BY <1>1, <1>2 DEF TakeDown

\* Its mode is set.
LEMMA SetModeMeans ==
  ASSUME ToUndo, Meant, SetMode
  PROVE  Meant'
<1>1. CASE /\ at = "monitor" /\ iface' = [iface EXCEPT !.mode = "monitor"]
           /\ Goto("headers")
           /\ UNCHANGED <<p, sys>>
  <2>1. /\ DOMAIN iface' = IfaceFields
        /\ iface'.mode = "monitor"
        /\ \A f \in IfaceFields \ {"mode"} : iface'[f] = iface[f]
    BY <1>1 DEF ToUndo, Shape, IfaceFields
  <2>2. SettingsKept'
    BY <1>1 DEF ToUndo, Meant, Shape, MemoryHeld, SettingsKept, Linked
  <2>3. LinkTypeKept' /\ MonitorKept'
    BY <1>1, <2>1 DEF ToUndo, Meant, Shape, ListedToUndo, MemoryHeld, SettingsKept, LinkTypeKept, MonitorKept, HasNewSocket, Linked, CookedTypes, IfaceFields
  <2>4. SocketKept'
    BY <1>1, <2>1 DEF ToUndo, Meant, Shape, SocketsHeld, ListedToUndo, MemoryHeld, SettingsKept, SocketKept,
      LinkTypeKept, HasNewSocket, Linked, IfaceFields
  <2>5. RingKept'
    BY <1>1, <2>1 DEF ToUndo, Meant, Shape, MemoryHeld, RingKept, IfaceFields
  <2> QED
    BY <2>2, <2>3, <2>4, <2>5 DEF Meant
<1>2. ASSUME at = "monitor", NEW up, NEW status, NEW mem, NEW lost,
             p' = [p EXCEPT !.life = "failed", !.mem = mem, !.mode = "packet", !.status = status],
             sys' = [pcap_cleanup_linux(LocalClosed) EXCEPT !.lost = lost],
             Goto("idle")
      PROVE  Meant'
  <2>1. /\ DOMAIN p' = PcapFields /\ p'.life = "failed" /\ p'.mode = "packet"
        /\ \A f \in PcapFields \ {"life", "mem", "mode", "status"} : p'[f] = p[f]
    BY <1>2 DEF ToUndo, Shape, PcapFields
  <2> DEFINE c == pcap_cleanup_linux(LocalClosed)
  <2>2. DOMAIN c = SysFields /\ c.mapped \in BOOLEAN /\ c.listed \in BOOLEAN
    BY LocalClosedFlags, CleanupGives DEF Flags
  <2> HIDE DEF c
  <2>3. sys' = [c EXCEPT !.lost = lost]
    BY <1>2 DEF c
  <2>4. sys'.mapped \in BOOLEAN /\ sys'.listed \in BOOLEAN
    BY <2>2, <2>3 DEF SysFields
  <2>5. p.life = "activating"
    BY <1>2 DEF ToUndo, Shape
  <2>6. SettingsKept'
    BY <1>2, <2>1, <2>4, <2>5 DEF Meant, SettingsKept, Linked, PcapFields
  <2>7. LinkTypeKept' /\ SocketKept' /\ MonitorKept' /\ RingKept'
    BY <1>2, <2>1 DEF Meant, LinkTypeKept, SocketKept, MonitorKept, RingKept, HasNewSocket, Linked, PcapFields
  <2> QED
    BY <2>6, <2>7 DEF Meant
<1>3. ASSUME at = "monitor", NEW up \in {p.oldup, FALSE},
             p' = [p EXCEPT !.life = "failed", !.mem = CleanedMemory(p.mem, "packet"), !.mode = "packet",
                            !.status = IF up = p.oldup THEN PCAP_ERROR_RFMON_NOTSUP ELSE PCAP_ERROR],
             sys' = [pcap_cleanup_linux(LocalClosed) EXCEPT !.lost = IF up = p.oldup THEN @ ELSE @ \cup {"up"}],
             Goto("idle")
      PROVE  Meant'
  BY <1>2, <1>3
<1> QED
  BY <1>1, <1>3 DEF SetMode

\* The headers are asked for.
LEMMA AskForHeadersMeans ==
  ASSUME ToUndo, Meant, AskForHeaders
  PROVE  Meant'
<1>1. CASE at = "headers" /\ Goto("up") /\ UNCHANGED <<p, sys, iface>>
  <2>1. SettingsKept'
    BY <1>1 DEF ToUndo, Meant, Shape, MemoryHeld, SettingsKept, Linked
  <2>2. LinkTypeKept' /\ MonitorKept'
    BY <1>1 DEF ToUndo, Meant, Shape, ListedToUndo, MemoryHeld, SettingsKept, LinkTypeKept, MonitorKept, HasNewSocket, Linked, CookedTypes
  <2>3. SocketKept'
    BY <1>1 DEF ToUndo, Meant, Shape, SocketsHeld, ListedToUndo, MemoryHeld, SettingsKept, SocketKept,
      LinkTypeKept, HasNewSocket, Linked
  <2>4. RingKept'
    BY <1>1 DEF ToUndo, Meant, Shape, MemoryHeld, RingKept
  <2> QED
    BY <2>1, <2>2, <2>3, <2>4 DEF Meant
<1>2. CASE at = "headers" /\ FailAfter([LocalClosed EXCEPT !.lost = @ \cup {"up", "mode"}], p.mem, PCAP_ERROR)
  <2> DEFINE s == [LocalClosed EXCEPT !.lost = @ \cup {"up", "mode"}]
  <2>1. Flags(s)
    BY LocalClosedFlags DEF ToUndo, Shape, Meant, SettingsKept, Flags, SysFields
  <2>2. FailAfter(s, p.mem, PCAP_ERROR)
    BY <1>2
  <2> HIDE DEF s
  <2> QED
    BY <1>2, <2>1, <2>2, FailureMeans
<1> QED
  BY <1>1, <1>2 DEF AskForHeaders

\* It is up again, in monitor mode.
LEMMA BringUpMeans ==
  ASSUME ToUndo, Meant, BringUp
  PROVE  Meant'
<1>1. CASE /\ at = "up" /\ iface' = [iface EXCEPT !.up = p.oldup]
           /\ p' = InMonitorMode(p)
           /\ sys' = pcap_add_to_pcaps_to_close(sys)
           /\ Goto("arptype")
  <2>1. /\ DOMAIN p' = PcapFields
        /\ p'.must = p.must \cup {"rfmon"}
        /\ p'.must \subseteq {"promisc", "rfmon", "monif"}
        /\ \A f \in PcapFields \ {"must"} : p'[f] = p[f]
    BY <1>1 DEF ToUndo, Shape, PcapFields, InMonitorMode, Meant, SettingsKept
  <2>2. /\ DOMAIN sys' = SysFields
        /\ sys'.listed = TRUE
        /\ \A f \in SysFields \ {"listed"} : sys'[f] = sys[f]
    BY <1>1 DEF ToUndo, Shape, SysFields, pcap_add_to_pcaps_to_close
  <2>3. /\ DOMAIN iface' = IfaceFields
        /\ \A f \in IfaceFields \ {"up"} : iface'[f] = iface[f]
    BY <1>1 DEF ToUndo, Shape, IfaceFields
  <2>4. at = "up" /\ Goto("arptype")
    BY <1>1
  <2>5. SettingsKept'
    BY <2>4, <2>1, <2>2 DEF ToUndo, Meant, Shape, MemoryHeld, SettingsKept, Linked, PcapFields, SysFields
  <2>6. LinkTypeKept' /\ MonitorKept'
    BY <1>1, <2>1, <2>2, <2>3 DEF ToUndo, Meant, Shape, ListedToUndo, MemoryHeld, SettingsKept, LinkTypeKept, MonitorKept, HasNewSocket, Linked, CookedTypes, PcapFields, SysFields, IfaceFields
  <2>7. SocketKept'
    BY <1>1, <2>1, <2>2, <2>3 DEF ToUndo, Meant, Shape, SocketsHeld, ListedToUndo, MemoryHeld, SettingsKept, SocketKept,
      LinkTypeKept, HasNewSocket, Linked, PcapFields, SysFields, IfaceFields
  <2>8. RingKept'
    BY <1>1, <2>1, <2>2, <2>3 DEF ToUndo, Meant, Shape, MemoryHeld, RingKept, PcapFields, SysFields, IfaceFields
  <2> QED
    BY <2>5, <2>6, <2>7, <2>8 DEF Meant
<1>2. CASE at = "up" /\ FailAfter([LocalClosed EXCEPT !.lost = @ \cup {"up", "mode"}], p.mem, PCAP_ERROR)
  <2> DEFINE s == [LocalClosed EXCEPT !.lost = @ \cup {"up", "mode"}]
  <2>1. Flags(s)
    BY LocalClosedFlags DEF ToUndo, Shape, Meant, SettingsKept, Flags, SysFields
  <2>2. FailAfter(s, p.mem, PCAP_ERROR)
    BY <1>2
  <2> HIDE DEF s
  <2> QED
    BY <1>2, <2>1, <2>2, FailureMeans
<1> QED
  BY <1>1, <1>2 DEF BringUp

\* What the hardware types come to: those that are cooked have a link-layer type for it, and only
\* Ethernet has a choice.
LEMMA LinkTypesAre ==
  ASSUME NEW arptype, NEW device
  PROVE  LET linktype == map_arphrd_to_dlt(arptype, TRUE)
             cooked == NeedsCooked(device, linktype)
             type == IF cooked THEN CookedType(linktype) ELSE linktype
             dlts == IF cooked THEN {} ELSE DltList(arptype)
         IN  /\ cooked \in BOOLEAN
             /\ cooked <=> type \in CookedTypes
             /\ type # "DOCSIS"
             /\ dlts \subseteq {"EN10MB", "DOCSIS"}
             /\ dlts # {} => ~cooked /\ type = "EN10MB"
<1> DEFINE linktype == map_arphrd_to_dlt(arptype, TRUE)
<1>1. /\ \A t \in DOMAIN LinkTypes : LinkTypes[t] \notin {"DOCSIS", "LINUX_SLL"}
      /\ "ETHER" \in DOMAIN LinkTypes /\ LinkTypes["ETHER"] = "EN10MB"
      /\ "ATM" \notin DOMAIN LinkTypes /\ "PPP" \notin DOMAIN LinkTypes
  BY DEF LinkTypes
<1>2. linktype # "DOCSIS"
  <2>1. CASE arptype \in {"ATM", "PPP"}
    BY <1>1, <2>1 DEF map_arphrd_to_dlt
  <2>2. CASE arptype \notin {"ATM", "PPP"} /\ arptype \in DOMAIN LinkTypes
    BY <1>1, <2>2 DEF map_arphrd_to_dlt
  <2>3. CASE arptype \notin {"ATM", "PPP"} /\ arptype \notin DOMAIN LinkTypes
    BY <2>3 DEF map_arphrd_to_dlt
  <2> QED
    BY <2>1, <2>2, <2>3
<1>3. arptype = "ETHER" => linktype = "EN10MB"
  BY <1>1 DEF map_arphrd_to_dlt
<1> HIDE DEF linktype
<1> QED
  BY <1>2, <1>3 DEF linktype, NeedsCooked, CookedType, CookedTypes, DltList


\* The link-layer type is that of the device, cooked or not.
LEMMA GetArpTypeMeans ==
  ASSUME ToUndo, Meant, GetArpType
  PROVE  Meant'
<1>1. ASSUME at = "arptype", NEW cooked \in BOOLEAN, NEW type, NEW dlts, NEW mem,
             cooked <=> type \in CookedTypes, type # "DOCSIS", dlts \subseteq {"EN10MB", "DOCSIS"},
             dlts # {} => ~cooked /\ type = "EN10MB",
             p' = [p EXCEPT !.cooked = cooked, !.linktype = type, !.dlts = dlts, !.mem = mem],
             sys' = IF cooked THEN LocalClosed ELSE sys,
             Goto(IF cooked THEN "reopen" ELSE "bind"),
             UNCHANGED iface
      PROVE  Meant'

  <2>1. /\ DOMAIN p' = PcapFields
        /\ p'.cooked = cooked /\ p'.linktype = type /\ p'.dlts = dlts
        /\ \A f \in PcapFields \ {"cooked", "linktype", "dlts", "mem"} : p'[f] = p[f]
    BY <1>1 DEF ToUndo, Shape, PcapFields
  <2>2. /\ DOMAIN sys' = SysFields
        /\ sys'.local = IF cooked THEN NoSocket ELSE sys.local
        /\ \A f \in SysFields \ {"local"} : sys'[f] = sys[f]
    BY <1>1 DEF ToUndo, Shape, SysFields, LocalClosed
  <2>3. SettingsKept'
    BY <1>1, <2>1, <2>2 DEF ToUndo, Meant, Shape, MemoryHeld, SettingsKept, Linked, PcapFields, SysFields
  <2>4. LinkTypeKept' /\ MonitorKept'
    BY <1>1, <2>1, <2>2 DEF ToUndo, Meant, Shape, ListedToUndo, MemoryHeld, SettingsKept, LinkTypeKept, MonitorKept, HasNewSocket, Linked, CookedTypes, PcapFields, SysFields
  <2>5. SocketKept'
    BY <1>1, <2>1, <2>2 DEF ToUndo, Meant, Shape, SocketsHeld, ListedToUndo, MemoryHeld, SettingsKept, SocketKept,
      LinkTypeKept, HasNewSocket, Linked, PcapFields, SysFields
  <2>6. RingKept'
    BY <1>1, <2>1, <2>2 DEF ToUndo, Meant, Shape, MemoryHeld, RingKept, PcapFields, SysFields
  <2> QED
    BY <2>3, <2>4, <2>5, <2>6 DEF Meant
<1> DEFINE linktype == map_arphrd_to_dlt(ArpType, TRUE)
           cooked == NeedsCooked(p.device, linktype)
           type == IF cooked THEN CookedType(linktype) ELSE linktype
           dlts == IF cooked THEN {} ELSE DltList(ArpType)
           mem == IF dlts = {} THEN p.mem ELSE p.mem \cup {"dlt_list"}
<1>2. CASE /\ at = "arptype"
           /\ p' = [p EXCEPT !.cooked = cooked, !.linktype = type, !.dlts = dlts, !.mem = mem]
           /\ sys' = IF cooked THEN LocalClosed ELSE sys
           /\ Goto(IF cooked THEN "reopen" ELSE "bind")
           /\ UNCHANGED iface
  <2>1. /\ cooked \in BOOLEAN
        /\ cooked <=> type \in CookedTypes
        /\ type # "DOCSIS" /\ dlts \subseteq {"EN10MB", "DOCSIS"}
        /\ dlts # {} => ~cooked /\ type = "EN10MB"
    BY LinkTypesAre
  <2> HIDE DEF linktype, cooked, type, dlts, mem
  <2> QED
    BY <1>1, <1>2, <2>1
<1>3. CASE at = "arptype" /\ \E status \in {PCAP_ERROR_NO_SUCH_DEVICE, PCAP_ERROR} : FailUnrestored(status)
  BY <1>3, FailUnrestoredMeans
<1> QED
  BY <1>2, <1>3 DEF GetArpType

\* A socket for cooked capture.
LEMMA ReopenMeans ==
  ASSUME ToUndo, Meant, Reopen
  PROVE  Meant'
<1>1. CASE /\ at = "reopen" /\ sys' = [sys EXCEPT !.local = Socket("dgram")]
           /\ Goto("bind")
           /\ UNCHANGED <<p, iface>>
  <2>1. /\ DOMAIN sys' = SysFields
        /\ sys'.local.is = "dgram"
        /\ sys'.local.bound = FALSE
        /\ \A f \in SysFields \ {"local"} : sys'[f] = sys[f]
    BY <1>1 DEF ToUndo, Shape, SysFields, Socket
  <2>2. SettingsKept'
    BY <1>1, <2>1 DEF ToUndo, Meant, Shape, MemoryHeld, SettingsKept, Linked, SysFields
  <2>3. LinkTypeKept' /\ MonitorKept'
    BY <1>1, <2>1 DEF ToUndo, Meant, Shape, ListedToUndo, MemoryHeld, SettingsKept, LinkTypeKept, MonitorKept, HasNewSocket, Linked, CookedTypes, SysFields
  <2>4. SocketKept'
    BY <1>1, <2>1 DEF ToUndo, Meant, Shape, SocketsHeld, ListedToUndo, MemoryHeld, SettingsKept, SocketKept,
      LinkTypeKept, HasNewSocket, Linked, SysFields
  <2>5. RingKept'
    BY <1>1, <2>1 DEF ToUndo, Meant, Shape, MemoryHeld, RingKept, SysFields
  <2> QED
    BY <2>2, <2>3, <2>4, <2>5 DEF Meant
<1>2. CASE at = "reopen" /\ \E status \in {PCAP_ERROR_PERM_DENIED, PCAP_ERROR} : FailUnrestored(status)
  BY <1>2, FailUnrestoredMeans
<1> QED
  BY <1>1, <1>2 DEF Reopen

\* It is bound to the device.
LEMMA BindMeans ==
  ASSUME ToUndo, Meant, Bind
  PROVE  Meant'
<1>1. CASE /\ at = "bind" /\ sys' = [sys EXCEPT !.local.bound = TRUE]
           /\ Goto("promisc")
           /\ UNCHANGED <<p, iface>>
  <2>1. /\ DOMAIN sys' = SysFields
        /\ sys'.local.is = sys.local.is /\ sys'.local.bound
        /\ \A f \in SysFields \ {"local"} : sys'[f] = sys[f]
    BY <1>1 DEF ToUndo, Shape, SysFields, SocketsHeld, Descriptor, SocketFields
  <2>2. SettingsKept'
    BY <1>1, <2>1 DEF ToUndo, Meant, Shape, MemoryHeld, SettingsKept, Linked, SysFields
  <2>3. LinkTypeKept' /\ MonitorKept'
    BY <1>1, <2>1 DEF ToUndo, Meant, Shape, ListedToUndo, MemoryHeld, SettingsKept, LinkTypeKept, MonitorKept, HasNewSocket, Linked, CookedTypes, SysFields
  <2>4. SocketKept'
    BY <1>1, <2>1 DEF ToUndo, Meant, Shape, SocketsHeld, ListedToUndo, MemoryHeld, SettingsKept, SocketKept,
      LinkTypeKept, HasNewSocket, Linked, SysFields
  <2>5. RingKept'
    BY <1>1, <2>1 DEF ToUndo, Meant, Shape, MemoryHeld, RingKept, SysFields
  <2> QED
    BY <2>2, <2>3, <2>4, <2>5 DEF Meant
<1>2. CASE at = "bind" /\ ~iface.up /\ ~sys.monif /\ FailUnrestored(PCAP_ERROR_IFACE_NOT_UP)
  BY <1>2, FailUnrestoredMeans
<1>3. CASE at = "bind" /\ FailUnrestored(PCAP_ERROR)
  BY <1>3, FailUnrestoredMeans
<1>4. CASE at = "bind" /\ sys' = LocalClosed /\ Goto("old") /\ UNCHANGED <<p, iface>>
  <2>1. /\ DOMAIN sys' = SysFields
        /\ sys'.local = NoSocket
        /\ \A f \in SysFields \ {"local"} : sys'[f] = sys[f]
    BY <1>4 DEF ToUndo, Shape, SysFields, LocalClosed
  <2>2. SettingsKept'
    BY <1>4, <2>1 DEF ToUndo, Meant, Shape, MemoryHeld, SettingsKept, Linked, SysFields
  <2>3. LinkTypeKept' /\ MonitorKept'
    BY <1>4, <2>1 DEF ToUndo, Meant, Shape, ListedToUndo, MemoryHeld, SettingsKept, LinkTypeKept, MonitorKept, HasNewSocket, Linked, CookedTypes, SysFields
  <2>4. SocketKept'
    BY <1>4, <2>1 DEF ToUndo, Meant, Shape, SocketsHeld, ListedToUndo, MemoryHeld, SettingsKept, SocketKept,
      LinkTypeKept, HasNewSocket, Linked, SysFields
  <2>5. RingKept'
    BY <1>4, <2>1 DEF ToUndo, Meant, Shape, MemoryHeld, RingKept, SysFields
  <2> QED
    BY <2>2, <2>3, <2>4, <2>5 DEF Meant
<1> QED
  BY <1>1, <1>2, <1>3, <1>4 DEF Bind

\* It is a member, if that was asked for.
LEMMA JoinPromiscMeans ==
  ASSUME ToUndo, Meant, JoinPromisc
  PROVE  Meant'
<1>1. CASE /\ at = "promisc" /\ sys' = [sys EXCEPT !.local.member = p.opt.promisc]
           /\ Goto("auxdata")
           /\ UNCHANGED <<p, iface>>
  <2>1. /\ DOMAIN sys' = SysFields
        /\ sys'.local.is = sys.local.is /\ sys'.local.bound = sys.local.bound
        /\ sys'.local.member = p.opt.promisc
        /\ \A f \in SysFields \ {"local"} : sys'[f] = sys[f]
    BY <1>1 DEF ToUndo, Shape, SysFields, SocketsHeld, Descriptor, SocketFields
  <2>2. SettingsKept'
    BY <1>1, <2>1 DEF ToUndo, Meant, Shape, MemoryHeld, SettingsKept, Linked, SysFields
  <2>3. LinkTypeKept' /\ MonitorKept'
    BY <1>1, <2>1 DEF ToUndo, Meant, Shape, ListedToUndo, MemoryHeld, SettingsKept, LinkTypeKept, MonitorKept, HasNewSocket, Linked, CookedTypes, SysFields
  <2>4. SocketKept'
    BY <1>1, <2>1 DEF ToUndo, Meant, Shape, SocketsHeld, ListedToUndo, MemoryHeld, SettingsKept, SocketKept,
      LinkTypeKept, HasNewSocket, Linked, SysFields
  <2>5. RingKept'
    BY <1>1, <2>1 DEF ToUndo, Meant, Shape, MemoryHeld, RingKept, SysFields
  <2> QED
    BY <2>2, <2>3, <2>4, <2>5 DEF Meant
<1>2. CASE at = "promisc" /\ p.opt.promisc /\ FailUnrestored(PCAP_ERROR)
  BY <1>2, FailUnrestoredMeans
<1> QED
  BY <1>1, <1>2 DEF JoinPromisc

\* The settings that an activation may correct.
LEMMA WiderSnapshot ==
  ASSUME NEW opt \in Settings, NEW cooked, FitsBlocks(opt)
  PROVE  LET wider == [opt EXCEPT !.snapshot = IF cooked /\ @ < SLL_HDR_LEN + 1 THEN SLL_HDR_LEN + 1 ELSE @]
         IN  /\ wider \in Settings /\ FitsBlocks(wider)
             /\ wider.promisc = opt.promisc /\ wider.rfmon = opt.rfmon
             /\ cooked => wider.snapshot > SLL_HDR_LEN
<1> DEFINE n == IF cooked /\ opt.snapshot < SLL_HDR_LEN + 1 THEN SLL_HDR_LEN + 1 ELSE opt.snapshot
           wider == [opt EXCEPT !.snapshot = n]
<1>1. opt.snapshot \in Nat /\ n \in Nat /\ SLL_HDR_LEN = 16
  BY DEF Settings, SLL_HDR_LEN
<1>2. Most(n, SLL_HDR_LEN + 1) = Most(opt.snapshot, SLL_HDR_LEN + 1) /\ (cooked => n > SLL_HDR_LEN)
  BY <1>1 DEF Most
<1> HIDE DEF n
<1>3. wider \in Settings /\ wider.snapshot = n /\ wider.promisc = opt.promisc /\ wider.rfmon = opt.rfmon
  BY <1>1 DEF Settings
<1> HIDE DEF wider
<1>4. FitsBlocks(wider)
  BY <1>2, <1>3 DEF FitsBlocks
<1> QED
  BY <1>2, <1>3, <1>4 DEF n, wider

\* The socket is the pcap_t's now.
LEMMA AskForTagsMeans ==
  ASSUME ToUndo, Meant, AskForTags
  PROVE  Meant'
<1>1. CASE /\ at = "auxdata" /\ sys' = [sys EXCEPT !.fd = sys.local, !.local = NoSocket]
           /\ p' = [p EXCEPT !.opt.snapshot = IF p.cooked /\ @ < SLL_HDR_LEN + 1 THEN SLL_HDR_LEN + 1 ELSE @]
           /\ Goto("oneshot")
           /\ UNCHANGED iface
  <2>1. /\ DOMAIN p' = PcapFields
        /\ p'.opt \in Settings /\ FitsBlocks(p'.opt)
        /\ p'.opt.promisc = p.opt.promisc /\ p'.opt.rfmon = p.opt.rfmon
        /\ p.cooked => p'.opt.snapshot > SLL_HDR_LEN
        /\ \A f \in PcapFields \ {"opt"} : p'[f] = p[f]
    BY <1>1, WiderSnapshot DEF ToUndo, Shape, PcapFields, Meant, SettingsKept
  <2>2. /\ DOMAIN sys' = SysFields
        /\ sys'.fd = sys.local /\ sys'.local = NoSocket
        /\ \A f \in SysFields \ {"fd", "local"} : sys'[f] = sys[f]
    BY <1>1 DEF ToUndo, Shape, SysFields
  <2>3. SettingsKept'
    BY <1>1, <2>1, <2>2 DEF ToUndo, Meant, Shape, MemoryHeld, SettingsKept, Linked, PcapFields, SysFields
  <2>4. LinkTypeKept' /\ MonitorKept'
    BY <1>1, <2>1, <2>2 DEF ToUndo, Meant, Shape, ListedToUndo, MemoryHeld, SettingsKept, LinkTypeKept, MonitorKept, HasNewSocket, Linked, CookedTypes, PcapFields, SysFields
  <2>5. SocketKept'
    BY <1>1, <2>1, <2>2 DEF ToUndo, Meant, Shape, SocketsHeld, ListedToUndo, MemoryHeld, SettingsKept, SocketKept,
      LinkTypeKept, HasNewSocket, Linked, PcapFields, SysFields
  <2>6. RingKept'
    BY <1>1, <2>1, <2>2 DEF ToUndo, Meant, Shape, MemoryHeld, RingKept, PcapFields, SysFields
  <2> QED
    BY <2>3, <2>4, <2>5, <2>6 DEF Meant
<1>2. CASE at = "auxdata" /\ FailUnrestored(PCAP_ERROR)
  BY <1>2, FailUnrestoredMeans
<1> QED
  BY <1>1, <1>2 DEF AskForTags

LEMMA ChosenBuffer ==
  ASSUME NEW opt \in Settings, FitsBlocks(opt)
  PROVE  LET chosen == [opt EXCEPT !.buffer_size = IF @ = 0 THEN DefaultBuffer ELSE @]
         IN  /\ chosen \in Settings /\ FitsBlocks(chosen)
             /\ chosen.promisc = opt.promisc /\ chosen.rfmon = opt.rfmon /\ chosen.snapshot = opt.snapshot
<1> DEFINE n == IF opt.buffer_size = 0 THEN DefaultBuffer ELSE opt.buffer_size
           chosen == [opt EXCEPT !.buffer_size = n]
<1>1. n \in Nat
  BY ActivateAssumption DEF Settings
<1> HIDE DEF n
<1>2. /\ chosen \in Settings
      /\ chosen.promisc = opt.promisc /\ chosen.rfmon = opt.rfmon /\ chosen.snapshot = opt.snapshot
  BY <1>1 DEF Settings
<1> HIDE DEF chosen
<1>3. FitsBlocks(chosen)
  BY <1>2 DEF FitsBlocks
<1> QED
  BY <1>2, <1>3 DEF n, chosen

\* The buffer of pcap_next, and the size of the ring.
LEMMA AllocateOneshotMeans ==
  ASSUME ToUndo, Meant, AllocateOneshot
  PROVE  Meant'
<1>1. CASE /\ at = "oneshot"
           /\ p' = [p EXCEPT !.mem = @ \cup {"oneshot"}, !.opt.buffer_size = IF @ = 0 THEN DefaultBuffer ELSE @]
           /\ Goto("prepare")
           /\ UNCHANGED <<sys, iface>>
  <2>1. /\ DOMAIN p' = PcapFields
        /\ p'.opt \in Settings /\ FitsBlocks(p'.opt)
        /\ p'.opt.promisc = p.opt.promisc /\ p'.opt.rfmon = p.opt.rfmon
        /\ p'.opt.snapshot = p.opt.snapshot
        /\ \A f \in PcapFields \ {"opt", "mem"} : p'[f] = p[f]
    BY <1>1, ChosenBuffer DEF ToUndo, Shape, PcapFields, Meant, SettingsKept
  <2>2. SettingsKept'
    BY <1>1, <2>1 DEF ToUndo, Meant, Shape, MemoryHeld, SettingsKept, Linked, PcapFields
  <2>3. LinkTypeKept' /\ MonitorKept'
    BY <1>1, <2>1 DEF ToUndo, Meant, Shape, ListedToUndo, MemoryHeld, SettingsKept, LinkTypeKept, MonitorKept, HasNewSocket, Linked, CookedTypes, PcapFields
  <2>4. SocketKept'
    BY <1>1, <2>1 DEF ToUndo, Meant, Shape, SocketsHeld, ListedToUndo, MemoryHeld, SettingsKept, SocketKept,
      LinkTypeKept, HasNewSocket, Linked, PcapFields
  <2>5. RingKept'
    BY <1>1, <2>1 DEF ToUndo, Meant, Shape, MemoryHeld, RingKept, PcapFields
  <2> QED
    BY <2>2, <2>3, <2>4, <2>5 DEF Meant
<1>2. CASE at = "oneshot" /\ Fail(PCAP_ERROR)
  BY <1>2, FailMeans
<1> QED
  BY <1>1, <1>2 DEF AllocateOneshot

\* Version 2 of the ring, or not.
LEMMA PrepareSocketMeans ==
  ASSUME ToUndo, Meant, PrepareSocket
  PROVE  Meant'
<1>1. CASE at = "prepare" /\ Goto("tstamp") /\ UNCHANGED <<p, sys, iface>>
  <2>1. SettingsKept'
    BY <1>1 DEF ToUndo, Meant, Shape, MemoryHeld, SettingsKept, Linked
  <2>2. LinkTypeKept' /\ MonitorKept'
    BY <1>1 DEF ToUndo, Meant, Shape, ListedToUndo, MemoryHeld, SettingsKept, LinkTypeKept, MonitorKept, HasNewSocket, Linked, CookedTypes
  <2>3. SocketKept'
    BY <1>1 DEF ToUndo, Meant, Shape, SocketsHeld, ListedToUndo, MemoryHeld, SettingsKept, SocketKept,
      LinkTypeKept, HasNewSocket, Linked
  <2>4. RingKept'
    BY <1>1 DEF ToUndo, Meant, Shape, MemoryHeld, RingKept
  <2> QED
    BY <2>1, <2>2, <2>3, <2>4 DEF Meant
<1>2. CASE at = "prepare" /\ FailMmap(sys, PCAP_ERROR)
  BY <1>2, FailMmapMeans
<1> QED
  BY <1>1, <1>2 DEF PrepareSocket

\* Time stamps of the adapter.
LEMMA SetTimeStampsMeans ==
  ASSUME ToUndo, Meant, SetTimeStamps
  PROVE  Meant'
<1>1. CASE /\ at = "tstamp" /\ \E warning \in {0, PCAP_WARNING_TSTAMP_TYPE_NOTSUP} : p' = [p EXCEPT !.status = warning]
           /\ Goto("ring")
           /\ UNCHANGED <<sys, iface>>
  <2>1. /\ DOMAIN p' = PcapFields
        /\ \A f \in PcapFields \ {"status"} : p'[f] = p[f]
    BY <1>1 DEF ToUndo, Shape, PcapFields
  <2>2. SettingsKept'
    BY <1>1, <2>1 DEF ToUndo, Meant, Shape, MemoryHeld, SettingsKept, Linked, PcapFields
  <2>3. LinkTypeKept' /\ MonitorKept'
    BY <1>1, <2>1 DEF ToUndo, Meant, Shape, ListedToUndo, MemoryHeld, SettingsKept, LinkTypeKept, MonitorKept, HasNewSocket, Linked, CookedTypes, PcapFields
  <2>4. SocketKept'
    BY <1>1, <2>1 DEF ToUndo, Meant, Shape, SocketsHeld, ListedToUndo, MemoryHeld, SettingsKept, SocketKept,
      LinkTypeKept, HasNewSocket, Linked, PcapFields
  <2>5. RingKept'
    BY <1>1, <2>1 DEF ToUndo, Meant, Shape, MemoryHeld, RingKept, PcapFields
  <2> QED
    BY <2>2, <2>3, <2>4, <2>5 DEF Meant
<1>2. CASE at = "tstamp" /\ \E status \in {PCAP_ERROR_PERM_DENIED, PCAP_ERROR} : FailMmap(sys, status)
  BY <1>2, FailMmapMeans
<1>3. CASE at = "tstamp" /\ Goto("ring") /\ UNCHANGED <<p, sys, iface>>
  <2>1. SettingsKept'
    BY <1>3 DEF ToUndo, Meant, Shape, MemoryHeld, SettingsKept, Linked
  <2>2. LinkTypeKept' /\ MonitorKept'
    BY <1>3 DEF ToUndo, Meant, Shape, ListedToUndo, MemoryHeld, SettingsKept, LinkTypeKept, MonitorKept, HasNewSocket, Linked, CookedTypes
  <2>3. SocketKept'
    BY <1>3 DEF ToUndo, Meant, Shape, SocketsHeld, ListedToUndo, MemoryHeld, SettingsKept, SocketKept,
      LinkTypeKept, HasNewSocket, Linked
  <2>4. RingKept'
    BY <1>3 DEF ToUndo, Meant, Shape, MemoryHeld, RingKept
  <2> QED
    BY <2>1, <2>2, <2>3, <2>4 DEF Meant
<1> QED
  BY <1>1, <1>2, <1>3 DEF SetTimeStamps

\* A multiple of 16 that is not below, and the largest multiple that is not above.
LEMMA Rounding ==
  ASSUME NEW n \in Nat
  PROVE  Align(n) \in Nat /\ Align(n) >= n /\ Align(n) <= n + 15
<1>1. 16 * ((n + 15) \div 16) <= n + 15 /\ 16 * ((n + 15) \div 16) >= n /\ (n + 15) \div 16 \in Nat
  OBVIOUS
<1> QED
  BY <1>1 DEF Align

LEMMA WholeTimes ==
  ASSUME NEW n \in Nat, NEW m \in Nat \ {0}
  PROVE  /\ n \div m \in Nat /\ (n \div m) * m <= n
         /\ n \div m > 0 <=> n >= m
OBVIOUS

\* The sizes of blocks that are tried, and the least that holds a frame.
LEMMA LeastBlock ==
  ASSUME NEW n \in Nat, n <= PageSize * 2 ^ 8
  PROVE  LET block == Min({size \in {PageSize * 2 ^ k : k \in 0 .. 8} : size >= n})
         IN  block \in Nat /\ block >= n
<1>0. PageSize \in Nat /\ 2 ^ 0 = 1 /\ 2 ^ 1 = 2 /\ 2 ^ 2 = 4 /\ 2 ^ 3 = 8 /\ 2 ^ 4 = 16 /\ 2 ^ 5 = 32 /\ 2 ^ 6 = 64
      /\ 2 ^ 7 = 128 /\ 2 ^ 8 = 256
  BY ActivateAssumption
<1> DEFINE Sizes == {size \in {PageSize * 2 ^ k : k \in 0 .. 8} : size >= n}
<1>1. Sizes \subseteq Nat /\ PageSize * 2 ^ 8 \in Sizes
  <2>1. ASSUME NEW k \in 0 .. 8
        PROVE  2 ^ k \in Nat
    <3>1. k = 0 \/ k = 1 \/ k = 2 \/ k = 3 \/ k = 4 \/ k = 5 \/ k = 6 \/ k = 7 \/ k = 8
      OBVIOUS
    <3>2. /\ 2 ^ 0 \in Nat /\ 2 ^ 1 \in Nat /\ 2 ^ 2 \in Nat /\ 2 ^ 3 \in Nat /\ 2 ^ 4 \in Nat
          /\ 2 ^ 5 \in Nat /\ 2 ^ 6 \in Nat /\ 2 ^ 7 \in Nat /\ 2 ^ 8 \in Nat
      BY <1>0
    <3> QED
      BY <3>1, <3>2, Zenon
  <2> QED
    BY <1>0, <2>1
<1>2. PICK least \in Sizes : \A size \in Sizes : least <= size
  <2> HIDE DEF Sizes
  <2> QED
    BY <1>1, NatMin
<1>3. Min(Sizes) \in Sizes
  BY <1>2 DEF Min
<1> QED
  BY <1>1, <1>3


\* The ring that is asked for holds what was asked for.
LEMMA AskedFits ==
  ASSUME NEW q, DOMAIN q = PcapFields, q.opt \in Settings, FitsBlocks(q.opt), q.cooked \in BOOLEAN,
         q.linktype # "DOCSIS"
  PROVE  RingFits([q EXCEPT !.ring = AskedRing(q)])
<1> DEFINE maclen == IF q.cooked THEN 0 ELSE MaxLinkHeader
           start == TpHdrLen + Most(maclen, 16)
           macoff == Align(start) + tp_reserve(q) - maclen
           bytes == BytesOfPacket(q)
           frame == Align(macoff + bytes)
           block == Min({size \in {PageSize * 2 ^ n : n \in 0 .. 8} : size >= frame})
           r == [q EXCEPT !.ring = AskedRing(q)]
<1>1. /\ TpHdrLen \in Nat \ {0} /\ MaxLinkHeader \in Nat /\ Mtu \in Nat /\ PageSize \in Nat
      /\ q.opt.snapshot \in Nat /\ q.opt.buffer_size \in Nat
  BY ActivateAssumption DEF Settings
<1>2. maclen \in Nat /\ (q.cooked => maclen = 0)
  BY <1>1
<1>3. /\ start \in Nat /\ start >= TpHdrLen + 16 /\ start >= TpHdrLen + maclen
      /\ start <= TpHdrLen + maclen + 16
  <2> HIDE DEF maclen
  <2> QED
    BY <1>1, <1>2 DEF Most
<1>4. tp_reserve(q) \in 0 .. 4
  BY DEF tp_reserve
<1>5. bytes \in Nat /\ bytes <= q.opt.snapshot
  BY <1>1 DEF BytesOfPacket, Least
<1>6. Align(start) \in Nat /\ Align(start) >= start /\ Align(start) <= start + 15
  <2> HIDE DEF start
  <2> QED
    BY <1>3, Rounding
<1>7. /\ macoff \in Nat /\ macoff >= TpHdrLen /\ macoff <= TpHdrLen + 35
      /\ q.cooked => macoff - tp_reserve(q) - SLL_HDR_LEN >= TpHdrLen
  <2> HIDE DEF start, maclen
  <2> QED
    BY <1>1, <1>2, <1>3, <1>4, <1>6 DEF SLL_HDR_LEN
<1>8. frame \in Nat \ {0} /\ macoff + bytes <= frame /\ frame <= macoff + bytes + 15
  <2> HIDE DEF macoff, bytes
  <2> QED
    BY <1>1, <1>5, <1>7, Rounding
<1>9. frame <= PageSize * 2 ^ 8
  <2>1. Most(q.opt.snapshot, SLL_HDR_LEN + 1) >= q.opt.snapshot /\ Most(q.opt.snapshot, SLL_HDR_LEN + 1) \in Nat
    BY <1>1 DEF Most, SLL_HDR_LEN
  <2>2. PageSize * 2 ^ 8 \in Nat
    BY <1>1
  <2> HIDE DEF frame, macoff, bytes
  <2> QED
    BY <1>1, <1>5, <1>7, <1>8, <2>1, <2>2 DEF FitsBlocks
<1>10. block \in Nat /\ block >= frame
  <2> HIDE DEF frame
  <2> QED
    BY <1>8, <1>9, LeastBlock
<1>11. r.ring = [ frame_size |-> frame, block_size |-> block, per_block |-> block \div frame,
                  frame_nr |-> q.opt.buffer_size \div frame, macoff |-> macoff ]
  BY DEF AskedRing, PcapFields
<1>12. /\ DOMAIN r = PcapFields /\ r.opt = q.opt /\ r.features = q.features /\ r.cooked = q.cooked
       /\ r.linktype = q.linktype
  BY DEF PcapFields
<1>13. Longest(r) = bytes /\ tp_reserve(r) = tp_reserve(q)
  <2>1. r.linktype # "DOCSIS"
    BY <1>12
  <2> HIDE DEF r
  <2> QED
    BY <1>12, <2>1 DEF Longest, BytesOfPacket, tp_reserve
<1> HIDE DEF r, block, frame, bytes, macoff
<1>14. /\ block \div frame \in Nat \ {0} /\ (block \div frame) * frame <= block
       /\ q.opt.buffer_size \div frame \in Nat /\ (q.opt.buffer_size \div frame) * frame <= q.opt.buffer_size
  BY <1>1, <1>8, <1>10, WholeTimes
<1>15. /\ DOMAIN r.ring = RingFields
       /\ r.ring.frame_size = frame /\ r.ring.block_size = block /\ r.ring.per_block = block \div frame
       /\ r.ring.frame_nr = q.opt.buffer_size \div frame /\ r.ring.macoff = macoff
  BY <1>11 DEF RingFields
<1>16. /\ {r.ring.frame_size, r.ring.per_block} \subseteq Nat \ {0}
       /\ {r.ring.block_size, r.ring.frame_nr, r.ring.macoff} \subseteq Nat
  BY <1>7, <1>8, <1>10, <1>14, <1>15
<1>17. /\ r.ring.macoff + Longest(r) <= r.ring.frame_size
       /\ r.ring.per_block * r.ring.frame_size <= r.ring.block_size
       /\ r.ring.frame_nr * r.ring.frame_size <= r.opt.buffer_size
  BY <1>8, <1>12, <1>13, <1>14, <1>15
<1>18. r.cooked => r.ring.macoff - tp_reserve(r) - SLL_HDR_LEN >= TpHdrLen
  BY <1>7, <1>12, <1>13, <1>15
<1>19. RingFits(r)
  BY <1>15, <1>16, <1>17, <1>18 DEF RingFits
<1> QED
  BY <1>19 DEF r

\* So does one with fewer frames.
LEMMA FewerFit ==
  ASSUME NEW q, NEW r, DOMAIN q = PcapFields, DOMAIN r = PcapFields, RingFits(q), q.opt \in Settings,
         NEW n \in Nat, n <= q.ring.frame_nr, r.ring = [q.ring EXCEPT !.frame_nr = n],
         r.opt = q.opt, r.features = q.features, r.cooked = q.cooked, r.linktype = q.linktype
  PROVE  RingFits(r)
<1>1. /\ DOMAIN r.ring = RingFields /\ r.ring.frame_nr = n
      /\ \A f \in RingFields \ {"frame_nr"} : r.ring[f] = q.ring[f]
  BY DEF RingFits, RingFields
<1>2. n * q.ring.frame_size <= q.ring.frame_nr * q.ring.frame_size
  BY DEF RingFits
<1>3. q.opt.buffer_size \in Nat
  BY DEF Settings
<1>4. Longest(r) = Longest(q) /\ tp_reserve(r) = tp_reserve(q)
  BY LongestIs DEF tp_reserve
<1>5. n * q.ring.frame_size <= q.opt.buffer_size
  BY <1>2, <1>3 DEF RingFits
<1> QED
  BY <1>1, <1>4, <1>5 DEF RingFits, RingFields

\* The number of frames is made a multiple of those of a block, and reduced by some when memory
\* is short.
LEMMA RoundedIsFewer ==
  ASSUME NEW ring, DOMAIN ring = RingFields, ring.frame_nr \in Nat, ring.per_block \in Nat \ {0}
  PROVE  \E n \in Nat : n <= ring.frame_nr /\ Rounded(ring) = [ring EXCEPT !.frame_nr = n]
<1> DEFINE n == (ring.frame_nr \div ring.per_block) * ring.per_block
<1>1. n \in Nat /\ n <= ring.frame_nr
  <2> DEFINE blocks == ring.frame_nr \div ring.per_block
  <2>1. blocks \in Nat /\ blocks * ring.per_block <= ring.frame_nr
    BY WholeTimes
  <2> HIDE DEF blocks
  <2>2. blocks * ring.per_block \in Nat
    BY <2>1
  <2> QED
    BY <2>1, <2>2 DEF blocks
<1>2. Rounded(ring) = [ring EXCEPT !.frame_nr = n]
  BY DEF Rounded, block_nr
<1> QED
  BY <1>1, <1>2

LEMMA SmallerIsFewer ==
  ASSUME NEW ring, DOMAIN ring = RingFields, ring.frame_nr \in Nat, ring.per_block \in Nat \ {0},
         block_nr(ring) > 0
  PROVE  \E n \in Nat : n <= ring.frame_nr /\ Rounded(Smaller(ring)) = [ring EXCEPT !.frame_nr = n]
<1> DEFINE m == IF ring.frame_nr < ShrinkFrom THEN ring.frame_nr - 1
                ELSE ring.frame_nr - ring.frame_nr \div ShrinkFrom
           smaller == [ring EXCEPT !.frame_nr = m]
<1>1. ring.frame_nr > 0 /\ ShrinkFrom \in Nat \ {0}
  BY WholeTimes, ActivateAssumption DEF block_nr
<1>2. ring.frame_nr \div ShrinkFrom \in Nat /\ ring.frame_nr \div ShrinkFrom <= ring.frame_nr
  BY <1>1
<1>3. m \in Nat /\ m <= ring.frame_nr
  BY <1>1, <1>2
<1>4. Smaller(ring) = smaller
  BY DEF Smaller
<1> HIDE DEF m
<1>5. DOMAIN smaller = RingFields /\ smaller.frame_nr = m /\ smaller.per_block = ring.per_block
  BY DEF RingFields
<1>6. PICK n \in Nat : n <= m /\ Rounded(smaller) = [smaller EXCEPT !.frame_nr = n]
  <2> HIDE DEF smaller
  <2> QED
    BY <1>3, <1>5, RoundedIsFewer
<1>7. [smaller EXCEPT !.frame_nr = n] = [ring EXCEPT !.frame_nr = n]
  BY DEF RingFields
<1> QED
  BY <1>3, <1>4, <1>6, <1>7

\* A ring is chosen.
LEMMA AskForRingMeans ==
  ASSUME ToUndo, Meant, AskForRing
  PROVE  Meant'
<1>1. CASE /\ at = "ring" /\ p' = [p EXCEPT !.ring = Rounded(AskedRing(p))]
           /\ Goto("try_ring")
           /\ UNCHANGED <<sys, iface>>
  <2>1. /\ DOMAIN p' = PcapFields
        /\ p'.ring = Rounded(AskedRing(p))
        /\ \A f \in PcapFields \ {"ring"} : p'[f] = p[f]
    BY <1>1 DEF ToUndo, Shape, PcapFields
  <2>2. SettingsKept'
    BY <1>1, <2>1 DEF ToUndo, Meant, Shape, MemoryHeld, SettingsKept, Linked, PcapFields
  <2>3. LinkTypeKept' /\ MonitorKept'
    BY <1>1, <2>1 DEF ToUndo, Meant, Shape, ListedToUndo, MemoryHeld, SettingsKept, LinkTypeKept, MonitorKept, HasNewSocket, Linked, CookedTypes, PcapFields
  <2>4. SocketKept'
    BY <1>1, <2>1 DEF ToUndo, Meant, Shape, SocketsHeld, ListedToUndo, MemoryHeld, SettingsKept, SocketKept,
      LinkTypeKept, HasNewSocket, Linked, PcapFields
  <2>5. RingFits(p')
    <3> DEFINE q == [p EXCEPT !.ring = AskedRing(p)]
    <3>1. p.linktype # "DOCSIS" /\ p.opt \in Settings /\ FitsBlocks(p.opt) /\ p.cooked \in BOOLEAN
      BY <1>1 DEF ToUndo, Meant, Shape, LinkTypeKept, SettingsKept, HasNewSocket
    <3>2. RingFits(q)
      BY <3>1, AskedFits DEF ToUndo, Shape
    <3>3. DOMAIN q = PcapFields /\ q.ring = AskedRing(p) /\ \A f \in PcapFields \ {"ring"} : q[f] = p[f]
      BY DEF ToUndo, Shape, PcapFields
    <3> HIDE DEF q
    <3>4. DOMAIN q.ring = RingFields /\ q.ring.frame_nr \in Nat /\ q.ring.per_block \in Nat \ {0}
      BY <3>2 DEF RingFits
    <3>5. PICK n \in Nat : n <= q.ring.frame_nr /\ Rounded(q.ring) = [q.ring EXCEPT !.frame_nr = n]
      BY <3>4, RoundedIsFewer
    <3>6. p'.ring = [q.ring EXCEPT !.frame_nr = n]
      BY <2>1, <3>3, <3>5
    <3>7. /\ q.opt \in Settings /\ p'.opt = q.opt /\ p'.features = q.features /\ p'.cooked = q.cooked
          /\ p'.linktype = q.linktype
      BY <2>1, <3>1, <3>3 DEF PcapFields
    <3> QED
      BY <2>1, <3>2, <3>3, <3>5, <3>6, <3>7, FewerFit
  <2>6. p'.ring.frame_nr \in Nat
    BY <2>5 DEF RingFits
  <2>7. p'.mode = p.mode /\ at' \notin {"mmap", "frames"} /\ at \in {"ring", "try_ring"}
    BY <1>1, <2>1 DEF PcapFields
  <2>8. RingKept'
    BY <2>5, <2>6, <2>7 DEF ToUndo, Shape, MemoryHeld, RingKept
  <2> QED
    BY <2>2, <2>3, <2>4, <2>8 DEF Meant
<1>2. CASE at = "ring" /\ FailMmap(sys, PCAP_ERROR)
  BY <1>2, FailMmapMeans
<1> QED
  BY <1>1, <1>2 DEF AskForRing

\* The kernel gives it, or less of it is tried, or it has no rings.
LEMMA TryRingMeans ==
  ASSUME ToUndo, Meant, TryRing
  PROVE  Meant'
<1>1. CASE /\ at = "try_ring" /\ sys' = [sys EXCEPT !.fd.ring = block_nr(p.ring) > 0]
           /\ Goto("mmap")
           /\ UNCHANGED <<p, iface>>
  <2>1. /\ DOMAIN sys' = SysFields
        /\ sys'.fd.is = sys.fd.is /\ sys'.fd.bound = sys.fd.bound
        /\ sys'.fd.member = sys.fd.member
        /\ sys'.fd.ring <=> block_nr(p.ring) > 0
        /\ \A f \in SysFields \ {"fd"} : sys'[f] = sys[f]
    BY <1>1 DEF ToUndo, Shape, SysFields, SocketsHeld, Descriptor, SocketFields
  <2>2. SettingsKept'
    BY <1>1, <2>1 DEF ToUndo, Meant, Shape, MemoryHeld, SettingsKept, Linked, SysFields
  <2>3. LinkTypeKept' /\ MonitorKept'
    BY <1>1, <2>1 DEF ToUndo, Meant, Shape, ListedToUndo, MemoryHeld, SettingsKept, LinkTypeKept, MonitorKept, HasNewSocket, Linked, CookedTypes, SysFields
  <2>4. SocketKept'
    BY <1>1, <2>1 DEF ToUndo, Meant, Shape, SocketsHeld, ListedToUndo, MemoryHeld, SettingsKept, SocketKept,
      LinkTypeKept, HasNewSocket, Linked, SysFields
  <2>5. RingFits(p) /\ p' = p
    BY <1>1 DEF Meant, RingKept
  <2>6. block_nr(p.ring) > 0 => p.ring.frame_nr > 0
    BY <2>5, WholeTimes DEF RingFits, block_nr
  <2>7. RingKept'
    BY <1>1, <2>1, <2>5, <2>6 DEF ToUndo, Meant, Shape, MemoryHeld, RingKept, SysFields
  <2> QED
    BY <2>2, <2>3, <2>4, <2>7 DEF Meant
<1>2. CASE /\ at = "try_ring" /\ block_nr(p.ring) > 1
           /\ p' = [p EXCEPT !.ring = Rounded(Smaller(p.ring))]
           /\ UNCHANGED <<sys, iface, at>>
  <2>1. /\ DOMAIN p' = PcapFields
        /\ p'.ring = Rounded(Smaller(p.ring))
        /\ \A f \in PcapFields \ {"ring"} : p'[f] = p[f]
    BY <1>2 DEF ToUndo, Shape, PcapFields
  <2>2. SettingsKept'
    BY <1>2, <2>1 DEF ToUndo, Meant, Shape, MemoryHeld, SettingsKept, Linked, PcapFields
  <2>3. LinkTypeKept' /\ MonitorKept'
    BY <1>2, <2>1 DEF ToUndo, Meant, Shape, ListedToUndo, MemoryHeld, SettingsKept, LinkTypeKept, MonitorKept, HasNewSocket, Linked, CookedTypes, PcapFields
  <2>4. SocketKept'
    BY <1>2, <2>1 DEF ToUndo, Meant, Shape, SocketsHeld, ListedToUndo, MemoryHeld, SettingsKept, SocketKept,
      LinkTypeKept, HasNewSocket, Linked, PcapFields
  <2>5. RingFits(p')
    <3>0. at = "try_ring"
      BY <1>2
    <3>1. RingFits(p) /\ p.opt \in Settings
      BY <3>0 DEF Meant, RingKept, SettingsKept, ToUndo, Shape
    <3>2. DOMAIN p.ring = RingFields /\ p.ring.frame_nr \in Nat /\ p.ring.per_block \in Nat \ {0}
      BY <3>1 DEF RingFits
    <3>3. block_nr(p.ring) \in Nat
      BY <3>2, WholeTimes DEF block_nr
    <3>4. block_nr(p.ring) > 0
      BY <1>2, <3>3
    <3>5. PICK n \in Nat : n <= p.ring.frame_nr /\ Rounded(Smaller(p.ring)) = [p.ring EXCEPT !.frame_nr = n]
      BY <3>2, <3>4, SmallerIsFewer
    <3>6. /\ p'.opt = p.opt /\ p'.features = p.features /\ p'.cooked = p.cooked /\ p'.linktype = p.linktype
          /\ p'.ring = [p.ring EXCEPT !.frame_nr = n] /\ DOMAIN p = PcapFields
      BY <2>1, <3>5 DEF PcapFields, ToUndo, Shape
    <3> QED
      BY <2>1, <3>1, <3>5, <3>6, FewerFit
  <2>6. p'.ring.frame_nr \in Nat
    BY <2>5 DEF RingFits
  <2>7. p'.mode = p.mode /\ at' \notin {"mmap", "frames"} /\ at \in {"ring", "try_ring"}
    BY <1>2, <2>1 DEF PcapFields
  <2>8. RingKept'
    BY <2>5, <2>6, <2>7 DEF ToUndo, Shape, MemoryHeld, RingKept
  <2> QED
    BY <2>2, <2>3, <2>4, <2>8 DEF Meant
<1>3. CASE /\ at = "try_ring" /\ p' = [p EXCEPT !.mem = @ \ {"oneshot"}, !.ring = NoRing, !.status = 0]
           /\ Goto("rcvbuf")
           /\ UNCHANGED <<sys, iface>>
  <2>1. /\ DOMAIN p' = PcapFields
        /\ p'.ring.frame_nr = 0
        /\ \A f \in PcapFields \ {"mem", "ring", "status"} : p'[f] = p[f]
    BY <1>3 DEF ToUndo, Shape, PcapFields, NoRing
  <2>2. SettingsKept'
    BY <1>3, <2>1 DEF ToUndo, Meant, Shape, MemoryHeld, SettingsKept, Linked, PcapFields
  <2>3. LinkTypeKept' /\ MonitorKept'
    BY <1>3, <2>1 DEF ToUndo, Meant, Shape, ListedToUndo, MemoryHeld, SettingsKept, LinkTypeKept, MonitorKept, HasNewSocket, Linked, CookedTypes, PcapFields
  <2>4. SocketKept'
    BY <1>3, <2>1 DEF ToUndo, Meant, Shape, SocketsHeld, ListedToUndo, MemoryHeld, SettingsKept, SocketKept,
      LinkTypeKept, HasNewSocket, Linked, PcapFields
  <2>5. RingKept'
    BY <1>3, <2>1 DEF ToUndo, Meant, Shape, MemoryHeld, RingKept, PcapFields
  <2> QED
    BY <2>2, <2>3, <2>4, <2>5 DEF Meant
<1>4. CASE at = "try_ring" /\ FailMmap(sys, PCAP_ERROR)
  BY <1>4, FailMmapMeans
<1> QED
  BY <1>1, <1>2, <1>3, <1>4 DEF TryRing

\* It is mapped.
LEMMA MapRingMeans ==
  ASSUME ToUndo, Meant, MapRing
  PROVE  Meant'
<1>1. CASE /\ at = "mmap" /\ sys.fd.ring
           /\ sys' = [sys EXCEPT !.mapped = TRUE]
           /\ Goto("frames")
           /\ UNCHANGED <<p, iface>>
  <2>1. /\ DOMAIN sys' = SysFields
        /\ sys'.mapped = TRUE
        /\ \A f \in SysFields \ {"mapped"} : sys'[f] = sys[f]
    BY <1>1 DEF ToUndo, Shape, SysFields
  <2>2. SettingsKept'
    BY <1>1, <2>1 DEF ToUndo, Meant, Shape, MemoryHeld, SettingsKept, Linked, SysFields
  <2>3. LinkTypeKept' /\ MonitorKept'
    BY <1>1, <2>1 DEF ToUndo, Meant, Shape, ListedToUndo, MemoryHeld, SettingsKept, LinkTypeKept, MonitorKept, HasNewSocket, Linked, CookedTypes, SysFields
  <2>4. SocketKept'
    BY <1>1, <2>1 DEF ToUndo, Meant, Shape, SocketsHeld, ListedToUndo, MemoryHeld, SettingsKept, SocketKept,
      LinkTypeKept, HasNewSocket, Linked, SysFields
  <2>5. /\ p'.ring = p.ring /\ p'.opt = p.opt /\ p'.features = p.features /\ p'.cooked = p.cooked
        /\ DOMAIN p = PcapFields /\ DOMAIN p' = PcapFields
        /\ p'.linktype = p.linktype \/ {p.linktype, p'.linktype} \subseteq {"EN10MB", "DOCSIS"}
    BY <1>1, <2>1 DEF ToUndo, Shape, PcapFields, Meant, LinkTypeKept, SettingsKept, HasNewSocket
  <2>6. RingFits(p) => RingFits(p')
    BY <2>5, RingFitsStill
  <2>7. RingKept'
    BY <1>1, <2>1, <2>5, <2>6 DEF ToUndo, Meant, Shape, MemoryHeld, RingKept, SysFields
  <2> QED
    BY <2>2, <2>3, <2>4, <2>7 DEF Meant
<1>2. CASE at = "mmap" /\ FailMmap(WithoutRing(sys), PCAP_ERROR)
  BY <1>2, FailMmapMeans
<1> QED
  BY <1>1, <1>2 DEF MapRing

\* From now on the ring is read.
LEMMA ListFramesMeans ==
  ASSUME ToUndo, Meant, ListFrames
  PROVE  Meant'
<1>1. CASE /\ at = "frames" /\ p' = [p EXCEPT !.mem = @ \cup {"buffer"}, !.mode = "mmap"]
           /\ Goto("opened")
           /\ UNCHANGED <<sys, iface>>
  <2>1. /\ DOMAIN p' = PcapFields
        /\ p'.mode = "mmap"
        /\ \A f \in PcapFields \ {"mem", "mode"} : p'[f] = p[f]
    BY <1>1 DEF ToUndo, Shape, PcapFields
  <2>2. SettingsKept'
    BY <1>1, <2>1 DEF ToUndo, Meant, Shape, MemoryHeld, SettingsKept, Linked, PcapFields
  <2>3. LinkTypeKept' /\ MonitorKept'
    BY <1>1, <2>1 DEF ToUndo, Meant, Shape, ListedToUndo, MemoryHeld, SettingsKept, LinkTypeKept, MonitorKept, HasNewSocket, Linked, CookedTypes, PcapFields
  <2>4. SocketKept'
    BY <1>1, <2>1 DEF ToUndo, Meant, Shape, SocketsHeld, ListedToUndo, MemoryHeld, SettingsKept, SocketKept,
      LinkTypeKept, HasNewSocket, Linked, PcapFields
  <2>5. /\ p'.ring = p.ring /\ p'.opt = p.opt /\ p'.features = p.features /\ p'.cooked = p.cooked
        /\ DOMAIN p = PcapFields /\ DOMAIN p' = PcapFields
        /\ p'.linktype = p.linktype \/ {p.linktype, p'.linktype} \subseteq {"EN10MB", "DOCSIS"}
    BY <1>1, <2>1 DEF ToUndo, Shape, PcapFields, Meant, LinkTypeKept, SettingsKept, HasNewSocket
  <2>6. RingFits(p) => RingFits(p')
    BY <2>5, RingFitsStill
  <2>7. RingKept'
    BY <1>1, <2>1, <2>5, <2>6 DEF ToUndo, Meant, Shape, MemoryHeld, RingKept, PcapFields
  <2> QED
    BY <2>2, <2>3, <2>4, <2>7 DEF Meant
<1>2. CASE at = "frames" /\ FailMmap(WithoutRing(sys), PCAP_ERROR)
  BY <1>2, FailMmapMeans
<1> QED
  BY <1>1, <1>2 DEF ListFrames

\* A socket of an old kernel.
LEMMA OpenOldMeans ==
  ASSUME ToUndo, Meant, OpenOld
  PROVE  Meant'
<1>1. CASE at = "old" /\ FailUnrestored(PCAP_ERROR_PERM_DENIED)
  BY <1>1, FailUnrestoredMeans
<1>2. CASE at = "old" /\ Fail(PCAP_ERROR)
  BY <1>2, FailMeans
<1>3. CASE /\ at = "old" /\ p.device # "any"
           /\ sys' = [sys EXCEPT !.fd = Socket("old")]
           /\ p' = [p EXCEPT !.cooked = FALSE, !.mode = "sock_packet"]
           /\ Goto("bind_old")
           /\ UNCHANGED iface
  <2>1. /\ DOMAIN p' = PcapFields
        /\ p'.cooked = FALSE /\ p'.mode = "sock_packet"
        /\ \A f \in PcapFields \ {"cooked", "mode"} : p'[f] = p[f]
    BY <1>3 DEF ToUndo, Shape, PcapFields
  <2>2. /\ DOMAIN sys' = SysFields
        /\ sys'.fd.is = "old"
        /\ \A f \in SysFields \ {"fd"} : sys'[f] = sys[f]
    BY <1>3 DEF ToUndo, Shape, SysFields, Socket
  <2>3. SettingsKept'
    BY <1>3, <2>1, <2>2 DEF ToUndo, Meant, Shape, MemoryHeld, SettingsKept, Linked, PcapFields, SysFields
  <2>4. LinkTypeKept' /\ MonitorKept'
    BY <1>3, <2>1, <2>2 DEF ToUndo, Meant, Shape, ListedToUndo, MemoryHeld, SettingsKept, LinkTypeKept, MonitorKept, HasNewSocket, Linked, CookedTypes, PcapFields, SysFields
  <2>5. SocketKept'
    BY <1>3, <2>1, <2>2 DEF ToUndo, Meant, Shape, SocketsHeld, ListedToUndo, MemoryHeld, SettingsKept, SocketKept,
      LinkTypeKept, HasNewSocket, Linked, PcapFields, SysFields
  <2>6. RingKept'
    BY <1>3, <2>1, <2>2 DEF ToUndo, Meant, Shape, MemoryHeld, RingKept, PcapFields, SysFields
  <2> QED
    BY <2>3, <2>4, <2>5, <2>6 DEF Meant
<1> QED
  BY <1>1, <1>2, <1>3 DEF OpenOld

\* It is bound, and the link-layer types are those of the device.
LEMMA BindOldMeans ==
  ASSUME ToUndo, Meant, BindOld
  PROVE  Meant'
<1>1. ASSUME at = "bind_old", NEW type, NEW dlts, NEW mem, NEW lost, dlts \subseteq {"EN10MB", "DOCSIS"},
             p' = [p EXCEPT !.linktype = type, !.dlts = dlts, !.mem = mem],
             sys' = [sys EXCEPT !.fd.bound = TRUE, !.lost = lost],
             Goto("promisc_old"),
             UNCHANGED iface
      PROVE  Meant'

  <2>1. /\ DOMAIN p' = PcapFields
        /\ p'.dlts = dlts
        /\ \A f \in PcapFields \ {"linktype", "dlts", "mem"} : p'[f] = p[f]
    BY <1>1 DEF ToUndo, Shape, PcapFields
  <2>2. /\ DOMAIN sys' = SysFields
        /\ sys'.fd.bound
        /\ \A f \in SysFields \ {"fd", "lost"} : sys'[f] = sys[f]
    BY <1>1 DEF ToUndo, Shape, SysFields, SocketsHeld, Descriptor, SocketFields
  <2>3. SettingsKept'
    BY <1>1, <2>1, <2>2 DEF ToUndo, Meant, Shape, MemoryHeld, SettingsKept, Linked, PcapFields, SysFields
  <2>4. LinkTypeKept' /\ MonitorKept'
    BY <1>1, <2>1, <2>2 DEF ToUndo, Meant, Shape, ListedToUndo, MemoryHeld, SettingsKept, LinkTypeKept, MonitorKept, HasNewSocket, Linked, CookedTypes, PcapFields, SysFields
  <2>5. SocketKept'
    BY <1>1, <2>1, <2>2 DEF ToUndo, Meant, Shape, SocketsHeld, ListedToUndo, MemoryHeld, SettingsKept, SocketKept,
      LinkTypeKept, HasNewSocket, Linked, PcapFields, SysFields
  <2>6. RingKept'
    BY <1>1, <2>1, <2>2 DEF ToUndo, Meant, Shape, MemoryHeld, RingKept, PcapFields, SysFields
  <2> QED
    BY <2>3, <2>4, <2>5, <2>6 DEF Meant
<1> DEFINE type == map_arphrd_to_dlt(ArpType, FALSE)
           list == DltList(ArpType)
           dlts == IF list = {} THEN p.dlts ELSE list
           mem == IF list = {} THEN p.mem ELSE p.mem \cup {"dlt_list"}
           lost == IF list # {} /\ "dlt_list" \in p.mem THEN sys.lost \cup {"dlt_list"} ELSE sys.lost
<1>2. CASE /\ at = "bind_old"
           /\ p' = [p EXCEPT !.linktype = type, !.dlts = dlts, !.mem = mem]
           /\ sys' = [sys EXCEPT !.fd.bound = TRUE, !.lost = lost]
           /\ Goto("promisc_old")
           /\ UNCHANGED iface
  <2>1. dlts \subseteq {"EN10MB", "DOCSIS"}
    BY DEF DltList, Meant, SettingsKept
  <2> HIDE DEF type, dlts, mem, lost
  <2> QED
    BY <1>1, <1>2, <2>1
<1>3. CASE at = "bind_old" /\ Fail(PCAP_ERROR)
  BY <1>3, FailMeans
<1> QED
  BY <1>2, <1>3 DEF BindOld

\* The flag of the interface is set.
LEMMA PromiscOldMeans ==
  ASSUME ToUndo, Meant, PromiscOld
  PROVE  Meant'
<1>1. CASE /\ at = "promisc_old" /\ (~p.opt.promisc \/ iface.promisc)
           /\ Goto("mtu_old")
           /\ UNCHANGED <<p, sys, iface>>
  <2>1. SettingsKept'
    BY <1>1 DEF ToUndo, Meant, Shape, MemoryHeld, SettingsKept, Linked
  <2>2. LinkTypeKept' /\ MonitorKept'
    BY <1>1 DEF ToUndo, Meant, Shape, ListedToUndo, MemoryHeld, SettingsKept, LinkTypeKept, MonitorKept, HasNewSocket, Linked, CookedTypes
  <2>3. SocketKept'
    BY <1>1 DEF ToUndo, Meant, Shape, SocketsHeld, ListedToUndo, MemoryHeld, SettingsKept, SocketKept,
      LinkTypeKept, HasNewSocket, Linked
  <2>4. RingKept'
    BY <1>1 DEF ToUndo, Meant, Shape, MemoryHeld, RingKept
  <2> QED
    BY <2>1, <2>2, <2>3, <2>4 DEF Meant
<1>2. CASE /\ at = "promisc_old" /\ iface' = [iface EXCEPT !.promisc = TRUE]
           /\ p' = [p EXCEPT !.must = @ \cup {"promisc"}]
           /\ sys' = pcap_add_to_pcaps_to_close(sys)
           /\ Goto("mtu_old")
  <2>1. /\ DOMAIN p' = PcapFields
        /\ p'.must = p.must \cup {"promisc"}
        /\ p'.must \subseteq {"promisc", "rfmon", "monif"}
        /\ \A f \in PcapFields \ {"must"} : p'[f] = p[f]
    BY <1>2 DEF ToUndo, Shape, PcapFields, Meant, SettingsKept
  <2>2. /\ DOMAIN sys' = SysFields
        /\ sys'.listed = TRUE
        /\ \A f \in SysFields \ {"listed"} : sys'[f] = sys[f]
    BY <1>2 DEF ToUndo, Shape, SysFields, pcap_add_to_pcaps_to_close
  <2>3. /\ DOMAIN iface' = IfaceFields
        /\ iface'.promisc = TRUE
        /\ \A f \in IfaceFields \ {"promisc"} : iface'[f] = iface[f]
    BY <1>2 DEF ToUndo, Shape, IfaceFields
  <2>4. at = "promisc_old" /\ Goto("mtu_old")
    BY <1>2
  <2>5. SettingsKept'
    BY <2>4, <2>1, <2>2 DEF ToUndo, Meant, Shape, MemoryHeld, SettingsKept, Linked, PcapFields, SysFields
  <2>6. LinkTypeKept' /\ MonitorKept'
    BY <1>2, <2>1, <2>2, <2>3 DEF ToUndo, Meant, Shape, ListedToUndo, MemoryHeld, SettingsKept, LinkTypeKept, MonitorKept, HasNewSocket, Linked, CookedTypes, PcapFields, SysFields, IfaceFields
  <2>7. SocketKept'
    BY <1>2, <2>1, <2>2, <2>3 DEF ToUndo, Meant, Shape, SocketsHeld, ListedToUndo, MemoryHeld, SettingsKept, SocketKept,
      LinkTypeKept, HasNewSocket, Linked, PcapFields, SysFields, IfaceFields
  <2>8. RingKept'
    BY <1>2, <2>1, <2>2, <2>3 DEF ToUndo, Meant, Shape, MemoryHeld, RingKept, PcapFields, SysFields, IfaceFields
  <2> QED
    BY <2>5, <2>6, <2>7, <2>8 DEF Meant
<1>3. CASE at = "promisc_old" /\ Fail(PCAP_ERROR)
  BY <1>3, FailMeans
<1> QED
  BY <1>1, <1>2, <1>3 DEF PromiscOld

\* Nothing depends on its MTU.
LEMMA MtuOldMeans ==
  ASSUME ToUndo, Meant, MtuOld
  PROVE  Meant'
<1>1. CASE at = "mtu_old" /\ Goto("rcvbuf") /\ UNCHANGED <<p, sys, iface>>
  <2>1. SettingsKept'
    BY <1>1 DEF ToUndo, Meant, Shape, MemoryHeld, SettingsKept, Linked
  <2>2. LinkTypeKept' /\ MonitorKept'
    BY <1>1 DEF ToUndo, Meant, Shape, ListedToUndo, MemoryHeld, SettingsKept, LinkTypeKept, MonitorKept, HasNewSocket, Linked, CookedTypes
  <2>3. SocketKept'
    BY <1>1 DEF ToUndo, Meant, Shape, SocketsHeld, ListedToUndo, MemoryHeld, SettingsKept, SocketKept,
      LinkTypeKept, HasNewSocket, Linked
  <2>4. RingKept'
    BY <1>1 DEF ToUndo, Meant, Shape, MemoryHeld, RingKept
  <2> QED
    BY <2>1, <2>2, <2>3, <2>4 DEF Meant
<1>2. CASE at = "mtu_old" /\ Fail(PCAP_ERROR)
  BY <1>2, FailMeans
<1> QED
  BY <1>1, <1>2 DEF MtuOld

\* Without a ring, the kernel is asked for a buffer.
LEMMA SetBufferSizeMeans ==
  ASSUME ToUndo, Meant, SetBufferSize
  PROVE  Meant'
<1>1. CASE at = "rcvbuf" /\ Goto("buffer") /\ UNCHANGED <<p, sys, iface>>
  <2>1. SettingsKept'
    BY <1>1 DEF ToUndo, Meant, Shape, MemoryHeld, SettingsKept, Linked
  <2>2. LinkTypeKept' /\ MonitorKept'
    BY <1>1 DEF ToUndo, Meant, Shape, ListedToUndo, MemoryHeld, SettingsKept, LinkTypeKept, MonitorKept, HasNewSocket, Linked, CookedTypes
  <2>3. SocketKept'
    BY <1>1 DEF ToUndo, Meant, Shape, SocketsHeld, ListedToUndo, MemoryHeld, SettingsKept, SocketKept,
      LinkTypeKept, HasNewSocket, Linked
  <2>4. RingKept'
    BY <1>1 DEF ToUndo, Meant, Shape, MemoryHeld, RingKept
  <2> QED
    BY <2>1, <2>2, <2>3, <2>4 DEF Meant
<1>2. CASE at = "rcvbuf" /\ Fail(PCAP_ERROR)
  BY <1>2, FailMeans
<1> QED
  BY <1>1, <1>2 DEF SetBufferSize

\* The program has one too.
LEMMA AllocateBufferMeans ==
  ASSUME ToUndo, Meant, AllocateBuffer
  PROVE  Meant'
<1>1. CASE /\ at = "buffer" /\ p' = [p EXCEPT !.mem = @ \cup {"buffer"}, !.status = 0]
           /\ Goto("opened")
           /\ UNCHANGED <<sys, iface>>
  <2>1. /\ DOMAIN p' = PcapFields
        /\ \A f \in PcapFields \ {"mem", "status"} : p'[f] = p[f]
    BY <1>1 DEF ToUndo, Shape, PcapFields
  <2>2. SettingsKept'
    BY <1>1, <2>1 DEF ToUndo, Meant, Shape, MemoryHeld, SettingsKept, Linked, PcapFields
  <2>3. LinkTypeKept' /\ MonitorKept'
    BY <1>1, <2>1 DEF ToUndo, Meant, Shape, ListedToUndo, MemoryHeld, SettingsKept, LinkTypeKept, MonitorKept, HasNewSocket, Linked, CookedTypes, PcapFields
  <2>4. SocketKept'
    BY <1>1, <2>1 DEF ToUndo, Meant, Shape, SocketsHeld, ListedToUndo, MemoryHeld, SettingsKept, SocketKept,
      LinkTypeKept, HasNewSocket, Linked, PcapFields
  <2>5. RingKept'
    BY <1>1, <2>1 DEF ToUndo, Meant, Shape, MemoryHeld, RingKept, PcapFields
  <2> QED
    BY <2>2, <2>3, <2>4, <2>5 DEF Meant
<1>2. CASE at = "buffer" /\ Fail(PCAP_ERROR)
  BY <1>2, FailMeans
<1> QED
  BY <1>1, <1>2 DEF AllocateBuffer

\* What has come about is what is activated.
LEMMA ActivatedMeans ==
  ASSUME ToUndo, Meant, Activated
  PROVE  Meant'
<1>1. CASE /\ at = "opened" /\ p' = [p EXCEPT !.life = "activated"]
           /\ Goto("idle")
           /\ UNCHANGED <<sys, iface>>
  <2>1. /\ DOMAIN p' = PcapFields
        /\ p'.life = "activated"
        /\ \A f \in PcapFields \ {"life"} : p'[f] = p[f]
    BY <1>1 DEF ToUndo, Shape, PcapFields
  <2>2. SettingsKept'
    BY <1>1, <2>1 DEF ToUndo, Meant, Shape, MemoryHeld, SettingsKept, Linked, PcapFields
  <2>3. LinkTypeKept' /\ MonitorKept'
    BY <1>1, <2>1 DEF ToUndo, Meant, Shape, ListedToUndo, MemoryHeld, SettingsKept, LinkTypeKept, MonitorKept, HasNewSocket, Linked, CookedTypes, PcapFields
  <2>4. SocketKept'
    BY <1>1, <2>1 DEF ToUndo, Meant, Shape, SocketsHeld, ListedToUndo, MemoryHeld, SettingsKept, SocketKept,
      LinkTypeKept, HasNewSocket, Linked, PcapFields
  <2>5. /\ p'.ring = p.ring /\ p'.opt = p.opt /\ p'.features = p.features /\ p'.cooked = p.cooked
        /\ DOMAIN p = PcapFields /\ DOMAIN p' = PcapFields
        /\ p'.linktype = p.linktype \/ {p.linktype, p'.linktype} \subseteq {"EN10MB", "DOCSIS"}
    BY <1>1, <2>1 DEF ToUndo, Shape, PcapFields, Meant, LinkTypeKept, SettingsKept, HasNewSocket
  <2>6. RingFits(p) => RingFits(p')
    BY <2>5, RingFitsStill
  <2>7. RingKept'
    BY <1>1, <2>1, <2>5, <2>6 DEF ToUndo, Meant, Shape, MemoryHeld, RingKept, PcapFields
  <2> QED
    BY <2>2, <2>3, <2>4, <2>7 DEF Meant
<1> QED
  BY <1>1 DEF Activated

\* One of the link-layer types of the list is as good as another.
LEMMA SetDatalinkMeans ==
  ASSUME ToUndo, Meant, pcap_set_datalink
  PROVE  Meant'
<1>1. ASSUME p.life = "activated", NEW dlt \in p.dlts, p' = [p EXCEPT !.linktype = dlt],
             UNCHANGED <<sys, iface, at>>
      PROVE  Meant'

  <2>1. /\ DOMAIN p' = PcapFields
        /\ p'.linktype = dlt
        /\ \A f \in PcapFields \ {"linktype"} : p'[f] = p[f]
    BY <1>1 DEF ToUndo, Shape, PcapFields
  <2>2. SettingsKept'
    BY <1>1, <2>1 DEF ToUndo, Meant, Shape, MemoryHeld, SettingsKept, Linked, PcapFields
  <2>3. LinkTypeKept' /\ MonitorKept'
    BY <1>1, <2>1 DEF ToUndo, Meant, Shape, ListedToUndo, MemoryHeld, SettingsKept, LinkTypeKept, MonitorKept, HasNewSocket, Linked, CookedTypes, PcapFields
  <2>4. SocketKept'
    BY <1>1, <2>1 DEF ToUndo, Meant, Shape, SocketsHeld, ListedToUndo, MemoryHeld, SettingsKept, SocketKept,
      LinkTypeKept, HasNewSocket, Linked, PcapFields
  <2>5. ASSUME p.mode = "mmap"
        PROVE  RingFits(p')
    <3>1. p.life = "activated" /\ RingFits(p) /\ HasNewSocket
      BY <1>1, <2>5 DEF Meant, RingKept, HasNewSocket
    <3>2. {p.linktype, p'.linktype} \subseteq {"EN10MB", "DOCSIS"}
      BY <1>1, <2>1, <3>1 DEF Meant, LinkTypeKept, SettingsKept
    <3>3. /\ p'.ring = p.ring /\ p'.opt = p.opt /\ p'.features = p.features /\ p'.cooked = p.cooked
          /\ DOMAIN p = PcapFields /\ DOMAIN p' = PcapFields
      BY <2>1 DEF ToUndo, Shape, PcapFields
    <3> QED
      BY <3>1, <3>2, <3>3, RingFitsStill
  <2>6. RingKept'
    BY <1>1, <2>1, <2>5 DEF ToUndo, Meant, Shape, MemoryHeld, RingKept, PcapFields
  <2> QED
    BY <2>2, <2>3, <2>4, <2>6 DEF Meant
<1> QED
  BY <1>1 DEF pcap_set_datalink

\* What may be asked for can be held.
LEMMA OptionsFit ==
  ASSUME NEW device \in Devices, NEW opt \in Options[device]
  PROVE  opt \in Settings /\ FitsBlocks(opt)
<1>1. /\ opt \in Settings /\ TpHdrLen + MaxLinkHeader + opt.snapshot + 128 <= PageSize * 2 ^ 8
      /\ TpHdrLen \in Nat /\ MaxLinkHeader \in Nat /\ PageSize * 2 ^ 8 \in Nat
  BY ActivateAssumption
<1>2. opt.snapshot \in Nat
  BY <1>1 DEF Settings
<1>3. Most(opt.snapshot, SLL_HDR_LEN + 1) <= opt.snapshot + 17 /\ Most(opt.snapshot, SLL_HDR_LEN + 1) \in Nat
  BY <1>2 DEF Most, SLL_HDR_LEN
<1> QED
  BY <1>1, <1>2, <1>3 DEF FitsBlocks

LEMMA NoPcapMeans ==
  ASSUME p' = NoPcap, at' = "idle", sys'.mapped \in BOOLEAN, sys'.listed \in BOOLEAN
  PROVE  Meant'
<1>1. /\ DOMAIN p' = PcapFields /\ p'.life = "none" /\ p'.mode = "packet" /\ p'.dlts = {} /\ p'.must = {}
      /\ p'.cooked = FALSE /\ p'.ring.frame_nr = 0 /\ p'.device = "none"
  BY DEF NoPcap, NewPcap, NoRing, PcapFields
<1>2. SettingsKept'
  BY <1>1 DEF SettingsKept
<1>3. LinkTypeKept' /\ SocketKept' /\ MonitorKept' /\ RingKept'
  BY <1>1 DEF LinkTypeKept, SocketKept, MonitorKept, RingKept, HasNewSocket, Linked
<1> QED
  BY <1>2, <1>3 DEF Meant

LEMMA CreateMeans ==
  ASSUME ToUndo, pcap_create
  PROVE  Meant'
<1>1. PICK device \in Devices : \E opt \in Options[device], features \in Kernels[device] :
        p' = NewPcap(device, opt, features) /\ sys' = NewSys /\ at' = at
  BY DEF pcap_create
<1>2. PICK opt \in Options[device], features \in Kernels[device] : p' = NewPcap(device, opt, features)
  BY <1>1
<1>3. /\ p'.life = "created" /\ p'.mode = "packet" /\ p'.dlts = {} /\ p'.must = {}
      /\ p'.cooked = FALSE /\ p'.ring.frame_nr = 0 /\ p'.device = device /\ p'.opt = opt
  BY <1>2 DEF NewPcap, NoRing
<1>4. at' = "idle"
  BY <1>1 DEF pcap_create, ToUndo, Shape
<1>5. sys'.mapped = FALSE /\ sys'.listed = FALSE
  BY <1>1 DEF NewSys
<1>6. SettingsKept'
  BY <1>3, <1>4, <1>5, OptionsFit DEF SettingsKept
<1>7. LinkTypeKept' /\ SocketKept' /\ MonitorKept' /\ RingKept'
  BY <1>3, <1>4 DEF LinkTypeKept, SocketKept, MonitorKept, RingKept, HasNewSocket, Linked
<1> QED
  BY <1>6, <1>7 DEF Meant


LEMMA SetMeans ==
  ASSUME ToUndo, Meant, pcap_set
  PROVE  Meant'
<1>1. ASSUME p.life = "failed", at = "idle", NEW opt, opt \in Settings, FitsBlocks(opt),
             p' = [p EXCEPT !.opt = opt, !.life = "created"],
             UNCHANGED <<sys, iface, at>>
      PROVE  Meant'

  <2>1. /\ DOMAIN p' = PcapFields
        /\ p'.opt = opt /\ p'.life = "created"
        /\ \A f \in PcapFields \ {"opt", "life"} : p'[f] = p[f]
    BY <1>1 DEF ToUndo, Shape, PcapFields
  <2>2. SettingsKept'
    BY <1>1, <2>1 DEF ToUndo, Meant, Shape, MemoryHeld, SettingsKept, Linked, PcapFields
  <2>3. LinkTypeKept' /\ MonitorKept'
    BY <1>1, <2>1 DEF ToUndo, Meant, Shape, ListedToUndo, MemoryHeld, SettingsKept, LinkTypeKept, MonitorKept, HasNewSocket, Linked, CookedTypes, PcapFields
  <2>4. SocketKept'
    BY <1>1, <2>1 DEF ToUndo, Meant, Shape, SocketsHeld, ListedToUndo, MemoryHeld, SettingsKept, SocketKept,
      LinkTypeKept, HasNewSocket, Linked, PcapFields
  <2>5. RingKept'
    BY <1>1, <2>1 DEF ToUndo, Meant, Shape, MemoryHeld, RingKept, PcapFields
  <2> QED
    BY <2>2, <2>3, <2>4, <2>5 DEF Meant
<1>2. p.device \in Devices
  BY DEF pcap_set, Meant, SettingsKept
<1> QED
  BY <1>1, <1>2, OptionsFit DEF pcap_set

LEMMA OwnPromisc ==
  ASSUME NEW opt \in Settings, FitsBlocks(opt), NEW promisc \in BOOLEAN
  PROVE  LET own == [opt EXCEPT !.promisc = promisc]
         IN  own \in Settings /\ FitsBlocks(own) /\ own.promisc = promisc
<1> DEFINE own == [opt EXCEPT !.promisc = promisc]
<1>1. own \in Settings /\ own.promisc = promisc /\ own.snapshot = opt.snapshot
  BY DEF Settings
<1> HIDE DEF own
<1>2. FitsBlocks(own)
  BY <1>1 DEF FitsBlocks
<1> QED
  BY <1>1, <1>2 DEF own

LEMMA ActivateMeans ==
  ASSUME ToUndo, Meant, pcap_activate
  PROVE  Meant'
<1>1. ASSUME p.life = "created", NEW promisc \in BOOLEAN, promisc => p.device # "any", NEW mem,
             p' = [p EXCEPT !.life = "activating", !.mem = mem, !.opt.promisc = promisc],
             Goto("socket"), at = "idle", UNCHANGED <<sys, iface>>
      PROVE  Meant'

  <2>1. /\ DOMAIN p' = PcapFields
        /\ p'.opt \in Settings /\ FitsBlocks(p'.opt)
        /\ p'.opt.promisc = promisc /\ p'.life = "activating"
        /\ \A f \in PcapFields \ {"life", "mem", "opt"} : p'[f] = p[f]
    BY <1>1, OwnPromisc DEF ToUndo, Shape, PcapFields, Meant, SettingsKept
  <2>2. SettingsKept'
    BY <1>1, <2>1 DEF ToUndo, Meant, Shape, MemoryHeld, SettingsKept, Linked, PcapFields
  <2>3. LinkTypeKept' /\ MonitorKept'
    BY <1>1, <2>1 DEF ToUndo, Meant, Shape, ListedToUndo, MemoryHeld, SettingsKept, LinkTypeKept, MonitorKept, HasNewSocket, Linked, CookedTypes, PcapFields
  <2>4. SocketKept'
    BY <1>1, <2>1 DEF ToUndo, Meant, Shape, SocketsHeld, ListedToUndo, MemoryHeld, SettingsKept, SocketKept,
      LinkTypeKept, HasNewSocket, Linked, PcapFields
  <2>5. RingKept'
    BY <1>1, <2>1 DEF ToUndo, Meant, Shape, MemoryHeld, RingKept, PcapFields
  <2> QED
    BY <2>2, <2>3, <2>4, <2>5 DEF Meant
<1>2. p.opt.promisc \in BOOLEAN
  BY DEF pcap_activate, Meant, SettingsKept, Settings
<1> QED
  BY <1>1, <1>2 DEF pcap_activate

LEMMA CloseMeans ==
  ASSUME ToUndo, Meant, pcap_close
  PROVE  Meant'
<1>1. DOMAIN sys = SysFields /\ sys.mapped \in BOOLEAN /\ sys.listed \in BOOLEAN
  BY DEF ToUndo, Shape, Meant, SettingsKept
<1>2. ASSUME NEW s, Flags(s), NEW lost, sys' = [s EXCEPT !.lost = lost]
      PROVE  sys'.mapped \in BOOLEAN /\ sys'.listed \in BOOLEAN
  BY <1>2 DEF Flags, SysFields
<1>3. Flags(pcap_cleanup_linux(sys))
  BY <1>1, CleanupGives DEF Flags
<1>4. Flags(pcap_cleanup_linux_mmap(sys))
  BY LocalClosedFlags, CleanupGives DEF Flags, pcap_cleanup_linux_mmap
<1>5. Flags(pcap_cleanup_live_common(sys))
  BY <1>1 DEF Flags, pcap_cleanup_live_common, SysFields
<1>6. sys'.mapped \in BOOLEAN /\ sys'.listed \in BOOLEAN
  <2>1. CASE p.life = "activated"
    <3> DEFINE s == IF p.mode = "mmap" THEN pcap_cleanup_linux_mmap(sys) ELSE pcap_cleanup_linux(sys)
    <3>1. Flags(s)
      BY <1>3, <1>4
    <3>2. sys' = [s EXCEPT !.lost = s.lost \cup (CleanedMemory(p.mem, p.mode) \ {"source"})]
      BY <2>1 DEF pcap_close, Close
    <3> HIDE DEF s
    <3> QED
      BY <1>2, <3>1, <3>2
  <2>2. CASE p.life # "activated"
    <3> DEFINE s == pcap_cleanup_live_common(sys)
    <3>1. sys' = [s EXCEPT !.lost = s.lost \cup (p.mem \ (LiveMemory \cup {"source"}))]
      BY <2>2 DEF pcap_close, Close
    <3> HIDE DEF s
    <3> QED
      BY <1>2, <1>5, <3>1 DEF s
  <2> QED
    BY <2>1, <2>2
<1> QED
  BY <1>6, NoPcapMeans DEF pcap_close, Close

LEMMA ExitMeans ==
  ASSUME ToUndo, Exit
  PROVE  Meant'
<1>1. sys'.mapped = FALSE /\ sys'.listed = FALSE
  BY DEF Exit, NewSys
<1>2. at' = "idle"
  BY DEF Exit, ToUndo, Shape
<1> QED
  BY <1>1, <1>2, NoPcapMeans DEF Exit, Close

LEMMA InitMeant == ActivateInit => Meant
<1> SUFFICES ASSUME ActivateInit PROVE Meant
  OBVIOUS
<1>1. /\ p.life = "none" /\ p.mode = "packet" /\ p.dlts = {} /\ p.must = {} /\ p.cooked = FALSE
      /\ p.ring.frame_nr = 0 /\ p.device = "none" /\ at = "idle"
      /\ sys.mapped = FALSE /\ sys.listed = FALSE
  BY DEF ActivateInit, NoPcap, NewPcap, NoRing, NewSys
<1>2. SettingsKept
  BY <1>1 DEF SettingsKept
<1>3. LinkTypeKept /\ SocketKept /\ MonitorKept /\ RingKept
  BY <1>1 DEF LinkTypeKept, SocketKept, MonitorKept, RingKept, HasNewSocket, Linked
<1> QED
  BY <1>2, <1>3 DEF Meant

LEMMA SameMeant ==
  ASSUME Meant, UNCHANGED activateVars
  PROVE  Meant'
BY DEF Meant, SettingsKept, LinkTypeKept, SocketKept, MonitorKept, RingKept, HasNewSocket, activateVars,
  RingFits, Longest, BytesOfPacket, tp_reserve

LEMMA StepMeant == ToUndo /\ Meant /\ [ActivateNext]_vars => Meant'
<1> SUFFICES ASSUME ToUndo, Meant, [ActivateNext]_vars PROVE Meant'
  OBVIOUS
<1>1. CASE activate_new
  BY <1>1, OpenSocketMeans, AnyDeviceMeans, FindPhyMeans, AddMonitorMeans, BringMonitorUpMeans, FindDriverMeans,
    GetModeMeans, PrismMeans, TakeDownMeans, SetModeMeans, AskForHeadersMeans, BringUpMeans, GetArpTypeMeans,
    ReopenMeans, BindMeans, JoinPromiscMeans, AskForTagsMeans
    DEF activate_new, enter_rfmon_mode, enter_rfmon_mode_mac80211, enter_rfmon_mode_wext
<1>2. CASE activate_mmap
  BY <1>2, AllocateOneshotMeans, PrepareSocketMeans, SetTimeStampsMeans, AskForRingMeans, TryRingMeans,
    MapRingMeans, ListFramesMeans DEF activate_mmap
<1>3. CASE activate_old
  BY <1>3, OpenOldMeans, BindOldMeans, PromiscOldMeans, MtuOldMeans DEF activate_old
<1>4. CASE pcap_activate_linux
  BY <1>1, <1>2, <1>3, <1>4, SetBufferSizeMeans, AllocateBufferMeans, ActivatedMeans DEF pcap_activate_linux
<1>5. CASE pcap_create \/ pcap_set \/ pcap_activate \/ pcap_set_datalink \/ pcap_close \/ Exit
  BY <1>5, CreateMeans, SetMeans, ActivateMeans, SetDatalinkMeans, CloseMeans, ExitMeans
<1>6. CASE Capture \/ UNCHANGED vars
  BY <1>6, SameMeant DEF Capture, vars
<1> QED
  BY <1>4, <1>5, <1>6 DEF ActivateNext


-----------------------------------------------------------------------------
(* What reading depends on stays as the activation left it. *)

\* The fields of the two records, the snapshot length and the slots of the ring.
LaidOut(h, k) == DOMAIN h = HandleFields /\ DOMAIN k = KernelFields
SameLayout ==
  /\ LaidOut(handle', kernel')
  /\ handle'.snapshot = handle.snapshot /\ DOMAIN kernel'.frames = DOMAIN kernel.frames

\* A packet that arrives goes into a slot that is there.
LEMMA ReceivedStays ==
  ASSUME NEW k, NEW pkt, NEW snap, DOMAIN k = KernelFields
  PROVE  LET r == Received(k, pkt, snap) IN DOMAIN r = KernelFields /\ DOMAIN r.frames = DOMAIN k.frames
<1> DEFINE counted == [k EXCEPT !.packets = @ + 1, !.arrivals = @ + 1]
<1>1. DOMAIN counted = KernelFields /\ counted.frames = k.frames
  BY DEF KernelFields
<1> HIDE DEF counted
<1>2. ASSUME NEW fr
      PROVE  DOMAIN Enqueued(counted, fr) = KernelFields /\ DOMAIN Enqueued(counted, fr).frames = DOMAIN k.frames
  BY <1>1 DEF Enqueued, KernelFields
<1>3. DOMAIN [counted EXCEPT !.drops = @ + 1] = KernelFields /\ [counted EXCEPT !.drops = @ + 1].frames = k.frames
  BY <1>1 DEF KernelFields
<1> QED
  BY <1>2, <1>3 DEF Received, counted

LEMMA UseStays ==
  ASSUME LaidOut(handle, kernel), Use
  PROVE  SameLayout
<1>1. ASSUME NEW pkt, Deliver(pkt), UNCHANGED handle
      PROVE  SameLayout
  BY <1>1, ReceivedStays DEF Deliver, SameLayout, LaidOut
<1>2. CASE pcap_loop \/ pcap_dispatch \/ pcap_next
  BY <1>2 DEF pcap_loop, pcap_dispatch, pcap_next, Begin, SameLayout, LaidOut
<1>3. CASE pcap_setfilter
  BY <1>3 DEF pcap_setfilter, StartSetFilter, SameLayout, LaidOut, HandleFields, KernelFields
<1>4. CASE pcap_setdirection \/ pcap_setnonblock
  BY <1>4 DEF pcap_setdirection, pcap_setnonblock, SameLayout, LaidOut, HandleFields, KernelFields
<1>5. CASE pcap_inject
  BY <1>1, <1>5 DEF pcap_inject, Operation
<1>6. CASE pcap_stats
  <2>1. DOMAIN WithDrops(handle) = HandleFields /\ WithDrops(handle).snapshot = handle.snapshot
    BY DEF WithDrops, LaidOut, HandleFields
  <2>2. ASSUME NEW h, DOMAIN h = HandleFields
        PROVE  DOMAIN WithCounts(h) = HandleFields /\ WithCounts(h).snapshot = h.snapshot
    BY <2>2 DEF WithCounts, HandleFields
  <2>3. /\ handle' \in {WithDrops(handle), WithCounts(WithDrops(handle))}
        /\ kernel' \in {kernel, [kernel EXCEPT !.packets = 0, !.drops = 0]}
    BY <1>6 DEF pcap_stats
  <2>4. DOMAIN kernel' = KernelFields /\ kernel'.frames = kernel.frames
    BY <2>3 DEF LaidOut, KernelFields
  <2>5. DOMAIN handle' = HandleFields /\ handle'.snapshot = handle.snapshot
    BY <2>1, <2>2, <2>3
  <2> QED
    BY <2>4, <2>5 DEF SameLayout, LaidOut
<1> QED
  BY <1>2, <1>3, <1>4, <1>5, <1>6 DEF Use

LEMMA ReadStays ==
  ASSUME LaidOut(handle, kernel), Read
  PROVE  SameLayout
<1>1. CASE BreakBeforeReading \/ FirstFrame \/ PollReturns \/ BreakBetweenFrames \/ NoMoreFrames \/ ReadWouldBlock
  BY <1>1 DEF BreakBeforeReading, FirstFrame, PollReturns, BreakBetweenFrames, NoMoreFrames, ReadWouldBlock, Broken,
    SameLayout, LaidOut, HandleFields
<1>2. CASE ReadPacket
  BY <1>2 DEF ReadPacket, SameLayout, LaidOut, HandleFields, KernelFields
<1>3. CASE ReadFails \/ PollFails
  BY <1>3 DEF ReadFails, PollFails, SameLayout, LaidOut, KernelFields
<1>4. CASE ReadFrame
  <2>1. kernel' = [kernel EXCEPT !.frames[handle.offset] = None]
    BY <1>4 DEF ReadFrame
  <2>2. DOMAIN AfterFiltering = HandleFields /\ AfterFiltering.snapshot = handle.snapshot
    BY DEF AfterFiltering, LaidOut, HandleFields
  <2>3. PICK read : handle' = [AfterFiltering EXCEPT !.offset = NextSlot(@), !.packets_read = @ + read]
    BY <1>4 DEF ReadFrame
  <2>4. DOMAIN handle' = HandleFields /\ handle'.snapshot = handle.snapshot
    BY <2>2, <2>3 DEF HandleFields
  <2> QED
    BY <2>1, <2>4 DEF SameLayout, LaidOut, KernelFields
<1> QED
  BY <1>1, <1>2, <1>3, <1>4 DEF Read

LEMMA SetStays ==
  ASSUME LaidOut(handle, kernel), Set
  PROVE  SameLayout
<1>1. CASE Drain
  BY <1>1 DEF Drain, SameLayout, LaidOut, KernelFields
<1>2. CASE Attach
  BY <1>2 DEF Attach, SameLayout, LaidOut, HandleFields, KernelFields
<1> QED
  BY <1>1, <1>2 DEF Set

LEMMA EnvironmentStays ==
  ASSUME LaidOut(handle, kernel), Environment
  PROVE  SameLayout
<1>1. CASE Arrive
  BY <1>1, ReceivedStays DEF Arrive, Deliver, SameLayout, LaidOut
<1>2. CASE GoDown \/ DropOnDevice
  BY <1>2 DEF GoDown, DropOnDevice, SameLayout, LaidOut, KernelFields
<1>3. CASE pcap_breakloop \/ PollInterrupted
  BY <1>3 DEF pcap_breakloop, PollInterrupted, Broken, SameLayout, LaidOut, HandleFields
<1> QED
  BY <1>1, <1>2, <1>3 DEF Environment

LEMMA NewKernelIs ==
  ASSUME NEW features, NEW cc
  PROVE  DOMAIN NewKernel(features, cc) = KernelFields /\ DOMAIN NewKernel(features, cc).frames = SlotsOf(cc)
BY DEF NewKernel, KernelFields

LEMMA InitHandleKept == ActivateInit => HandleKept
<1> SUFFICES ASSUME ActivateInit PROVE HandleKept
  OBVIOUS
<1>1. DOMAIN handle = HandleFields
  BY DEF ActivateInit, IsOpened, Unopened, Opened, HandleFields
<1>2. DOMAIN kernel = KernelFields
  BY NewKernelIs DEF ActivateInit, IsOpened
<1>3. p.life = "none"
  BY DEF ActivateInit, NoPcap, NewPcap
<1> QED
  BY <1>1, <1>2, <1>3 DEF HandleKept

\* A step of an activation is not its last, unless that has failed.
LEMMA EndsAtOnce ==
  ASSUME ToUndo, pcap_activate_linux, ~Activated
  PROVE  at' # "idle" \/ p'.life = "failed"
<1>1. \A s, mem, status : FailAfter(s, mem, status) => p'.life = "failed"
  BY DEF FailAfter, ToUndo, Shape, PcapFields
<1>2. /\ \A status : Fail(status) \/ FailNew(status) => p'.life = "failed"
      /\ \A status : FailUnrestored(status) => p'.life = "failed"
      /\ \A s, status : FailMmap(s, status) => p'.life = "failed"
  BY <1>1 DEF Fail, FailNew, FailUnrestored, FailMmap
<1>3. CASE OpenSocket \/ AnyDevice \/ FindPhy \/ AddMonitor \/ BringMonitorUp
  BY <1>1, <1>2, <1>3 DEF OpenSocket, AnyDevice, FindPhy, AddMonitor, BringMonitorUp, Goto
<1>4. CASE FindDriver \/ GetMode \/ Prism \/ TakeDown \/ AskForHeaders \/ BringUp
  BY <1>1, <1>2, <1>4 DEF FindDriver, GetMode, Prism, TakeDown, AskForHeaders, BringUp, Goto
<1>5. CASE SetMode
  BY <1>5 DEF SetMode, Goto, ToUndo, Shape, PcapFields
<1>6. CASE GetArpType \/ Reopen \/ Bind \/ JoinPromisc \/ AskForTags
  BY <1>1, <1>2, <1>6 DEF GetArpType, Reopen, Bind, JoinPromisc, AskForTags, Goto
<1>7. CASE activate_mmap
  BY <1>1, <1>2, <1>7 DEF activate_mmap, AllocateOneshot, PrepareSocket, SetTimeStamps, AskForRing, TryRing, MapRing,
    ListFrames, Goto, Step
<1>8. CASE activate_old \/ SetBufferSize \/ AllocateBuffer
  BY <1>1, <1>2, <1>8 DEF activate_old, OpenOld, BindOld, PromiscOld, MtuOld, SetBufferSize, AllocateBuffer, Goto
<1> QED
  BY <1>3, <1>4, <1>5, <1>6, <1>7, <1>8 DEF pcap_activate_linux, activate_new, enter_rfmon_mode,
    enter_rfmon_mode_mac80211, enter_rfmon_mode_wext

LEMMA StepHandleKept == ToUndo /\ HandleKept /\ [ActivateNext]_vars => HandleKept'
<1> SUFFICES ASSUME ToUndo, HandleKept, [ActivateNext]_vars PROVE HandleKept'
  OBVIOUS
<1>1. CASE Capture
  <2>1. SameLayout /\ p' = p
    BY <1>1, UseStays, ReadStays, SetStays, EnvironmentStays DEF Capture, CaptureNext, HandleKept, LaidOut, activateVars
  <2> QED
    BY <2>1 DEF SameLayout, LaidOut, HandleKept
<1>2. CASE pcap_close \/ Exit
  <2>1. handle' = Unopened /\ kernel' = NewKernel({}, 0) /\ p' = NoPcap
    BY <1>2 DEF pcap_close, Close, Exit
  <2>2. DOMAIN handle' = HandleFields /\ p'.life = "none"
    BY <2>1 DEF Unopened, Opened, HandleFields, NoPcap, NewPcap
  <2> QED
    BY <2>1, <2>2, NewKernelIs DEF HandleKept
<1>3. CASE Activated
  <2>1. handle' = Opened(p.mode, p.device = "any", p.cooked, p.opt.snapshot, p.opt.timeout, p.opt.promisc, p.ring.frame_nr)
    BY <1>3 DEF Activated
  <2>2. DOMAIN handle' = HandleFields /\ handle'.snapshot = p.opt.snapshot
    BY <2>1 DEF Opened, HandleFields
  <2> DEFINE opened == NewKernel(p.features, p.ring.frame_nr)
  <2>3. DOMAIN opened = KernelFields /\ DOMAIN opened.frames = SlotsOf(p.ring.frame_nr)
    BY NewKernelIs
  <2>4. kernel' = opened \/ \E pkt \in Early : kernel' = Received(opened, pkt, Len(Raw(handle', pkt)))
    BY <1>3 DEF Activated
  <2> HIDE DEF opened
  <2>5. DOMAIN kernel' = KernelFields /\ DOMAIN kernel'.frames = SlotsOf(p.ring.frame_nr)
    BY <2>3, <2>4, ReceivedStays
  <2>6. p'.opt = p.opt /\ p'.ring = p.ring
    BY <1>3 DEF Activated, ToUndo, Shape, PcapFields
  <2> QED
    BY <2>2, <2>5, <2>6 DEF HandleKept
<1>4. ASSUME UNCHANGED <<handle, kernel>>, p'.life # "activated" \/ UNCHANGED <<p>> \/ (p'.opt = p.opt /\ p'.ring = p.ring /\ p'.life = p.life)
      PROVE  HandleKept'
  BY <1>4 DEF HandleKept
<1>5. CASE pcap_create \/ pcap_set \/ pcap_activate \/ pcap_set_datalink
  <2>1. UNCHANGED <<handle, kernel>>
    BY <1>5 DEF pcap_create, pcap_set, pcap_activate, pcap_set_datalink, captureVars
  <2>2. CASE pcap_create
    BY <1>4, <2>1, <2>2 DEF pcap_create, NewPcap
  <2>3. CASE pcap_set \/ pcap_activate
    <3>1. p'.life \in {"created", "activating"}
      BY <2>3 DEF pcap_set, pcap_activate, ToUndo, Shape, PcapFields
    <3> QED
      BY <1>4, <2>1, <3>1
  <2>4. CASE pcap_set_datalink
    BY <1>4, <2>1, <2>4 DEF pcap_set_datalink, ToUndo, Shape, PcapFields
  <2> QED
    BY <1>5, <2>2, <2>3, <2>4
<1>6. CASE pcap_activate_linux /\ ~Activated
  <2>1. UNCHANGED captureVars /\ at # "idle"
    BY <1>6 DEF pcap_activate_linux, activate_new, activate_mmap, activate_old, enter_rfmon_mode,
      enter_rfmon_mode_mac80211, enter_rfmon_mode_wext, OpenSocket, AnyDevice, FindPhy, AddMonitor, BringMonitorUp,
      FindDriver, GetMode, Prism, TakeDown, SetMode, AskForHeaders, BringUp, GetArpType, Reopen, Bind, JoinPromisc,
      AskForTags, AllocateOneshot, PrepareSocket, SetTimeStamps, AskForRing, TryRing, MapRing, ListFrames, OpenOld,
      BindOld, PromiscOld, MtuOld, SetBufferSize, AllocateBuffer, Step
  <2>2. p'.life # "activated"
    <3>1. ToUndo'
      BY StepToUndo
    <3>2. at' # "idle" \/ p'.life = "failed"
      BY <1>6, EndsAtOnce
    <3> QED
      BY <3>1, <3>2 DEF ToUndo, Shape
  <2> QED
    BY <1>4, <2>1, <2>2 DEF captureVars
<1>7. CASE UNCHANGED vars
  BY <1>4, <1>7 DEF vars, captureVars, activateVars
<1> QED
  BY <1>1, <1>2, <1>3, <1>5, <1>6, <1>7 DEF ActivateNext


-----------------------------------------------------------------------------
LEMMA MeantIsEnough == ToUndo /\ Meant /\ HandleKept => AsAsked
<1> SUFFICES ASSUME ToUndo, Meant, HandleKept PROVE AsAsked
  OBVIOUS
<1>1. LinkTypeTells
  <2> SUFFICES ASSUME p.life = "activated" PROVE LinkTypeTells
    BY DEF LinkTypeTells
  <2>1. at = "idle" /\ Owns /\ (p.mode # "sock_packet" => HasNewSocket)
    BY DEF ToUndo, Shape, HasNewSocket
  <2>2. p.mode # "sock_packet" => (p.cooked <=> p.linktype \in {"LINUX_SLL", "LINUX_IRDA", "LINUX_LAPD"})
    BY <2>1 DEF Meant, LinkTypeKept, CookedTypes
  <2>3. /\ p.cooked => sys.fd.is = "dgram" /\ p.opt.snapshot > SLL_HDR_LEN
        /\ sys.fd.bound <=> p.device # "any"
        /\ p.opt.promisc => p.device # "any" /\ (sys.fd.member \/ iface.promisc)
    BY <2>1 DEF Meant, SocketKept, SettingsKept
  <2>4. p.opt.rfmon => p.mode = "sock_packet" \/ ((iface.mode = "monitor" \/ sys.monif) /\ p.device # "any")
    BY <2>1 DEF Meant, MonitorKept
  <2> QED
    BY <2>2, <2>3, <2>4 DEF LinkTypeTells
<1>2. RingHolds
  <2> SUFFICES ASSUME p.life = "activated", p.mode = "mmap" PROVE RingHolds
    BY DEF RingHolds
  <2>1. p.ring.frame_nr > 0 /\ RingFits(p)
    BY DEF Meant, RingKept
  <2>2. LongestPacket = Longest(p)
    BY DEF LongestPacket, Longest
  <2>3. handle.snapshot = p.opt.snapshot /\ DOMAIN kernel.frames = 0 .. p.ring.frame_nr - 1
    BY DEF HandleKept, SlotsOf
  <2> QED
    BY <2>1, <2>2, <2>3 DEF RingHolds, RingFits
<1> QED
  BY <1>1, <1>2 DEF AsAsked

\* For any devices, kernels, options and private calls, however an activation went that has not
\* failed: the link-layer type tells how packets are laid out, the socket is bound, promiscuous and
\* in monitor mode as asked, and every frame of the ring has room for what will be put into it.
THEOREM ActivatedAsAsked == ActivateSpec => []AsAsked
<1>1. ActivateInit => ToUndo /\ Meant /\ HandleKept
  BY InitToUndo, InitMeant, InitHandleKept
<1>2. ToUndo /\ Meant /\ HandleKept /\ [ActivateNext]_vars => ToUndo' /\ Meant' /\ HandleKept'
  BY StepToUndo, StepMeant, StepHandleKept
<1> QED
  BY <1>1, <1>2, MeantIsEnough, PTL DEF ActivateSpec

-----------------------------------------------------------------------------
(* The ring and the queue, and what the counters have counted: the invariant from which
   Consistent follows. *)

\* Where reading and the kernel are in the ring, and what there is room for.
Positioned(h, k) ==
  /\ h.cc \in Nat /\ DOMAIN k.frames = SlotsOf(h.cc)
  /\ h.offset \in Nat /\ (h.offset = 0 \/ h.offset < h.cc)
  /\ k.head \in Nat /\ (k.head = 0 \/ k.head < h.cc)
  /\ h.use_bpf \in 0 .. h.cc + 1
  /\ h.direction \in {"in", "out", "inout"} /\ h.break_loop \in BOOLEAN
  /\ h.mode = "mmap" => h.cc > 0 /\ k.queue = <<>>
  /\ h.mode # "mmap" => \A s \in DOMAIN k.frames : k.frames[s] = None
  /\ k.queue \in Seq(ToSet(k.queue)) /\ Len(k.queue) <= QueueRoom

\* No packet is in two places.
Distinct(k) ==
  /\ k.arrivals \in Nat
  /\ None \notin ToSet(k.queue)
  /\ \A fr \in InKernel(k) : fr.id \in 1 .. k.arrivals
  /\ \A i, j \in DOMAIN k.queue : i # j => k.queue[i] # k.queue[j]
  /\ \A s, t \in DOMAIN k.frames : s # t /\ k.frames[s] # None => k.frames[s] # k.frames[t]

\* What Accounted says.
Summed(h, k) ==
  /\ {h.packets_read, k.packets, k.drops, k.ifdrops, h.proc_dropped} \subseteq Nat
  /\ DOMAIN h.stat = {"recv", "drop", "ifdrop"}
  /\ {h.stat.recv, h.stat.drop, h.stat.ifdrop} \subseteq Int
  /\ IsFiniteSet(InKernel(k))
  /\ "stats" \in k.features => h.stat.recv + k.packets = k.arrivals
  /\ h.packets_read + h.stat.drop + k.drops + Cardinality(InKernel(k)) <= k.arrivals
  /\ h.promisc => h.stat.ifdrop = h.proc_dropped /\ h.proc_dropped <= k.ifdrops

\* The number of frames that reading takes before it gets to a slot.
Ahead(h, s) == IF s >= h.offset THEN s - h.offset ELSE s - h.offset + h.cc

\* The frames that are taken are those from where reading is up to where the kernel is, or all of
\* them, and the packets in them are in the order of arrival, as are those of a queue.
RingInTurn(h, k) ==
  /\ k.frames[k.head] # None => k.head = h.offset
  /\ \A s \in DOMAIN k.frames : k.frames[s] # None <=> (k.frames[k.head] # None \/ Ahead(h, s) < Ahead(h, k.head))
  /\ \A s, t \in DOMAIN k.frames :
       k.frames[s] # None /\ k.frames[t] # None /\ Ahead(h, s) < Ahead(h, t) => k.frames[s].id < k.frames[t].id
QueueInTurn(q) == \A i, j \in DOMAIN q : i < j => q[i].id < q[j].id
InTurn(h, k) == QueueInTurn(k.queue) /\ (h.mode = "mmap" => RingInTurn(h, k))

Fitting(h, k) == Positioned(h, k) /\ Distinct(k) /\ Summed(h, k) /\ InTurn(h, k)

\* The thread waits for frames, or takes them, only if there is a ring.
InRingSteps == {"first", "poll", "frames", "between"}

Counting ==
  /\ LaidOut(handle, kernel) /\ Fitting(handle, kernel)
  /\ call.at \in InRingSteps => Mapped
  /\ p.life # "activated" => handle = Unopened /\ kernel = NewKernel({}, 0)

\* A set that grows or loses by one.
LEMMA OneMore ==
  ASSUME NEW S, NEW T, NEW x, IsFiniteSet(S), T \subseteq S \cup {x}
  PROVE  IsFiniteSet(T) /\ Cardinality(T) \in Nat /\ Cardinality(T) <= Cardinality(S) + 1
<1>1. IsFiniteSet(S \cup {x}) /\ Cardinality(S \cup {x}) <= Cardinality(S) + 1 /\ Cardinality(S) \in Nat
  <2>1. IsFiniteSet(S \cup {x}) /\ Cardinality(S \cup {x}) = IF x \in S THEN Cardinality(S) ELSE Cardinality(S) + 1
    BY FS_AddElement
  <2>2. Cardinality(S) \in Nat
    BY FS_CardinalityType
  <2> QED
    BY <2>1, <2>2
<1>2. IsFiniteSet(T) /\ Cardinality(T) <= Cardinality(S \cup {x})
  BY <1>1, FS_Subset
<1>3. Cardinality(T) \in Nat /\ Cardinality(S \cup {x}) \in Nat
  BY <1>1, <1>2, FS_CardinalityType
<1> QED
  BY <1>1, <1>2, <1>3

LEMMA OneLess ==
  ASSUME NEW S, NEW T, NEW x \in S, IsFiniteSet(S), T \subseteq S \ {x}
  PROVE  IsFiniteSet(T) /\ Cardinality(T) \in Nat /\ Cardinality(T) + 1 <= Cardinality(S)
<1>1. IsFiniteSet(S \ {x}) /\ Cardinality(S \ {x}) = Cardinality(S) - 1
  BY FS_RemoveElement
<1>2. IsFiniteSet(T) /\ Cardinality(T) <= Cardinality(S \ {x})
  BY <1>1, FS_Subset
<1>3. Cardinality(T) \in Nat /\ Cardinality(S) \in Nat
  BY <1>2, FS_CardinalityType
<1> QED
  BY <1>1, <1>2, <1>3

LEMMA NoneMore ==
  ASSUME NEW S, NEW T, IsFiniteSet(S), T \subseteq S
  PROVE  IsFiniteSet(T) /\ Cardinality(T) \in Nat /\ Cardinality(T) <= Cardinality(S)
BY FS_Subset, FS_CardinalityType

\* Queues.
LEMMA OwnElements ==
  ASSUME NEW S, NEW q \in Seq(S)
  PROVE  q \in Seq(ToSet(q)) /\ ToSet(q) = {q[i] : i \in 1 .. Len(q)}
<1>1. ToSet(q) = {q[i] : i \in 1 .. Len(q)}
  BY DEF ToSet
<1>2. Len(q) \in Nat /\ q \in [1 .. Len(q) -> ToSet(q)]
  BY <1>1
<1> QED
  BY <1>1, <1>2

LEMMA Appended ==
  ASSUME NEW q, q \in Seq(ToSet(q)), NEW x
  PROVE  /\ Append(q, x) \in Seq(ToSet(Append(q, x))) /\ Len(Append(q, x)) = Len(q) + 1
         /\ ToSet(Append(q, x)) = ToSet(q) \cup {x}
         /\ \A i \in 1 .. Len(q) : Append(q, x)[i] = q[i]
         /\ Append(q, x)[Len(q) + 1] = x /\ DOMAIN Append(q, x) = 1 .. Len(q) + 1
<1> DEFINE S == ToSet(q) \cup {x}
           r == Append(q, x)
<1>1. q \in Seq(S) /\ x \in S
  BY OwnElements
<1> HIDE DEF S
<1>2. r \in Seq(S) /\ Len(r) = Len(q) + 1 /\ (\A i \in 1 .. Len(q) : r[i] = q[i]) /\ r[Len(q) + 1] = x
  BY <1>1
<1>3. r \in Seq(ToSet(r)) /\ ToSet(r) = {r[i] : i \in 1 .. Len(r)}
  BY <1>2, OwnElements
<1>4. ToSet(q) = {q[i] : i \in 1 .. Len(q)} /\ Len(q) \in Nat
  BY OwnElements
<1>5. ToSet(r) = ToSet(q) \cup {x}
  <2>1. ASSUME NEW y \in ToSet(r)
        PROVE  y \in ToSet(q) \cup {x}
    <3>1. PICK i \in 1 .. Len(q) + 1 : y = r[i]
      BY <1>2, <1>3
    <3>2. i \in 1 .. Len(q) \/ i = Len(q) + 1
      BY <1>4
    <3> QED
      BY <1>2, <1>4, <3>1, <3>2
  <2>2. ASSUME NEW i \in 1 .. Len(q)
        PROVE  q[i] \in ToSet(r)
    <3>1. i \in 1 .. Len(r) /\ q[i] = r[i]
      BY <1>2, <1>4
    <3> QED
      BY <1>3, <3>1
  <2>3. x \in ToSet(r)
    <3>1. Len(q) + 1 \in 1 .. Len(r) /\ r[Len(q) + 1] = x
      BY <1>2, <1>4
    <3> QED
      BY <1>3, <3>1
  <2> QED
    BY <1>4, <2>1, <2>2, <2>3
<1>6. DOMAIN r = 1 .. Len(q) + 1
  BY <1>2, LenProperties
<1> QED
  BY <1>2, <1>3, <1>5, <1>6

LEMMA TailOf ==
  ASSUME NEW q, q \in Seq(ToSet(q)), q # <<>>
  PROVE  /\ Tail(q) \in Seq(ToSet(Tail(q))) /\ Len(Tail(q)) = Len(q) - 1
         /\ \A i \in 1 .. Len(q) - 1 : Tail(q)[i] = q[i + 1]
         /\ DOMAIN Tail(q) = 1 .. Len(q) - 1 /\ DOMAIN q = 1 .. Len(q) /\ Len(q) \in Nat \ {0}
         /\ ToSet(Tail(q)) = {q[i] : i \in 2 .. Len(q)} /\ Head(q) = q[1]
         /\ ToSet(q) = {q[i] : i \in 1 .. Len(q)}
<1>1. /\ Tail(q) \in Seq(ToSet(q)) /\ Len(Tail(q)) = Len(q) - 1 /\ Len(q) \in Nat \ {0}
      /\ \A i \in 1 .. Len(q) - 1 : Tail(q)[i] = q[i + 1]
      /\ Head(q) = q[1] /\ DOMAIN q = 1 .. Len(q)
  OBVIOUS
<1>2. /\ Tail(q) \in Seq(ToSet(Tail(q))) /\ ToSet(Tail(q)) = {Tail(q)[i] : i \in 1 .. Len(Tail(q))}
      /\ ToSet(q) = {q[i] : i \in 1 .. Len(q)}
  <2>1. Tail(q) \in Seq(ToSet(Tail(q))) /\ ToSet(Tail(q)) = {Tail(q)[i] : i \in 1 .. Len(Tail(q))}
    BY <1>1, OwnElements
  <2>2. ToSet(q) = {q[i] : i \in 1 .. Len(q)}
    BY OwnElements
  <2> QED
    BY <2>1, <2>2
<1>3. {Tail(q)[i] : i \in 1 .. Len(q) - 1} = {q[i] : i \in 2 .. Len(q)}
  <2>1. \A i \in 1 .. Len(q) - 1 : i + 1 \in 2 .. Len(q) /\ Tail(q)[i] = q[i + 1]
    BY <1>1
  <2>2. \A i \in 2 .. Len(q) : i - 1 \in 1 .. Len(q) - 1 /\ Tail(q)[i - 1] = q[i]
    BY <1>1
  <2> QED
    BY <2>1, <2>2
<1>4. DOMAIN Tail(q) = 1 .. Len(q) - 1
  BY <1>1
<1> QED
  BY <1>1, <1>2, <1>3, <1>4

\* A step that leaves the packets and the counters alone.
Alike(h, k, i, l) ==
  /\ i.mode = h.mode /\ i.cc = h.cc /\ i.offset = h.offset /\ i.packets_read = h.packets_read
  /\ i.proc_dropped = h.proc_dropped /\ i.stat = h.stat /\ i.promisc = h.promisc
  /\ i.use_bpf \in 0 .. i.cc + 1 /\ i.direction \in {"in", "out", "inout"} /\ i.break_loop \in BOOLEAN
  /\ l.features = k.features /\ l.queue = k.queue /\ l.frames = k.frames /\ l.head = k.head
  /\ l.arrivals = k.arrivals /\ l.packets = k.packets /\ l.drops = k.drops
  /\ l.ifdrops \in Nat /\ l.ifdrops >= k.ifdrops

LEMMA AlikeCounts ==
  ASSUME NEW h, NEW k, NEW i, NEW l, Alike(h, k, i, l), Fitting(h, k)
  PROVE  Fitting(i, l)
<1>1. InKernel(l) = InKernel(k)
  BY DEF Alike, InKernel
<1>2. Positioned(i, l)
  BY DEF Positioned, Alike, Fitting
<1>3. Distinct(l)
  BY <1>1 DEF Distinct, Alike, Fitting
<1>4. Summed(i, l)
  BY <1>1 DEF Summed, Alike, Fitting
<1>5. InTurn(i, l)
  BY DEF InTurn, RingInTurn, Ahead, Alike, Fitting
<1> QED
  BY <1>2, <1>3, <1>4, <1>5 DEF Fitting

\* A packet that arrives has a number of its own.
LEMMA FrameIsNew ==
  ASSUME NEW pkt, NEW snap, Distinct(kernel)
  PROVE  /\ Frame(pkt, snap) # None /\ Frame(pkt, snap).id = kernel.arrivals + 1
         /\ Frame(pkt, snap) \notin InKernel(kernel)
<1>1. Frame(pkt, snap).is = "packet" /\ Frame(pkt, snap).id = kernel.arrivals + 1 /\ None.is = "none"
  BY DEF Frame, None
<1>2. \A fr \in InKernel(kernel) : fr.id <= kernel.arrivals
  BY DEF Distinct
<1>3. kernel.arrivals \in Nat
  BY DEF Distinct
<1> QED
  BY <1>1, <1>2, <1>3

LEMMA InRing ==
  ASSUME NEW k
  PROVE  /\ \A s \in DOMAIN k.frames : k.frames[s] # None => k.frames[s] \in InKernel(k)
         /\ \A fr \in ToSet(k.queue) : fr # None => fr \in InKernel(k)
         /\ \A fr \in InKernel(k) : fr # None /\ (fr \in ToSet(k.queue) \/ \E s \in DOMAIN k.frames : fr = k.frames[s])
BY DEF InKernel

\* Its coming is counted, and one more packet is in the kernel, or was dropped.
LEMMA ReceivedSums ==
  ASSUME NEW h, NEW k, NEW l, Summed(h, k), k.arrivals \in Nat, l.drops \in Nat,
         l.packets = k.packets + 1, l.arrivals = k.arrivals + 1, l.ifdrops = k.ifdrops, l.features = k.features,
         IsFiniteSet(InKernel(l)), Cardinality(InKernel(l)) \in Nat, Cardinality(InKernel(k)) \in Nat,
         l.drops + Cardinality(InKernel(l)) <= k.drops + Cardinality(InKernel(k)) + 1
  PROVE  Summed(h, l)
<1>1. {h.packets_read, l.packets, l.drops, l.ifdrops, h.proc_dropped} \subseteq Nat
  BY DEF Summed
<1>2. "stats" \in l.features => h.stat.recv + l.packets = l.arrivals
  BY DEF Summed
<1>3. h.packets_read + h.stat.drop + l.drops + Cardinality(InKernel(l)) <= l.arrivals
  BY DEF Summed
<1> QED
  BY <1>1, <1>2, <1>3 DEF Summed

\* A ring of frames, of which one is where reading is and one where the kernel is.
InsideRing(h, k) ==
  /\ h.cc \in Nat \ {0} /\ DOMAIN k.frames = SlotsOf(h.cc)
  /\ h.offset \in SlotsOf(h.cc) /\ k.head \in SlotsOf(h.cc)

LEMMA PositionedInside ==
  ASSUME NEW h, NEW k, Positioned(h, k), h.mode = "mmap"
  PROVE  InsideRing(h, k)
BY DEF Positioned, InsideRing, SlotsOf

LEMMA AheadIs ==
  ASSUME NEW h, NEW cc \in Nat \ {0}, h.cc = cc, h.offset \in 0 .. cc - 1
  PROVE  /\ \A s \in 0 .. cc - 1 : Ahead(h, s) \in 0 .. cc - 1 /\ (Ahead(h, s) = 0 <=> s = h.offset)
         /\ \A s, t \in 0 .. cc - 1 : s # t => Ahead(h, s) # Ahead(h, t)
BY DEF Ahead

LEMMA WrapsAround ==
  ASSUME NEW cc \in Nat \ {0}, NEW s \in 0 .. cc - 1
  PROVE  (s + 1) % cc = IF s + 1 = cc THEN 0 ELSE s + 1
<1>1. s + 1 = cc => cc % cc = 0
  OBVIOUS
<1>2. ASSUME NEW n \in 0 .. cc - 1 PROVE n % cc = n
  OBVIOUS
<1> QED
  BY <1>1, <1>2

\* The kernel puts a packet of a higher number where it is.
LEMMA RingGrows ==
  ASSUME NEW h, NEW k, NEW l, NEW fr, InsideRing(h, k), RingInTurn(h, k), fr # None, k.frames[k.head] = None,
         \A s \in DOMAIN k.frames : k.frames[s] # None => k.frames[s].id < fr.id,
         l.frames = [k.frames EXCEPT ![k.head] = fr], l.head = (k.head + 1) % h.cc
  PROVE  RingInTurn(h, l)
<1> DEFINE A(s) == Ahead(h, s)
<1>0. PICK cc \in Nat \ {0}, hd \in Nat, o \in Nat :
        {hd, o} \subseteq 0 .. cc - 1 /\ cc = h.cc /\ hd = k.head /\ o = h.offset /\ DOMAIN k.frames = 0 .. cc - 1
  BY DEF InsideRing, SlotsOf
<1>1. /\ DOMAIN l.frames = 0 .. cc - 1 /\ l.frames[hd] = fr
      /\ \A s \in 0 .. cc - 1 : s # hd => l.frames[s] = k.frames[s]
  BY <1>0
<1>2. l.head = IF hd + 1 = cc THEN 0 ELSE hd + 1
  BY <1>0, WrapsAround
<1>3. /\ \A s \in 0 .. cc - 1 : A(s) \in 0 .. cc - 1 /\ (A(s) = 0 <=> s = h.offset)
      /\ \A s, t \in 0 .. cc - 1 : s # t => A(s) # A(t)
  BY <1>0, AheadIs
<1>4. l.head \in 0 .. cc - 1 /\ A(l.head) = IF A(hd) + 1 = cc THEN 0 ELSE A(hd) + 1
  <2>1. \A s \in 0 .. cc - 1 : A(s) = IF s >= o THEN s - o ELSE s - o + cc
    BY <1>0 DEF Ahead
  <2> HIDE DEF A
  <2>2. hd \in 0 .. cc - 1 /\ o \in 0 .. cc - 1
    BY <1>0
  <2>3. A(hd) = IF hd >= o THEN hd - o ELSE hd - o + cc
    BY <2>1, <2>2
  <2>4. CASE hd + 1 = cc
    <3>1. l.head = 0 /\ 0 \in 0 .. cc - 1
      BY <1>2, <2>4
    <3>2. A(0) = IF 0 >= o THEN 0 - o ELSE 0 - o + cc
      BY <2>1, <3>1
    <3> QED
      BY <2>2, <2>3, <2>4, <3>1, <3>2
  <2>5. CASE hd + 1 # cc
    <3>1. l.head = hd + 1 /\ hd + 1 \in 0 .. cc - 1
      BY <1>2, <2>2, <2>5
    <3>2. A(hd + 1) = IF hd + 1 >= o THEN hd + 1 - o ELSE hd + 1 - o + cc
      BY <2>1, <3>1
    <3> QED
      BY <2>2, <2>3, <2>5, <3>1, <3>2
  <2> QED
    BY <2>4, <2>5
<1>5. /\ \A s \in 0 .. cc - 1 : k.frames[s] # None <=> A(s) < A(hd)
      /\ \A s, t \in 0 .. cc - 1 : k.frames[s] # None /\ k.frames[t] # None /\ A(s) < A(t) => k.frames[s].id < k.frames[t].id
  BY <1>0 DEF RingInTurn
<1> HIDE DEF A
<1>6. \A s \in 0 .. cc - 1 : l.frames[s] # None <=> A(s) <= A(hd)
  <2> SUFFICES ASSUME NEW s \in 0 .. cc - 1
               PROVE  l.frames[s] # None <=> A(s) <= A(hd)
    OBVIOUS
  <2>1. CASE s = hd
    BY <1>1, <1>3, <2>1
  <2>2. CASE s # hd
    <3>1. A(s) # A(hd) /\ A(s) \in 0 .. cc - 1 /\ A(hd) \in 0 .. cc - 1
      BY <1>0, <1>3, <2>2
    <3>2. l.frames[s] # None <=> A(s) < A(hd)
      BY <1>1, <1>5, <2>2
    <3> QED
      BY <3>1, <3>2
  <2> QED
    BY <2>1, <2>2
<1>7. l.frames[l.head] # None => l.head = h.offset
  <2>1. A(hd) \in 0 .. cc - 1
    BY <1>0, <1>3
  <2>2. l.frames[l.head] # None => A(l.head) <= A(hd)
    BY <1>4, <1>6
  <2> QED
    BY <1>3, <1>4, <2>1, <2>2
<1>8. \A s \in 0 .. cc - 1 : l.frames[s] # None <=> (l.frames[l.head] # None \/ A(s) < A(l.head))
  <2>1. A(hd) \in 0 .. cc - 1
    BY <1>0, <1>3
  <2>2. CASE A(hd) + 1 = cc
    <3>1. \A s \in 0 .. cc - 1 : l.frames[s] # None
      BY <1>3, <1>6, <2>1, <2>2
    <3> QED
      BY <1>4, <3>1
  <2>3. CASE A(hd) + 1 # cc
    <3>1. A(l.head) = A(hd) + 1 /\ l.head \in 0 .. cc - 1
      BY <1>4, <2>3
    <3>2. \A s \in 0 .. cc - 1 : A(s) <= A(hd) <=> A(s) < A(l.head)
      BY <1>3, <2>1, <3>1
    <3>3. l.frames[l.head] = None
      BY <1>6, <2>1, <3>1
    <3> QED
      BY <1>6, <3>2, <3>3
  <2> QED
    BY <2>2, <2>3
<1>9. ASSUME NEW s \in 0 .. cc - 1, NEW t \in 0 .. cc - 1, l.frames[s] # None, l.frames[t] # None, A(s) < A(t)
      PROVE  l.frames[s].id < l.frames[t].id
  <2>1. A(s) \in 0 .. cc - 1 /\ A(t) \in 0 .. cc - 1 /\ A(hd) \in 0 .. cc - 1 /\ A(t) <= A(hd)
    BY <1>0, <1>3, <1>6, <1>9
  <2>2. s # hd /\ l.frames[s] = k.frames[s]
    BY <1>1, <1>9, <2>1
  <2>3. CASE t = hd
    BY <1>0, <1>1, <1>9, <2>2, <2>3
  <2>4. CASE t # hd
    BY <1>1, <1>5, <1>9, <2>2, <2>4
  <2> QED
    BY <2>3, <2>4
<1> QED
  <2>1. DOMAIN l.frames = 0 .. cc - 1
    BY <1>1
  <2> QED
    BY <1>7, <1>8, <1>9, <2>1 DEF RingInTurn, A

\* Reading takes the packet out that it is at.
LEMMA RingShrinks ==
  ASSUME NEW h, NEW k, NEW i, NEW l, InsideRing(h, k), RingInTurn(h, k), k.frames[h.offset] # None,
         i.cc = h.cc, i.offset = (IF h.offset + 1 >= h.cc THEN 0 ELSE h.offset + 1),
         l.frames = [k.frames EXCEPT ![h.offset] = None], l.head = k.head
  PROVE  RingInTurn(i, l)
<1> DEFINE A(s) == Ahead(h, s)
           B(s) == Ahead(i, s)
<1>0. PICK cc \in Nat \ {0}, hd \in Nat, o \in Nat :
        {hd, o} \subseteq 0 .. cc - 1 /\ cc = h.cc /\ hd = k.head /\ o = h.offset /\ DOMAIN k.frames = 0 .. cc - 1
  BY DEF InsideRing, SlotsOf
<1>1. /\ DOMAIN l.frames = 0 .. cc - 1 /\ l.frames[o] = None
      /\ \A s \in 0 .. cc - 1 : s # o => l.frames[s] = k.frames[s]
  BY <1>0
<1>2. /\ \A s \in 0 .. cc - 1 : A(s) \in 0 .. cc - 1 /\ (A(s) = 0 <=> s = o)
      /\ \A s, t \in 0 .. cc - 1 : s # t => A(s) # A(t)
  BY <1>0, AheadIs
<1>3. B(o) = cc - 1 /\ \A s \in 0 .. cc - 1 : s # o => B(s) = A(s) - 1
  <2>1. PICK n \in Nat : n = i.offset /\ n = IF o + 1 >= cc THEN 0 ELSE o + 1
    BY <1>0
  <2>2. \A s \in 0 .. cc - 1 : /\ A(s) = IF s >= o THEN s - o ELSE s - o + cc
                               /\ B(s) = IF s >= n THEN s - n ELSE s - n + cc
    BY <1>0, <2>1 DEF Ahead
  <2> HIDE DEF A, B
  <2>3. o \in 0 .. cc - 1
    BY <1>0
  <2>4. B(o) = cc - 1
    BY <2>1, <2>2, <2>3
  <2>5. ASSUME NEW s \in 0 .. cc - 1, s # o
        PROVE  B(s) = A(s) - 1
    <3>1. /\ A(s) = IF s >= o THEN s - o ELSE s - o + cc
          /\ B(s) = IF s >= n THEN s - n ELSE s - n + cc
      BY <2>2
    <3> QED
      BY <2>1, <2>3, <2>5, <3>1
  <2> QED
    BY <2>4, <2>5
<1>4. /\ \A s \in 0 .. cc - 1 : k.frames[s] # None <=> (k.frames[hd] # None \/ A(s) < A(hd))
      /\ \A s, t \in 0 .. cc - 1 : k.frames[s] # None /\ k.frames[t] # None /\ A(s) < A(t) => k.frames[s].id < k.frames[t].id
      /\ k.frames[hd] # None => hd = o
      /\ k.frames[o] # None
  BY <1>0 DEF RingInTurn
<1> HIDE DEF A, B
<1>5. l.frames[hd] = None
  BY <1>0, <1>1, <1>4
<1>6. ASSUME NEW s \in 0 .. cc - 1
      PROVE  l.frames[s] # None <=> B(s) < B(hd)
  <2>1. A(s) \in 0 .. cc - 1 /\ A(hd) \in 0 .. cc - 1
    BY <1>0, <1>2
  <2>2. CASE hd = o
    <3>1. s # o => l.frames[s] # None /\ B(s) < cc - 1
      BY <1>0, <1>1, <1>3, <1>4, <2>1, <2>2
    <3> QED
      BY <1>0, <1>1, <1>3, <2>2, <3>1
  <2>3. CASE hd # o
    <3>1. B(hd) = A(hd) - 1
      BY <1>0, <1>3, <2>3
    <3>2. CASE s = o
      BY <1>0, <1>1, <1>3, <2>1, <3>1, <3>2
    <3>3. CASE s # o
      <4>1. B(s) = A(s) - 1 /\ l.frames[s] = k.frames[s]
        BY <1>0, <1>1, <1>3, <3>3
      <4>2. k.frames[s] # None <=> A(s) < A(hd)
        BY <1>0, <1>4, <2>3
      <4>3. B(s) < B(hd) <=> A(s) < A(hd)
        BY <1>0, <2>1, <3>1, <4>1
      <4> QED
        BY <4>1, <4>2, <4>3
    <3> QED
      BY <3>2, <3>3
  <2> QED
    BY <2>2, <2>3
<1>7. ASSUME NEW s \in 0 .. cc - 1, NEW t \in 0 .. cc - 1, l.frames[s] # None, l.frames[t] # None, B(s) < B(t)
      PROVE  l.frames[s].id < l.frames[t].id
  <2>1. s # o /\ t # o
    BY <1>0, <1>1, <1>7
  <2>2. A(s) < A(t)
    <3>1. A(s) \in 0 .. cc - 1 /\ A(t) \in 0 .. cc - 1 /\ B(s) = A(s) - 1 /\ B(t) = A(t) - 1
      BY <1>0, <1>2, <1>3, <2>1
    <3> QED
      BY <1>7, <3>1
  <2>3. l.frames[s] = k.frames[s] /\ l.frames[t] = k.frames[t]
    BY <1>1, <2>1
  <2>4. k.frames[s].id < k.frames[t].id
    BY <1>4, <1>7, <2>2, <2>3
  <2> QED
    BY <2>3, <2>4
<1> QED
  <2>1. DOMAIN l.frames = 0 .. cc - 1 /\ l.head = hd
    BY <1>0, <1>1
  <2> QED
    BY <1>0, <1>5, <1>6, <1>7, <2>1 DEF RingInTurn, B

\* A packet of a higher number is put into a queue, and the first is taken out.
LEMMA QueueGrows ==
  ASSUME NEW q, q \in Seq(ToSet(q)), NEW x, QueueInTurn(q), \A i \in 1 .. Len(q) : q[i].id < x.id
  PROVE  QueueInTurn(Append(q, x))
<1> DEFINE r == Append(q, x)
<1>1. /\ \A i \in 1 .. Len(q) : r[i] = q[i]
      /\ r[Len(q) + 1] = x /\ DOMAIN r = 1 .. Len(q) + 1 /\ Len(q) \in Nat /\ DOMAIN q = 1 .. Len(q)
  BY Appended
<1> HIDE DEF r
<1>2. ASSUME NEW i \in 1 .. Len(q) + 1, NEW j \in 1 .. Len(q) + 1, i < j
      PROVE  r[i].id < r[j].id
  <2>1. i \in 1 .. Len(q) /\ r[i] = q[i]
    BY <1>1, <1>2
  <2>2. CASE j = Len(q) + 1
    BY <1>1, <2>1, <2>2
  <2>3. CASE j # Len(q) + 1
    <3>1. j \in 1 .. Len(q) /\ r[j] = q[j]
      BY <1>1, <2>3
    <3> QED
      BY <1>1, <1>2, <2>1, <3>1 DEF QueueInTurn
  <2> QED
    BY <2>2, <2>3
<1> QED
  BY <1>1, <1>2 DEF QueueInTurn, r

LEMMA QueueShrinks ==
  ASSUME NEW q, q \in Seq(ToSet(q)), q # <<>>, QueueInTurn(q)
  PROVE  QueueInTurn(Tail(q))
<1> DEFINE r == Tail(q)
<1>1. /\ \A i \in 1 .. Len(q) - 1 : r[i] = q[i + 1]
      /\ DOMAIN r = 1 .. Len(q) - 1 /\ Len(q) \in Nat \ {0} /\ DOMAIN q = 1 .. Len(q)
  BY TailOf
<1> HIDE DEF r
<1>2. ASSUME NEW i \in 1 .. Len(q) - 1, NEW j \in 1 .. Len(q) - 1, i < j
      PROVE  r[i].id < r[j].id
  <2>1. i + 1 \in 1 .. Len(q) /\ j + 1 \in 1 .. Len(q) /\ i + 1 < j + 1
    BY <1>1, <1>2
  <2>2. q[i + 1].id < q[j + 1].id
    BY <1>1, <2>1 DEF QueueInTurn
  <2> QED
    BY <1>1, <2>2
<1> QED
  BY <1>1, <1>2 DEF QueueInTurn, r

\* Where it goes, none was, and it is counted.
LEMMA IntoRing ==
  ASSUME NEW l, NEW fr, LaidOut(handle, kernel), Fitting(handle, kernel), Mapped,
         fr # None, fr.id = kernel.arrivals + 1, kernel.frames[kernel.head] = None,
         l = [kernel EXCEPT !.packets = @ + 1, !.arrivals = @ + 1, !.frames[kernel.head] = fr,
                            !.head = (kernel.head + 1) % handle.cc]
  PROVE  Fitting(handle, l) /\ InKernel(kernel) \subseteq InKernel(l)
<1>0. Positioned(handle, kernel) /\ Distinct(kernel) /\ Summed(handle, kernel) /\ InTurn(handle, kernel)
  BY DEF Fitting
<1>1. /\ l.packets = kernel.packets + 1 /\ l.arrivals = kernel.arrivals + 1 /\ l.drops = kernel.drops
      /\ l.frames = [kernel.frames EXCEPT ![kernel.head] = fr] /\ l.head = (kernel.head + 1) % handle.cc
      /\ l.queue = kernel.queue /\ l.ifdrops = kernel.ifdrops /\ l.features = kernel.features
  BY DEF LaidOut, KernelFields
<1>2. /\ kernel.head \in DOMAIN kernel.frames /\ DOMAIN l.frames = DOMAIN kernel.frames /\ l.frames[kernel.head] = fr
      /\ \A s \in DOMAIN kernel.frames \ {kernel.head} : l.frames[s] = kernel.frames[s]
  BY <1>0, <1>1 DEF Positioned, SlotsOf, Mapped
<1>3. l.head \in Nat /\ l.head < handle.cc
  BY <1>0, <1>1 DEF Positioned, Mapped
<1>4. Positioned(handle, l)
  BY <1>0, <1>1, <1>2, <1>3 DEF Positioned, Mapped
<1>5. ASSUME NEW f \in InKernel(l), f # fr
      PROVE  f \in InKernel(kernel)
  <2>1. CASE f \in ToSet(l.queue)
    BY <1>1, <2>1, InRing
  <2>2. CASE \E s \in DOMAIN l.frames : f = l.frames[s]
    <3>1. PICK s \in DOMAIN l.frames : f = l.frames[s]
      BY <2>2
    <3>2. f = kernel.frames[s] /\ s \in DOMAIN kernel.frames
      BY <1>2, <1>5, <3>1
    <3> QED
      BY <3>2, <1>5, InRing
  <2> QED
    BY <1>5, <2>1, <2>2 DEF InKernel
<1>6. kernel.arrivals \in Nat /\ \A f \in InKernel(kernel) : f.id \in 1 .. kernel.arrivals
  BY <1>0 DEF Distinct
<1>7. \A f \in InKernel(l) : f.id \in 1 .. l.arrivals
  BY <1>1, <1>5, <1>6
<1>8. ASSUME NEW s \in DOMAIN l.frames, NEW t \in DOMAIN l.frames, s # t, l.frames[s] # None
      PROVE  l.frames[s] # l.frames[t]
  <2>1. \A u \in DOMAIN kernel.frames : kernel.frames[u] # fr
    BY <1>6, InRing
  <2> QED
    BY <1>0, <1>2, <1>8, <2>1 DEF Distinct
<1>9. Distinct(l)
  BY <1>0, <1>1, <1>6, <1>7, <1>8 DEF Distinct
<1>10. IsFiniteSet(InKernel(l)) /\ Cardinality(InKernel(l)) \in Nat
       /\ Cardinality(InKernel(l)) <= Cardinality(InKernel(kernel)) + 1
  BY <1>0, <1>5, OneMore DEF Summed
<1>11. Cardinality(InKernel(kernel)) \in Nat /\ kernel.drops \in Nat
  BY <1>0, FS_CardinalityType DEF Summed
<1>12. Summed(handle, l)
  <2>1. /\ Cardinality(InKernel(l)) \in Nat /\ Cardinality(InKernel(kernel)) \in Nat /\ l.drops \in Nat
        /\ l.drops + Cardinality(InKernel(l)) <= kernel.drops + Cardinality(InKernel(kernel)) + 1
    BY <1>1, <1>10, <1>11
  <2>2. /\ l.packets = kernel.packets + 1 /\ l.arrivals = kernel.arrivals + 1 /\ l.ifdrops = kernel.ifdrops
        /\ l.features = kernel.features /\ kernel.arrivals \in Nat
    BY <1>1, <1>6
  <2> QED
    BY <1>0, <1>10, <2>1, <2>2, ReceivedSums
<1>13. InTurn(handle, l)
  <2>1. \A s \in DOMAIN kernel.frames : kernel.frames[s] # None => kernel.frames[s].id < fr.id
    BY <1>6, InRing
  <2>2. InsideRing(handle, kernel) /\ RingInTurn(handle, kernel) /\ QueueInTurn(l.queue)
    BY <1>0, <1>1, PositionedInside DEF InTurn, Mapped
  <2>3. RingInTurn(handle, l)
    BY <1>1, <2>1, <2>2, RingGrows
  <2> QED
    BY <2>2, <2>3 DEF InTurn
<1>14. InKernel(kernel) \subseteq InKernel(l)
  <2> SUFFICES ASSUME NEW f \in InKernel(kernel) PROVE f \in InKernel(l)
    OBVIOUS
  <2>1. CASE f \in ToSet(kernel.queue)
    BY <1>1, <2>1, InRing
  <2>2. CASE \E s \in DOMAIN kernel.frames : f = kernel.frames[s]
    <3>1. PICK s \in DOMAIN kernel.frames : f = kernel.frames[s]
      BY <2>2
    <3>2. f # None /\ s # kernel.head
      BY <3>1, InRing
    <3> QED
      BY <1>2, <3>1, <3>2, InRing
  <2> QED
    BY <2>1, <2>2, InRing
<1> QED
  BY <1>4, <1>9, <1>12, <1>13, <1>14 DEF Fitting

LEMMA IntoQueue ==
  ASSUME NEW l, NEW fr, LaidOut(handle, kernel), Fitting(handle, kernel), ~Mapped,
         fr # None, fr.id = kernel.arrivals + 1, Len(kernel.queue) < QueueRoom,
         l = [kernel EXCEPT !.packets = @ + 1, !.arrivals = @ + 1, !.queue = Append(@, fr)]
  PROVE  Fitting(handle, l) /\ InKernel(kernel) \subseteq InKernel(l)
<1>0. Positioned(handle, kernel) /\ Distinct(kernel) /\ Summed(handle, kernel) /\ InTurn(handle, kernel)
  BY DEF Fitting
<1>1. /\ l.packets = kernel.packets + 1 /\ l.arrivals = kernel.arrivals + 1 /\ l.drops = kernel.drops
      /\ l.frames = kernel.frames /\ l.head = kernel.head
      /\ l.queue = Append(kernel.queue, fr) /\ l.ifdrops = kernel.ifdrops /\ l.features = kernel.features
  BY DEF LaidOut, KernelFields
<1> DEFINE q == kernel.queue
<1>2. /\ l.queue \in Seq(ToSet(l.queue)) /\ Len(l.queue) = Len(q) + 1 /\ ToSet(l.queue) = ToSet(q) \cup {fr}
      /\ \A i \in 1 .. Len(q) : l.queue[i] = q[i]
      /\ l.queue[Len(q) + 1] = fr /\ DOMAIN l.queue = 1 .. Len(q) + 1 /\ DOMAIN q = 1 .. Len(q) /\ Len(q) \in Nat
  BY <1>0, <1>1, Appended, LenProperties DEF Positioned
<1>3. Positioned(handle, l)
  BY <1>0, <1>1, <1>2, CountAssumption DEF Positioned, Mapped
<1>4. ASSUME NEW f \in InKernel(l), f # fr
      PROVE  f \in InKernel(kernel)
  <2>1. CASE f \in ToSet(l.queue)
    BY <1>2, <1>4, <2>1, InRing
  <2>2. CASE \E s \in DOMAIN l.frames : f = l.frames[s]
    BY <1>1, <1>4, <2>2, InRing
  <2> QED
    BY <1>4, <2>1, <2>2 DEF InKernel
<1>5. kernel.arrivals \in Nat /\ \A f \in InKernel(kernel) : f.id \in 1 .. kernel.arrivals
  BY <1>0 DEF Distinct
<1>6. \A f \in InKernel(l) : f.id \in 1 .. l.arrivals
  BY <1>1, <1>4, <1>5
<1>7. ASSUME NEW i \in DOMAIN l.queue, NEW j \in DOMAIN l.queue, i # j
      PROVE  l.queue[i] # l.queue[j]
  <2>1. \A n \in 1 .. Len(q) : q[n] \in InKernel(kernel) /\ q[n] # fr
    <3>1. ASSUME NEW n \in 1 .. Len(q)
          PROVE  q[n] \in InKernel(kernel)
      BY <1>0, InRing, OwnElements DEF Distinct, Positioned
    <3> QED
      BY <1>5, <3>1
  <2>2. /\ i \in 1 .. Len(q) \/ i = Len(q) + 1
        /\ j \in 1 .. Len(q) \/ j = Len(q) + 1
    BY <1>2
  <2>3. i \in 1 .. Len(q) /\ j \in 1 .. Len(q) => q[i] # q[j]
    BY <1>0, <1>2, <1>7 DEF Distinct
  <2> QED
    BY <1>2, <1>7, <2>1, <2>2, <2>3
<1>8. Distinct(l)
  BY <1>0, <1>1, <1>2, <1>5, <1>6, <1>7 DEF Distinct
<1>9. IsFiniteSet(InKernel(l)) /\ Cardinality(InKernel(l)) \in Nat
      /\ Cardinality(InKernel(l)) <= Cardinality(InKernel(kernel)) + 1
  BY <1>0, <1>4, OneMore DEF Summed
<1>10. Cardinality(InKernel(kernel)) \in Nat /\ kernel.drops \in Nat
  BY <1>0, FS_CardinalityType DEF Summed
<1>11. /\ l.packets = kernel.packets + 1 /\ l.arrivals = kernel.arrivals + 1 /\ l.drops = kernel.drops
       /\ l.ifdrops = kernel.ifdrops /\ l.features = kernel.features /\ kernel.arrivals \in Nat
  BY <1>1, <1>5
<1>12. Summed(handle, l)
  <2>1. /\ Cardinality(InKernel(l)) \in Nat /\ Cardinality(InKernel(kernel)) \in Nat /\ l.drops \in Nat
        /\ l.drops + Cardinality(InKernel(l)) <= kernel.drops + Cardinality(InKernel(kernel)) + 1
    BY <1>9, <1>10, <1>11
  <2> QED
    BY <1>0, <1>9, <1>11, <2>1, ReceivedSums
<1>13. InTurn(handle, l)
  <2>1. \A n \in 1 .. Len(q) : q[n].id < fr.id
    <3>1. ASSUME NEW n \in 1 .. Len(q)
          PROVE  q[n].id < fr.id
      <4>1. q[n] \in InKernel(kernel)
        BY <1>0, InRing, OwnElements DEF Distinct, Positioned
      <4> QED
        BY <1>5, <4>1
    <3> QED
      BY <3>1
  <2>2. QueueInTurn(l.queue)
    BY <1>0, <1>1, <2>1, QueueGrows DEF Positioned, InTurn
  <2> QED
    BY <2>2 DEF InTurn, Mapped
<1>14. InKernel(kernel) \subseteq InKernel(l)
  BY <1>1, <1>2 DEF InKernel
<1> QED
  BY <1>3, <1>8, <1>12, <1>13, <1>14 DEF Fitting

LEMMA ReceivedCounts ==
  ASSUME NEW pkt, NEW snap, LaidOut(handle, kernel), Fitting(handle, kernel)
  PROVE  LET l == Received(kernel, pkt, snap) IN Fitting(handle, l) /\ InKernel(kernel) \subseteq InKernel(l)
<1>0. Positioned(handle, kernel) /\ Distinct(kernel) /\ Summed(handle, kernel) /\ InTurn(handle, kernel)
  BY DEF Fitting
<1> DEFINE counted == [kernel EXCEPT !.packets = @ + 1, !.arrivals = @ + 1]
           fr == Frame(pkt, snap)
           l == Received(kernel, pkt, snap)
<1>1. fr # None /\ fr.id = kernel.arrivals + 1
  BY <1>0, FrameIsNew
<1>2. HasRoom(counted) <=> HasRoom(kernel)
  BY DEF HasRoom, LaidOut, KernelFields
<1>3. CASE HasRoom(kernel) /\ Mapped
  <2>1. l = [kernel EXCEPT !.packets = @ + 1, !.arrivals = @ + 1, !.frames[kernel.head] = fr,
                           !.head = (kernel.head + 1) % handle.cc]
    BY <1>3 DEF Received, Enqueued, HasRoom, LaidOut, KernelFields
  <2>2. kernel.frames[kernel.head] = None
    BY <1>3 DEF HasRoom
  <2> HIDE DEF l, fr
  <2> QED
    BY <1>1, <1>3, <2>1, <2>2, IntoRing DEF l, fr
<1>4. CASE HasRoom(kernel) /\ ~Mapped
  <2>1. l = [kernel EXCEPT !.packets = @ + 1, !.arrivals = @ + 1, !.queue = Append(@, fr)]
    BY <1>4 DEF Received, Enqueued, HasRoom, LaidOut, KernelFields
  <2>2. Len(kernel.queue) < QueueRoom
    BY <1>4 DEF HasRoom
  <2> HIDE DEF l, fr
  <2> QED
    BY <1>1, <1>4, <2>1, <2>2, IntoQueue DEF l, fr
<1>5. CASE ~HasRoom(kernel)
  <2>1. l = [counted EXCEPT !.drops = @ + 1]
    BY <1>5 DEF Received, HasRoom, LaidOut, KernelFields
  <2>2. /\ l.packets = kernel.packets + 1 /\ l.arrivals = kernel.arrivals + 1 /\ l.drops = kernel.drops + 1
        /\ l.frames = kernel.frames /\ l.head = kernel.head /\ l.queue = kernel.queue
        /\ l.ifdrops = kernel.ifdrops /\ l.features = kernel.features
    BY <2>1 DEF LaidOut, KernelFields
  <2> HIDE DEF l
  <2>3. InKernel(l) = InKernel(kernel)
    BY <2>2 DEF InKernel
  <2>4. Positioned(handle, l)
    BY <1>0, <2>2 DEF Positioned
  <2>5. kernel.arrivals \in Nat /\ kernel.drops \in Nat
    BY <1>0 DEF Distinct, Summed
  <2>6. \A f \in InKernel(l) : f.id \in 1 .. l.arrivals
    BY <1>0, <2>2, <2>3, <2>5 DEF Distinct
  <2>7. Distinct(l)
    BY <1>0, <2>2, <2>5, <2>6 DEF Distinct
  <2>8. /\ Cardinality(InKernel(l)) \in Nat /\ Cardinality(InKernel(kernel)) \in Nat /\ l.drops \in Nat
        /\ l.drops + Cardinality(InKernel(l)) <= kernel.drops + Cardinality(InKernel(kernel)) + 1
        /\ IsFiniteSet(InKernel(l))
    <3>1. IsFiniteSet(InKernel(kernel)) /\ Cardinality(InKernel(kernel)) \in Nat
      BY <1>0, FS_CardinalityType DEF Summed
    <3>2. Cardinality(InKernel(l)) = Cardinality(InKernel(kernel)) /\ IsFiniteSet(InKernel(l))
      BY <2>3, <3>1
    <3>3. l.drops \in Nat /\ l.drops + Cardinality(InKernel(l)) <= kernel.drops + Cardinality(InKernel(kernel)) + 1
      BY <2>2, <2>5, <3>1, <3>2
    <3> QED
      BY <3>1, <3>2, <3>3
  <2>9. Summed(handle, l)
    BY <1>0, <2>2, <2>5, <2>8, ReceivedSums
  <2>10. InTurn(handle, l)
    BY <1>0, <2>2 DEF InTurn, RingInTurn
  <2> QED
    BY <2>3, <2>4, <2>7, <2>9, <2>10 DEF l, Fitting
<1> QED
  BY <1>3, <1>4, <1>5

\* One packet less in the kernel, and one more read at most.
LEMMA ReadSums ==
  ASSUME NEW h, NEW k, NEW i, NEW l, Summed(h, k), k.arrivals \in Nat,
         i.proc_dropped = h.proc_dropped, i.stat = h.stat, i.promisc = h.promisc,
         i.packets_read \in {h.packets_read, h.packets_read + 1},
         l.features = k.features, l.arrivals = k.arrivals, l.packets = k.packets, l.drops = k.drops,
         l.ifdrops = k.ifdrops, IsFiniteSet(InKernel(l)), Cardinality(InKernel(l)) \in Nat,
         Cardinality(InKernel(l)) + 1 <= Cardinality(InKernel(k))
  PROVE  Summed(i, l)
<1>1. Cardinality(InKernel(k)) \in Nat
  BY FS_CardinalityType DEF Summed
<1>2. {i.packets_read, l.packets, l.drops, l.ifdrops, i.proc_dropped} \subseteq Nat
  BY DEF Summed
<1>3. i.packets_read + i.stat.drop + l.drops + Cardinality(InKernel(l)) <= l.arrivals
  BY <1>1 DEF Summed
<1> QED
  BY <1>2, <1>3 DEF Summed

\* A packet that is taken out was there once.
LEMMA OutOfQueue ==
  ASSUME NEW i, NEW l, Fitting(handle, kernel),
         kernel.queue # <<>>,
         \A f \in {"mode", "cc", "offset", "proc_dropped", "stat", "promisc", "use_bpf", "direction", "break_loop"} :
           i[f] = handle[f],
         i.packets_read \in {handle.packets_read, handle.packets_read + 1},
         \A f \in {"features", "frames", "head", "arrivals", "packets", "drops", "ifdrops"} : l[f] = kernel[f],
         l.queue = Tail(kernel.queue)
  PROVE  Fitting(i, l) /\ \A f \in InKernel(kernel) : f \in InKernel(l) \/ f = Head(kernel.queue)
<1>0. Positioned(handle, kernel) /\ Distinct(kernel) /\ Summed(handle, kernel) /\ InTurn(handle, kernel)
  BY DEF Fitting
<1> DEFINE q == kernel.queue
           fr == Head(q)
<1>1. /\ i.mode = handle.mode /\ i.cc = handle.cc /\ i.offset = handle.offset /\ i.proc_dropped = handle.proc_dropped
      /\ i.stat = handle.stat /\ i.promisc = handle.promisc /\ i.use_bpf = handle.use_bpf
      /\ i.direction = handle.direction /\ i.break_loop = handle.break_loop
      /\ l.features = kernel.features /\ l.frames = kernel.frames /\ l.head = kernel.head
      /\ l.arrivals = kernel.arrivals /\ l.packets = kernel.packets /\ l.drops = kernel.drops
      /\ l.ifdrops = kernel.ifdrops
  OBVIOUS
<1>2. /\ Tail(q) \in Seq(ToSet(Tail(q))) /\ Len(Tail(q)) = Len(q) - 1
      /\ \A n \in 1 .. Len(q) - 1 : Tail(q)[n] = q[n + 1]
      /\ DOMAIN Tail(q) = 1 .. Len(q) - 1 /\ DOMAIN q = 1 .. Len(q) /\ Len(q) \in Nat \ {0}
      /\ ToSet(Tail(q)) = {q[n] : n \in 2 .. Len(q)} /\ fr = q[1]
      /\ ToSet(q) = {q[n] : n \in 1 .. Len(q)}
  BY <1>0, TailOf DEF Positioned
<1>3. handle.mode # "mmap" /\ \A s \in DOMAIN kernel.frames : kernel.frames[s] = None
  BY <1>0 DEF Positioned
<1>4. Positioned(i, l)
  BY <1>0, <1>1, <1>2, <1>3, CountAssumption DEF Positioned
<1>5. fr \in InKernel(kernel)
  <2>1. 1 \in 1 .. Len(q)
    BY <1>2
  <2>2. fr \in ToSet(q)
    BY <1>2, <2>1
  <2> QED
    BY <1>0, <2>2, InRing DEF Distinct
<1>6. ASSUME NEW f \in InKernel(l)
      PROVE  f \in InKernel(kernel) /\ f # fr
  <2>1. f \in ToSet(Tail(q))
    BY <1>1, <1>3, <1>6 DEF InKernel
  <2>2. PICK n \in 2 .. Len(q) : f = q[n]
    BY <1>2, <2>1
  <2>3. n \in 1 .. Len(q) /\ 1 \in 1 .. Len(q) /\ n # 1
    BY <1>2
  <2>4. f # fr
    <3>1. \A m, j \in 1 .. Len(q) : m # j => q[m] # q[j]
      BY <1>0, <1>2 DEF Distinct
    <3> QED
      BY <1>2, <2>2, <2>3, <3>1
  <2>5. f \in ToSet(q) /\ f # None
    BY <1>0, <1>2, <2>2, <2>3 DEF Distinct
  <2> QED
    BY <2>4, <2>5, InRing
<1>7. Distinct(l)
  <2>1. ASSUME NEW n \in 1 .. Len(q) - 1, NEW m \in 1 .. Len(q) - 1, n # m
        PROVE  Tail(q)[n] # Tail(q)[m]
    <3>1. n + 1 \in DOMAIN q /\ m + 1 \in DOMAIN q /\ n + 1 # m + 1
      BY <1>2, <2>1
    <3>2. q[n + 1] # q[m + 1]
      BY <1>0, <3>1 DEF Distinct
    <3> QED
      BY <1>2, <3>2
  <2>2. None \notin ToSet(Tail(q))
    <3>1. SUFFICES ASSUME None \in ToSet(Tail(q)) PROVE FALSE
      OBVIOUS
    <3>2. PICK n \in 2 .. Len(q) : None = q[n]
      BY <1>2, <3>1
    <3>3. n \in 1 .. Len(q)
      BY <1>2
    <3>4. None \in ToSet(q)
      BY <1>2, <3>2, <3>3
    <3> QED
      BY <1>0, <3>4 DEF Distinct
  <2>3. \A n, m \in DOMAIN l.queue : n # m => l.queue[n] # l.queue[m]
    <3>1. l.queue = Tail(q) /\ DOMAIN l.queue = 1 .. Len(q) - 1
      BY <1>2
    <3> HIDE DEF q
    <3> QED
      BY <2>1, <3>1
  <2> QED
    BY <1>0, <1>1, <1>6, <2>2, <2>3 DEF Distinct
<1>8. IsFiniteSet(InKernel(l)) /\ Cardinality(InKernel(l)) \in Nat
      /\ Cardinality(InKernel(l)) + 1 <= Cardinality(InKernel(kernel))
  BY <1>0, <1>5, <1>6, OneLess DEF Summed
<1>9. Summed(i, l)
  <2>1. kernel.arrivals \in Nat
    BY <1>0 DEF Distinct
  <2>2. /\ i.proc_dropped = handle.proc_dropped /\ i.stat = handle.stat /\ i.promisc = handle.promisc
        /\ l.features = kernel.features /\ l.arrivals = kernel.arrivals /\ l.packets = kernel.packets
        /\ l.drops = kernel.drops /\ l.ifdrops = kernel.ifdrops
    BY <1>1
  <2> HIDE DEF fr, q
  <2> QED
    BY <1>0, <1>8, <2>1, <2>2, ReadSums
<1>10. InTurn(i, l)
  <2>1. QueueInTurn(l.queue)
    BY <1>0, QueueShrinks DEF Positioned, InTurn
  <2> QED
    BY <1>1, <1>3, <2>1 DEF InTurn
<1>11. ASSUME NEW f \in InKernel(kernel), f # fr
       PROVE  f \in InKernel(l)
  <2>1. f \in ToSet(q) /\ f # None
    BY <1>3, InRing
  <2>2. PICK n \in 1 .. Len(q) : f = q[n]
    BY <1>2, <2>1
  <2>3. n \in 2 .. Len(q)
    BY <1>2, <1>11, <2>2
  <2>4. f \in ToSet(l.queue)
    BY <1>2, <2>2, <2>3
  <2> QED
    BY <2>1, <2>4, InRing
<1> QED
  BY <1>4, <1>7, <1>9, <1>10, <1>11 DEF Fitting

LEMMA OutOfRing ==
  ASSUME NEW i, NEW l, Fitting(handle, kernel),
         Mapped, pcap_get_ring_frame,
         /\ i.mode = handle.mode /\ i.cc = handle.cc /\ i.proc_dropped = handle.proc_dropped
         /\ i.stat = handle.stat /\ i.promisc = handle.promisc /\ i.direction = handle.direction
         /\ i.break_loop = handle.break_loop,
         i.offset = NextSlot(handle.offset), i.use_bpf \in 0 .. handle.cc + 1,
         i.packets_read \in {handle.packets_read, handle.packets_read + 1},
         /\ l.features = kernel.features /\ l.queue = kernel.queue /\ l.head = kernel.head
         /\ l.arrivals = kernel.arrivals /\ l.packets = kernel.packets /\ l.drops = kernel.drops
         /\ l.ifdrops = kernel.ifdrops,
         l.frames = [kernel.frames EXCEPT ![handle.offset] = None]
  PROVE  Fitting(i, l) /\ \A f \in InKernel(kernel) : f \in InKernel(l) \/ f = kernel.frames[handle.offset]
<1> DEFINE o == handle.offset
           fr == kernel.frames[o]
<1>1. handle.cc \in Nat /\ handle.cc > 0 /\ o \in Nat /\ o < handle.cc /\ DOMAIN kernel.frames = SlotsOf(handle.cc)
      /\ kernel.queue = <<>>
  BY DEF Fitting, Positioned, Mapped
<1>2. o \in DOMAIN kernel.frames
  BY <1>1 DEF SlotsOf
<1>3. /\ DOMAIN l.frames = DOMAIN kernel.frames /\ l.frames[o] = None
      /\ \A s \in DOMAIN kernel.frames \ {o} : l.frames[s] = kernel.frames[s]
  BY <1>2
<1>4. fr # None /\ fr \in InKernel(kernel)
  BY <1>2, InRing DEF pcap_get_ring_frame
<1>5. i.offset \in Nat /\ (i.offset = 0 \/ i.offset < i.cc)
  BY <1>1 DEF NextSlot
<1>6. Positioned(i, l)
  BY <1>1, <1>3, <1>5 DEF Fitting, Positioned, Mapped
<1>7. ASSUME NEW f \in InKernel(l)
      PROVE  f \in InKernel(kernel) /\ f # fr
  <2>1. f # None /\ f \notin ToSet(l.queue)
    BY <1>1, <1>7 DEF InKernel, ToSet
  <2>2. PICK s \in DOMAIN l.frames : f = l.frames[s]
    BY <1>7, <2>1 DEF InKernel
  <2>3. s # o /\ f = kernel.frames[s] /\ s \in DOMAIN kernel.frames
    BY <1>3, <2>1, <2>2
  <2>4. f # fr
    BY <1>2, <2>1, <2>3 DEF Fitting, Distinct
  <2> QED
    BY <2>1, <2>3, <2>4, InRing
<1>8. ASSUME NEW s \in DOMAIN l.frames, NEW t \in DOMAIN l.frames, s # t, l.frames[s] # None
      PROVE  l.frames[s] # l.frames[t]
  <2>1. s # o /\ l.frames[s] = kernel.frames[s]
    BY <1>3, <1>8
  <2>2. CASE t = o
    BY <1>3, <1>8, <2>2
  <2>3. CASE t # o
    BY <1>3, <1>8, <2>1, <2>3 DEF Fitting, Distinct
  <2> QED
    BY <2>2, <2>3
<1>9. Distinct(l)
  BY <1>7, <1>8 DEF Fitting, Distinct
<1>10. IsFiniteSet(InKernel(l)) /\ Cardinality(InKernel(l)) \in Nat
       /\ Cardinality(InKernel(l)) + 1 <= Cardinality(InKernel(kernel))
  <2>1. IsFiniteSet(InKernel(kernel)) /\ InKernel(l) \subseteq InKernel(kernel) \ {fr}
    BY <1>7 DEF Fitting, Summed
  <2> HIDE DEF fr
  <2> QED
    BY <1>4, <2>1, OneLess
<1>11. Summed(i, l)
  <2>1. kernel.arrivals \in Nat /\ Summed(handle, kernel)
    BY DEF Fitting, Distinct
  <2> QED
    BY <1>10, <2>1, ReadSums
<1>12. InTurn(i, l)
  <2>1. InsideRing(handle, kernel) /\ RingInTurn(handle, kernel) /\ QueueInTurn(l.queue)
    BY PositionedInside DEF Fitting, InTurn, Mapped
  <2>2. RingInTurn(i, l)
    BY <1>4, <2>1, RingShrinks DEF NextSlot
  <2> QED
    BY <2>1, <2>2 DEF InTurn
<1>13. ASSUME NEW f \in InKernel(kernel), f # fr
       PROVE  f \in InKernel(l)
  <2>1. f # None /\ f \notin ToSet(kernel.queue)
    BY <1>1, <1>13 DEF InKernel, ToSet
  <2>2. PICK s \in DOMAIN kernel.frames : f = kernel.frames[s]
    BY <2>1, InRing
  <2>3. s # o /\ f = l.frames[s]
    BY <1>3, <1>13, <2>2
  <2> QED
    BY <1>3, <2>1, <2>3, InRing
<1> QED
  BY <1>6, <1>9, <1>11, <1>12, <1>13 DEF Fitting

\* Emptying the queue of the socket, and reading the counters.
LEMMA DrainedCounts ==
  ASSUME NEW l, LaidOut(handle, kernel), Fitting(handle, kernel), l = [kernel EXCEPT !.queue = <<>>]
  PROVE  Fitting(handle, l)
<1>1. /\ l.features = kernel.features /\ l.queue = <<>> /\ l.head = kernel.head /\ l.frames = kernel.frames
      /\ l.arrivals = kernel.arrivals /\ l.packets = kernel.packets /\ l.drops = kernel.drops
      /\ l.ifdrops = kernel.ifdrops
  BY DEF LaidOut, KernelFields
<1>2. ToSet(l.queue) = {} /\ Len(l.queue) = 0 /\ l.queue \in Seq(ToSet(l.queue)) /\ DOMAIN l.queue = {}
  BY <1>1 DEF ToSet
<1>3. InKernel(l) \subseteq InKernel(kernel)
  BY <1>1, <1>2 DEF InKernel
<1>4. Positioned(handle, l)
  BY <1>1, <1>2, CountAssumption DEF Fitting, Positioned
<1>5. Distinct(l)
  BY <1>1, <1>2, <1>3 DEF Fitting, Distinct
<1>6. IsFiniteSet(InKernel(l)) /\ Cardinality(InKernel(l)) \in Nat /\ Cardinality(InKernel(l)) <= Cardinality(InKernel(kernel))
      /\ Cardinality(InKernel(kernel)) \in Nat
  BY <1>3, NoneMore, FS_CardinalityType DEF Fitting, Summed
<1>7. Summed(handle, l)
  <2>1. handle.packets_read + handle.stat.drop + l.drops + Cardinality(InKernel(l)) <= l.arrivals
    BY <1>1, <1>6 DEF Fitting, Summed, Distinct
  <2> QED
    BY <1>1, <1>6, <2>1 DEF Fitting, Summed
<1>8. InTurn(handle, l)
  BY <1>1, <1>2 DEF Fitting, InTurn, QueueInTurn, RingInTurn
<1> QED
  BY <1>4, <1>5, <1>7, <1>8 DEF Fitting

\* The frames behind the current one that are free are no more than there are.
LEMMA FreeBehindIs ==
  ASSUME handle.cc \in Nat
  PROVE  FreeBehind \in 0 .. handle.cc
<1> DEFINE cc == handle.cc
           free(n) == kernel.frames[Back(handle.offset, n + 1)] = None
           taken == {m \in 1 .. cc : ~free(m)}
           fits(n) == (\A m \in 1 .. n : free(m)) /\ (n < cc => ~free(n + 1))
<1>1. \E n \in 0 .. cc : fits(n)
  <2> HIDE DEF free
  <2>1. CASE taken = {}
    <3>1. cc \in 0 .. cc /\ fits(cc)
      BY <2>1
    <3> QED
      BY <3>1
  <2>2. CASE taken # {}
    <3>1. PICK n \in taken : \A m \in taken : n <= m
      <4>1. taken \in SUBSET Nat
        OBVIOUS
      <4> QED
        BY <2>2, <4>1, NatMin
    <3>2. n \in 1 .. cc /\ ~free(n)
      OBVIOUS
    <3>3. \A m \in 1 .. n - 1 : free(m)
      <4>1. ASSUME NEW m \in 1 .. n - 1
            PROVE  free(m)
        <5>1. m \in 1 .. cc /\ ~(n <= m)
          BY <3>2
        <5> QED
          BY <3>1, <5>1
      <4> QED
        BY <4>1
    <3>4. n - 1 \in 0 .. cc /\ (n - 1) + 1 = n
      BY <3>2
    <3>5. fits(n - 1)
      BY <3>2, <3>3, <3>4
    <3> QED
      BY <3>4, <3>5
  <2> QED
    BY <2>1, <2>2
<1>2. FreeBehind = CHOOSE n \in 0 .. cc : fits(n)
  BY DEF FreeBehind
<1> HIDE DEF fits
<1> QED
  BY <1>1, <1>2
-----------------------------------------------------------------------------
(* Every step of a capture *)

\* What the two records are after a field is set.
LEMMA SetHandle ==
  ASSUME LaidOut(handle, kernel), Fitting(handle, kernel), NEW f, NEW n \in 0 .. handle.cc + 1,
         NEW d \in {"in", "out", "inout"}, NEW b \in BOOLEAN, NEW t
  PROVE  /\ Alike(handle, kernel, [handle EXCEPT !.fcode = f, !.use_bpf = 0], kernel)
         /\ Alike(handle, kernel, [handle EXCEPT !.use_bpf = n], kernel)
         /\ Alike(handle, kernel, [handle EXCEPT !.direction = d], kernel)
         /\ Alike(handle, kernel, [handle EXCEPT !.break_loop = b], kernel)
         /\ Alike(handle, kernel, [handle EXCEPT !.timeout = t], kernel)
         /\ Alike(handle, kernel, handle, kernel)
<1>1. /\ handle.cc \in Nat /\ handle.use_bpf \in 0 .. handle.cc + 1 /\ 0 \in 0 .. handle.cc + 1
      /\ handle.direction \in {"in", "out", "inout"} /\ handle.break_loop \in BOOLEAN
      /\ kernel.ifdrops \in Nat /\ kernel.ifdrops >= kernel.ifdrops
  BY DEF Fitting, Positioned, Summed
<1>2. Alike(handle, kernel, [handle EXCEPT !.fcode = f, !.use_bpf = 0], kernel)
  BY <1>1 DEF Alike, LaidOut, HandleFields
<1>3. Alike(handle, kernel, [handle EXCEPT !.use_bpf = n], kernel)
  BY <1>1 DEF Alike, LaidOut, HandleFields
<1>4. Alike(handle, kernel, [handle EXCEPT !.direction = d], kernel)
  BY <1>1 DEF Alike, LaidOut, HandleFields
<1>5. Alike(handle, kernel, [handle EXCEPT !.break_loop = b], kernel)
  BY <1>1 DEF Alike, LaidOut, HandleFields
<1>6. Alike(handle, kernel, [handle EXCEPT !.timeout = t], kernel)
  BY <1>1 DEF Alike, LaidOut, HandleFields
<1>7. Alike(handle, kernel, handle, kernel)
  BY <1>1 DEF Alike
<1> QED
  BY <1>2, <1>3, <1>4, <1>5, <1>6, <1>7

LEMMA SetKernel ==
  ASSUME NEW h, DOMAIN kernel = KernelFields, Alike(handle, kernel, h, kernel), NEW f, NEW b
  PROVE  /\ Alike(handle, kernel, h, [kernel EXCEPT !.filter = f])
         /\ Alike(handle, kernel, h, [kernel EXCEPT !.error = b])
         /\ Alike(handle, kernel, h, [kernel EXCEPT !.nonblock = b])
         /\ Alike(handle, kernel, h, [kernel EXCEPT !.filter = f, !.error = b])
         /\ Alike(handle, kernel, h, [kernel EXCEPT !.ifdrops = @ + 1])
<1>1. Alike(handle, kernel, h, [kernel EXCEPT !.filter = f])
  BY DEF Alike, KernelFields
<1>2. Alike(handle, kernel, h, [kernel EXCEPT !.error = b])
  BY DEF Alike, KernelFields
<1>3. Alike(handle, kernel, h, [kernel EXCEPT !.nonblock = b])
  BY DEF Alike, KernelFields
<1>4. Alike(handle, kernel, h, [kernel EXCEPT !.filter = f, !.error = b])
  BY DEF Alike, KernelFields
<1>5. Alike(handle, kernel, h, [kernel EXCEPT !.ifdrops = @ + 1])
  BY DEF Alike, KernelFields
<1> QED
  BY <1>1, <1>2, <1>3, <1>4, <1>5

\* Statistics move what was counted from the kernel to the pcap_t.
LEMMA StatsCount ==
  ASSUME LaidOut(handle, kernel), Fitting(handle, kernel), pcap_stats
  PROVE  Fitting(handle', kernel') /\ handle'.mode = handle.mode /\ InKernel(kernel') = InKernel(kernel)
<1> DEFINE h == WithDrops(handle)
<1>1. /\ DOMAIN h = HandleFields /\ h.mode = handle.mode /\ h.cc = handle.cc /\ h.offset = handle.offset
      /\ h.use_bpf = handle.use_bpf /\ h.direction = handle.direction /\ h.break_loop = handle.break_loop
      /\ h.packets_read = handle.packets_read /\ h.promisc = handle.promisc
  BY DEF WithDrops, LaidOut, HandleFields
<1>2. /\ DOMAIN h.stat = {"recv", "drop", "ifdrop"} /\ h.stat.recv = handle.stat.recv /\ h.stat.drop = handle.stat.drop
      /\ h.proc_dropped \in Nat /\ h.stat.ifdrop \in Int
      /\ h.promisc => h.stat.ifdrop = h.proc_dropped /\ h.proc_dropped <= kernel.ifdrops
  <2>1. CASE handle.promisc
    <3> DEFINE st == [handle.stat EXCEPT !.ifdrop = @ + (kernel.ifdrops - handle.proc_dropped)]
    <3>1. h = [handle EXCEPT !.proc_dropped = kernel.ifdrops, !.stat = st]
      BY <2>1 DEF WithDrops, LaidOut, HandleFields
    <3> HIDE DEF st
    <3>2. h.proc_dropped = kernel.ifdrops /\ h.stat = st
      BY <3>1 DEF LaidOut, HandleFields
    <3> USE DEF st
    <3>3. /\ DOMAIN handle.stat = {"recv", "drop", "ifdrop"} /\ kernel.ifdrops \in Nat /\ handle.proc_dropped \in Nat
          /\ handle.stat.ifdrop = handle.proc_dropped
      BY <2>1 DEF Fitting, Summed
    <3>4. /\ DOMAIN st = {"recv", "drop", "ifdrop"} /\ st.recv = handle.stat.recv /\ st.drop = handle.stat.drop
          /\ st.ifdrop = kernel.ifdrops
      BY <3>3
    <3> QED
      BY <3>2, <3>3, <3>4
  <2>2. CASE ~handle.promisc
    BY <2>2 DEF WithDrops, Fitting, Summed
  <2> QED
    BY <2>1, <2>2
<1> HIDE DEF h
<1>3. CASE "stats" \in kernel.features
  <2>1. handle' = WithCounts(h) /\ kernel' = [kernel EXCEPT !.packets = 0, !.drops = 0]
    BY <1>3 DEF pcap_stats, h
  <2>2. /\ kernel'.features = kernel.features /\ kernel'.queue = kernel.queue /\ kernel'.frames = kernel.frames
        /\ kernel'.head = kernel.head /\ kernel'.arrivals = kernel.arrivals /\ kernel'.packets = 0
        /\ kernel'.drops = 0 /\ kernel'.ifdrops = kernel.ifdrops
    BY <2>1 DEF LaidOut, KernelFields
  <2> DEFINE st == [h.stat EXCEPT !.recv = @ + kernel.packets, !.drop = @ + kernel.drops]
  <2>3. /\ handle'.mode = handle.mode /\ handle'.cc = handle.cc /\ handle'.offset = handle.offset
        /\ handle'.use_bpf = handle.use_bpf /\ handle'.direction = handle.direction
        /\ handle'.break_loop = handle.break_loop /\ handle'.packets_read = handle.packets_read
        /\ handle'.promisc = h.promisc /\ handle'.proc_dropped = h.proc_dropped /\ handle'.stat = st
    <3>1. handle' = [h EXCEPT !.stat = st]
      BY <1>1, <2>1 DEF WithCounts, HandleFields
    <3> HIDE DEF st
    <3> QED
      BY <1>1, <3>1 DEF HandleFields
  <2>4. /\ DOMAIN st = {"recv", "drop", "ifdrop"} /\ st.recv = handle.stat.recv + kernel.packets
        /\ st.drop = handle.stat.drop + kernel.drops /\ st.ifdrop = h.stat.ifdrop
    BY <1>2
  <2> HIDE DEF st
  <2>5. InKernel(kernel') = InKernel(kernel)
    BY <2>2 DEF InKernel
  <2>6. Positioned(handle', kernel')
    BY <2>2, <2>3 DEF Fitting, Positioned
  <2>7. Distinct(kernel')
    BY <2>2, <2>5 DEF Fitting, Distinct
  <2>8. Summed(handle', kernel')
    <3>1. kernel.arrivals \in Nat /\ Cardinality(InKernel(kernel)) \in Nat
      BY FS_CardinalityType DEF Fitting, Distinct, Summed
    <3>2. handle'.stat.recv + kernel'.packets = kernel'.arrivals
      BY <1>3, <2>2, <2>3, <2>4, <3>1 DEF Fitting, Summed
    <3>3. handle'.packets_read + handle'.stat.drop + kernel'.drops + Cardinality(InKernel(kernel')) <= kernel'.arrivals
      BY <2>2, <2>3, <2>4, <2>5, <3>1 DEF Fitting, Summed
    <3>4. /\ {handle'.packets_read, kernel'.packets, kernel'.drops, kernel'.ifdrops, handle'.proc_dropped} \subseteq Nat
          /\ DOMAIN handle'.stat = {"recv", "drop", "ifdrop"}
          /\ {handle'.stat.recv, handle'.stat.drop, handle'.stat.ifdrop} \subseteq Int
          /\ IsFiniteSet(InKernel(kernel'))
      BY <1>2, <2>2, <2>3, <2>4, <2>5 DEF Fitting, Summed
    <3>5. handle'.promisc => handle'.stat.ifdrop = handle'.proc_dropped /\ handle'.proc_dropped <= kernel'.ifdrops
      BY <1>2, <2>2, <2>3, <2>4
    <3> QED
      BY <3>2, <3>3, <3>4, <3>5 DEF Summed
  <2>9. InTurn(handle', kernel')
    BY <2>2, <2>3 DEF Fitting, InTurn, RingInTurn, Ahead
  <2> QED
    BY <2>3, <2>5, <2>6, <2>7, <2>8, <2>9 DEF Fitting
<1>4. CASE "stats" \notin kernel.features
  <2>1. handle' = h /\ kernel' = kernel
    BY <1>4 DEF pcap_stats, h
  <2>2. Positioned(h, kernel)
    BY <1>1 DEF Fitting, Positioned
  <2>3. Summed(h, kernel)
    BY <1>1, <1>2 DEF Fitting, Summed
  <2>4. InTurn(h, kernel)
    BY <1>1 DEF Fitting, InTurn, RingInTurn, Ahead
  <2> QED
    BY <1>1, <2>1, <2>2, <2>3, <2>4 DEF Fitting
<1> QED
  BY <1>3, <1>4

\* Of the packets that wait, reading is at the oldest.
LEMMA AtOldest == Fitting(handle, kernel) => OldestIsNext
<1> SUFFICES ASSUME Fitting(handle, kernel), NEW fr \in InKernel(kernel)
             PROVE  NextToRead # None /\ NextToRead.id <= fr.id
  BY DEF OldestIsNext, Oldest
<1>1. Positioned(handle, kernel) /\ Distinct(kernel) /\ InTurn(handle, kernel)
  BY DEF Fitting
<1>2. fr # None /\ fr.id \in Nat
  BY <1>1 DEF Distinct, InKernel
<1>3. CASE Mapped
  <2> DEFINE A(s) == Ahead(handle, s)
  <2>1. InsideRing(handle, kernel) /\ RingInTurn(handle, kernel) /\ kernel.queue = <<>>
    BY <1>1, <1>3, PositionedInside DEF Mapped, InTurn, Positioned
  <2>2. PICK cc \in Nat \ {0}, hd \in Nat, o \in Nat :
          {hd, o} \subseteq 0 .. cc - 1 /\ cc = handle.cc /\ hd = kernel.head /\ o = handle.offset
          /\ DOMAIN kernel.frames = 0 .. cc - 1
    BY <2>1 DEF InsideRing, SlotsOf
  <2>3. PICK s \in 0 .. cc - 1 : fr = kernel.frames[s]
    BY <1>2, <2>1, <2>2 DEF InKernel, ToSet
  <2>4. /\ kernel.frames[s] # None <=> (kernel.frames[hd] # None \/ A(s) < A(hd))
        /\ kernel.frames[o] # None <=> (kernel.frames[hd] # None \/ A(o) < A(hd))
        /\ kernel.frames[s] # None /\ kernel.frames[o] # None /\ A(o) < A(s) => kernel.frames[o].id < kernel.frames[s].id
    BY <2>1, <2>2 DEF RingInTurn
  <2>5. A(s) \in Nat /\ A(hd) \in Nat /\ A(o) = 0 /\ (A(s) = 0 <=> s = o)
    BY <2>2, AheadIs
  <2> HIDE DEF A
  <2>6. kernel.frames[o] # None
    BY <1>2, <2>3, <2>4, <2>5
  <2>7. kernel.frames[o] \in InKernel(kernel)
    BY <2>2, <2>6, InRing
  <2>8. kernel.frames[o].id <= fr.id
    <3>1. CASE s = o
      BY <1>2, <2>3, <3>1
    <3>2. CASE s # o
      <4>1. kernel.frames[o].id < fr.id /\ kernel.frames[o].id \in Nat
        BY <1>1, <1>2, <2>3, <2>4, <2>5, <2>6, <2>7, <3>2 DEF Distinct
      <4> QED
        BY <1>2, <4>1
    <3> QED
      BY <3>1, <3>2
  <2> QED
    BY <1>3, <2>2, <2>6, <2>8 DEF NextToRead
<1>4. CASE ~Mapped
  <2> DEFINE q == kernel.queue
  <2>1. fr \in ToSet(q) /\ q \in Seq(ToSet(q)) /\ QueueInTurn(q)
    BY <1>1, <1>2, <1>4 DEF InKernel, Positioned, Mapped, InTurn
  <2>2. q # <<>>
    BY <2>1 DEF ToSet
  <2>3. Len(q) \in Nat \ {0} /\ DOMAIN q = 1 .. Len(q) /\ Head(q) = q[1] /\ ToSet(q) = {q[n] : n \in 1 .. Len(q)}
    BY <2>1, <2>2, TailOf
  <2>4. PICK n \in 1 .. Len(q) : fr = q[n]
    BY <2>1, <2>3
  <2>5. 1 \in 1 .. Len(q) /\ Head(q) \in ToSet(q)
    BY <2>3
  <2>6. Head(q) # None /\ Head(q).id \in Nat
    <3>1. Head(q) # None
      BY <1>1, <2>5 DEF Distinct
    <3>2. Head(q) \in InKernel(kernel)
      BY <2>5, <3>1, InRing
    <3> QED
      BY <1>1, <3>1, <3>2 DEF Distinct
  <2>7. Head(q).id <= fr.id
    <3>1. CASE n = 1
      BY <1>2, <2>3, <2>4, <3>1
    <3>2. CASE n # 1
      <4>1. q[1].id < q[n].id
        <5>1. 1 < n /\ 1 \in DOMAIN q /\ n \in DOMAIN q
          BY <2>3, <2>5, <3>2
        <5> QED
          BY <2>1, <5>1 DEF QueueInTurn
      <4> QED
        BY <1>2, <2>3, <2>4, <2>6, <4>1
    <3> QED
      BY <3>1, <3>2
  <2> QED
    BY <1>4, <2>6, <2>7 DEF NextToRead
<1> QED
  BY <1>3, <1>4

\* The packets that leave.
OldestLeaves == \A fr \in Gone : Drain \/ handle'.mode = "none" \/ Oldest(fr)

LEMMA NoneLeave ==
  ASSUME InKernel(kernel) \subseteq InKernel(kernel)'
  PROVE  OldestLeaves
BY DEF OldestLeaves, Gone

LEMMA NextLeaves ==
  ASSUME Fitting(handle, kernel), \A f \in InKernel(kernel) : f \in InKernel(kernel)' \/ f = NextToRead
  PROVE  OldestLeaves
<1>1. ASSUME NEW fr \in Gone
      PROVE  Oldest(fr)
  <2>1. fr \in InKernel(kernel) /\ fr = NextToRead
    BY <1>1 DEF Gone
  <2> QED
    BY <2>1, AtOldest DEF OldestIsNext
<1> QED
  BY <1>1 DEF OldestLeaves

\* What a step has to keep.
CountedOn == Fitting(handle', kernel') /\ (call'.at \in InRingSteps => Mapped') /\ OldestLeaves

LEMMA AlikeStep ==
  ASSUME Fitting(handle, kernel), Alike(handle, kernel, handle', kernel'), call'.at \in InRingSteps => Mapped
  PROVE  CountedOn
<1>1. Fitting(handle', kernel')
  BY AlikeCounts
<1>2. handle'.mode = handle.mode
  BY DEF Alike
<1>3. OldestLeaves
  BY NoneLeave DEF Alike, InKernel
<1> QED
  BY <1>1, <1>2, <1>3 DEF CountedOn, Mapped

LEMMA CallIs ==
  ASSUME CallCounted
  PROVE  DOMAIN call = CallFields
BY DEF CallCounted, Counted, Idle, CallFields

\* A call begins, and goes on, where its way of reading begins.
LEMMA EntryIs == Entry \in InRingSteps => Mapped
BY DEF Entry, InRingSteps

LEMMA ReadReturnsTo ==
  ASSUME NEW c, NEW n, DOMAIN c = CallFields, ReadReturns(c, n)
  PROVE  call'.at \in InRingSteps => Mapped
<1>1. ASSUME Return(c, n) \/ Return(c, 0)
      PROVE  call'.at \in InRingSteps => Mapped
  BY <1>1 DEF Return, Idle, InRingSteps
<1>2. ASSUME NEW m, Again(c, m)
      PROVE  call'.at \in InRingSteps => Mapped
  <2>1. call'.at = Entry
    BY <1>2 DEF Again, CallFields
  <2> QED
    BY <2>1, EntryIs
<1> QED
  BY <1>1, <1>2 DEF ReadReturns

LEMMA DeliverCounts ==
  ASSUME Counting, NEW pkt, Deliver(pkt), UNCHANGED handle, call'.at \in InRingSteps => Mapped
  PROVE  CountedOn
<1>1. PICK snap : kernel' = Received(kernel, pkt, snap)
  BY DEF Deliver
<1>2. Fitting(handle, Received(kernel, pkt, snap)) /\ InKernel(kernel) \subseteq InKernel(Received(kernel, pkt, snap))
  BY ReceivedCounts DEF Counting
<1>3. OldestLeaves
  BY <1>1, <1>2, NoneLeave
<1> QED
  BY <1>1, <1>2, <1>3 DEF CountedOn, Mapped

LEMMA UseCounts ==
  ASSUME CallCounted, Counting, Use
  PROVE  CountedOn
<1>1. LaidOut(handle, kernel) /\ Fitting(handle, kernel) /\ (call.at \in InRingSteps => Mapped)
  BY DEF Counting
<1>2. CASE pcap_loop \/ pcap_dispatch \/ pcap_next
  <2>1. UNCHANGED <<handle, kernel>> /\ call'.at = Entry
    BY <1>2 DEF pcap_loop, pcap_dispatch, pcap_next, Begin
  <2>2. Alike(handle, kernel, handle', kernel')
    BY <1>1, <2>1, SetHandle DEF Positioned, Fitting
  <2> QED
    BY <1>1, <2>1, <2>2, AlikeStep, EntryIs
<1>3. CASE pcap_setfilter
  <2>1. PICK f : StartSetFilter(f)
    BY <1>3 DEF pcap_setfilter
  <2>2. /\ handle' = [handle EXCEPT !.fcode = f, !.use_bpf = 0]
        /\ \E g : kernel' = [kernel EXCEPT !.filter = g]
        /\ call'.at \in {"drain", call.at}
    BY <2>1 DEF StartSetFilter, Idle
  <2>3. Alike(handle, kernel, handle', kernel)
    BY <1>1, <2>2, SetHandle DEF Positioned, Fitting
  <2>4. Alike(handle, kernel, handle', kernel')
    <3>1. PICK g : kernel' = [kernel EXCEPT !.filter = g]
      BY <2>2
    <3> QED
      BY <1>1, <2>3, <3>1, SetKernel DEF LaidOut
  <2>5. call'.at \in InRingSteps => Mapped
    BY <1>1, <2>2 DEF InRingSteps
  <2> QED
    BY <1>1, <2>4, <2>5, AlikeStep
<1>4. CASE pcap_setdirection
  <2>1. PICK d \in {"in", "out", "inout"} : handle' = [handle EXCEPT !.direction = d]
    BY <1>4 DEF pcap_setdirection
  <2>2. kernel' = kernel /\ call' = call
    BY <1>4 DEF pcap_setdirection, Operation
  <2>3. Alike(handle, kernel, handle', kernel')
    BY <1>1, <2>1, <2>2, SetHandle DEF Positioned, Fitting
  <2> QED
    BY <1>1, <2>2, <2>3, AlikeStep
<1>5. CASE pcap_setnonblock
  <2>1. call' = call
    BY <1>5 DEF pcap_setnonblock, Operation
  <2>2. \/ kernel' = kernel /\ \E t : handle' = [handle EXCEPT !.timeout = t]
        \/ handle' = handle /\ \E b : kernel' = [kernel EXCEPT !.nonblock = b]
    BY <1>5 DEF pcap_setnonblock
  <2>3. Alike(handle, kernel, handle, kernel)
    BY <1>1, SetHandle DEF Positioned, Fitting
  <2>4. Alike(handle, kernel, handle', kernel')
    <3>1. CASE kernel' = kernel /\ \E t : handle' = [handle EXCEPT !.timeout = t]
      BY <1>1, <3>1, SetHandle DEF Positioned, Fitting
    <3>2. CASE handle' = handle /\ \E b : kernel' = [kernel EXCEPT !.nonblock = b]
      <4>1. PICK b : kernel' = [kernel EXCEPT !.nonblock = b]
        BY <3>2
      <4> QED
        BY <1>1, <2>3, <3>2, <4>1, SetKernel DEF LaidOut
    <3> QED
      BY <2>2, <3>1, <3>2
  <2> QED
    BY <1>1, <2>1, <2>4, AlikeStep
<1>6. CASE pcap_inject
  BY <1>1, <1>6, DeliverCounts DEF pcap_inject, Operation
<1>7. CASE pcap_stats
  <2>1. Fitting(handle', kernel') /\ handle'.mode = handle.mode /\ InKernel(kernel') = InKernel(kernel)
    BY <1>1, <1>7, StatsCount
  <2>2. call' = call
    BY <1>7 DEF pcap_stats, Operation
  <2>3. OldestLeaves
    BY <2>1, NoneLeave
  <2> QED
    BY <1>1, <2>1, <2>2, <2>3 DEF CountedOn, Mapped
<1> QED
  BY <1>2, <1>3, <1>4, <1>5, <1>6, <1>7 DEF Use

LEMMA SetCounts ==
  ASSUME CallCounted, Counting, Set
  PROVE  CountedOn
<1>1. LaidOut(handle, kernel) /\ Fitting(handle, kernel) /\ (call.at \in InRingSteps => Mapped)
  BY DEF Counting
<1>2. Alike(handle, kernel, handle, kernel)
  BY <1>1, SetHandle DEF Positioned, Fitting
<1>3. ASSUME NEW c, NEW n, Return(c, n)
      PROVE  call'.at \notin InRingSteps
  BY <1>3 DEF Return, Idle, InRingSteps
<1>4. CASE Drain /\ kernel.error
  <2>1. handle' = handle /\ kernel' = [kernel EXCEPT !.filter = NoFilter, !.error = FALSE] /\ Return(call, PCAP_ERROR)
    BY <1>4 DEF Drain
  <2>2. Alike(handle, kernel, handle', kernel')
    BY <1>1, <1>2, <2>1, SetKernel DEF LaidOut
  <2> QED
    BY <1>1, <1>3, <2>1, <2>2, AlikeStep
<1>5. CASE Drain /\ ~kernel.error
  <2>1. handle' = handle /\ kernel' = [kernel EXCEPT !.queue = <<>>] /\ call' = [call EXCEPT !.at = "attach"]
    BY <1>5 DEF Drain
  <2>2. call'.at = "attach"
    BY <2>1, CallIs DEF CallFields
  <2>3. Fitting(handle', kernel')
    BY <1>1, <2>1, DrainedCounts
  <2>4. OldestLeaves
    BY <1>5 DEF OldestLeaves
  <2> QED
    BY <2>2, <2>3, <2>4 DEF CountedOn, InRingSteps
<1>6. CASE Attach
  <2>1. PICK n \in 0 .. handle.cc + 1 : handle' \in {handle, [handle EXCEPT !.use_bpf = n]}
    <3>1. handle.cc \in Nat
      BY <1>1 DEF Fitting, Positioned
    <3>2. FreeBehind \in 0 .. handle.cc
      BY <3>1, FreeBehindIs
    <3>3. 1 + (handle.cc - FreeBehind) \in 0 .. handle.cc + 1 /\ 1 \in 0 .. handle.cc + 1
      BY <3>1, <3>2
    <3> HIDE DEF FreeBehind
    <3>4. (IF Mapped THEN 1 + (handle.cc - FreeBehind) ELSE 1) \in 0 .. handle.cc + 1
      BY <3>3
    <3> QED
      BY <1>6, <3>3, <3>4 DEF Attach
  <2>2. Alike(handle, kernel, handle', kernel)
    BY <1>1, <1>2, <2>1, SetHandle
  <2>3. Alike(handle, kernel, handle', kernel')
    <3>1. PICK f : kernel' = [kernel EXCEPT !.filter = f]
      BY <1>6 DEF Attach
    <3> QED
      BY <1>1, <2>2, <3>1, SetKernel DEF LaidOut
  <2>4. call'.at \notin InRingSteps
    BY <1>3, <1>6 DEF Attach
  <2> QED
    BY <1>1, <2>3, <2>4, AlikeStep
<1> QED
  BY <1>4, <1>5, <1>6 DEF Set

LEMMA EnvironmentCounts ==
  ASSUME CallCounted, Counting, Environment
  PROVE  CountedOn
<1>1. LaidOut(handle, kernel) /\ Fitting(handle, kernel) /\ (call.at \in InRingSteps => Mapped)
  BY DEF Counting
<1>2. Alike(handle, kernel, handle, kernel)
  BY <1>1, SetHandle DEF Positioned, Fitting
<1>3. CASE Arrive
  BY <1>1, <1>3, DeliverCounts DEF Arrive
<1>4. CASE GoDown \/ DropOnDevice
  <2>1. handle' = handle /\ call' = call
        /\ kernel' \in {[kernel EXCEPT !.error = TRUE], [kernel EXCEPT !.ifdrops = @ + 1]}
    BY <1>4 DEF GoDown, DropOnDevice
  <2>2. Alike(handle, kernel, handle, [kernel EXCEPT !.error = TRUE])
    BY <1>1, <1>2, SetKernel DEF LaidOut
  <2>3. Alike(handle, kernel, handle, [kernel EXCEPT !.ifdrops = @ + 1])
    BY <1>1, <1>2, SetKernel DEF LaidOut
  <2>4. Alike(handle, kernel, handle', kernel')
    BY <2>1, <2>2, <2>3
  <2> QED
    BY <1>1, <2>1, <2>4, AlikeStep
<1>5. CASE pcap_breakloop \/ PollInterrupted
  <2>1. kernel' = kernel /\ \E b \in BOOLEAN : handle' = [handle EXCEPT !.break_loop = b]
    BY <1>5 DEF pcap_breakloop, PollInterrupted, Broken
  <2>2. call' = call \/ call'.at \in {"check", "idle"}
    BY <1>5, CallIs DEF pcap_breakloop, PollInterrupted, Broken, Return, Idle, CallFields
  <2>3. Alike(handle, kernel, handle', kernel')
    BY <1>1, <2>1, SetHandle DEF Positioned, Fitting
  <2>4. call'.at \in InRingSteps => Mapped
    BY <1>1, <2>2 DEF InRingSteps
  <2> QED
    BY <1>1, <2>3, <2>4, AlikeStep
<1> QED
  BY <1>3, <1>4, <1>5 DEF Environment
LEMMA ReadPacketCounts ==
  ASSUME CallCounted, Counting, ReadPacket
  PROVE  CountedOn
<1>1. LaidOut(handle, kernel) /\ Fitting(handle, kernel) /\ DOMAIN call = CallFields
  BY CallIs DEF Counting
<1>2. /\ kernel.queue # <<>> /\ kernel' = [kernel EXCEPT !.queue = Tail(@)]
      /\ handle' \in {handle, [handle EXCEPT !.packets_read = @ + 1]}
      /\ ReadReturns(call, 0) \/ ReadReturns(Given, 1)
  BY DEF ReadPacket
<1>3. /\ handle'.mode = handle.mode /\ handle'.cc = handle.cc /\ handle'.offset = handle.offset
      /\ handle'.proc_dropped = handle.proc_dropped /\ handle'.stat = handle.stat
      /\ handle'.promisc = handle.promisc /\ handle'.use_bpf = handle.use_bpf
      /\ handle'.direction = handle.direction /\ handle'.break_loop = handle.break_loop
      /\ handle'.packets_read \in {handle.packets_read, handle.packets_read + 1}
  BY <1>1, <1>2 DEF LaidOut, HandleFields
<1>4. /\ kernel'.features = kernel.features /\ kernel'.frames = kernel.frames /\ kernel'.head = kernel.head
      /\ kernel'.arrivals = kernel.arrivals /\ kernel'.packets = kernel.packets
      /\ kernel'.drops = kernel.drops /\ kernel'.ifdrops = kernel.ifdrops /\ kernel'.queue = Tail(kernel.queue)
  BY <1>1, <1>2 DEF LaidOut, KernelFields
<1>5. Fitting(handle', kernel') /\ \A f \in InKernel(kernel) : f \in InKernel(kernel') \/ f = Head(kernel.queue)
  <2>1. /\ \A f \in {"mode", "cc", "offset", "proc_dropped", "stat", "promisc", "use_bpf", "direction", "break_loop"} :
             handle'[f] = handle[f]
        /\ \A f \in {"features", "frames", "head", "arrivals", "packets", "drops", "ifdrops"} : kernel'[f] = kernel[f]
    BY <1>3, <1>4
  <2> QED
    BY <1>1, <1>2, <1>3, <1>4, <2>1, OutOfQueue
<1>6. call'.at \in InRingSteps => Mapped
  <2>1. DOMAIN Given = CallFields
    BY <1>1 DEF Given, CallFields
  <2> QED
    BY <1>1, <1>2, <2>1, ReadReturnsTo
<1>7. OldestLeaves
  <2>1. ~Mapped
    BY <1>1, <1>2 DEF Fitting, Positioned, Mapped
  <2> QED
    BY <1>1, <1>5, <2>1, NextLeaves DEF NextToRead
<1> QED
  BY <1>3, <1>5, <1>6, <1>7 DEF CountedOn, Mapped

LEMMA ReadFrameCounts ==
  ASSUME CallCounted, Counting, ReadFrame
  PROVE  CountedOn
<1>1. LaidOut(handle, kernel) /\ Fitting(handle, kernel) /\ Mapped
  BY DEF Counting, ReadFrame, InRingSteps
<1> DEFINE h == AfterFiltering
           n == IF handle.use_bpf > 1 THEN handle.use_bpf - 1 ELSE handle.use_bpf
<1>2. pcap_get_ring_frame /\ kernel' = [kernel EXCEPT !.frames[handle.offset] = None]
  BY DEF ReadFrame
<1>3. PICK read \in {0, 1} : handle' = [h EXCEPT !.offset = NextSlot(@), !.packets_read = @ + read]
  BY DEF ReadFrame
<1>4. h = [handle EXCEPT !.use_bpf = n] /\ n \in 0 .. handle.cc + 1
  BY <1>1 DEF AfterFiltering, Fitting, Positioned, LaidOut, HandleFields
<1> HIDE DEF h, n
<1>5. /\ DOMAIN h = HandleFields /\ h.mode = handle.mode /\ h.cc = handle.cc /\ h.proc_dropped = handle.proc_dropped
      /\ h.stat = handle.stat /\ h.promisc = handle.promisc /\ h.direction = handle.direction
      /\ h.break_loop = handle.break_loop /\ h.offset = handle.offset /\ h.use_bpf = n
      /\ h.packets_read = handle.packets_read
  BY <1>1, <1>4 DEF LaidOut, HandleFields
<1>6. /\ handle'.mode = handle.mode /\ handle'.cc = handle.cc /\ handle'.proc_dropped = handle.proc_dropped
      /\ handle'.stat = handle.stat /\ handle'.promisc = handle.promisc /\ handle'.direction = handle.direction
      /\ handle'.break_loop = handle.break_loop /\ handle'.offset = NextSlot(handle.offset) /\ handle'.use_bpf = n
      /\ handle'.packets_read = handle.packets_read + read
  BY <1>3, <1>5 DEF HandleFields
<1>7. handle'.packets_read \in {handle.packets_read, handle.packets_read + 1}
  BY <1>1, <1>6 DEF Fitting, Summed
<1>8. /\ kernel'.features = kernel.features /\ kernel'.queue = kernel.queue /\ kernel'.head = kernel.head
      /\ kernel'.arrivals = kernel.arrivals /\ kernel'.packets = kernel.packets /\ kernel'.drops = kernel.drops
      /\ kernel'.ifdrops = kernel.ifdrops
      /\ kernel'.frames = [kernel.frames EXCEPT ![handle.offset] = None]
  BY <1>1, <1>2 DEF LaidOut, KernelFields
<1>9. Fitting(handle', kernel') /\ \A f \in InKernel(kernel) : f \in InKernel(kernel') \/ f = kernel.frames[handle.offset]
  BY <1>1, <1>2, <1>4, <1>6, <1>7, <1>8, OutOfRing
<1>10. OldestLeaves
  BY <1>1, <1>9, NextLeaves DEF NextToRead
<1> QED
  BY <1>1, <1>6, <1>9, <1>10 DEF CountedOn, Mapped

LEMMA ReadCounts ==
  ASSUME CallCounted, Counting, Read
  PROVE  CountedOn
<1>1. LaidOut(handle, kernel) /\ Fitting(handle, kernel) /\ (call.at \in InRingSteps => Mapped) /\ DOMAIN call = CallFields
  BY CallIs DEF Counting
<1>2. Alike(handle, kernel, handle, kernel)
  BY <1>1, SetHandle DEF Positioned, Fitting
<1>3. CASE BreakBeforeReading \/ PollReturns \/ BreakBetweenFrames
  <2>1. kernel' = kernel /\ handle' \in {handle, [handle EXCEPT !.break_loop = FALSE]}
    BY <1>3 DEF BreakBeforeReading, PollReturns, BreakBetweenFrames, Broken
  <2>2. Alike(handle, kernel, [handle EXCEPT !.break_loop = FALSE], kernel)
    BY <1>1, SetHandle DEF Positioned, Fitting
  <2>3. call'.at \in {"idle", "recv"} \/ call.at \in InRingSteps
    BY <1>1, <1>3 DEF BreakBeforeReading, PollReturns, BreakBetweenFrames, Broken, Return, Idle, InRingSteps, CallFields
  <2>4. call'.at \in InRingSteps => Mapped
    BY <1>1, <2>3 DEF InRingSteps
  <2> QED
    BY <1>1, <1>2, <2>1, <2>2, <2>4, AlikeStep
<1>4. CASE FirstFrame
  BY <1>1, <1>2, <1>4, AlikeStep DEF FirstFrame, InRingSteps
<1>5. CASE ReadFails \/ PollFails
  <2>1. handle' = handle /\ kernel' = [kernel EXCEPT !.error = FALSE] /\ Return(call, PCAP_ERROR)
    BY <1>5 DEF ReadFails, PollFails
  <2>2. Alike(handle, kernel, handle', kernel')
    BY <1>1, <1>2, <2>1, SetKernel DEF LaidOut
  <2> QED
    BY <1>1, <2>1, <2>2, AlikeStep DEF Return, Idle, InRingSteps
<1>6. CASE ReadWouldBlock \/ NoMoreFrames
  <2>1. UNCHANGED <<handle, kernel>> /\ \E n : ReadReturns(call, n)
    BY <1>6 DEF ReadWouldBlock, NoMoreFrames
  <2> QED
    BY <1>1, <1>2, <2>1, AlikeStep, ReadReturnsTo
<1> QED
  BY <1>3, <1>4, <1>5, <1>6, ReadPacketCounts, ReadFrameCounts DEF Read
-----------------------------------------------------------------------------
\* A new socket has counted nothing, or the packet that came before it was bound.
LEMMA NewFits ==
  ASSUME NEW mode, NEW onAny, NEW cooked, NEW snapshot, NEW timeout, NEW promisc, NEW cc \in Nat, NEW features,
         mode = "mmap" => cc > 0
  PROVE  LET h == Opened(mode, onAny, cooked, snapshot, timeout, promisc, cc)
             k == NewKernel(features, cc)
         IN  LaidOut(h, k) /\ Fitting(h, k) /\ InKernel(k) = {}
<1> DEFINE h == Opened(mode, onAny, cooked, snapshot, timeout, promisc, cc)
           k == NewKernel(features, cc)
<1>1. /\ DOMAIN h = HandleFields /\ h.mode = mode /\ h.cc = cc /\ h.offset = 0 /\ h.use_bpf = 0
      /\ h.direction = "inout" /\ h.break_loop = FALSE /\ h.packets_read = 0 /\ h.proc_dropped = 0
      /\ h.stat = [recv |-> 0, drop |-> 0, ifdrop |-> 0]
  BY DEF Opened, HandleFields
<1>2. /\ DOMAIN k = KernelFields /\ k.queue = <<>> /\ k.frames = [s \in SlotsOf(cc) |-> None] /\ k.head = 0
      /\ k.arrivals = 0 /\ k.packets = 0 /\ k.drops = 0 /\ k.ifdrops = 0 /\ k.features = features
  BY DEF NewKernel, KernelFields
<1> HIDE DEF h, k
<1>3. ToSet(k.queue) = {} /\ Len(k.queue) = 0 /\ k.queue \in Seq(ToSet(k.queue)) /\ DOMAIN k.queue = {}
  BY <1>2 DEF ToSet
<1>4. InKernel(k) = {}
  BY <1>2, <1>3 DEF InKernel
<1>5. Positioned(h, k)
  <2>1. DOMAIN k.frames = SlotsOf(cc) /\ \A s \in DOMAIN k.frames : k.frames[s] = None
    BY <1>2
  <2>2. 0 \in 0 .. cc + 1 /\ Len(k.queue) <= QueueRoom
    BY <1>3, CountAssumption
  <2> QED
    <3>1. k.queue = <<>> /\ k.head = 0 /\ cc \in Nat
      BY <1>2
    <3>2. h.mode = "mmap" => h.cc > 0
      BY <1>1
    <3>3. h.cc = cc /\ h.offset = 0 /\ h.use_bpf = 0 /\ h.direction = "inout" /\ h.break_loop = FALSE
      BY <1>1
    <3>4. h.offset \in Nat /\ h.use_bpf \in 0 .. h.cc + 1
      BY <2>2, <3>3
    <3>5. h.break_loop \in BOOLEAN
      BY <3>3, Zenon
    <3> QED
      BY <1>3, <2>1, <2>2, <3>1, <3>2, <3>3, <3>4, <3>5 DEF Positioned
<1>6. Distinct(k)
  BY <1>2, <1>3, <1>4 DEF Distinct
<1>7. Summed(h, k)
  <2>1. IsFiniteSet(InKernel(k)) /\ Cardinality(InKernel(k)) = 0
    BY <1>4, FS_EmptySet
  <2> QED
    BY <1>1, <1>2, <2>1 DEF Summed
<1>8. InTurn(h, k)
  <2>1. mode = "mmap" => RingInTurn(h, k)
    BY <1>1, <1>2 DEF RingInTurn, Ahead, SlotsOf
  <2> QED
    BY <1>1, <1>3, <2>1 DEF InTurn, QueueInTurn
<1> QED
  BY <1>1, <1>2, <1>4, <1>5, <1>6, <1>7, <1>8 DEF LaidOut, Fitting, h, k

LEMMA EarlyFits ==
  ASSUME NEW h, NEW k, NEW pkt, NEW snap, LaidOut(h, k), Fitting(h, k), InKernel(k) = {}, k.queue = <<>>,
         k.arrivals = 0, k.drops = 0, k.packets = 0, h.mode = "packet", ~Mapped, kernel.arrivals = 0
  PROVE  Fitting(h, Received(k, pkt, snap))
<1> DEFINE l == Received(k, pkt, snap)
           fr == Frame(pkt, snap)
           counted == [k EXCEPT !.packets = @ + 1, !.arrivals = @ + 1]
<1>1. fr # None /\ fr.id = 1
  BY DEF Frame, None
<1> HIDE DEF fr
<1>2. /\ DOMAIN counted = KernelFields /\ counted.queue = <<>> /\ counted.frames = k.frames /\ counted.head = k.head
      /\ counted.arrivals = 1 /\ counted.packets = 1 /\ counted.drops = 0 /\ counted.ifdrops = k.ifdrops
      /\ counted.features = k.features
  BY DEF LaidOut, KernelFields
<1> HIDE DEF counted
<1>3. \A s \in DOMAIN k.frames : k.frames[s] = None
  BY DEF Fitting, Positioned
<1>4. /\ l.frames = k.frames /\ l.head = k.head /\ l.arrivals = 1 /\ l.packets = 1 /\ l.ifdrops = k.ifdrops
      /\ l.features = k.features
      /\ \/ l.queue = <<fr>> /\ l.drops = 0 /\ 0 < QueueRoom
         \/ l.queue = <<>> /\ l.drops = 1
  <2>1. l = IF Len(k.queue) < QueueRoom THEN [counted EXCEPT !.queue = Append(@, fr)] ELSE [counted EXCEPT !.drops = @ + 1]
    BY DEF Received, HasRoom, Enqueued, counted, fr
  <2> HIDE DEF l
  <2>2. Len(k.queue) = 0 /\ Append(counted.queue, fr) = <<fr>>
    BY <1>2
  <2>3. CASE 0 < QueueRoom
    BY <1>2, <2>1, <2>2, <2>3 DEF KernelFields
  <2>4. CASE ~(0 < QueueRoom)
    BY <1>2, <2>1, <2>2, <2>4 DEF KernelFields
  <2> QED
    BY <2>3, <2>4
<1> HIDE DEF l
<1>5. /\ ToSet(<<fr>>) = {fr} /\ Len(<<fr>>) = 1 /\ <<fr>> \in Seq({fr}) /\ DOMAIN <<fr>> = {1} /\ <<fr>>[1] = fr
      /\ ToSet(<<>>) = {} /\ Len(<<>>) = 0 /\ <<>> \in Seq({}) /\ DOMAIN <<>> = {}
  BY DEF ToSet
<1>6. Positioned(h, l)
  <2>1. /\ h.mode # "mmap" /\ l.queue \in Seq(ToSet(l.queue)) /\ Len(l.queue) <= QueueRoom
    <3>1. CASE l.queue = <<fr>> /\ 0 < QueueRoom
      <4>1. 1 <= QueueRoom
        BY <3>1, CountAssumption
      <4> QED
        BY <1>5, <3>1, <4>1
    <3>2. CASE l.queue = <<>>
      <4>1. 0 <= QueueRoom
        BY CountAssumption
      <4> QED
        BY <1>5, <3>2, <4>1
    <3> QED
      BY <1>4, <3>1, <3>2
  <2> QED
    BY <1>3, <1>4, <2>1 DEF Fitting, Positioned
<1>7. InKernel(l) = ToSet(l.queue) /\ ToSet(l.queue) \in {{}, {fr}}
  BY <1>1, <1>3, <1>4, <1>5 DEF InKernel
<1>8. Distinct(l)
  <2>1. \A i, j \in DOMAIN l.queue : i = j
    BY <1>4, <1>5
  <2>2. \A f \in InKernel(l) : f = fr
    BY <1>7
  <2> QED
    BY <1>1, <1>3, <1>4, <1>7, <2>1, <2>2 DEF Distinct
<1>9. Summed(h, l)
  <2>1. IsFiniteSet({}) /\ Cardinality({}) = 0 /\ IsFiniteSet({fr}) /\ Cardinality({fr}) = 1
    BY FS_EmptySet, FS_Singleton
  <2>2. IsFiniteSet(InKernel(l)) /\ l.drops + Cardinality(InKernel(l)) = 1
    <3>1. CASE l.queue = <<fr>> /\ l.drops = 0
      <4>1. InKernel(l) = {fr}
        BY <1>5, <1>7, <3>1
      <4> QED
        BY <2>1, <3>1, <4>1
    <3>2. CASE l.queue = <<>> /\ l.drops = 1
      <4>1. InKernel(l) = {}
        BY <1>5, <1>7, <3>2
      <4> QED
        BY <2>1, <3>2, <4>1
    <3> QED
      BY <1>4, <3>1, <3>2
  <2>3. Cardinality(InKernel(l)) \in Nat
    BY <2>2, FS_CardinalityType
  <2>4. Cardinality(InKernel(k)) = 0
    BY <2>1
  <2>5. h.packets_read + h.stat.drop + l.drops + Cardinality(InKernel(l)) <= 1
    BY <1>4, <2>2, <2>3, <2>4 DEF Fitting, Summed
  <2> QED
    BY <1>4, <2>2, <2>5 DEF Fitting, Summed
<1>10. InTurn(h, l)
  <2>1. \A i, j \in DOMAIN l.queue : i = j /\ i \in Nat
    BY <1>4, <1>5
  <2> QED
    BY <2>1 DEF InTurn, QueueInTurn
<1> QED
  BY <1>6, <1>8, <1>9, <1>10 DEF Fitting, l

LEMMA ActivatedCounts ==
  ASSUME ToUndo, Meant, Counting, Activated
  PROVE  CountedOn /\ p'.life = "activated"
<1> DEFINE h == Opened(p.mode, p.device = "any", p.cooked, p.opt.snapshot, p.opt.timeout, p.opt.promisc, p.ring.frame_nr)
           k == NewKernel(p.features, p.ring.frame_nr)
<1>1. at = "opened" /\ p.life # "activated" /\ p'.life = "activated"
  BY DEF Activated, ToUndo, Shape, PcapFields
<1>2. handle = Unopened /\ kernel = NewKernel({}, 0)
  BY <1>1 DEF Counting
<1>3. ~Mapped /\ kernel.arrivals = 0
  BY <1>2 DEF Mapped, Unopened, Opened, NewKernel
<1>4. handle' = h /\ call' = call /\ (kernel' = k \/ \E pkt \in Early : kernel' = Received(k, pkt, Len(Raw(h, pkt))))
  BY DEF Activated
<1>5. h.mode = p.mode /\ k.queue = <<>> /\ k.arrivals = 0 /\ k.drops = 0 /\ k.packets = 0
  BY DEF Opened, NewKernel
<1>6. LaidOut(h, k) /\ Fitting(h, k) /\ InKernel(k) = {}
  <2>1. p.ring.frame_nr \in Nat /\ (p.mode = "mmap" => p.ring.frame_nr > 0)
    BY DEF Meant, RingKept
  <2> QED
    BY <2>1, NewFits
<1>7. Early # {} => p.mode = "packet"
  BY DEF Early
<1> HIDE DEF h, k
<1>8. Fitting(handle', kernel')
  <2>1. CASE kernel' = k
    BY <1>4, <1>6, <2>1
  <2>2. CASE \E pkt \in Early : kernel' = Received(k, pkt, Len(Raw(h, pkt)))
    <3>1. PICK pkt \in Early : kernel' = Received(k, pkt, Len(Raw(h, pkt)))
      BY <2>2
    <3> DEFINE snap == Len(Raw(h, pkt))
    <3>2. kernel' = Received(k, pkt, snap)
      BY <3>1
    <3>3. h.mode = "packet"
      BY <1>5, <1>7, <3>1
    <3> HIDE DEF snap
    <3>4. Fitting(h, Received(k, pkt, snap))
      BY <1>3, <1>5, <1>6, <3>3, EarlyFits
    <3> QED
      BY <1>4, <3>2, <3>4
  <2> QED
    BY <1>4, <2>1, <2>2
<1>9. call'.at \notin InRingSteps
  BY <1>3, <1>4 DEF Counting
<1>10. OldestLeaves
  <2>1. InKernel(kernel) = {}
    BY <1>2, NewFits
  <2> QED
    BY <2>1, NoneLeave
<1> QED
  BY <1>1, <1>8, <1>9, <1>10 DEF CountedOn

LEMMA ClosedCounts ==
  ASSUME handle' = Unopened, kernel' = NewKernel({}, 0), call' = Idle
  PROVE  Counting'
<1>1. LaidOut(Unopened, NewKernel({}, 0)) /\ Fitting(Unopened, NewKernel({}, 0))
  BY NewFits DEF Unopened
<1>2. call'.at \notin InRingSteps
  BY DEF Idle, InRingSteps
<1> QED
  BY <1>1, <1>2 DEF Counting

LEMMA InitCounting == ActivateInit => Counting
<1> SUFFICES ASSUME ActivateInit PROVE Counting
  OBVIOUS
<1>1. handle = Unopened /\ kernel = NewKernel({}, 0) /\ call = Idle
  BY DEF ActivateInit, IsOpened
<1>2. LaidOut(Unopened, NewKernel({}, 0)) /\ Fitting(Unopened, NewKernel({}, 0))
  BY NewFits DEF Unopened
<1>3. call.at \notin InRingSteps
  BY <1>1 DEF Idle, InRingSteps
<1> QED
  BY <1>1, <1>2, <1>3 DEF Counting

LEMMA StepCounting == ToUndo /\ Meant /\ HandleKept /\ Telling /\ Counting /\ [ActivateNext]_vars => Counting'
<1> SUFFICES ASSUME ToUndo, Meant, HandleKept, Telling, Counting, [ActivateNext]_vars PROVE Counting'
  OBVIOUS
<1>1. LaidOut(handle', kernel')
  BY StepHandleKept DEF HandleKept, LaidOut
<1>2. ASSUME UNCHANGED <<handle, kernel, call>>, p.life = "activated" => p'.life = "activated" 
      PROVE  Counting'
  <2>1. p'.life # "activated" => p.life # "activated"
    BY <1>2
  <2> QED
    BY <1>2, <2>1 DEF Counting, Mapped
<1>3. CASE Capture
  <2>1. CountedOn /\ p' = p /\ p.life = "activated"
    BY <1>3, UseCounts, ReadCounts, SetCounts, EnvironmentCounts DEF Capture, CaptureNext, Telling, activateVars
  <2> QED
    BY <1>1, <2>1 DEF CountedOn, Counting
<1>4. CASE pcap_close \/ Exit
  BY <1>4, ClosedCounts DEF pcap_close, Close, Exit
<1>5. CASE Activated
  BY <1>1, <1>5, ActivatedCounts DEF CountedOn, Counting
<1>6. CASE pcap_create \/ pcap_set \/ pcap_activate
  <2>1. p.life # "activated" /\ UNCHANGED <<handle, kernel, call>>
    BY <1>6 DEF pcap_create, pcap_set, pcap_activate, captureVars
  <2> QED
    BY <1>2, <2>1
<1>7. CASE pcap_set_datalink
  <2>1. p'.life = p.life /\ UNCHANGED <<handle, kernel, call>>
    BY <1>7 DEF pcap_set_datalink, captureVars, ToUndo, Shape, PcapFields
  <2> QED
    BY <1>2, <2>1
<1>8. CASE pcap_activate_linux /\ ~Activated
  <2>1. UNCHANGED captureVars /\ at # "idle"
    BY <1>8 DEF pcap_activate_linux, activate_new, activate_mmap, activate_old, enter_rfmon_mode,
      enter_rfmon_mode_mac80211, enter_rfmon_mode_wext, OpenSocket, AnyDevice, FindPhy, AddMonitor, BringMonitorUp,
      FindDriver, GetMode, Prism, TakeDown, SetMode, AskForHeaders, BringUp, GetArpType, Reopen, Bind, JoinPromisc,
      AskForTags, AllocateOneshot, PrepareSocket, SetTimeStamps, AskForRing, TryRing, MapRing, ListFrames, OpenOld,
      BindOld, PromiscOld, MtuOld, SetBufferSize, AllocateBuffer, Step
  <2>2. p.life # "activated" /\ UNCHANGED <<handle, kernel, call>>
    BY <2>1 DEF captureVars, ToUndo, Shape
  <2> QED
    BY <1>2, <2>2
<1>9. CASE UNCHANGED vars
  BY <1>2, <1>9 DEF vars, captureVars, activateVars
<1> QED
  BY <1>3, <1>4, <1>5, <1>6, <1>7, <1>8, <1>9 DEF ActivateNext

LEMMA CountingIsEnough == ToUndo /\ Meant /\ Telling /\ Counting => Consistent
<1> SUFFICES ASSUME ToUndo, Meant, Telling, Counting PROVE Consistent
  OBVIOUS
<1>1. CaptureTypeOK
  <2>1. Positioned(handle, kernel)
    BY DEF Counting, Fitting
  <2>2. handle.offset = 0 \/ handle.offset \in DOMAIN kernel.frames
    BY <2>1 DEF Positioned, SlotsOf
  <2>3. /\ handle.use_bpf \in 0 .. handle.cc + 1
        /\ handle.direction \in {"in", "out", "inout"} /\ handle.break_loop \in BOOLEAN
        /\ kernel.head \in 0 .. handle.cc /\ Len(kernel.queue) <= QueueRoom
        /\ Mapped => kernel.queue = <<>>
    BY <2>1 DEF Positioned, Mapped
  <2>4. call.at \in {"idle", "check", "recv", "first", "poll", "frames", "between", "drain", "attach"}
    BY DEF Telling, CallCounted, Reading
  <2> QED
    BY <2>2, <2>3, <2>4 DEF CaptureTypeOK
<1>2. ActivateTypeOK
  <2>1. sys.fd.is \in {"none", "raw", "dgram", "old"} /\ sys.local.is \in {"none", "raw", "dgram"}
    <3>1. sys.fd.is \in {"none", "raw", "dgram", "old"}
      BY DEF ToUndo, SocketsHeld, Descriptor, NoSocket
    <3>2. sys.local.is \in {"none", "raw", "dgram"}
      BY DEF ToUndo, SocketsHeld, NoSocket, Meant, SocketKept
    <3> QED
      BY <3>1, <3>2
  <2>2. /\ p.life \in {"none", "created", "activating", "activated", "failed"}
        /\ at = "idle" <=> p.life # "activating"
    BY DEF ToUndo, Shape
  <2>3. /\ p.must \subseteq {"promisc", "rfmon", "monif"} /\ p.dlts \subseteq {"EN10MB", "DOCSIS"}
        /\ p.mode \in {"packet", "mmap", "sock_packet"} /\ p.ring.frame_nr \in Nat
        /\ sys.mapped \in BOOLEAN /\ sys.listed \in BOOLEAN
    BY DEF Meant, SettingsKept, RingKept
  <2> QED
    BY <1>1, <2>1, <2>2, <2>3 DEF ActivateTypeOK
<1>3. Accounted
  <2>1. Summed(handle, kernel)
    BY DEF Counting, Fitting
  <2> QED
    BY <2>1 DEF Summed, Accounted
<1>4. OldestIsNext
  BY AtOldest DEF Counting
<1> QED
  BY <1>2, <1>3, <1>4 DEF Consistent

\* For any packets, filters, queues and rings, however long the capture: the positions in the ring
\* are in it, reading is at the packet that came first and never waits at a free frame while another
\* is taken, what waits waits in one place and once, and the counters of the kernel and of the
\* pcap_t together count every packet that passed, whenever they are read and whichever is dropped.
THEOREM AllAccounted == ActivateSpec => []Consistent
<1> DEFINE All == ToUndo /\ Meant /\ HandleKept /\ Telling /\ Counting
<1>1. ActivateInit => All
  BY InitToUndo, InitMeant, InitHandleKept, InitTelling, InitCounting
<1>2. All /\ [ActivateNext]_vars => All'
  BY StepToUndo, StepMeant, StepHandleKept, StepTelling, StepCounting
<1>3. All => Consistent
  BY CountingIsEnough
<1> QED
  BY <1>1, <1>2, <1>3, PTL DEF ActivateSpec

\* A step that takes a packet out takes the oldest, or empties the queue for a new filter, or closes
\* the pcap_t.
LEMMA StepLeaves == Telling /\ Counting /\ ToUndo /\ Meant /\ [ActivateNext]_vars => [OldestLeaves]_captureVars
<1> SUFFICES ASSUME Telling, Counting, ToUndo, Meant, [ActivateNext]_vars PROVE OldestLeaves
  OBVIOUS
<1>1. CASE Capture
  BY <1>1, UseCounts, ReadCounts, SetCounts, EnvironmentCounts DEF Capture, CaptureNext, Telling, CountedOn
<1>2. CASE pcap_close \/ Exit
  <2>1. handle' = Unopened
    BY <1>2 DEF pcap_close, Close, Exit
  <2>2. handle'.mode = "none"
    BY <2>1 DEF Unopened, Opened
  <2> QED
    BY <2>2 DEF OldestLeaves
<1>3. CASE Activated
  BY <1>3, ActivatedCounts DEF CountedOn
<1>4. CASE UNCHANGED captureVars
  BY <1>4, NoneLeave DEF captureVars
<1>5. CASE pcap_activate_linux /\ ~Activated
  <2>1. UNCHANGED captureVars
    BY <1>5 DEF pcap_activate_linux, activate_new, activate_mmap, activate_old, enter_rfmon_mode,
      enter_rfmon_mode_mac80211, enter_rfmon_mode_wext, OpenSocket, AnyDevice, FindPhy, AddMonitor, BringMonitorUp,
      FindDriver, GetMode, Prism, TakeDown, SetMode, AskForHeaders, BringUp, GetArpType, Reopen, Bind, JoinPromisc,
      AskForTags, AllocateOneshot, PrepareSocket, SetTimeStamps, AskForRing, TryRing, MapRing, ListFrames, OpenOld,
      BindOld, PromiscOld, MtuOld, SetBufferSize, AllocateBuffer, Step
  <2> QED
    BY <1>4, <2>1
<1>6. CASE pcap_create \/ pcap_set \/ pcap_activate \/ pcap_set_datalink \/ UNCHANGED vars
  <2>1. UNCHANGED captureVars
    BY <1>6 DEF pcap_create, pcap_set, pcap_activate, pcap_set_datalink, vars
  <2> QED
    BY <1>4, <2>1
<1> QED
  BY <1>1, <1>2, <1>3, <1>5, <1>6 DEF ActivateNext

\* Packets are taken out of the kernel in the order in which they came, by whichever way of reading:
\* none is passed over, unless the queue is emptied for a filter that is being set, or at the end.
\* This is what LeavesForAReason says of their order.
THEOREM LeaveInOrder == ActivateSpec => [][\A fr \in Gone : Drain \/ handle'.mode = "none" \/ Oldest(fr)]_captureVars
<1> DEFINE All == ToUndo /\ Meant /\ HandleKept /\ Telling /\ Counting
<1>1. ActivateInit => All
  BY InitToUndo, InitMeant, InitHandleKept, InitTelling, InitCounting
<1>2. All /\ [ActivateNext]_vars => All'
  BY StepToUndo, StepMeant, StepHandleKept, StepTelling, StepCounting
<1>3. All /\ [ActivateNext]_vars => [OldestLeaves]_captureVars
  BY StepLeaves
<1> QED
  BY <1>1, <1>2, <1>3, PTL DEF ActivateSpec, OldestLeaves

-----------------------------------------------------------------------------
(* The list of devices.  add_or_find_if puts a device between those that it does not go before    *)
(* and the others; the order is total but for devices of the same number, so that the list is     *)
(* sorted by it.  Each address in the list has its place among those that were told.              *)

\* What the list is of.
Dev == (Names \X {0, 1}) \cup {any}
Told == UNION {ToSet(told) : told \in Addresses}
Addr == {entry.addr : entry \in Told}
DeviceEntry == [dev : Dev, addresses : Seq(Addr)]

Sorted(list) == \A m, n \in DOMAIN list : m < n => Before(list[m].dev, list[n].dev)
Once(list) == \A m, n \in DOMAIN list : list[m].dev = list[n].dev => m = n
Devs(list) == {list[n].dev : n \in DOMAIN list}

\* The entries of a list are of devices.
LEMMA EntriesOfList ==
  ASSUME NEW list \in Seq(DeviceEntry)
  PROVE  /\ Len(list) \in Nat /\ DOMAIN list = 1 .. Len(list)
         /\ \A n \in DOMAIN list : list[n] \in DeviceEntry /\ list[n].dev \in Dev
<1>1. /\ Len(list) \in Nat /\ DOMAIN list = 1 .. Len(list)
      /\ \A n \in DOMAIN list : list[n] \in DeviceEntry
  BY LenProperties
<1>2. \A e \in DeviceEntry : e.dev \in Dev
  BY DEF DeviceEntry
<1>3. QED
  BY <1>1, <1>2

\* Devices have numbers to compare.
LEMMA NumberIsInt ==
  ASSUME NEW dev \in Dev
  PROVE  get_instance(dev) \in Int /\ IsLoopback(dev) \in BOOLEAN
<1>1. IsLoopback(dev) \in BOOLEAN
  BY DEF IsLoopback
<1>2. CASE dev = any
  BY <1>1, <1>2 DEF get_instance, INT_MAX
<1>3. CASE dev # any
  <2>1. dev[1] \in Names
    BY <1>3 DEF Dev
  <2>2. QED
    BY <1>1, <1>3, <2>1, InterfacesAssumption DEF get_instance
<1>4. QED
  BY <1>2, <1>3

\* What a device does not go before goes before it.
LEMMA EitherBefore ==
  ASSUME NEW a \in Dev, NEW b \in Dev
  PROVE  /\ GoesBefore(a, b) => Before(a, b)
         /\ ~GoesBefore(a, b) => Before(b, a)
BY NumberIsInt DEF GoesBefore, Before

\* The order is transitive.
LEMMA BeforeIsTransitive ==
  ASSUME NEW a \in Dev, NEW b \in Dev, NEW c \in Dev, Before(a, b), Before(b, c)
  PROVE  Before(a, c)
BY NumberIsInt DEF Before

\* A device finds its place between those that it does not go before and the others.
LEMMA PlaceIsBetween ==
  ASSUME NEW list \in Seq(DeviceEntry), Sorted(list), NEW dev \in Dev
  PROVE  /\ Place(list, dev) \in 1 .. Len(list) + 1
         /\ \A n \in DOMAIN list : IF n < Place(list, dev) THEN Before(list[n].dev, dev) ELSE Before(dev, list[n].dev)
<1> DEFINE later == {n \in DOMAIN list : GoesBefore(dev, list[n].dev)}
<1>1. /\ Len(list) \in Nat /\ DOMAIN list = 1 .. Len(list)
      /\ \A n \in DOMAIN list : list[n].dev \in Dev
  BY EntriesOfList
<1>2. CASE later = {}
  <2>1. Place(list, dev) = Len(list) + 1
    BY <1>2 DEF Place
  <2>2. ASSUME NEW n \in DOMAIN list PROVE Before(list[n].dev, dev)
    <3>1. ~GoesBefore(dev, list[n].dev)
      BY <1>2
    <3>2. QED
      BY <1>1, <3>1, EitherBefore
  <2>3. QED
    BY <1>1, <2>1, <2>2
<1>3. CASE later # {}
  <2>1. PICK place \in later : \A n \in later : place <= n
    <3>1. later \in SUBSET Nat
      BY <1>1
    <3>2. QED
      BY <1>3, <3>1, NatMin
  <2>2. Place(list, dev) \in later /\ \A n \in later : Place(list, dev) <= n
    <3>1. Place(list, dev) = CHOOSE x \in later : \A y \in later : x <= y
      BY <1>3 DEF Place, Min
    <3>2. QED
      BY <2>1, <3>1
  <2> DEFINE q == Place(list, dev)
  <2>3. q \in 1 .. Len(list) /\ GoesBefore(dev, list[q].dev)
    BY <1>1, <2>2
  <2>4. Before(dev, list[q].dev)
    BY <1>1, <2>3, EitherBefore
  <2> HIDE DEF q
  <2>5. ASSUME NEW n \in DOMAIN list, n < q PROVE Before(list[n].dev, dev)
    <3>1. n \notin later
      BY <1>1, <2>2, <2>3, <2>5 DEF q
    <3>2. ~GoesBefore(dev, list[n].dev)
      BY <3>1
    <3>3. QED
      BY <1>1, <3>2, EitherBefore
  <2>6. ASSUME NEW n \in DOMAIN list, ~(n < q) PROVE Before(dev, list[n].dev)
    <3>1. CASE n = q
      BY <2>4, <3>1
    <3>2. CASE n # q
      <4>1. Before(list[q].dev, list[n].dev)
        BY <1>1, <2>3, <2>6, <3>2 DEF Sorted
      <4>2. QED
        BY <1>1, <2>3, <2>4, <4>1, BeforeIsTransitive
    <3>3. QED
      BY <3>1, <3>2
  <2>7. QED
    BY <1>1, <2>3, <2>5, <2>6 DEF q
<1>4. QED
  BY <1>2, <1>3

\* add_or_find_if keeps the list in order and without repetition; a device that can be opened is in
\* it afterwards, with no address if it was not there, and the others are as they were.
LEMMA Adds ==
  ASSUME NEW list \in Seq(DeviceEntry), Sorted(list), Once(list), scan.openable \subseteq Dev, NEW dev
  PROVE  LET new == add_or_find_if(list, dev) IN
         /\ new \in Seq(DeviceEntry) /\ Sorted(new) /\ Once(new)
         /\ Devs(new) = Devs(list) \cup ({dev} \cap scan.openable)
         /\ \A n \in DOMAIN new :
              \/ \E k \in DOMAIN list : new[n] = list[k]
              \/ new[n] = [dev |-> dev, addresses |-> <<>>] /\ dev \notin Devs(list) /\ dev \in scan.openable
<1> DEFINE new == add_or_find_if(list, dev)
           e == [dev |-> dev, addresses |-> <<>>]
           place == Place(list, dev)
<1>1. /\ Len(list) \in Nat /\ DOMAIN list = 1 .. Len(list)
      /\ \A n \in DOMAIN list : list[n].dev \in Dev
  BY EntriesOfList
<1>2. CASE Listed(list, dev) \/ dev \notin scan.openable
  <2>1. new = list
    BY <1>2 DEF add_or_find_if
  <2>2. Devs(list) = Devs(list) \cup ({dev} \cap scan.openable)
    BY <1>2 DEF Listed, Devs
  <2>3. QED
    BY <2>1, <2>2
<1>3. CASE ~Listed(list, dev) /\ dev \in scan.openable
  <2>1. new = InsertAt(list, place, e) /\ dev \in Dev
    BY <1>3 DEF add_or_find_if
  <2>2. e \in DeviceEntry
    BY <2>1 DEF DeviceEntry
  <2>3. /\ place \in 1 .. Len(list) + 1
        /\ \A n \in DOMAIN list : IF n < place THEN Before(list[n].dev, dev) ELSE Before(dev, list[n].dev)
    BY <2>1, PlaceIsBetween
  <2> HIDE DEF e, place
  <2>4. /\ new \in Seq(DeviceEntry) /\ Len(new) = Len(list) + 1
        /\ \A k \in 1 .. Len(list) + 1 : new[k] = IF k < place THEN list[k] ELSE IF k = place THEN e ELSE list[k - 1]
    <3>1. new = Inserted(list, place, e)
      BY <2>1 DEF InsertAt, Inserted
    <3> HIDE DEF new
    <3>2. QED
      BY <2>2, <2>3, <3>1, WithOneMore
  <2> HIDE DEF new
  <2> DEFINE N == Len(list)
  <2>5. DOMAIN new = 1 .. N + 1 /\ N \in Nat /\ DOMAIN list = 1 .. N /\ place \in 1 .. N + 1
    BY <1>1, <2>3, <2>4, LenProperties
  <2>6. e.dev = dev /\ dev \notin Devs(list)
    BY <1>3 DEF e, Listed, Devs
  <2>7. \A k \in 1 .. N + 1 : new[k] = IF k < place THEN list[k] ELSE IF k = place THEN e ELSE list[k - 1]
    BY <2>4
  <2>8. \A n \in 1 .. N : IF n < place THEN Before(list[n].dev, dev) ELSE Before(dev, list[n].dev)
    BY <2>3, <2>5
  <2>9. \A m, n \in 1 .. N : m < n => Before(list[m].dev, list[n].dev)
    BY <2>5 DEF Sorted
  <2>10. \A m, n \in 1 .. N : list[m].dev = list[n].dev => m = n
    BY <2>5 DEF Once
  <2>11. \A n \in 1 .. N : list[n].dev # dev
    BY <2>5, <2>6 DEF Devs
  <2> HIDE DEF N
  <2>12. Sorted(new)
    <3> SUFFICES ASSUME NEW m \in 1 .. N + 1, NEW n \in 1 .. N + 1, m < n
                 PROVE  Before(new[m].dev, new[n].dev)
      BY <2>5 DEF Sorted
    <3>1. CASE n < place
      <4>1. m \in 1 .. N /\ n \in 1 .. N /\ new[m] = list[m] /\ new[n] = list[n]
        BY <2>5, <2>7, <3>1
      <4>2. QED
        BY <2>9, <4>1
    <3>2. CASE n = place
      <4>1. m \in 1 .. N /\ m < place /\ new[m] = list[m] /\ new[n] = e
        BY <2>5, <2>7, <3>2
      <4>2. QED
        BY <2>6, <2>8, <4>1
    <3>3. CASE n > place
      <4>1. n - 1 \in 1 .. N /\ new[n] = list[n - 1] /\ ~(n - 1 < place)
        BY <2>5, <2>7, <3>3
      <4>2. CASE m < place
        <5>1. m \in 1 .. N /\ new[m] = list[m] /\ m < n - 1
          BY <2>5, <2>7, <3>3, <4>2
        <5>2. QED
          BY <2>9, <4>1, <5>1
      <4>3. CASE m = place
        <5>1. new[m] = e
          BY <2>5, <2>7, <4>3
        <5>2. QED
          BY <2>6, <2>8, <4>1, <5>1
      <4>4. CASE m > place
        <5>1. m - 1 \in 1 .. N /\ new[m] = list[m - 1] /\ m - 1 < n - 1
          BY <2>5, <2>7, <4>4
        <5>2. QED
          BY <2>9, <4>1, <5>1
      <4>5. QED
        BY <2>5, <4>2, <4>3, <4>4
    <3>4. QED
      BY <2>5, <3>1, <3>2, <3>3
  <2>13. ASSUME NEW k \in 1 .. N + 1
         PROVE  \/ k = place /\ new[k] = e
                \/ k # place /\ \E j \in 1 .. N : new[k] = list[j] /\ j = IF k < place THEN k ELSE k - 1
    <3>1. CASE k < place
      <4>1. k \in 1 .. N /\ new[k] = list[k] /\ k # place
        BY <2>5, <2>7, <3>1
      <4>2. QED
        BY <3>1, <4>1
    <3>2. CASE k = place
      BY <2>5, <2>7, <3>2
    <3>3. CASE k > place
      <4>1. k - 1 \in 1 .. N /\ new[k] = list[k - 1] /\ k # place /\ ~(k < place)
        BY <2>5, <2>7, <3>3
      <4>2. QED
        BY <4>1
    <3>4. QED
      BY <2>5, <3>1, <3>2, <3>3
  <2>14. Once(new)
    <3> SUFFICES ASSUME NEW m \in 1 .. N + 1, NEW n \in 1 .. N + 1, new[m].dev = new[n].dev
                 PROVE  m = n
      BY <2>5 DEF Once
    <3>1. CASE m = place \/ n = place
      BY <2>6, <2>11, <2>13, <3>1
    <3>2. CASE m # place /\ n # place
      <4>1. PICK i \in 1 .. N : new[m] = list[i] /\ i = IF m < place THEN m ELSE m - 1
        BY <2>13, <3>2
      <4>2. PICK j \in 1 .. N : new[n] = list[j] /\ j = IF n < place THEN n ELSE n - 1
        BY <2>13, <3>2
      <4>3. i = j
        BY <2>10, <4>1, <4>2
      <4>4. QED
        BY <2>5, <3>2, <4>1, <4>2, <4>3
    <3>3. QED
      BY <3>1, <3>2
  <2>15. ASSUME NEW j \in 1 .. N
         PROVE  \E k \in 1 .. N + 1 : new[k] = list[j]
    <3>1. CASE j < place
      <4>1. j \in 1 .. N + 1 /\ new[j] = list[j]
        BY <2>5, <2>7, <3>1
      <4>2. QED
        BY <4>1
    <3>2. CASE ~(j < place)
      <4>1. j + 1 \in 1 .. N + 1 /\ ~(j + 1 < place) /\ j + 1 # place /\ (j + 1) - 1 = j
        BY <2>5, <3>2
      <4>2. new[j + 1] = list[(j + 1) - 1]
        BY <2>7, <4>1
      <4>3. QED
        BY <4>1, <4>2
    <3>3. QED
      BY <3>1, <3>2
  <2>16. Devs(new) = Devs(list) \cup {dev}
    <3>1. ASSUME NEW d \in Devs(new) PROVE d \in Devs(list) \cup {dev}
      <4>1. PICK k \in 1 .. N + 1 : d = new[k].dev
        BY <2>5 DEF Devs
      <4>2. CASE new[k] = e
        BY <2>6, <4>1, <4>2
      <4>3. CASE \E j \in 1 .. N : new[k] = list[j]
        BY <2>5, <4>1, <4>3 DEF Devs
      <4>4. QED
        BY <2>13, <4>2, <4>3
    <3>2. ASSUME NEW d \in Devs(list) PROVE d \in Devs(new)
      BY <2>5, <2>15 DEF Devs
    <3>3. dev \in Devs(new)
      <4>1. place \in DOMAIN new /\ new[place].dev = dev
        BY <2>5, <2>6, <2>7
      <4>2. QED
        BY <4>1 DEF Devs
    <3>4. QED
      BY <3>1, <3>2, <3>3
  <2>17. {dev} = {dev} \cap scan.openable
    BY <1>3
  <2>18. \A n \in DOMAIN new :
           \/ \E k \in DOMAIN list : new[n] = list[k]
           \/ new[n] = e /\ dev \notin Devs(list) /\ dev \in scan.openable
    BY <1>3, <2>5, <2>6, <2>13
  <2>19. QED
    BY <2>4, <2>12, <2>14, <2>16, <2>17, <2>18 DEF e, new
<1>4. QED
  BY <1>2, <1>3
-----------------------------------------------------------------------------
\* What was told of a device, as ToldOf and HasWhatWasTold have it, of any scan and list.
NameFrom(from, entry) == <<entry.name, IF from[1] = "getad" THEN 0 ELSE entry.alias>>
ToldFrom(from, told, dev) == {k \in DOMAIN told : NameFrom(from, told[k]) = dev}
AreTold(addresses, all, told) ==
  \E where \in [DOMAIN addresses -> all] :
    /\ Range(where) = all
    /\ \A m, n \in DOMAIN addresses : m < n => where[m] < where[n]
    /\ \A n \in DOMAIN addresses : addresses[n] = told[where[n]].addr
EntryIsTold(entry, s) == AreTold(entry.addresses, ToldFrom(s.from, s.told, entry.dev), s.told)

IsScan(s) ==
  s = [at |-> s.at, todo |-> s.todo, left |-> s.left, from |-> s.from, openable |-> s.openable,
       told |-> s.told, up |-> s.up, status |-> s.status]

\* The inductive invariant: while there is a scan, the list is of what is up so far.
ScanOK(s) ==
  /\ IsScan(s)
  /\ s.todo \in Seq(Told) /\ s.told \in Seq(Told)
  /\ s.openable \subseteq Dev
  /\ s.at # "idle" => s.status = "none"
  /\ \A k \in DOMAIN s.told : NameFrom(s.from, s.told[k]) \in s.up
ListOK(list, s) ==
  /\ list \in Seq(DeviceEntry) /\ Sorted(list) /\ Once(list)
  /\ s.status # "error" => Devs(list) = s.up \cap s.openable
  /\ s.status = "error" => list = <<>>
  /\ \A n \in DOMAIN list : EntryIsTold(list[n], s)
  /\ \A n \in DOMAIN list : s.from[1] = "getad" => list[n].dev[2] = 0
Lists(list, s) == ScanOK(s) /\ ListOK(list, s)

\* A device of which nothing was told has no address.
LEMMA NoneTold ==
  ASSUME NEW told
  PROVE  AreTold(<<>>, {}, told)
<1>1. <<>> \in [DOMAIN <<>> -> {}] /\ Range(<<>>) = {}
  BY DEF Range
<1>2. QED
  BY <1>1 DEF AreTold

\* One more address is told, of the device and after all others.
LEMMA OneMoreTold ==
  ASSUME NEW S, NEW addresses \in Seq(S), NEW told \in Seq(Told), NEW entry \in Told,
         NEW all \in SUBSET (DOMAIN told), AreTold(addresses, all, told)
  PROVE  /\ AreTold(addresses, all, Append(told, entry))
         /\ AreTold(Append(addresses, entry.addr), all \cup {Len(told) + 1}, Append(told, entry))
<1> DEFINE t == Append(told, entry)
           N == Len(addresses)
           L == Len(told)
           more == Append(addresses, entry.addr)
<1>1. /\ L \in Nat /\ DOMAIN told = 1 .. L /\ N \in Nat /\ DOMAIN addresses = 1 .. N
  BY LenProperties
<1>2. /\ \A k \in 1 .. L : t[k] = told[k]
      /\ t[L + 1] = entry
  BY AppendProperties
<1>3. PICK where \in [DOMAIN addresses -> all] :
        /\ Range(where) = all
        /\ \A m, n \in DOMAIN addresses : m < n => where[m] < where[n]
        /\ \A n \in DOMAIN addresses : addresses[n] = told[where[n]].addr
  BY DEF AreTold
<1>4. /\ DOMAIN more = 1 .. N + 1
      /\ \A k \in 1 .. N : more[k] = addresses[k]
      /\ more[N + 1] = entry.addr
  <2>1. addresses \in Seq(S \cup {entry.addr}) /\ entry.addr \in S \cup {entry.addr}
    <3>1. \A k \in 1 .. N : addresses[k] \in S
      BY <1>1
    <3>2. addresses = [k \in 1 .. N |-> addresses[k]]
      BY <1>1
    <3>3. QED
      BY <1>1, <3>1, <3>2, SeqDef
  <2>2. QED
    BY <1>1, <2>1, AppendProperties, LenProperties
<1> HIDE DEF t, N, L, more
<1>5. \A n \in 1 .. N : where[n] \in all /\ where[n] \in 1 .. L
  BY <1>1, <1>3
<1>6. AreTold(addresses, all, t)
  <2>1. \A n \in DOMAIN addresses : addresses[n] = t[where[n]].addr
    BY <1>1, <1>2, <1>3, <1>5
  <2>2. QED
    BY <1>3, <2>1 DEF AreTold
<1> DEFINE w == [n \in 1 .. N + 1 |-> IF n = N + 1 THEN L + 1 ELSE where[n]]
           all2 == all \cup {L + 1}
<1>7. /\ \A n \in 1 .. N : n \in 1 .. N + 1 /\ w[n] = where[n]
      /\ w[N + 1] = L + 1 /\ N + 1 \in 1 .. N + 1
      /\ DOMAIN w = 1 .. N + 1
      /\ \A n \in 1 .. N + 1 : n \in 1 .. N \/ n = N + 1
  BY <1>1
<1>8. w \in [DOMAIN more -> all2]
  <2>1. \A n \in 1 .. N + 1 : w[n] \in all2
    BY <1>5, <1>7
  <2>2. w = [n \in 1 .. N + 1 |-> w[n]]
    OBVIOUS
  <2>3. QED
    BY <1>4, <2>1, <2>2
<1> HIDE DEF w
<1>9. Range(w) = all2
  <2>1. ASSUME NEW x \in all PROVE x \in Range(w)
    <3>1. PICK n \in 1 .. N : where[n] = x
      BY <1>1, <1>3 DEF Range
    <3>2. QED
      BY <1>7, <3>1 DEF Range
  <2>2. L + 1 \in Range(w)
    BY <1>7 DEF Range
  <2>3. \A x \in Range(w) : x \in all2
    BY <1>5, <1>7 DEF Range
  <2>4. QED
    BY <2>1, <2>2, <2>3
<1>10. ASSUME NEW m \in 1 .. N + 1, NEW n \in 1 .. N + 1, m < n
       PROVE  w[m] < w[n]
  <2>1. m \in 1 .. N
    BY <1>1, <1>10
  <2>2. CASE n \in 1 .. N
    BY <1>1, <1>3, <1>7, <1>10, <2>1, <2>2
  <2>3. CASE n = N + 1
    BY <1>1, <1>5, <1>7, <2>1, <2>3
  <2>4. QED
    BY <1>7, <2>2, <2>3
<1>11. ASSUME NEW n \in 1 .. N + 1
       PROVE  more[n] = t[w[n]].addr
  <2>1. CASE n \in 1 .. N
    BY <1>1, <1>2, <1>3, <1>4, <1>5, <1>7, <2>1
  <2>2. CASE n = N + 1
    BY <1>2, <1>4, <1>7, <2>2
  <2>3. QED
    BY <1>7, <2>1, <2>2
<1> HIDE DEF all2
<1>12. AreTold(more, all2, t)
  BY <1>4, <1>8, <1>9, <1>10, <1>11 DEF AreTold
<1>13. QED
  BY <1>6, <1>12 DEF t, more, all2, L

\* A device that is found, which is in the list afterwards if it can be opened.
LEMMA FoundIsListed ==
  ASSUME Lists(devlist, scan), scan.status # "error",
         NEW dev, scan.from[1] = "getad" => dev[2] = 0,
         NEW s, ScanOK(s), s.status # "error", s.told = scan.told, s.from = scan.from,
         s.openable = scan.openable, s.up = scan.up \cup {dev}
  PROVE  ListOK(add_or_find_if(devlist, dev), s)
<1> DEFINE new == add_or_find_if(devlist, dev)
<1>1. /\ devlist \in Seq(DeviceEntry) /\ Sorted(devlist) /\ Once(devlist)
      /\ scan.openable \subseteq Dev
      /\ Devs(devlist) = scan.up \cap scan.openable
      /\ \A n \in DOMAIN devlist : EntryIsTold(devlist[n], scan)
      /\ \A n \in DOMAIN devlist : scan.from[1] = "getad" => devlist[n].dev[2] = 0
      /\ \A k \in DOMAIN scan.told : NameFrom(scan.from, scan.told[k]) \in scan.up
  BY DEF Lists, ScanOK, ListOK
<1>2. /\ new \in Seq(DeviceEntry) /\ Sorted(new) /\ Once(new)
      /\ Devs(new) = Devs(devlist) \cup ({dev} \cap scan.openable)
      /\ \A n \in DOMAIN new :
           \/ \E k \in DOMAIN devlist : new[n] = devlist[k]
           \/ new[n] = [dev |-> dev, addresses |-> <<>>] /\ dev \notin Devs(devlist) /\ dev \in scan.openable
  BY <1>1, Adds
<1> HIDE DEF new
<1>3. Devs(new) = s.up \cap s.openable
  BY <1>1, <1>2
<1>4. ASSUME NEW n \in DOMAIN new
      PROVE  /\ EntryIsTold(new[n], s)
             /\ s.from[1] = "getad" => new[n].dev[2] = 0
  <2>1. CASE \E k \in DOMAIN devlist : new[n] = devlist[k]
    BY <1>1, <2>1 DEF EntryIsTold
  <2>2. CASE new[n] = [dev |-> dev, addresses |-> <<>>] /\ dev \notin Devs(devlist) /\ dev \in scan.openable
    <3>1. dev \notin scan.up /\ new[n].dev = dev /\ new[n].addresses = <<>>
      BY <1>1, <2>2
    <3>2. ToldFrom(s.from, s.told, dev) = {}
      BY <1>1, <3>1 DEF ToldFrom
    <3>3. QED
      BY <3>1, <3>2, NoneTold DEF EntryIsTold
  <2>3. QED
    BY <1>2, <2>1, <2>2
<1>5. QED
  BY <1>2, <1>3, <1>4 DEF ListOK, new

\* An address that is told, of a device that is listed if it can be opened.
LEMMA ToldIsListed ==
  ASSUME NEW list, NEW s, Lists(list, s), NEW entry \in Told, s.status # "error",
         NEW t, t.told = Append(s.told, entry), t.from = s.from, t.up = s.up,
         t.openable = s.openable, t.status = s.status
  PROVE  LET dev == NameFrom(s.from, entry) IN
         ListOK([n \in DOMAIN list |-> IF list[n].dev = dev THEN [list[n] EXCEPT !.addresses = Append(@, entry.addr)] ELSE list[n]], t)
<1> DEFINE dev == NameFrom(s.from, entry)
           new == [n \in DOMAIN list |-> IF list[n].dev = dev THEN [list[n] EXCEPT !.addresses = Append(@, entry.addr)] ELSE list[n]]
           L == Len(s.told)
<1>1. /\ list \in Seq(DeviceEntry) /\ Sorted(list) /\ Once(list) /\ s.told \in Seq(Told)
      /\ Devs(list) = s.up \cap s.openable
      /\ \A n \in DOMAIN list : EntryIsTold(list[n], s)
      /\ \A n \in DOMAIN list : s.from[1] = "getad" => list[n].dev[2] = 0
  BY DEF Lists, ScanOK, ListOK
<1>2. /\ Len(list) \in Nat /\ DOMAIN list = 1 .. Len(list)
      /\ \A n \in DOMAIN list : list[n] \in DeviceEntry
  BY <1>1, EntriesOfList
<1>3. /\ L \in Nat /\ DOMAIN s.told = 1 .. L /\ DOMAIN t.told = 1 .. L + 1
      /\ \A k \in 1 .. L : t.told[k] = s.told[k]
      /\ t.told[L + 1] = entry
  BY <1>1, AppendProperties, LenProperties
<1>4. \A d : ToldFrom(t.from, t.told, d) = ToldFrom(s.from, s.told, d) \cup (IF d = dev THEN {L + 1} ELSE {})
  <2>1. \A k : k \in 1 .. L + 1 <=> k \in 1 .. L \/ k = L + 1
    BY <1>3
  <2>2. t.from = s.from
    OBVIOUS
  <2> HIDE DEF L
  <2>3. QED
    BY <1>3, <2>1, <2>2 DEF ToldFrom
<1>5. ASSUME NEW n \in DOMAIN list
      PROVE  /\ new[n] \in DeviceEntry
             /\ new[n].dev = list[n].dev
             /\ EntryIsTold(new[n], t)
  <2> DEFINE all == ToldFrom(s.from, s.told, list[n].dev)
             addresses == list[n].addresses
  <2>1. list[n] \in DeviceEntry /\ addresses \in Seq(Addr) /\ entry.addr \in Addr
        /\ list[n] = [dev |-> list[n].dev, addresses |-> addresses] /\ list[n].dev \in Dev
    BY <1>2 DEF DeviceEntry, Addr
  <2>2. AreTold(addresses, all, s.told) /\ all \in SUBSET DOMAIN s.told
    BY <1>1 DEF EntryIsTold, ToldFrom
  <2>3. /\ AreTold(addresses, all, t.told)
        /\ AreTold(Append(addresses, entry.addr), all \cup {L + 1}, t.told)
    BY <1>1, <2>1, <2>2, OneMoreTold
  <2> HIDE DEF L, all, addresses
  <2>4. CASE list[n].dev = dev
    <3>1. new[n] = [dev |-> list[n].dev, addresses |-> Append(addresses, entry.addr)]
      BY <2>1, <2>4
    <3>2. ToldFrom(t.from, t.told, list[n].dev) = all \cup {L + 1}
      BY <1>4, <2>4 DEF all
    <3>3. Append(addresses, entry.addr) \in Seq(Addr)
      BY <2>1, AppendProperties
    <3> HIDE DEF new
    <3>4. new[n] \in DeviceEntry
      BY <2>1, <3>1, <3>3 DEF DeviceEntry
    <3>5. new[n].dev = list[n].dev /\ new[n].addresses = Append(addresses, entry.addr)
      BY <3>1
    <3>6. EntryIsTold(new[n], t)
      BY <2>3, <3>2, <3>5 DEF EntryIsTold
    <3>7. QED
      BY <3>4, <3>5, <3>6
  <2>5. CASE list[n].dev # dev
    <3>1. new[n] = list[n]
      BY <2>5
    <3>2. ToldFrom(t.from, t.told, list[n].dev) = all
      BY <1>4, <2>5 DEF all
    <3>3. QED
      BY <2>1, <2>3, <3>1, <3>2 DEF EntryIsTold, addresses
  <2>6. QED
    BY <2>4, <2>5
<1>6. DOMAIN new = DOMAIN list /\ new = [n \in 1 .. Len(list) |-> new[n]]
  BY <1>2
<1> HIDE DEF new
<1>7. new \in Seq(DeviceEntry)
  BY <1>2, <1>5, <1>6, SeqDef
<1>8. Sorted(new) /\ Once(new) /\ Devs(new) = Devs(list)
  <2>1. \A n \in DOMAIN list : new[n].dev = list[n].dev
    BY <1>5
  <2>2. Sorted(new)
    BY <1>1, <1>6, <2>1 DEF Sorted
  <2>3. Once(new)
    BY <1>1, <1>6, <2>1 DEF Once
  <2>4. Devs(new) = Devs(list)
    BY <1>6, <2>1 DEF Devs
  <2>5. QED
    BY <2>2, <2>3, <2>4
<1>9. QED
  BY <1>1, <1>5, <1>6, <1>7, <1>8 DEF ListOK, new
-----------------------------------------------------------------------------
\* An empty list, of which nothing is up or whose scan failed.
LEMMA EmptyIsListed ==
  ASSUME NEW s, s.status = "error" \/ s.up = {}
  PROVE  ListOK(<<>>, s)
<1>1. DOMAIN <<>> = {} /\ <<>> \in Seq(DeviceEntry)
  OBVIOUS
<1>2. Devs(<<>>) = {} /\ Sorted(<<>>) /\ Once(<<>>)
  BY DEF Devs, Sorted, Once
<1>3. QED
  BY <1>1, <1>2 DEF ListOK

\* What the system tells is of what may be told.
LEMMA ToldOfAddresses ==
  ASSUME NEW todo \in Addresses
  PROVE  todo \in Seq(Told)
<1>1. todo \in Seq(ToSet(todo))
  BY InterfacesAssumption
<1>2. PICK n \in Nat : todo \in [1 .. n -> ToSet(todo)]
  BY <1>1, SeqDef
<1>3. ToSet(todo) \subseteq Told
  BY DEF Told
<1>4. todo \in [1 .. n -> Told]
  BY <1>2, <1>3
<1>5. QED
  BY <1>4, SeqDef

\* At first there is no list.
LEMMA InterfacesInitLists ==
  ASSUME InterfacesInit
  PROVE  Lists(devlist, scan)
<1>1. ScanOK(NoScan)
  <2>1. DOMAIN NoScan.told = {} /\ NoScan.told \in Seq(Told) /\ NoScan.todo \in Seq(Told)
    BY DEF NoScan
  <2>2. QED
    BY <2>1 DEF NoScan, ScanOK, IsScan
<1>2. ListOK(<<>>, NoScan)
  BY EmptyIsListed DEF NoScan
<1>3. QED
  BY <1>1, <1>2 DEF InterfacesInit, Lists

\* A scan begins with an empty list.
LEMMA BeginLists ==
  ASSUME Lists(devlist, scan), pcap_findalldevs
  PROVE  Lists(devlist', scan')
<1>1. PICK openable \in Openable, todo \in Addresses, from \in Sources :
        scan' = [NoScan EXCEPT !.at = "addresses", !.from = from, !.todo = todo,
                               !.openable = {<<n, 0>> : n \in openable} \cup {<<n, 1>> : n \in openable} \cup {any}]
  BY DEF pcap_findalldevs
<1> DEFINE all == {<<n, 0>> : n \in openable} \cup {<<n, 1>> : n \in openable} \cup {any}
<1>2. scan' = [at |-> "addresses", todo |-> todo, left |-> {}, from |-> from, openable |-> all,
               told |-> <<>>, up |-> {}, status |-> "none"]
  BY <1>1 DEF NoScan
<1>3. all \subseteq Dev
  <2>1. openable \subseteq Names
    BY InterfacesAssumption
  <2>2. QED
    BY <2>1 DEF Dev
<1> HIDE DEF all
<1>4. todo \in Seq(Told) /\ <<>> \in Seq(Told) /\ DOMAIN <<>> = {}
  BY ToldOfAddresses
<1>5. ScanOK(scan')
  BY <1>2, <1>3, <1>4 DEF ScanOK, IsScan
<1>6. devlist' = <<>> /\ scan'.up = {}
  BY <1>2 DEF pcap_findalldevs
<1>7. QED
  BY <1>5, <1>6, EmptyIsListed DEF Lists

\* A scan that fails leaves none.
LEMMA FailedLists ==
  ASSUME Lists(devlist, scan), Failed
  PROVE  Lists(devlist', scan')
<1>1. ScanOK(scan) /\ <<>> \in Seq(Told)
  BY DEF Lists
<1>2. scan' = [at |-> "idle", todo |-> <<>>, left |-> {}, from |-> scan.from, openable |-> scan.openable,
               told |-> scan.told, up |-> scan.up, status |-> "error"]
  BY <1>1 DEF Failed, ScanOK, IsScan
<1>3. ScanOK(scan')
  BY <1>1, <1>2 DEF ScanOK, IsScan
<1>4. devlist' = <<>> /\ scan'.status = "error"
  BY <1>2 DEF Failed
<1>5. QED
  BY <1>3, <1>4, EmptyIsListed DEF Lists

\* A step that reads on and finds nothing.
LEMMA SameLists ==
  ASSUME Lists(devlist, scan), devlist' = devlist, scan.at # "idle",
         NEW s, s = scan', IsScan(s), s.at # "idle", s.todo \in Seq(Told), s.from = scan.from,
         s.openable = scan.openable, s.told = scan.told, s.up = scan.up, s.status = scan.status
  PROVE  Lists(devlist', scan')
<1>1. ScanOK(scan) /\ ListOK(devlist, scan)
  BY DEF Lists
<1>2. ScanOK(s)
  BY <1>1 DEF ScanOK
<1>3. ListOK(devlist, s)
  BY <1>1 DEF ListOK, EntryIsTold
<1>4. QED
  BY <1>2, <1>3 DEF Lists

\* An address is passed over, or its device is found and gets it, or the scan fails.
LEMMA TakeAddressLists ==
  ASSUME Lists(devlist, scan), TakeAddress
  PROVE  Lists(devlist', scan')
<1> DEFINE entry == Head(scan.todo)
           dev == NameIn(entry)
           found == add_or_find_if(devlist, dev)
           mid == [at |-> scan.at, todo |-> Tail(scan.todo), left |-> scan.left, from |-> scan.from,
                   openable |-> scan.openable, told |-> scan.told, up |-> scan.up \cup {dev}, status |-> scan.status]
<1>1. /\ ScanOK(scan) /\ scan.at = "addresses" /\ scan.status = "none"
      /\ scan.todo \in Seq(Told) /\ scan.told \in Seq(Told) /\ scan.todo # <<>>
  BY DEF TakeAddress, Lists, ScanOK
<1>2. entry \in Told /\ Tail(scan.todo) \in Seq(Told)
  BY <1>1, HeadTailProperties, EmptySeq
<1>3. dev = NameFrom(scan.from, entry)
  BY DEF NameIn, NameFrom
<1>0. scan.from[1] = "getad" => dev[2] = 0
  BY DEF NameIn
<1> HIDE DEF entry, dev, found, mid
<1>4. CASE devlist' = devlist /\ scan' = [scan EXCEPT !.todo = Tail(@)]
  <2>1. scan' = [at |-> scan.at, todo |-> Tail(scan.todo), left |-> scan.left, from |-> scan.from,
                 openable |-> scan.openable, told |-> scan.told, up |-> scan.up, status |-> scan.status]
    BY <1>1, <1>4 DEF ScanOK, IsScan
  <2>2. QED
    BY <1>1, <1>2, <1>4, <2>1, SameLists DEF IsScan
<1>5. CASE /\ devlist' = add_addr_to_iflist(devlist, dev, entry.addr)
           /\ scan' = [[scan EXCEPT !.todo = Tail(@)] EXCEPT !.told = Append(@, entry), !.up = @ \cup {dev}]
  <2>1. mid = [at |-> scan.at, todo |-> Tail(scan.todo), left |-> scan.left, from |-> scan.from, openable |-> scan.openable,
               told |-> scan.told, up |-> scan.up \cup {dev}, status |-> scan.status]
    BY DEF mid
  <2>2. scan' = [at |-> scan.at, todo |-> Tail(scan.todo), left |-> scan.left, from |-> scan.from, openable |-> scan.openable,
                 told |-> Append(scan.told, entry), up |-> scan.up \cup {dev}, status |-> scan.status]
    BY <1>1, <1>5 DEF ScanOK, IsScan
  <2>3. /\ DOMAIN Append(scan.told, entry) = 1 .. Len(scan.told) + 1 /\ Append(scan.told, entry) \in Seq(Told)
        /\ DOMAIN scan.told = 1 .. Len(scan.told) /\ Len(scan.told) \in Nat
        /\ \A k \in 1 .. Len(scan.told) : Append(scan.told, entry)[k] = scan.told[k]
        /\ Append(scan.told, entry)[Len(scan.told) + 1] = entry
    BY <1>1, <1>2, AppendProperties, LenProperties
  <2>5. ScanOK(mid)
    BY <1>1, <1>2, <2>1 DEF ScanOK, IsScan
  <2>6. ScanOK(scan')
    <3>1. \A k \in 1 .. Len(scan.told) + 1 : NameFrom(scan.from, Append(scan.told, entry)[k]) \in scan.up \cup {dev}
      <4>1. \A k \in 1 .. Len(scan.told) : NameFrom(scan.from, scan.told[k]) \in scan.up
        BY <1>1, <2>3 DEF ScanOK
      <4>2. \A k \in 1 .. Len(scan.told) + 1 : k \in 1 .. Len(scan.told) \/ k = Len(scan.told) + 1
        BY <2>3
      <4>3. QED
        BY <1>3, <2>3, <4>1, <4>2
    <3>2. QED
      BY <1>1, <1>2, <2>2, <2>3, <3>1 DEF ScanOK, IsScan
  <2>7. ListOK(found, mid)
    <3>1. /\ mid.told = scan.told /\ mid.from = scan.from /\ mid.openable = scan.openable
          /\ mid.up = scan.up \cup {dev} /\ mid.status # "error" /\ scan.status # "error"
      BY <1>1, <2>1
    <3>2. QED
      BY <1>0, <2>5, <3>1, FoundIsListed DEF found
  <2>8. Lists(found, mid) /\ mid.status # "error"
    BY <1>1, <2>1, <2>5, <2>7 DEF Lists
  <2>9. /\ scan'.told = Append(mid.told, entry) /\ scan'.from = mid.from /\ scan'.up = mid.up
        /\ scan'.openable = mid.openable /\ scan'.status = mid.status /\ mid.from = scan.from
    BY <2>1, <2>2
  <2>10. devlist' = [n \in DOMAIN found |-> IF found[n].dev = dev THEN [found[n] EXCEPT !.addresses = Append(@, entry.addr)] ELSE found[n]]
    BY <1>5 DEF add_addr_to_iflist, found
  <2>11. ListOK(devlist', scan')
    BY <1>2, <1>3, <2>8, <2>9, <2>10, ToldIsListed
  <2>12. QED
    BY <2>6, <2>11 DEF Lists
<1>6. QED
  BY <1>4, <1>5, FailedLists DEF TakeAddress, entry, dev

\* A name that is found, or "any".
LEMMA NameLists ==
  ASSUME Lists(devlist, scan), scan.at = "names", NEW dev, dev[2] = 0,
         NEW there, NEW left, NEW status, status # "error", there # "idle" => status = "none",
         devlist' = add_or_find_if(devlist, dev),
         scan' = [scan EXCEPT !.at = there, !.left = left, !.status = status, !.up = @ \cup {dev}]
  PROVE  Lists(devlist', scan')
<1>1. ScanOK(scan) /\ scan.status = "none"
  BY DEF Lists, ScanOK
<1>2. scan' = [at |-> there, todo |-> scan.todo, left |-> left, from |-> scan.from, openable |-> scan.openable,
               told |-> scan.told, up |-> scan.up \cup {dev}, status |-> status]
  BY <1>1 DEF ScanOK, IsScan
<1>3. ScanOK(scan')
  BY <1>1, <1>2 DEF ScanOK, IsScan
<1>4. ListOK(devlist', scan')
  BY <1>1, <1>2, <1>3, FoundIsListed
<1>5. QED
  BY <1>3, <1>4 DEF Lists

\* A name is passed over or found, and at the end "any".
LEMMA TakeNameLists ==
  ASSUME Lists(devlist, scan), TakeName \/ TakenNames
  PROVE  Lists(devlist', scan')
<1>1. ScanOK(scan) /\ scan.at = "names" /\ scan.status = "none"
  BY DEF TakeName, TakenNames, Lists, ScanOK
<1>2. CASE TakeName
  <2>1. PICK name \in scan.left :
          \/ devlist' = devlist /\ scan' = [scan EXCEPT !.left = @ \ {name}]
          \/ /\ devlist' = add_or_find_if(devlist, <<name, 0>>)
             /\ scan' = [scan EXCEPT !.left = @ \ {name}, !.up = @ \cup {<<name, 0>>}]
          \/ Failed
    BY <1>2 DEF TakeName
  <2>2. CASE devlist' = devlist /\ scan' = [scan EXCEPT !.left = @ \ {name}]
    <3>1. scan' = [at |-> scan.at, todo |-> scan.todo, left |-> scan.left \ {name}, from |-> scan.from,
                   openable |-> scan.openable, told |-> scan.told, up |-> scan.up, status |-> scan.status]
      BY <1>1, <2>2 DEF ScanOK, IsScan
    <3>2. scan.todo \in Seq(Told)
      BY <1>1 DEF ScanOK
    <3>3. QED
      BY <1>1, <2>2, <3>1, <3>2, SameLists DEF IsScan
  <2>3. CASE /\ devlist' = add_or_find_if(devlist, <<name, 0>>)
             /\ scan' = [scan EXCEPT !.left = @ \ {name}, !.up = @ \cup {<<name, 0>>}]
    <3> DEFINE dev == <<name, 0>>
    <3>1. scan' = [scan EXCEPT !.at = scan.at, !.left = scan.left \ {name}, !.status = scan.status, !.up = @ \cup {dev}]
      BY <1>1, <2>3 DEF ScanOK, IsScan
    <3>2. dev[2] = 0 /\ devlist' = add_or_find_if(devlist, dev) /\ scan.status # "error"
      BY <1>1, <2>3
    <3> HIDE DEF dev
    <3>3. QED
      BY <1>1, <3>1, <3>2, NameLists
  <2>4. QED
    BY <2>1, <2>2, <2>3, FailedLists
<1>3. CASE TakenNames
  <2>1. CASE /\ devlist' = add_or_find_if(devlist, any)
             /\ scan' = [scan EXCEPT !.at = "idle", !.status = "ok", !.up = @ \cup {any}]
    <3>1. scan' = [scan EXCEPT !.at = "idle", !.left = scan.left, !.status = "ok", !.up = @ \cup {any}]
      BY <1>1, <2>1 DEF ScanOK, IsScan
    <3>2. any[2] = 0
      BY DEF any
    <3>3. QED
      BY <1>1, <2>1, <3>1, <3>2, NameLists
  <2>2. QED
    BY <1>3, <2>1, FailedLists DEF TakenNames
<1>4. QED
  BY <1>2, <1>3

\* Every step keeps the list to what is up.
LEMMA InterfacesNextLists ==
  ASSUME Lists(devlist, scan), [InterfacesNext]_scanVars
  PROVE  Lists(devlist', scan')
<1>1. CASE TakenAddresses
  <2>1. ScanOK(scan) /\ scan.at = "addresses" /\ scan.todo \in Seq(Told)
    BY <1>1 DEF TakenAddresses, Lists, ScanOK
  <2>2. /\ scan' = [at |-> "names", todo |-> scan.todo, left |-> Names, from |-> scan.from,
                    openable |-> scan.openable, told |-> scan.told, up |-> scan.up, status |-> scan.status]
        /\ devlist' = devlist
    BY <1>1, <2>1 DEF TakenAddresses, ScanOK, IsScan
  <2>3. QED
    BY <2>1, <2>2, SameLists DEF IsScan
<1>2. CASE pcap_freealldevs
  <2>1. InterfacesInit'
    BY <1>2 DEF pcap_freealldevs, InterfacesInit, NoScan
  <2>2. devlist' = <<>> /\ scan' = NoScan
    BY <1>2 DEF pcap_freealldevs
  <2>3. ScanOK(NoScan)
    <3>1. DOMAIN NoScan.told = {} /\ NoScan.told \in Seq(Told) /\ NoScan.todo \in Seq(Told)
      BY DEF NoScan
    <3>2. QED
      BY <3>1 DEF NoScan, ScanOK, IsScan
  <2>4. ListOK(<<>>, NoScan)
    BY EmptyIsListed DEF NoScan
  <2>5. QED
    BY <2>2, <2>3, <2>4 DEF Lists
<1>3. CASE UNCHANGED scanVars
  BY <1>3 DEF scanVars
<1>4. QED
  BY <1>1, <1>2, <1>3, BeginLists, TakeAddressLists, TakeNameLists DEF InterfacesNext

\* While the list is of what is up, it is in order and has each device once, with its addresses.
LEMMA ListsIsEnough ==
  ASSUME Lists(devlist, scan)
  PROVE  DeviceList
<1>1. /\ devlist \in Seq(DeviceEntry) /\ Sorted(devlist) /\ Once(devlist)
      /\ \A n \in DOMAIN devlist : EntryIsTold(devlist[n], scan)
      /\ \A n \in DOMAIN devlist : scan.from[1] = "getad" => devlist[n].dev[2] = 0
      /\ scan.status # "error" => Devs(devlist) = scan.up \cap scan.openable
      /\ scan.status = "error" => devlist = <<>>
  BY DEF Lists, ListOK
<1>2. /\ Len(devlist) \in Nat /\ DOMAIN devlist = 1 .. Len(devlist)
      /\ \A n \in DOMAIN devlist : devlist[n].dev \in Dev
  BY <1>1, EntriesOfList
<1>3. ASSUME pcap_lookupdev = {}, NEW n \in DOMAIN devlist
      PROVE  IsLoopback(devlist[n].dev)
  <2>1. 1 \in DOMAIN devlist
    BY <1>2
  <2>2. IsLoopback(devlist[1].dev)
    BY <1>3, <2>1 DEF pcap_lookupdev
  <2>3. CASE n = 1
    BY <2>2, <2>3
  <2>4. CASE n # 1
    <3>1. Before(devlist[1].dev, devlist[n].dev)
      BY <1>1, <1>2, <2>1, <2>4 DEF Sorted
    <3>2. QED
      BY <2>2, <3>1 DEF Before
  <2>5. QED
    BY <2>3, <2>4
<1>4. InOrder
  BY <1>1, <1>3 DEF InOrder, Sorted
<1>5. IsInjective([n \in DOMAIN devlist |-> devlist[n].dev])
  BY <1>1 DEF IsInjective, Once
<1>6. ASSUME NEW n \in DOMAIN devlist
      PROVE  HasWhatWasTold(devlist[n])
  <2>1. ToldOf(devlist[n].dev) = ToldFrom(scan.from, scan.told, devlist[n].dev)
    BY DEF ToldOf, ToldFrom, NameIn, NameFrom
  <2>2. QED
    BY <1>1, <2>1 DEF EntryIsTold, AreTold, HasWhatWasTold
<1>7. QED
  BY <1>1, <1>4, <1>5, <1>6 DEF DeviceList, ListsWhatIsUp, Devs

\* Whatever the system tells, in whatever order, and whatever fails: the list of devices is in
\* order, with the devices that are up and can be opened, each once and with all its addresses.
THEOREM DevicesAreListed == InterfacesSpec => []DeviceList
<1>1. InterfacesInit => Lists(devlist, scan)
  BY InterfacesInitLists
<1>2. Lists(devlist, scan) /\ [InterfacesNext]_scanVars => Lists(devlist, scan)'
  <2>1. ASSUME Lists(devlist, scan), [InterfacesNext]_scanVars PROVE Lists(devlist', scan')
    BY <2>1, InterfacesNextLists
  <2>2. QED
    BY <2>1 DEF Lists, ScanOK, ListOK, IsScan, EntryIsTold
<1>3. QED
  BY <1>1, <1>2, ListsIsEnough, PTL DEF InterfacesSpec
=============================================================================
