------------------------------ MODULE Savefile ------------------------------
(***************************************************************************)
(* A capture file from both sides: pcap_dump_open, pcap_dump and           *)
(* pcap_dump_close write it through the buffer of a FILE, on a storage     *)
(* that may be full, in a process that may die; pcap_open_offline,         *)
(* pcap_offline_read and countPcapFile read it, while it is written or     *)
(* afterwards.  Files of other programs are there from the start.          *)
(***************************************************************************)
EXTENDS PcapNg, FiniteSetsExt

CONSTANTS
  Dumpable,      \* what may be dumped: [sec, usec, caplen, len, data]
  Links,         \* link types and snapshot lengths of the pcap_t that is dumped: <<dlt, snapshot>>
  MaxPackets,    \* bound on how many are dumped
  Others,        \* files of other programs, see NewFile
  Counts,        \* what pcap_dispatch, pcap_loop and countPcapFile are called with
  Filters,       \* programs, as the first bytes of the packets that pass
  MaxBreaks      \* bound on the calls of pcap_breakloop

NewFile == [cells |-> <<>>, blocks |-> <<>>, written |-> <<>>, link |-> DLT_EN10MB, snapshot |-> 1, hdrsize |-> 4]

ASSUME SavefileAssumption ==
  /\ \A link \in Links : link[1] \in Int /\ link[2] \in Int
  /\ \A pkt \in Dumpable : {pkt.sec, pkt.usec, pkt.caplen, pkt.len} \subseteq Int /\ pkt.data \in Seq(Int)
  /\ \A other \in Others :
       /\ DOMAIN other = DOMAIN NewFile
       /\ other.cells \in Seq(Int) /\ other.blocks \in Seq(ToSet(other.blocks))
       /\ \A block \in ToSet(other.blocks) : IsBlock(block)

VARIABLES
  file,      \* the file, with what it is to hold: its packets, link type and length of record headers
  dumper,    \* the FILE that is written, and where pcap_dump is
  good,      \* how much of what was written is in the file without a gap
  reader,    \* the pcap_t that the file is read with
  call,      \* the call that reads
  given,     \* the packet that the last step gave to the callback
  result     \* what the last step returned

savefileVars == <<file, dumper, good, reader, call, given, result>>

None == [is |-> "none"]
NoResult == [op |-> "none"]
Quiet == given' = None /\ result' = NoResult
Closed == [at |-> "closed", buffer |-> <<>>, lost |-> FALSE]
Idle == [op |-> "none", at |-> "idle", cnt |-> 0, n |-> 0, packets |-> 0, breaks |-> 0]

-----------------------------------------------------------------------------
(* Writing *)

pcap_dump_open ==
  /\ dumper.at = "closed" /\ file = NewFile /\ reader = None
  /\ \E link \in Links :
       IF dlt_to_linktype(link[1]) = -1
       THEN result' = [op |-> "dump_open", value |-> "error"] /\ UNCHANGED <<file, dumper>>
       ELSE /\ dumper' = [Closed EXCEPT !.at = "open", !.buffer = sf_write_header(dlt_to_linktype(link[1]), 0, link[2])]
            /\ file' = [NewFile EXCEPT !.link = link[1], !.snapshot = link[2]]
            /\ result' = NoResult
  /\ given' = None
  /\ UNCHANGED <<good, reader, call>>

\* pcap_dump: the header of the record, then the packet; what fwrite returns is not looked at.
DumpHeader ==
  /\ dumper.at = "open" /\ Len(file.written) < MaxPackets
  /\ \E pkt \in Dumpable :
       /\ dumper' = [dumper EXCEPT !.at = "data", !.buffer = @ \o sf_hdr(pkt)]
       /\ file' = [file EXCEPT !.written = Append(@, pkt)]
  /\ Quiet
  /\ UNCHANGED <<good, reader, call>>

DumpData ==
  /\ dumper.at = "data"
  /\ dumper' = [dumper EXCEPT !.at = "open", !.buffer = @ \o Last(file.written).data]
  /\ Quiet
  /\ UNCHANGED <<file, good, reader, call>>

Reaches(n) == file' = [file EXCEPT !.cells = @ \o SubSeq(dumper.buffer, 1, n)]

\* The buffer is written to the file when it is full, or some of it; or the storage is full, and the
\* rest of it is lost.
Spill ==
  /\ dumper.buffer # <<>>
  /\ \E n \in 0 .. Len(dumper.buffer) :
       /\ Reaches(n)
       /\ \/ n > 0 /\ dumper' = [dumper EXCEPT !.buffer = SubSeq(@, n + 1, Len(@))] /\ good' = IF dumper.lost THEN good ELSE good + n
          \/ /\ n < Len(dumper.buffer) /\ ~dumper.lost
             /\ dumper' = [dumper EXCEPT !.buffer = <<>>, !.lost = TRUE]
             /\ good' = good + n
  /\ Quiet
  /\ UNCHANGED <<reader, call>>

pcap_dump_close ==
  /\ dumper.at = "open" /\ dumper.buffer = <<>>
  /\ dumper' = [dumper EXCEPT !.at = "closed"]
  /\ Quiet
  /\ UNCHANGED <<file, good, reader, call>>

\* The process dies.
Crash ==
  /\ dumper.at # "closed" /\ reader = None
  /\ dumper' = [dumper EXCEPT !.at = "closed", !.buffer = <<>>]
  /\ Quiet
  /\ UNCHANGED <<file, good, reader, call>>

Write == pcap_dump_open \/ DumpHeader \/ DumpData \/ Spill \/ pcap_dump_close \/ Crash

-----------------------------------------------------------------------------
(* Opening *)

\* The count reads on; otherwise the pcap_t is the caller's.
AfterOpen(op) == IF op = "count" THEN "check" ELSE "idle"
OpenError(why) ==
  /\ result' = [op |-> "open", value |-> why]
  /\ reader' = None /\ call' = Idle

\* The kinds of files are tried in turn; what each says of the first of the file.
Opened ==
  IF file.blocks # <<>>
  THEN IF file.blocks[1].order \notin {1, SWAPLONG(1)} THEN Failed("unknown_format") ELSE pcap_ng_check_header(file.blocks)
  ELSE IF file.cells = <<>> THEN Truncated
  ELSE IF ~IsPcap(file.cells) THEN Failed("unknown_format")
  ELSE IF Len(file.cells) < FileHeader THEN Truncated
  ELSE LET r == pcap_check_header(file.cells)
       IN  IF r.archaic THEN Failed("archaic") ELSE [is |-> "found", r |-> r]

NewReader(r) == [is |-> "open", pcap |-> r, read |-> 0, fcode |-> None, break_loop |-> FALSE, ended |-> "no"]

\* pcap_open_offline; a file of the next generation is read up to its first interface.
OpenFile(op, cnt) ==
  /\ reader = None /\ call.at = "idle"
  /\ given' = None
  /\ \/ OpenError("system")
     \/ LET opened == Opened
        IN  IF opened.is \notin {"found", "continue"} THEN OpenError(opened.is)
            ELSE /\ reader' = NewReader(opened.r)
                 /\ call' = [Idle EXCEPT !.op = op, !.cnt = cnt,
                                         !.at = IF opened.is = "continue" THEN "describe" ELSE AfterOpen(op)]
                 /\ result' = NoResult
  /\ UNCHANGED <<file, dumper, good>>

pcap_open_offline == OpenFile("open", 0)
countPcapFile == \E max \in Counts : max > 0 /\ OpenFile("count", max)

Describe ==
  /\ call.at = "describe"
  /\ given' = None
  /\ LET step == SkipToInterface(reader.pcap, file.blocks)
     IN  IF step.is \notin {"found", "continue"} THEN OpenError(step.is)
         ELSE /\ reader' = [reader EXCEPT !.pcap = step.r]
              /\ call' = IF step.is = "continue" THEN call ELSE [call EXCEPT !.at = AfterOpen(call.op)]
              /\ result' = NoResult
  /\ UNCHANGED <<file, dumper, good>>

-----------------------------------------------------------------------------
(* Reading: pcap_offline_read, one packet at a time, in pcap_dispatch, pcap_loop, pcap_next and the count *)

Ready == reader # None /\ call.at = "idle" /\ reader.ended = "no"
Begin(op, cnt) ==
  /\ Ready
  /\ call' = [Idle EXCEPT !.op = op, !.cnt = cnt, !.at = "check", !.breaks = call.breaks]
  /\ Quiet
  /\ UNCHANGED <<file, dumper, good, reader>>
pcap_dispatch == \E cnt \in Counts : Begin("dispatch", cnt)
pcap_loop == \E cnt \in Counts : Begin("loop", cnt)
pcap_next == Begin("next", 1)

Return(value) ==
  /\ call' = [Idle EXCEPT !.breaks = call.breaks]
  /\ result' = [op |-> call.op, value |-> value]
\* The next call of pcap_offline_read.
Again(c) == call' = [c EXCEPT !.at = "check", !.n = 0] /\ result' = NoResult

\* A count of 0 or less is none.
LoopReturns(n) ==
  IF n <= 0 THEN Return(n)
  ELSE IF call.cnt > 0 /\ call.cnt <= n THEN Return(0)
  ELSE Again([call EXCEPT !.cnt = IF @ > 0 THEN @ - n ELSE @])

\* pcap_next is called once more than it gives a packet, or than are to be counted.
Counted == call.packets < call.cnt
CountReturns(n) ==
  IF n > 0 /\ Counted THEN Again([call EXCEPT !.packets = @ + 1]) ELSE Return(call.packets)

ReadReturns(n) ==
  CASE call.op = "loop" -> LoopReturns(n)
    [] call.op = "count" -> CountReturns(n)
    [] OTHER -> Return(n)
\* The count closes the file.
After(r, n) == IF call.op = "count" /\ ~(n > 0 /\ Counted) THEN None ELSE r

BreakCheck ==
  /\ call.at = "check"
  /\ given' = None
  /\ IF ~reader.break_loop THEN call' = [call EXCEPT !.at = "next"] /\ result' = NoResult /\ UNCHANGED reader
     ELSE /\ reader' = IF call.n = 0 THEN [reader EXCEPT !.break_loop = FALSE] ELSE reader
          /\ ReadReturns(IF call.n = 0 THEN -2 ELSE call.n)
  /\ UNCHANGED <<file, dumper, good>>

NextPacket ==
  IF reader.pcap.format = "ng" THEN pcap_ng_next_packet(reader.pcap, file.blocks)
  ELSE pcap_next_packet(reader.pcap, file.cells)
MovedOn(next) == IF reader.pcap.format = "ng" THEN next.r ELSE [reader.pcap EXCEPT !.pos = next.pos]
LimitOf(op, cnt) == IF op \in {"next", "count"} THEN 1 ELSE cnt

Passes(data) == reader.fcode = None \/ (data # <<>> /\ Head(data) \in reader.fcode.first)

\* A packet is given to the callback if it passes, and counts towards what was asked for.
TakePacket(next) ==
  LET r == [reader EXCEPT !.pcap = MovedOn(next), !.read = @ + 1]
      n == call.n + 1
      limit == LimitOf(call.op, call.cnt)
  IN  IF ~Passes(next.data)
      THEN reader' = r /\ call' = [call EXCEPT !.at = "check"] /\ Quiet
      ELSE /\ given' = [is |-> "packet", n |-> r.read, hdr |-> next.hdr, data |-> next.data]
           /\ IF limit > 0 /\ n >= limit
              THEN reader' = After(r, n) /\ ReadReturns(n)
              ELSE reader' = r /\ call' = [call EXCEPT !.at = "check", !.n = n] /\ result' = NoResult

\* The end of the file and every error end the call, whatever it has read.
Ends(why, value) ==
  /\ reader' = After([reader EXCEPT !.ended = why], value)
  /\ given' = None
  /\ ReadReturns(value)

\* The file cannot be read, or memory for a packet that is longer than the buffer cannot be had.
ReadError == Ends("system", -1)

ReadPacket ==
  /\ call.at = "next"
  /\ LET next == NextPacket
     IN  \/ CASE next.is = "packet" -> TakePacket(next)
              [] next.is = "continue" -> reader' = [reader EXCEPT !.pcap = next.r] /\ Quiet /\ UNCHANGED call
              [] next.is = "eof" -> Ends("eof", 0)
              [] OTHER -> Ends(next.is, -1)
         \/ ReadError
  /\ UNCHANGED <<file, dumper, good>>

\* From the callback or another thread.
pcap_breakloop ==
  /\ reader # None /\ call.op # "count" /\ call.at # "describe" /\ call.breaks < MaxBreaks
  /\ reader' = [reader EXCEPT !.break_loop = TRUE]
  /\ call' = [call EXCEPT !.breaks = @ + 1]
  /\ Quiet
  /\ UNCHANGED <<file, dumper, good>>

pcap_setfilter ==
  /\ Ready
  /\ \E first \in Filters : reader' = [reader EXCEPT !.fcode = [is |-> "program", first |-> first]]
  /\ Quiet
  /\ UNCHANGED <<file, dumper, good, call>>

pcap_close ==
  /\ reader # None /\ call.at = "idle"
  /\ reader' = None /\ call' = Idle
  /\ Quiet
  /\ UNCHANGED <<file, dumper, good>>

Use == pcap_dispatch \/ pcap_loop \/ pcap_next \/ pcap_breakloop \/ pcap_setfilter \/ pcap_close
Read == pcap_open_offline \/ countPcapFile \/ Describe \/ BreakCheck \/ ReadPacket

SavefileInit ==
  /\ file \in {NewFile} \cup Others
  /\ good = Len(file.cells)
  /\ dumper = Closed /\ reader = None /\ call = Idle /\ given = None /\ result = NoResult
SavefileNext == Write \/ Read \/ Use

SavefileSpec == SavefileInit /\ [][SavefileNext]_savefileVars

-----------------------------------------------------------------------------
(* Properties *)

\* Where the record of packet n ends, and how many of them are whole in the file.
RecordEnd(n) ==
  FoldLeft(LAMBDA at, pkt : at + file.hdrsize + pkt.caplen, FileHeader, SubSeq(file.written, 1, n))
Whole == Cardinality({n \in DOMAIN file.written : RecordEnd(n) <= good})

\* A packet as it is to be read back: in the order of this machine, but for a field that is cut.
Expected(pkt, limit) ==
  LET n == Smaller(pkt.caplen, limit)
      whole(i) == \E f \in ToSet(pkt.fields) : i > f[1] /\ i <= f[1] + f[2] /\ f[1] + f[2] <= n
  IN  [ hdr |-> [sec |-> pkt.sec, usec |-> pkt.usec, caplen |-> n, len |-> pkt.len],
        data |-> [i \in 1 .. n |-> IF pkt.fields = <<>> \/ whole(i) THEN pkt.host[i] ELSE pkt.data[i]] ]

\* Of what was dumped, all that reached the file before anything was lost is read back: each packet
\* with its time, lengths and bytes, of the link type that it was dumped with, whatever the byte
\* order of the file, the version of its format, the snapshot length, and what follows.
ReadsBack ==
  /\ given # None /\ reader # None /\ reader.pcap.format = "pcap" /\ given.n <= Whole =>
       LET expected == Expected(file.written[given.n], reader.pcap.bufsize)
       IN  given.hdr = expected.hdr /\ given.data = expected.data
  /\ reader # None /\ reader.pcap.format = "pcap" /\ good >= FileHeader => reader.pcap.linktype = file.link

\* A program cannot be given more than the buffer of the pcap_t has, or the block of the packet,
\* whatever garbage is in the file.
KeepsWithinBuffer ==
  given # None =>
    /\ Len(given.data) = given.hdr.caplen
    /\ reader # None /\ reader.pcap.format = "pcap" => given.hdr.caplen <= reader.pcap.bufsize

\* The end of a file is told from a record that is cut short: there has been every packet, and the
\* number that is counted is that of the packets, up to the limit.
EndTells ==
  [][ file.blocks = <<>> /\ ~dumper.lost /\ call.at = "next" /\ call'.at = "idle" /\ reader.ended = "no" =>
        LET whole == reader.read = Whole
            ended == IF reader' = None THEN NextPacket.is ELSE reader'.ended
        IN  /\ call.op = "count" /\ given' # None => result'.value = call.cnt
            /\ ended = "eof" => whole /\ good = RecordEnd(Whole)
            /\ ended = "truncated" => whole /\ good > RecordEnd(Whole)
            /\ ended = "bogus" => Exceeds(file.written[reader.read + 1].caplen, MaxCaplen)
            /\ call.op = "count" /\ given' = None => result'.value = Smaller(reader.read, call.cnt) ]_savefileVars

\* In a file of the next generation, a packet is of an interface that its section has described
\* before it, which has the link type, snapshot length and resolution that the pcap_t says.
Section == LET blocks == SubSeq(file.blocks, 1, reader.pcap.pos)
           IN  Max({n \in DOMAIN blocks : blocks[n].type = "SHB"})
InterfacesBefore == SelectSeq(SubSeq(file.blocks, Section, reader.pcap.pos), LAMBDA b : b.type = "IDB")
OfItsInterface ==
  given # None /\ reader # None /\ reader.pcap.format = "ng" =>
    LET block == file.blocks[reader.pcap.pos]
        number == IF block.type = "SPB" THEN 0 ELSE Ordered(reader.pcap, block.interface)
    IN  /\ number < Len(InterfacesBefore)
        /\ LET interface == InterfacesBefore[number + 1]
           IN  /\ linktype_to_dlt(Ordered(reader.pcap, interface.linktype)) = reader.pcap.linktype
               /\ ~Exceeds(given.hdr.caplen, Ordered(reader.pcap, interface.snaplen)) \/ block.type # "SPB"
               /\ interface.exact =>
                    /\ given.hdr.sec = Ordered(reader.pcap, block.time) \div interface.resolution + interface.offset
                    /\ given.hdr.usec = ((Ordered(reader.pcap, block.time) % interface.resolution) * TicksPerSecond)
                                          \div interface.resolution
=============================================================================
