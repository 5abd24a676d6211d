------------------------------- MODULE PcapNg -------------------------------
(***************************************************************************)
(* Capture files of the next generation, as sf-pcap-ng.c reads them: a     *)
(* sequence of blocks, each with its length, what the kind of block has,   *)
(* and options.  A block that is cut is the last.  Lengths are in bytes.   *)
(***************************************************************************)
EXTENDS PcapFile

CONSTANTS
  MaxBlock,        \* the longest block that is read: 16 megabytes
  TicksPerSecond,  \* of the time stamps that are given: 1000000
  WordSize         \* the range of an unsigned integer: 2 ^ 32

ASSUME PcapNgAssumption == MaxBlock \in Nat /\ TicksPerSecond \in Nat \ {0} /\ WordSize \in Nat \ {0}

BlockHeader == 8
BlockTrailer == 4

\* The least that a block of each kind has: the section header, the description of an interface,
\* and the enhanced, the simple and the old packet.  Others are passed over.
BodySize(type) ==
  CASE type = "SHB" -> 16 [] type = "IDB" -> 8 [] type \in {"EPB", "PB"} -> 20 [] type = "SPB" -> 4 [] OTHER -> 0
IsPacket(block) == block.type \in {"EPB", "PB", "SPB"}

Ordered(r, word) == IF r.swapped THEN SWAPLONG(word) ELSE word

-----------------------------------------------------------------------------
(* process_idb_options *)

Padded(length) == ((length + 3) \div 4) * 4

\* How many units of time a second has, in 32 bits.
Resolution(opt) ==
  IF opt.binary THEN 2 ^ opt.exponent % WordSize
  ELSE FoldLeft(LAMBDA n, i : (n * 10) % WordSize, 1, [i \in 1 .. opt.exponent |-> i])

\* What one option makes of the interface: either is told at most once.
Processed(r, s, opt) ==
  LET left == s.left - 4 - Padded(opt.length)
  IN  IF s.done \/ s.bad THEN s
      ELSE IF left < 0 THEN [s EXCEPT !.bad = TRUE]
      ELSE CASE opt.code = "endofopt" -> [s EXCEPT !.left = left, !.done = TRUE, !.bad = opt.length # 0]
             [] opt.code = "tsresol" ->
                  [s EXCEPT !.left = left, !.bad = opt.length # 1 \/ "tsresol" \in s.saw \/ Resolution(opt) = 0,
                            !.saw = @ \cup {"tsresol"}, !.tsresol = Resolution(opt)]
             [] opt.code = "tsoffset" ->
                  [s EXCEPT !.left = left, !.bad = opt.length # 8 \/ "tsoffset" \in s.saw,
                            !.saw = @ \cup {"tsoffset"}, !.tsoffset = Ordered(r, opt.value)]
             [] OTHER -> [s EXCEPT !.left = left]

process_idb_options(r, block, left) ==
  FoldLeft(LAMBDA s, opt : Processed(r, s, opt),
           [left |-> left, tsresol |-> TicksPerSecond, tsoffset |-> 0, saw |-> {}, done |-> FALSE, bad |-> FALSE],
           block.options)

-----------------------------------------------------------------------------
(* Blocks, one after the other: what each makes of the pcap_t, and what is given *)

Failed(why) == [is |-> why]
Past(r) == [r EXCEPT !.pos = @ + 1]
Continue(r) == [is |-> "continue", r |-> r]

\* read_block: all of it is read, whatever it is.
ReadsBlock(block) ==
  ~block.cut /\ block.length <= MaxBlock /\ block.length >= BlockHeader + BlockTrailer
Remaining(block) == block.length - BlockHeader - BlockTrailer - BodySize(block.type)

\* A block that is read has all that its length says.
IsBlock(block) ==
  /\ block.length \in Nat
  /\ block.type = "IDB" => block.snaplen \in Int
  /\ block.type \in {"EPB", "PB"} => block.caplen \in Int
  /\ block.type = "SPB" => block.len \in Int
  /\ IsPacket(block) /\ ReadsBlock(block) => block.data \in Seq(Int) /\ Len(block.data) >= Remaining(block)

Described(r, block) == process_idb_options(r, block, Remaining(block))

\* pcap_ng_check_header: the byte order is that of the first section, its version is checked.
pcap_ng_check_header(blocks) ==
  LET block == blocks[1]
      r == [ format |-> "ng", pos |-> 1, swapped |-> block.order < 0, ifcount |-> 0, linktype |-> 0, snapshot |-> 0,
             bufsize |-> 0, tsresol |-> TicksPerSecond, tsscale |-> 1, tsoffset |-> 0 ]
  IN  IF block.length < BlockHeader + BodySize("SHB") + BlockTrailer \/ block.cut THEN Failed("truncated")
      ELSE IF Ordered(r, block.major) # 1 THEN Failed("unknown_version")
      ELSE Continue(r)

\* The first interface says what the packets of the file are.
tsscale(resolution) == IF resolution > TicksPerSecond THEN resolution \div TicksPerSecond ELSE TicksPerSecond \div resolution
FirstInterface(r, block) ==
  LET s == Described(r, block)
  IN  IF Remaining(block) < 0 \/ s.bad THEN Failed("bad_block")
      ELSE [ is |-> "found",
             r |-> [Past(r) EXCEPT !.ifcount = @ + 1, !.tsresol = s.tsresol, !.tsoffset = s.tsoffset,
                                   !.tsscale = tsscale(s.tsresol), !.snapshot = Ordered(r, block.snaplen),
                                   !.linktype = linktype_to_dlt(Ordered(r, block.linktype))] ]

\* The rest of pcap_ng_check_header, block by block.
SkipToInterface(r, blocks) ==
  IF r.pos = Len(blocks) THEN Failed("no_interface")
  ELSE LET block == blocks[r.pos + 1]
       IN  IF ~ReadsBlock(block) THEN Failed("truncated")
           ELSE IF block.type = "IDB" THEN FirstInterface(r, block)
           ELSE IF IsPacket(block) THEN Failed("packet_before_interface")
           ELSE Continue(Past(r))

\* Another interface has to be like the first.
OtherInterface(r, block) ==
  LET s == Described(r, block)
  IN  IF Remaining(block) < 0 \/ s.bad \/ r.linktype # Ordered(r, block.linktype) \/ r.snapshot # Ordered(r, block.snaplen)
         \/ s.tsresol # r.tsresol \/ s.tsoffset # r.tsoffset
      THEN Failed("bad_block")
      ELSE Continue([Past(r) EXCEPT !.ifcount = @ + 1])

\* Interfaces are numbered from 0 in each section.
NewSectionKeeping(r) == Past(r)
NewSection(r) == [Past(r) EXCEPT !.ifcount = 0]
OtherSection(r, block) ==
  IF Remaining(block) < 0 \/ Ordered(r, block.order) # 1 \/ Ordered(r, block.major) # 1 THEN Failed("bad_block")
  ELSE Continue(NewSection(r))

\* The time in seconds and in units of the second.
Time(r, t) ==
  LET frac == t % r.tsresol
  IN  [ sec |-> t \div r.tsresol + r.tsoffset,
        usec |-> IF r.tsresol > TicksPerSecond THEN frac \div r.tsscale ELSE frac * r.tsscale ]

\* A simple packet has no time, no interface but the first, and not its captured length.
PacketOf(r, block) ==
  LET simple == block.type = "SPB"
      caplen == IF simple THEN Smaller(Ordered(r, block.len), r.snapshot) ELSE Ordered(r, block.caplen)
      interface == IF simple THEN 0 ELSE Ordered(r, block.interface)
      time == Time(r, IF simple THEN 0 ELSE Ordered(r, block.time))
  IN  IF Remaining(block) < 0 \/ ~Exceeds(r.ifcount, interface) \/ Exceeds(caplen, Remaining(block)) THEN Failed("bad_block")
      ELSE [ is |-> "packet", r |-> Past(r),
             hdr |-> [sec |-> time.sec, usec |-> time.usec, caplen |-> caplen, len |-> Ordered(r, block.len)],
             data |-> ToHost(r, SubSeq(block.data, 1, caplen)) ]

\* pcap_ng_next_packet, block by block.
pcap_ng_next_packet(r, blocks) ==
  IF r.pos = Len(blocks) THEN EndOfFile
  ELSE LET block == blocks[r.pos + 1]
       IN  IF ~ReadsBlock(block) THEN Truncated
           ELSE CASE IsPacket(block) -> PacketOf(r, block)
                  [] block.type = "IDB" -> OtherInterface(r, block)
                  [] block.type = "SHB" -> OtherSection(r, block)
                  [] OTHER -> Continue(Past(r))
=============================================================================
