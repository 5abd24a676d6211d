----------------------------- MODULE MCSavefile -----------------------------
(***************************************************************************)
(* Instances of Savefile: a few packets that are dumped, and files of      *)
(* other programs, byte orders and versions, whole or cut anywhere.        *)
(***************************************************************************)
EXTENDS Savefile

Pkt(sec, usec, len, bytes) ==
  [sec |-> sec, usec |-> usec, caplen |-> Len(bytes), len |-> len, data |-> bytes, host |-> bytes, fields |-> <<>>]
SomePackets == {Pkt(1, 7, 1, <<2>>), Pkt(2, 8, 5, <<3, 1, 4>>)}
TooLong == Pkt(3, 9, 4, <<2, 2, 2, 2>>)
SomeLinks == {<<DLT_EN10MB, 2>>, <<12, 0>>, <<40, 2>>}
SomeCounts == {-1, 2}
SomeFilters == {{2}}

(* Packets of the USB bus: the fields that have more than a byte, as the structure lays them out *)
Widths(isochronous, mmapped, count) ==
  <<8, 1, 1, 1, 1, 2, 1, 1, 8, 4, 4, 4, 4>>
    \o (IF isochronous THEN <<4, 4>> ELSE [n \in 1 .. 8 |-> 1])
    \o (IF mmapped THEN <<4, 4, 4, 4>> ELSE <<>>)
    \o [n \in 1 .. 7 * count |-> IF (n - 1) % 7 < 3 THEN 4 ELSE 1]
Total(widths, n) == FoldLeft(LAMBDA a, w : a + w, 0, SubSeq(widths, 1, n))
FieldsOf(widths) == SelectSeq([n \in DOMAIN widths |-> <<Total(widths, n - 1), widths[n]>>], LAMBDA f : f[2] > 1)
Reversed(bytes, fields) ==
  [i \in DOMAIN bytes |->
     LET f == {g \in ToSet(fields) : i > g[1] /\ i <= g[1] + g[2]}
     IN  IF f = {} THEN bytes[i] ELSE LET g == CHOOSE g \in f : TRUE IN bytes[2 * g[1] + g[2] + 1 - i]]
Usb(isochronous, mmapped, count, caplen) ==
  LET widths == Widths(isochronous, mmapped, count)
      host == [i \in 1 .. Total(widths, Len(widths)) |->
                 IF i = 10 THEN IF isochronous THEN URB_ISOCHRONOUS ELSE 3
                 ELSE IF i = 45 THEN count ELSE IF i \in 46 .. 48 THEN 0 ELSE 100 + i]
  IN  [ sec |-> 5, usec |-> 6, caplen |-> caplen, len |-> Len(host), host |-> host, fields |-> FieldsOf(widths),
        data |-> SubSeq(Reversed(host, FieldsOf(widths)), 1, caplen) ]

(* Files of the classic format by other programs *)
Format(swapped, major, minor, exchanged, patched) ==
  [swapped |-> swapped, major |-> major, minor |-> minor, exchanged |-> exchanged, patched |-> patched]
InOrder(f, words) == [n \in DOMAIN words |-> IF f.swapped THEN -words[n] ELSE words[n]]
RecordOf(f, pkt) ==
  InOrder(f, <<pkt.sec, pkt.usec>> \o (IF f.exchanged THEN <<pkt.len, pkt.caplen>> ELSE <<pkt.caplen, pkt.len>>)
               \o (IF f.patched THEN <<1, 2>> ELSE <<>>)) \o pkt.data
CellsOf(f, linktype, snaplen, pkts) ==
  InOrder(f, <<IF f.patched THEN KUZNETZOV_TCPDUMP_MAGIC ELSE TCPDUMP_MAGIC, f.major, f.minor, 0, 0, snaplen, linktype>>)
    \o FoldLeft(LAMBDA cells, pkt : cells \o RecordOf(f, pkt), <<>>, pkts)
FileOf(f, linktype, link, snaplen, pkts) ==
  [ NewFile EXCEPT !.cells = CellsOf(f, linktype, snaplen, pkts), !.written = pkts, !.link = link, !.snapshot = snaplen,
                   !.hdrsize = IF f.patched THEN 6 ELSE 4 ]
Cuts(whole) == {[whole EXCEPT !.cells = SubSeq(@, 1, n)] : n \in 0 .. Len(whole.cells)}

TwoPackets == <<Pkt(1, 7, 1, <<2>>), Pkt(2, 8, 5, <<3, 1, 4>>)>>
ClassicFiles ==
  Cuts(FileOf(Format(TRUE, 2, 4, FALSE, FALSE), 1, 1, 2, TwoPackets))
    \cup Cuts(FileOf(Format(TRUE, 2, 3, TRUE, TRUE), 1, 1, 2, TwoPackets))
    \cup {FileOf(f, 101, 12, 3, TwoPackets) :
            f \in {Format(TRUE, 2, 2, TRUE, FALSE), Format(FALSE, 2, 3, FALSE, FALSE), Format(FALSE, 543, 0, TRUE, FALSE)}}
    \cup {FileOf(Format(FALSE, 2, 4, FALSE, FALSE), 1, 1, snaplen, <<TooLong, TooLong>>) : snaplen \in {2, 0}}
    \cup {FileOf(Format(FALSE, 1, 4, FALSE, FALSE), 1, 1, 2, <<>>),
          [FileOf(Format(FALSE, 2, 4, FALSE, FALSE), 1, 1, 2, <<>>) EXCEPT !.cells = [@ EXCEPT ![1] = 77]]}
    \cup {[FileOf(Format(FALSE, 2, 4, FALSE, FALSE), 1, 1, snaplen, <<TooLong>>) EXCEPT !.cells = [@ EXCEPT ![10] = -1]] :
            snaplen \in {2, 0}}
    \cup {FileOf(Format(TRUE, 2, 4, FALSE, FALSE), DLT_USB_LINUX_MMAPPED, DLT_USB_LINUX_MMAPPED, 100, <<Usb(TRUE, TRUE, 1, n)>>) :
            n \in {80, 70, 45}}
    \cup {FileOf(Format(TRUE, 2, 4, FALSE, FALSE), DLT_USB_LINUX, DLT_USB_LINUX, 100, <<u>>) :
            u \in {Usb(FALSE, FALSE, 0, 48), Usb(FALSE, FALSE, 0, 39), Usb(TRUE, FALSE, 2, 70)}}

(* Files of the next generation *)
Opt(code, length, exponent) == [code |-> code, length |-> length, exponent |-> exponent, binary |-> FALSE, value |-> exponent]
Binary(exponent) == [Opt("tsresol", 1, exponent) EXCEPT !.binary = TRUE]
LengthOf(options) == FoldLeft(LAMBDA n, opt : n + 4 + Padded(opt.length), 0, options)

Shb == [type |-> "SHB", length |-> 28, cut |-> FALSE, order |-> 1, major |-> 1]
Idb(linktype, options, resolution, offset) ==
  [ type |-> "IDB", length |-> 20 + LengthOf(options), cut |-> FALSE, linktype |-> linktype, snaplen |-> 8, options |-> options,
    resolution |-> resolution, offset |-> offset, exact |-> resolution > 0 ]
Plain == Idb(1, <<>>, TicksPerSecond, 0)
Epb(interface, time, caplen) ==
  [ type |-> "EPB", length |-> 40, cut |-> FALSE, interface |-> interface, time |-> time, caplen |-> caplen, len |-> 9,
    data |-> <<1, 2, 3, 4, 5, 6, 7, 8>> ]
Spb(len) == [type |-> "SPB", length |-> 24, cut |-> FALSE, len |-> len, time |-> 0, data |-> <<1, 2, 3, 4, 5, 6, 7, 8>>]
Unknown == [type |-> "unknown", length |-> 12, cut |-> FALSE]

\* The same file on a machine of the other byte order.
OtherWay(block) ==
  [f \in DOMAIN block |->
     IF f \in {"order", "major", "linktype", "snaplen", "interface", "time", "caplen", "len"} THEN -block[f]
     ELSE IF f = "options" THEN [n \in DOMAIN block[f] |-> [block[f][n] EXCEPT !.value = -@]]
     ELSE block[f]]

Fine == Idb(1, <<Opt("tsresol", 1, 3), Opt("comment", 5, 0), Opt("endofopt", 0, 0)>>, 1000, 0)
Coarse == Idb(101, <<Opt("tsoffset", 8, 7), Opt("tsresol", 1, 1)>>, 10, 7)
BlockFiles ==
  { <<Shb, Plain, Epb(0, 250, 8), Shb, Unknown, Plain, Plain, Epb(1, 3, 2), Shb, Epb(0, 1, 1)>>,
    <<Shb, Unknown, Fine, Fine, Epb(1, 2345, 8), [Epb(0, 999, 3) EXCEPT !.type = "PB"], Spb(5), Epb(2, 1, 1)>>,
    <<Shb, Coarse, Spb(5), Spb(9), Epb(0, 123, 8), [Epb(0, 9, 8) EXCEPT !.caplen = 9]>>,
    <<Shb, Idb(1, <<Binary(2)>>, 4, 0), Epb(0, 7, 1)>>,
    <<Shb, Plain, Epb(0, 1, -1)>>, <<Shb, Plain, Epb(-1, 1, 1)>>, <<Shb, [Plain EXCEPT !.snaplen = -1], Spb(5)>>,
    <<Shb, Idb(1, <<Binary(7)>>, 0, 0), Epb(0, 127, 1)>>,
    <<Shb, Idb(1, <<Opt("tsresol", 1, 4)>>, 0, 0), Epb(0, 9, 1), [Shb EXCEPT !.order = -1]>>,
    <<Shb, Plain, Idb(9, <<>>, TicksPerSecond, 0), Epb(1, 1, 1)>>, <<Shb, Plain, Fine, Epb(1, 1, 1)>>,
    <<Shb>>, <<Shb, Epb(0, 1, 1)>>, <<[Shb EXCEPT !.length = 12]>>, <<[Shb EXCEPT !.major = 2]>>, <<[Shb EXCEPT !.order = 5]>>,
    <<Shb, [Plain EXCEPT !.cut = TRUE]>>, <<Shb, Plain, [Epb(0, 1, 1) EXCEPT !.cut = TRUE]>>,
    <<Shb, Plain, [Epb(0, 1, 1) EXCEPT !.length = 11]>>, <<Shb, Plain, [Epb(0, 1, 1) EXCEPT !.length = 300]>>,
    <<Shb, Idb(1, <<Opt("tsresol", 1, 1), Opt("tsresol", 1, 1)>>, 0, 0)>>, <<Shb, Idb(1, <<Opt("endofopt", 4, 0)>>, 0, 0)>>,
    <<Shb, Idb(1, <<Binary(10)>>, 0, 0)>>, <<Shb, [Idb(1, <<Opt("tsoffset", 8, 7)>>, 0, 0) EXCEPT !.length = 24]>> }
NgFile(blocks) == [NewFile EXCEPT !.blocks = blocks]

SomeOthers ==
  ClassicFiles \cup {NgFile(blocks) : blocks \in BlockFiles}
    \cup {NgFile([n \in DOMAIN blocks |-> OtherWay(blocks[n])]) : blocks \in BlockFiles}
=============================================================================
