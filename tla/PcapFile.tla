------------------------------ MODULE PcapFile ------------------------------
(***************************************************************************)
(* Capture files of the classic format, as sf-pcap.c and pcap-common.c     *)
(* write and read them.  A file is a sequence of cells: one for each field *)
(* of a header and one for each byte of a packet.  In a file of the other  *)
(* byte order the fields are the negatives of what they are here.  Where   *)
(* a length is expected, a negative word is unsigned, hence a huge one.    *)
(***************************************************************************)
EXTENDS Integers, Sequences, SequencesExt

CONSTANTS
  DefaultBuffer,   \* the size of the buffer when the snapshot length is not positive: 65536
  MaxCaplen        \* the most that a packet which is longer than the buffer may have: 65535

ASSUME PcapFileAssumption == DefaultBuffer \in Nat \ {0} /\ MaxCaplen \in Nat

\* The comparison of unsigned words.
Exceeds(a, b) == IF a < 0 THEN b >= 0 \/ a > b ELSE b >= 0 /\ a > b
Smaller(a, b) == IF Exceeds(a, b) THEN b ELSE a
SWAPLONG(word) == -word

-----------------------------------------------------------------------------
(* Link types: the numbers in files are not those of the library *)

DLT_EN10MB == 1
DLT_USB_LINUX == 189
DLT_USB_LINUX_MMAPPED == 220

\* <<In the library, in files>>: no type is there twice.
LinkTypeMap ==
  {<<n, n>> : n \in (0 .. 10) \cup {50, 51, 99, 104, 107}}
    \cup {<<11, 100>>, <<12, 101>>, <<15, 102>>, <<16, 103>>, <<19, 106>>}
Matching == 104 .. 246

dlt_to_linktype(dlt) ==
  IF dlt \in Matching THEN dlt
  ELSE IF \E type \in LinkTypeMap : type[1] = dlt THEN (CHOOSE type \in LinkTypeMap : type[1] = dlt)[2]
  ELSE -1

linktype_to_dlt(linktype) ==
  IF linktype \notin Matching /\ (\E type \in LinkTypeMap : type[2] = linktype)
  THEN (CHOOSE type \in LinkTypeMap : type[2] = linktype)[1]
  ELSE linktype

-----------------------------------------------------------------------------
(* swap_linux_usb_header: the fields of a packet of the USB bus have the byte order of the file.  *)
(* Each is <<its offset, its length>>, and is swapped if all of it was captured.                  *)

URB_ISOCHRONOUS == 0

IsoFields(first, count) ==
  [n \in 1 .. 3 * count |-> <<first + 16 * ((n - 1) \div 3) + 4 * ((n - 1) % 3), 4>>]
HeaderFields(isochronous, header_len_64_bytes) ==
  << <<0, 8>>, <<12, 2>>, <<16, 8>>, <<24, 4>>, <<28, 4>>, <<32, 4>>, <<36, 4>> >>
    \o (IF isochronous THEN << <<40, 4>>, <<44, 4>> >> ELSE <<>>)
    \o (IF header_len_64_bytes THEN << <<48, 4>>, <<52, 4>>, <<56, 4>>, <<60, 4>> >> ELSE <<>>)

\* No two fields have a byte in common.
SwapFields(bytes, fields) ==
  LET With(i) == {n \in DOMAIN fields : LET first == fields[n][1]  end == fields[n][1] + fields[n][2]
                                        IN  i > first /\ i <= end /\ end <= Len(bytes)}
      Opposite(field, i) == 2 * field[1] + field[2] + 1 - i
  IN  [i \in DOMAIN bytes |->
         IF With(i) = {} THEN bytes[i] ELSE bytes[Opposite(fields[CHOOSE n \in With(i) : TRUE], i)]]

swap_linux_usb_header(bytes, header_len_64_bytes) ==
  LET isochronous == Len(bytes) >= 40 /\ bytes[10] = URB_ISOCHRONOUS
      header == SwapFields(bytes, HeaderFields(isochronous, header_len_64_bytes))
      first == IF header_len_64_bytes THEN 64 ELSE 48
  IN  IF isochronous /\ Len(bytes) >= first THEN SwapFields(header, IsoFields(first, header[45])) ELSE header

ToHostUnswapped(r, bytes) == bytes

\* The fields of a packet, in the order of this machine.
ToHost(r, bytes) ==
  IF ~r.swapped \/ r.linktype \notin {DLT_USB_LINUX, DLT_USB_LINUX_MMAPPED} THEN bytes
  ELSE swap_linux_usb_header(bytes, r.linktype = DLT_USB_LINUX_MMAPPED)

-----------------------------------------------------------------------------
(* What is written *)

TCPDUMP_MAGIC == 9001
KUZNETZOV_TCPDUMP_MAGIC == 9002
PCAP_VERSION_MAJOR == 2
PCAP_VERSION_MINOR == 4

sf_write_header(linktype, thiszone, snaplen) ==
  <<TCPDUMP_MAGIC, PCAP_VERSION_MAJOR, PCAP_VERSION_MINOR, thiszone, 0, snaplen, linktype>>

\* The two parts that pcap_dump writes.
sf_hdr(pkt) == <<pkt.sec, pkt.usec, pkt.caplen, pkt.len>>
pcap_dump(pkt) == sf_hdr(pkt) \o pkt.data

-----------------------------------------------------------------------------
(* What is read: r is the pcap_t, r.pos how much of the file has been read *)

FileHeader == 7
Left(r, cells) == Len(cells) - r.pos
Word(r, cells, n) == IF r.swapped THEN SWAPLONG(cells[r.pos + n]) ELSE cells[r.pos + n]

IsMagic(word) == word \in {TCPDUMP_MAGIC, KUZNETZOV_TCPDUMP_MAGIC}
IsPcap(cells) == IsMagic(cells[1]) \/ IsMagic(SWAPLONG(cells[1]))

\* Versions in which the lengths of a record are in the other order.
LengthsSwapped(major, minor) ==
  CASE major = 543 \/ (major = 2 /\ Exceeds(3, minor)) -> "SWAPPED"
    [] major = 2 /\ minor = 3 -> "MAYBE_SWAPPED"
    [] OTHER -> "NOT_SWAPPED"

\* The file of the patched program has longer record headers, and counts the link-layer header of
\* Ethernet apart from the snapshot length.
pcap_check_header(cells) ==
  LET start == [pos |-> 0, swapped |-> ~IsMagic(cells[1])]
      word(n) == Word(start, cells, n)
      patched == word(1) = KUZNETZOV_TCPDUMP_MAGIC
      linktype == linktype_to_dlt(word(7))
      snapshot == word(6) + (IF patched /\ linktype = DLT_EN10MB THEN 14 ELSE 0)
  IN  [ format |-> "pcap", pos |-> FileHeader, swapped |-> start.swapped, linktype |-> linktype, snapshot |-> snapshot,
        lengths_swapped |-> LengthsSwapped(word(2), word(3)), hdrsize |-> IF patched THEN 6 ELSE 4,
        bufsize |-> IF snapshot <= 0 THEN DefaultBuffer ELSE snapshot, archaic |-> Exceeds(PCAP_VERSION_MAJOR, word(2)) ]

RecordHeader(r, cells) ==
  LET first == Word(r, cells, 3)
      second == Word(r, cells, 4)
      exchanged == r.lengths_swapped = "SWAPPED" \/ (r.lengths_swapped = "MAYBE_SWAPPED" /\ Exceeds(first, second))
  IN  [ sec |-> Word(r, cells, 1), usec |-> Word(r, cells, 2),
        caplen |-> IF exchanged THEN second ELSE first, len |-> IF exchanged THEN first ELSE second ]

Truncated == [is |-> "truncated"]
EndOfFile == [is |-> "eof"]
Bogus == [is |-> "bogus"]

\* A packet that is longer than the buffer is read as a whole and cut, so that the next is found.
CutToUncut(r, hdr) == hdr
CutTo(r, hdr) == [hdr EXCEPT !.caplen = Smaller(@, r.bufsize)]

NothingReadAnywhere(r, cells) == Left(r, cells) < r.hdrsize
NothingRead(r, cells) == Left(r, cells) = 0

pcap_next_packet(r, cells) ==
  IF Left(r, cells) < r.hdrsize THEN IF NothingRead(r, cells) THEN EndOfFile ELSE Truncated
  ELSE LET hdr == RecordHeader(r, cells)
           at == r.pos + r.hdrsize
           kept == CutTo(r, hdr)
       IN  IF Exceeds(hdr.caplen, r.bufsize) /\ Exceeds(hdr.caplen, MaxCaplen) THEN Bogus
           ELSE IF Exceeds(hdr.caplen, Len(cells) - at) THEN Truncated
           ELSE [ is |-> "packet", pos |-> at + hdr.caplen, hdr |-> kept,
                  data |-> ToHost(r, SubSeq(cells, at + 1, at + kept.caplen)) ]
=============================================================================
