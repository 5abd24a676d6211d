----------------------------- MODULE FilterCode -----------------------------
(***************************************************************************)
(* The code that gencode.c generates for a test of a packet, as a tree     *)
(* (FilterGraph says what the graph of blocks does that gen_and, gen_or    *)
(* and gen_not make of it), and what such a tree does with a packet.       *)
(*                                                                         *)
(* A packet is a sequence of bytes.  A word of four bytes is the signed    *)
(* number bpf_int32 that has its bits.  The layout of a link-layer header, *)
(* the static variables off_ll, off_linktype and so on, is a record; -1 is *)
(* the u_int that stands for "no such offset".                             *)
(***************************************************************************)
EXTENDS Integers, Sequences, FiniteSets, Bitwise, SequencesExt

Unset == -1

-----------------------------------------------------------------------------
(* Words *)

WordOf(bytes) ==
  LET signed == Len(bytes) = 4 /\ Head(bytes) > 127
  IN  FoldLeft(LAMBDA w, b : 256 * w + b, IF signed THEN Head(bytes) - 256 ELSE Head(bytes), Tail(bytes))

Size(size) == CASE size = "B" -> 1 [] size = "H" -> 2 [] size = "W" -> 4

Masked(bytes, mask) ==
  IF mask = <<>> THEN bytes ELSE [i \in DOMAIN bytes |-> bytes[i] & mask[i]]

\* The unsigned comparison of two words.
Above(v, w) == IF v < 0 THEN w >= 0 \/ v > w ELSE w >= 0 /\ v > w
Compare(op, v, w) ==
  CASE op = "jeq" -> v = w
    [] op = "jgt" -> Above(v, w)
    [] op = "jge" -> v = w \/ Above(v, w)

\* The bytes at an offset of the packet: none when they are not all in it.
Bytes(p, at, n) == IF at >= 0 /\ at + n <= Len(p) THEN <<SubSeq(p, at + 1, at + n)>> ELSE <<>>
Some(x) == x # <<>>
MapSome(x, F(_)) == IF Some(x) THEN F(x[1]) ELSE <<>>
ByteAt(p, at) == MapSome(Bytes(p, at, 1), LAMBDA b : <<b[1]>>)
WordAt(p, at) == MapSome(Bytes(p, at, 4), LAMBDA b : <<WordOf(b)>>)

-----------------------------------------------------------------------------
(* The headers of variable length that precede the payload *)

Wlan == {"IEEE802_11", "PRISM_HEADER", "IEEE802_11_RADIO_AVS", "IEEE802_11_RADIO", "PPI"}
HasPrefix(dlt) == dlt \in Wlan \ {"IEEE802_11"}

\* An AVS header is told from a Prism header, of 144 bytes, by its cookie.
gen_load_prism_llprefixlen(p) ==
  MapSome(Bytes(p, 0, 4), LAMBDA b :
    IF Masked(b, <<255, 255, 240, 0>>) = <<128, 33, 16, 0>> THEN WordAt(p, 4) ELSE <<144>>)
gen_load_avs_llprefixlen(p) == WordAt(p, 4)
\* The length is little-endian.
gen_load_radiotap_llprefixlen(p) == MapSome(Bytes(p, 2, 2), LAMBDA b : <<256 * b[2] + b[1]>>)
gen_load_ppi_llprefixlen(p) == gen_load_radiotap_llprefixlen(p)

\* The offset of the link-layer header; used says whether the code has a register for it.
PrefixLength(dlt, used, p) ==
  CASE ~used \/ ~HasPrefix(dlt) -> <<0>>
    [] used /\ dlt = "PRISM_HEADER" -> gen_load_prism_llprefixlen(p)
    [] used /\ dlt = "IEEE802_11_RADIO_AVS" -> gen_load_avs_llprefixlen(p)
    [] used /\ dlt = "IEEE802_11_RADIO" -> gen_load_radiotap_llprefixlen(p)
    [] used /\ dlt = "PPI" -> gen_load_ppi_llprefixlen(p)

\* Atheros cards pad the header to a multiple of four: the flags of the radiotap header tell.
RoundedUp(p, n) ==
  MapSome(Bytes(p, 4, 4), LAMBDA present :
    IF present[1] & 2 = 0 THEN <<n>>
    ELSE MapSome(ByteAt(p, IF present[1] & 1 # 0 THEN 16 ELSE 8), LAMBDA flags :
           <<IF flags & 32 = 0 THEN n ELSE ((n + 3) \div 4) * 4>>))

\* The end of the MAC header that begins at x: a data frame with QoS has two bytes more.
gen_load_802_11_header_len(dlt, x, p) ==
  MapSome(ByteAt(p, x), LAMBDA fc :
    IF fc & 8 = 0 \/ fc & 4 # 0 THEN <<x + 24>>
    ELSE LET n == IF fc & 128 # 0 THEN x + 26 ELSE x + 24
         IN  IF dlt = "IEEE802_11_RADIO" THEN RoundedUp(p, n) ELSE <<n>>)

-----------------------------------------------------------------------------
(* Blocks *)

\* bpf_error: the code generator gives up; abort: it takes the process with it.
bpf_error == [is |-> "error"]
abort == [is |-> "abort"]
IsCode(b) == b.is \notin {"error", "abort"}

gen_true == [is |-> "uncond", sense |-> TRUE]
gen_false == [is |-> "uncond", sense |-> FALSE]

gen_not(b) == IF IsCode(b) THEN [is |-> "not", of |-> b] ELSE b
Both(op, b0, b1) ==
  CASE ~IsCode(b0) -> b0
    [] IsCode(b0) /\ ~IsCode(b1) -> b1
    [] IsCode(b0) /\ IsCode(b1) -> [is |-> op, left |-> b0, right |-> b1]
gen_and(b0, b1) == Both("and", b0, b1)
gen_or(b0, b1) == Both("or", b0, b1)

AllOf(blocks) == FoldLeft(gen_and, Head(blocks), Tail(blocks))
AnyOf(blocks) == FoldLeft(gen_or, Head(blocks), Tail(blocks))

\* Where a load begins: at the packet, past the prefix, at the payload of the MAC layer, or at
\* the end of the IPv4 header that begins hdr bytes into that payload.
LoadAt(via, at, hdr, size) == [via |-> via, at |-> at, hdr |-> hdr, size |-> size]

gen_load_llrel(L, offset, size) ==
  IF HasPrefix(L.linktype) THEN LoadAt("prefix", offset, 0, size)
  ELSE LoadAt("packet", offset + L.off_ll, 0, size)
gen_load_macplrel(L, offset, size) ==
  IF L.off_macpl_is_variable THEN LoadAt("macpl", offset, 0, size)
  ELSE LoadAt("packet", L.off_macpl + offset, 0, size)
gen_loadx_iphdrlen(L) ==
  [via |-> IF L.off_macpl_is_variable THEN "macpl ip" ELSE "ip",
   hdr |-> IF L.off_macpl_is_variable THEN L.off_nl ELSE L.off_macpl + L.off_nl]

\* How far into the payload of the MAC layer another layer begins.
MacplOffset(L, offrel) ==
  CASE offrel = "OR_MACPL" -> 0 [] offrel = "OR_NET" -> L.off_nl
    [] offrel = "OR_NET_NOSNAP" -> L.off_nl_nosnap [] offrel = "OR_TRAN_IPV6" -> L.off_nl + 40

gen_load_a(L, offrel, offset, size) ==
  CASE offrel = "OR_PACKET" -> LoadAt("packet", offset, 0, size)
    [] offrel = "OR_LINK" -> gen_load_llrel(L, offset, size)
    [] offrel = "OR_TRAN_IPV4" ->
         LET x == gen_loadx_iphdrlen(L) IN LoadAt(x.via, L.off_macpl + L.off_nl + offset, x.hdr, size)
    [] offrel \in {"OR_MACPL", "OR_NET", "OR_NET_NOSNAP", "OR_TRAN_IPV6"} ->
         gen_load_macplrel(L, MacplOffset(L, offrel) + offset, size)

\* A jset tests bits; the masks of the other tests are sequences of bytes, <<>> for all ones.
Reversed(b, reverse) == IF reverse THEN gen_not(b) ELSE b
gen_ncmp(L, offrel, offset, size, mask, jtype, reverse, v) ==
  Reversed([is |-> "cmp", load |-> gen_load_a(L, offrel, offset, size), mask |-> mask, op |-> jtype, v |-> v],
           reverse /\ jtype \in {"jgt", "jge"})
gen_cmp(L, offrel, offset, size, v) == gen_ncmp(L, offrel, offset, size, <<>>, "jeq", FALSE, v)
gen_cmp_gt(L, offrel, offset, size, v) == gen_ncmp(L, offrel, offset, size, <<>>, "jgt", FALSE, v)
gen_cmp_ge(L, offrel, offset, size, v) == gen_ncmp(L, offrel, offset, size, <<>>, "jge", FALSE, v)
gen_cmp_lt(L, offrel, offset, size, v) == gen_ncmp(L, offrel, offset, size, <<>>, "jge", TRUE, v)
gen_cmp_le(L, offrel, offset, size, v) == gen_ncmp(L, offrel, offset, size, <<>>, "jgt", TRUE, v)
gen_mcmp(L, offrel, offset, size, v, mask) == gen_ncmp(L, offrel, offset, size, mask, "jeq", FALSE, v)
\* new_block(JMP(BPF_JSET)) after a load of a byte
gen_bit(L, offset, bit) == gen_not(gen_mcmp(L, "OR_LINK", offset, "B", 0, <<bit>>))

\* The bytes are compared from the last to the first, four, two or one at a time.
gen_bcmp(L, offrel, offset, v) ==
  LET n == Len(v)
      words == n \div 4
      Tested(at, size) == gen_cmp(L, offrel, offset + at, size, WordOf(SubSeq(v, at + 1, at + Size(size))))
      rest == n % 4
  IN  AllOf([i \in 1 .. words |-> Tested(n - 4 * i, "W")]
            \o (IF rest >= 2 THEN <<Tested(rest - 2, "H")>> ELSE <<>>)
            \o (IF rest % 2 = 1 THEN <<Tested(0, "B")>> ELSE <<>>))

-----------------------------------------------------------------------------
(* Running it: bpf_filter *)

\* Does the code hold a load of one of these kinds?  Then a register was allocated for it.
RECURSIVE Loads(_)
Loads(b) ==
  CASE b.is = "cmp" -> {b.load.via}
    [] b.is = "not" -> Loads(b.of)
    [] b.is \in {"and", "or"} -> Loads(b.left) \cup Loads(b.right)
    [] b.is = "rel" -> {s.load.via : s \in {t \in ToSet(b.stmts) : t.op = "load"}}
    [] b.is \in {"uncond", "len", "chain"} -> {}

\* What insert_compute_vloffsets leaves in the registers before the rest runs.
insert_compute_vloffsets(dlt, loads, p) ==
  LET prefix == PrefixLength(dlt, "prefix" \in loads, p)
  IN  [prefix |-> prefix,
       macpl |-> IF loads \cap {"macpl", "macpl ip"} = {} THEN <<0>>
                 ELSE MapSome(prefix, LAMBDA x : gen_load_802_11_header_len(dlt, x, p))]

Start(load, regs, p) ==
  LET from == IF load.via = "prefix" THEN regs.prefix[1]
              ELSE IF load.via \in {"macpl", "macpl ip"} THEN regs.macpl[1] ELSE 0
  IN  IF load.via \in {"ip", "macpl ip"}
      THEN MapSome(ByteAt(p, from + load.hdr), LAMBDA b : <<from + 4 * (b & 15)>>)
      ELSE <<from>>

\* The bytes that a load whose offset is increased by i finds.
Loaded(load, i, regs, p) ==
  MapSome(Start(load, regs, p), LAMBDA from : Bytes(p, from + load.at + i, Size(load.size)))

\* What an instruction of an arithmetic expression does to A and to the scratch memory; a load
\* adds to its offset the number that a register holds.  Numbers stay far below 2^31 here.
Operate(op, v, w) ==
  CASE op = "add" -> <<v + w>> [] op = "sub" -> <<v - w>> [] op = "mul" -> <<v * w>>
    [] op = "div" -> IF w = 0 THEN <<>> ELSE <<v \div w>>
    [] op = "and" -> <<v & w>> [] op = "or" -> <<v | w>>
    [] op = "lsh" -> <<v * 2 ^ w>> [] op = "rsh" -> <<v \div 2 ^ w>>
Result(s, M, A, regs, p) ==
  CASE s.op = "imm" -> <<s.k>>
    [] s.op = "len" -> <<Len(p)>>
    [] s.op = "load" -> MapSome(Loaded(s.load, M[s.r0], regs, p), LAMBDA bytes : <<WordOf(bytes)>>)
    [] s.op = "neg" -> <<-M[s.r0]>>
    [] s.op = "st" -> <<A>>
    [] s.op \notin {"imm", "len", "load", "neg", "st"} -> Operate(s.op, M[s.r0], M[s.r1])
Execute(stmts, regs, p) ==
  FoldLeft(LAMBDA m, s :
             IF m.A = <<>> THEN m
             ELSE LET A == Result(s, m.M, m.A[1], regs, p)
                  IN  [A |-> A, M |-> IF s.op = "st" THEN [m.M EXCEPT ![s.k] = m.A[1]] ELSE m.M],
           [A |-> <<0>>, M |-> [r \in 0 .. 15 |-> 0]], stmts)

\* The headers of gen_protochain's loop: A is the protocol of the one that X finds.  An
\* extension header holds its own length in units of eight bytes, AH one in units of four.
RECURSIVE Chase(_, _, _, _, _)
Chase(b, A, X, steps, p) ==
  IF A \in {b.v, 59} \/ steps = 0 \/ (A # 51 /\ ~(b.six /\ A \in {0, 60, 43, 44})) THEN <<A>>
  ELSE MapSome(Bytes(p, b.at + X, 2), LAMBDA h :
         Chase(b, h[1], IF A = 51 THEN (h[2] + 2) * 4 ELSE X + (h[2] + 1) * 8, steps - 1, p))
Chain(b, p) ==
  MapSome(ByteAt(p, IF b.six THEN b.at + 6 ELSE b.at + 9), LAMBDA A :
    MapSome(IF b.six THEN <<40>> ELSE MapSome(ByteAt(p, b.at), LAMBDA h : <<4 * (h & 15)>>), LAMBDA X :
      Chase(b, A, X, 8, p)))

Truth(x, F(_)) == IF x = <<>> THEN "outside" ELSE IF F(x[1]) THEN "true" ELSE "false"

Opposite(r) == CASE r = "true" -> "false" [] r = "false" -> "true" [] r = "outside" -> r

\* "outside": a load outside the packet has ended the run, and the packet is rejected.
RECURSIVE Runs(_, _, _)
Runs(b, regs, p) ==
  CASE b.is = "uncond" -> IF b.sense THEN "true" ELSE "false"
    [] b.is = "cmp" ->
         Truth(Loaded(b.load, 0, regs, p), LAMBDA bytes : Compare(b.op, WordOf(Masked(bytes, b.mask)), b.v))
    [] b.is = "len" -> IF Compare(b.op, Len(p), b.v) THEN "true" ELSE "false"
    [] b.is = "rel" ->
         LET m == Execute(b.stmts, regs, p)
         IN  Truth(m.A, LAMBDA A : Compare(b.op, m.M[b.r0], m.M[b.r1]))
    [] b.is = "chain" -> Truth(Chain(b, p), LAMBDA A : A = b.v)
    [] b.is = "not" -> Opposite(Runs(b.of, regs, p))
    [] b.is \in {"and", "or"} ->
         LET first == Runs(b.left, regs, p)
         IN  IF first = (IF b.is = "and" THEN "true" ELSE "false") THEN Runs(b.right, regs, p) ELSE first

\* The PPI header must announce 802.11: finish_parse puts that test before all others.
gen_ppi_dlt_check(dlt, p) ==
  dlt = "PPI" => Bytes(p, 4, 4) = <<(<<105, 0, 0, 0>>)>>

Accepts(dlt, b, p) ==
  LET regs == insert_compute_vloffsets(dlt, Loads(b), p)
  IN  /\ gen_ppi_dlt_check(dlt, p)
      /\ Some(regs.prefix) /\ Some(regs.macpl)
      /\ Runs(b, regs, p) = "true"
=============================================================================
