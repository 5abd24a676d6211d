------------------------------ MODULE BpfCode ------------------------------
(***************************************************************************)
(* BPF programs: what bpf_validate accepts and what the instructions do    *)
(* when bpf_filter executes them (bpf/net/bpf_filter.c, for userland).     *)
(*                                                                         *)
(* A program is a sequence of instructions [cls, op, arg, k, jt, jf]: the  *)
(* parts of the code word, and the operands.  For a load op is the mode    *)
(* and arg the size; for arithmetic and jumps op is the operation and arg  *)
(* the source, "k" or "x"; for ret op is what it returns.                  *)
(*                                                                         *)
(* Bytes have NibbleBits * 2 bits and words four bytes, so that the width  *)
(* of a word can be checked on small numbers; the code has NibbleBits = 4. *)
(***************************************************************************)
EXTENDS Integers, Sequences, SequencesExt, FiniteSetsExt

CONSTANTS
  NibbleBits,  \* bits of half a byte: 4 in the code
  MemWords     \* BPF_MEMWORDS, 16 in the code

Byte == 2^(2 * NibbleBits)
WordBits == 8 * NibbleBits
Word == 2^WordBits
MemIndex == 0 .. MemWords - 1

Operand == 0 .. Word - 1
Offset == 0 .. Byte - 1
Instruction == [cls : STRING, op : STRING, arg : STRING, k : Operand, jt : Offset, jf : Offset]

ASSUME BpfCodeAssumption ==
  /\ NibbleBits \in Nat \ {0}
  /\ Byte \in Nat
  /\ Word \in Nat
  /\ 2 * Byte <= Word
  /\ MemWords \in Nat \ {0}

-----------------------------------------------------------------------------
(* Words *)

Signed(k) == IF 2 * k < Word THEN k ELSE k - Word

\* u_int32: A and X wrap around.
Wrap(n) == n % Word

Bit(n, i) == (n \div 2^i) % 2
Bitwise(f, a, b) ==
  MapThenSumSet(LAMBDA i : 2^i * f[Bit(a, i), Bit(b, i)], 0 .. WordBits - 1)
And(a, b) == Bitwise([x, y \in {0, 1} |-> x * y], a, b)
Or(a, b) == Bitwise([x, y \in {0, 1} |-> IF x + y > 0 THEN 1 ELSE 0], a, b)

SizeOf == [W |-> 4, H |-> 2, B |-> 1]

\* EXTRACT_LONG, EXTRACT_SHORT and a byte: n bytes at offset k of packet p, most significant first.
Extract(p, k, n) == FoldLeft(LAMBDA w, byte : Byte * w + byte, 0, SubSeq(p, k + 1, k + n))

\* The shifts are undefined from the width of a word on: the processor shifts everything
\* out, or looks at the low bits of the count only.
ShiftCounts(b) == IF b < WordBits THEN {b} ELSE {WordBits, b % WordBits}

\* The outcomes of an arithmetic instruction that does not divide by zero.
Alu(op, a, b) ==
  CASE op = "add" -> {Wrap(a + b)}
    [] op = "sub" -> {Wrap(a - b)}
    [] op = "mul" -> {Wrap(a * b)}
    [] op = "div" -> {a \div b}
    [] op = "and" -> {And(a, b)}
    [] op = "or"  -> {Or(a, b)}
    [] op = "lsh" -> {Wrap(a * 2^n) : n \in ShiftCounts(b)}
    [] op = "rsh" -> {a \div 2^n : n \in ShiftCounts(b)}
    [] op = "neg" -> {Wrap(0 - a)}

AluOps == {"add", "sub", "mul", "div", "and", "or", "lsh", "rsh", "neg"}
JumpOps == {"jeq", "jgt", "jge", "jset"}

Holds(op, a, b) ==
  CASE op = "jeq"  -> a = b
    [] op = "jgt"  -> a > b
    [] op = "jge"  -> a >= b
    [] op = "jset" -> And(a, b) # 0

-----------------------------------------------------------------------------
(* bpf_validate *)

\* u_int arithmetic: from is the index after the instruction, counted from zero.
LandsOnePast(from, offset, len) == (from + offset) % Word <= len
Lands(from, offset, len) == (from + offset) % Word < len

ValidInstruction(i, len, from) ==
  CASE i.cls \in {"ld", "ldx"} ->
         /\ i.op \in {"imm", "abs", "ind", "msh", "mem", "len"}
         /\ i.op = "mem" => i.k < MemWords
    [] i.cls \in {"st", "stx"} -> i.k < MemWords
    [] i.cls = "alu" ->
         /\ i.op \in AluOps
         /\ i.op = "div" /\ i.arg # "x" => i.k # 0
    [] i.cls = "jmp" ->
         /\ i.op \in JumpOps \cup {"ja"}
         /\ IF i.op = "ja" THEN Lands(from, i.k, len)
            ELSE Lands(from, i.jt, len) /\ Lands(from, i.jf, len)
    [] OTHER -> i.cls \in {"ret", "misc"}

bpf_validate(f) ==
  /\ Len(f) >= 1
  /\ \A n \in 1 .. Len(f) : ValidInstruction(f[n], Len(f), n)
  /\ f[Len(f)].cls = "ret"

-----------------------------------------------------------------------------
(* bpf_filter.  Each operator gives the machines an instruction i may lead *)
(* to from machine s on packet p; none means that the instruction ends the *)
(* run, and Verdict says how.                                              *)

Next1Stuck(s) == s
Next1(s) == [s EXCEPT !.pc = s.pc + 1]

\* A load outside the packet ends the run with 0.  The test is made in words of 32 bits:
\* near the end of their range it lets pass offsets that lie outside, and reads anything.
PacketOffset(i, s) == IF i.op = "ind" THEN Wrap(s.X + i.k) ELSE i.k
OutsidePacket(i, s, p) ==
  LET k == PacketOffset(i, s)
      n == SizeOf[i.arg]
  IN  IF n = 1 THEN k >= Len(p) ELSE (k + n) % Word > Len(p)
PacketValue(i, s, p) ==
  LET k == PacketOffset(i, s)
      n == SizeOf[i.arg]
  IN  IF k + n <= Len(p) THEN {Extract(p, k, n)} ELSE 0 .. Byte^n - 1

LoadPacket(i, s, p) ==
  IF OutsidePacket(i, s, p) THEN {} ELSE {[Next1(s) EXCEPT !.A = v] : v \in PacketValue(i, s, p)}

\* The low half of the byte, four times: the length of an IP header.
LoadHeaderLength(i, s, p) ==
  IF OutsidePacket(i, s, p) THEN {}
  ELSE {[Next1(s) EXCEPT !.X = 4 * (v % 2^NibbleBits)] : v \in PacketValue(i, s, p)}

\* imm, len and mem; memory outside the scratch words is read as anything.
LoadValue(i, s, p) ==
  CASE i.op = "imm" -> {i.k}
    [] i.op = "len" -> {Len(p)}
    [] i.op = "mem" -> IF i.k \in MemIndex THEN {s.mem[i.k]} ELSE Operand

Load(i, s, p) ==
  IF i.cls = "ld" THEN {[Next1(s) EXCEPT !.A = v] : v \in LoadValue(i, s, p)}
  ELSE {[Next1(s) EXCEPT !.X = v] : v \in LoadValue(i, s, p)}

Store(i, s) ==
  IF i.k \notin MemIndex THEN {}
  ELSE {[Next1(s) EXCEPT !.mem[i.k] = IF i.cls = "st" THEN s.A ELSE s.X]}

\* ja is sign extended: it may go backward.
Jump(i, s) ==
  LET offset == IF i.op = "ja" THEN Signed(i.k)
                ELSE IF Holds(i.op, s.A, IF i.arg = "x" THEN s.X ELSE i.k) THEN i.jt ELSE i.jf
  IN  {[s EXCEPT !.pc = s.pc + 1 + offset]}

Arithmetic(i, s) ==
  LET b == IF i.arg = "x" THEN s.X ELSE i.k
  IN  IF i.op = "div" /\ b = 0 THEN {} ELSE {[Next1(s) EXCEPT !.A = v] : v \in Alu(i.op, s.A, b)}

Misc(i, s) == {IF i.op = "tax" THEN [Next1(s) EXCEPT !.X = s.A] ELSE [Next1(s) EXCEPT !.A = s.X]}

\* The codes bpf_filter has a case for.
IsPacketLoad(i) == i.cls = "ld" /\ i.op \in {"abs", "ind"} /\ i.arg \in DOMAIN SizeOf
IsHeaderLoad(i) == i.cls = "ldx" /\ i.op = "msh" /\ i.arg = "B"
IsLoad(i) == /\ i.cls \in {"ld", "ldx"}
             /\ i.op \in {"imm", "len", "mem"} /\ i.arg = "W"
IsStore(i) == i.cls \in {"st", "stx"}
IsJump(i) == i.cls = "jmp" /\ i.op \in JumpOps \cup {"ja"}
IsAlu(i) == i.cls = "alu" /\ i.op \in AluOps
IsMisc(i) == i.cls = "misc" /\ i.op \in {"tax", "txa"}
IsRet(i) == i.cls = "ret" /\ i.op \in {"k", "a"}

\* How an instruction that has no successor ends the run: a load outside the packet and a
\* division by X = 0 return 0, a code without a case calls abort(), and the rest is undefined.
Verdict(i, s) ==
  IF IsRet(i) \/ IsPacketLoad(i) \/ IsHeaderLoad(i) \/ (IsAlu(i) /\ i.arg = "x") THEN "returned"
  ELSE IF IsAlu(i) \/ IsStore(i) THEN "crash" ELSE "abort"

\* What a run that ended at instruction i returned.
Returned(i, s) ==
  IF IsRet(i) THEN IF i.op = "k" THEN i.k ELSE s.A ELSE 0

Successors(i, s, p) ==
  IF IsPacketLoad(i) THEN LoadPacket(i, s, p)
  ELSE IF IsHeaderLoad(i) THEN LoadHeaderLength(i, s, p)
  ELSE IF IsLoad(i) THEN Load(i, s, p)
  ELSE IF IsStore(i) THEN Store(i, s)
  ELSE IF IsJump(i) THEN Jump(i, s)
  ELSE IF IsAlu(i) THEN Arithmetic(i, s)
  ELSE IF IsMisc(i) THEN Misc(i, s)
  ELSE {}

Start(mem) == [pc |-> 1, A |-> 0, X |-> 0, mem |-> mem]

\* One step of every machine of a set, on a program without backward jumps the whole run.
StepAll(f, p, S) ==
  UNION {LET next == Successors(f[s.pc], s, p) IN IF next = {} THEN {s} ELSE next : s \in S}
\* What program f may return for packet p; it must be valid and jump forward only.
Outcomes(f, p, mem) ==
  LET last == FoldLeft(LAMBDA S, n : StepAll(f, p, S), {Start(mem)}, f)
  IN  {Returned(f[s.pc], s) : s \in last}
=============================================================================
