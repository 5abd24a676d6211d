----------------------------- MODULE BpfProofs -----------------------------
(***************************************************************************)
(* bpf_validate keeps bpf_filter inside the program and the scratch words, *)
(* for every set of programs, every packet and every width of a word.      *)
(***************************************************************************)
EXTENDS Bpf, TLAPS

\* The machine has its four registers.
IsMachine(s) == s = [pc |-> s.pc, A |-> s.A, X |-> s.X, mem |-> s.mem]

\* What is known of a machine that runs: its program was validated, and its program counter
\* is one of the program's.
Inside ==
  /\ prog \in Programs
  /\ end = "running" => bpf_validate(prog) /\ m.pc \in 1 .. Len(prog)
  /\ end = "new" => m.pc = 1
  /\ IsMachine(m)
  /\ end # "crash"

\* An offset that passed Lands, taken as a signed one, leads from an instruction of the
\* program to another: the modulus of u_int does not deceive bpf_validate, provided that the
\* program is not longer than half the range of a word.
LEMMA LandsInside ==
  ASSUME NEW len \in Nat, 2 * len <= Word,
         NEW from \in 1 .. len, NEW k \in Operand, Lands(from, k, len)
  PROVE  /\ Signed(k) \in Int
         /\ from + Signed(k) \in 0 .. len - 1
<1> USE BpfAssumption, BpfCodeAssumption
<1> DEFINE w == Word
<1>1. /\ w \in Nat
      /\ 2 * len <= w /\ k \in Nat /\ k < w /\ w > 0
  BY DEF Operand
<1>2. (from + k) % w < len
  BY DEF Lands
<1> HIDE DEF w
<1>3. CASE 2 * k < w
  <2>1. Signed(k) = k
    BY <1>3 DEF Signed, w
  <2>2. from + k < w
    BY <1>1, <1>3
  <2>3. (from + k) % w = from + k
    BY <2>2, <1>1
  <2> QED BY <2>1, <2>3, <1>1, <1>2
<1>4. CASE ~(2 * k < w)
  <2>1. Signed(k) = k - w
    BY <1>4 DEF Signed, w
  <2>2. from + k >= w
    <3>1. SUFFICES ASSUME from + k < w PROVE FALSE
      BY <1>1
    <3>2. (from + k) % w = from + k
      BY <3>1, <1>1
    <3> QED BY <3>2, <1>1, <1>2, <1>4
  <2>3. (from + k) % w = from + k - w
    <3>1. from + k - w \in 0 .. w - 1
      BY <2>2, <1>1
    <3> QED BY <3>1, <1>1
  <2> QED BY <2>1, <2>2, <2>3, <1>1, <1>2
<1> QED BY <1>3, <1>4

\* The offset of a conditional jump is a byte, which is never taken as negative.
LEMMA LandsForward ==
  ASSUME NEW len \in Nat, 2 * len <= Word,
         NEW from \in 1 .. len, NEW k \in Offset, Lands(from, k, len)
  PROVE  from + k \in 0 .. len - 1
<1> USE BpfAssumption, BpfCodeAssumption
<1>1. k \in Nat /\ 2 * k < Word
  BY DEF Offset
<1>2. k \in Operand /\ Signed(k) = k
  BY <1>1 DEF Operand, Signed
<1> QED BY <1>2, LandsInside

\* What bpf_validate says of one instruction, in a form the steps below can use.
LEMMA ValidMeans ==
  ASSUME NEW f \in Programs, bpf_validate(f), NEW n \in 1 .. Len(f)
  PROVE  /\ f[n] \in Instruction /\ f \in Seq(Instruction)
         /\ 2 * Len(f) <= Word
         /\ ValidInstruction(f[n], Len(f), n)
         /\ n = Len(f) => f[n].cls = "ret"
BY BpfAssumption, BpfCodeAssumption DEF bpf_validate

\* Every successor of a machine at a valid instruction is at an instruction of the program.
LEMMA SuccessorsInside ==
  ASSUME NEW f \in Programs, bpf_validate(f), NEW s, NEW p,
         IsMachine(s), s.pc \in 1 .. Len(f),
         NEW t \in Successors(f[s.pc], s, p)
  PROVE  IsMachine(t) /\ t.pc \in 1 .. Len(f)
<1> DEFINE i == f[s.pc]  n == s.pc
<1>0. t \in Successors(i, s, p)
  OBVIOUS
<1>1. /\ i \in Instruction /\ f \in Seq(Instruction) /\ n \in Nat
      /\ n \in 1 .. Len(f) /\ Len(f) \in Nat
      /\ 2 * Len(f) <= Word
      /\ ValidInstruction(i, Len(f), n)
      /\ n = Len(f) => i.cls = "ret"
  BY ValidMeans
<1> HIDE DEF i
<1>2. CASE IsJump(i)
  <2>1. i.cls = "jmp"
    BY <1>2 DEF IsJump
  <2>2. t \in Jump(i, s)
    <3>1. ~IsPacketLoad(i) /\ ~IsHeaderLoad(i) /\ ~IsLoad(i) /\ ~IsStore(i)
      BY <2>1 DEF IsPacketLoad, IsHeaderLoad, IsLoad, IsStore
    <3> QED BY <1>0, <1>2, <3>1 DEF Successors
  <2>3. CASE i.op = "ja"
    <3>1. t.pc = n + 1 + Signed(i.k) /\ IsMachine(t)
      BY <2>2, <2>3 DEF Jump, IsMachine
    <3>2. Lands(n, i.k, Len(f)) /\ i.k \in Operand
      BY <1>1, <2>1, <2>3 DEF ValidInstruction, Instruction
    <3> QED BY <3>1, <3>2, <1>1, LandsInside
  <2>4. CASE i.op # "ja"
    <3>1. (t.pc = n + 1 + i.jt \/ t.pc = n + 1 + i.jf) /\ IsMachine(t)
      BY <2>2, <2>4 DEF Jump, IsMachine
    <3>2. /\ Lands(n, i.jt, Len(f)) /\ i.jt \in Offset
          /\ Lands(n, i.jf, Len(f)) /\ i.jf \in Offset
      BY <1>1, <2>1, <2>4 DEF ValidInstruction, Instruction
    <3>3. n + i.jt \in 0 .. Len(f) - 1 /\ n + i.jf \in 0 .. Len(f) - 1
      BY <3>2, <1>1, LandsForward
    <3>4. i.jt \in Nat /\ i.jf \in Nat
      BY <3>2 DEF Offset
    <3> DEFINE a == i.jt  b == i.jf
    <3>5. a \in Nat /\ b \in Nat /\ n + a \in 0 .. Len(f) - 1 /\ n + b \in 0 .. Len(f) - 1
      BY <3>3, <3>4
    <3>6. t.pc = n + 1 + a \/ t.pc = n + 1 + b
      BY <3>1
    <3> HIDE DEF a, b, n
    <3>7. n + 1 + a \in 1 .. Len(f) /\ n + 1 + b \in 1 .. Len(f)
      BY <3>5, <1>1
    <3> QED BY <3>1, <3>6, <3>7
  <2> QED BY <2>3, <2>4
<1>3. CASE ~IsJump(i)
  <2>1. \/ t \in LoadPacket(i, s, p) \/ t \in LoadHeaderLength(i, s, p)
        \/ t \in Load(i, s, p) \/ t \in Store(i, s)
        \/ t \in Arithmetic(i, s) \/ t \in Misc(i, s)
    BY <1>0, <1>3 DEF Successors
  <2>2. t.pc = n + 1 /\ IsMachine(t)
    <3>1. Next1(s) = [pc |-> n + 1, A |-> s.A, X |-> s.X, mem |-> s.mem]
      BY DEF Next1, IsMachine
    <3> HIDE DEF n
    <3> QED BY <2>1, <3>1 DEF IsMachine, LoadPacket, LoadHeaderLength, Load, Store, Arithmetic, Misc
  <2>3. i.cls # "ret"
    BY <1>0, <1>3 DEF Successors, IsRet, IsPacketLoad, IsHeaderLoad, IsLoad, IsStore, IsAlu, IsMisc
  <2> QED BY <2>2, <2>3, <1>1
<1> QED BY <1>2, <1>3

\* A valid instruction without successor does not crash the machine.
LEMMA NoCrash ==
  ASSUME NEW f \in Programs, bpf_validate(f), NEW n \in 1 .. Len(f), NEW s, NEW p,
         Successors(f[n], s, p) = {}
  PROVE  Verdict(f[n], s) # "crash"
<1> DEFINE i == f[n]
<1>1. i \in Instruction /\ ValidInstruction(i, Len(f), n)
  BY ValidMeans
<1>0. Successors(i, s, p) = {}
  OBVIOUS
<1> HIDE DEF i
<1>2. ASSUME IsStore(i) PROVE FALSE
  <2>1. i.k \in MemIndex
    BY <1>1, <1>2, BpfAssumption, BpfCodeAssumption DEF ValidInstruction, IsStore, MemIndex, Instruction, Operand
  <2>2. Successors(i, s, p) = Store(i, s)
    <3>1. ~IsPacketLoad(i) /\ ~IsHeaderLoad(i) /\ ~IsLoad(i)
      BY <1>2 DEF IsPacketLoad, IsHeaderLoad, IsLoad, IsStore
    <3> QED BY <1>2, <3>1 DEF Successors
  <2>3. Store(i, s) # {}
    BY <2>1 DEF Store
  <2> QED BY <1>0, <2>2, <2>3
<1>3. ASSUME IsAlu(i), i.arg # "x" PROVE FALSE
  <2>1. ~(i.op = "div" /\ i.k = 0)
    BY <1>1, <1>3 DEF ValidInstruction, IsAlu
  <2>2. Successors(i, s, p) = Arithmetic(i, s)
    <3>1. /\ ~IsPacketLoad(i) /\ ~IsHeaderLoad(i) /\ ~IsLoad(i)
          /\ ~IsStore(i) /\ ~IsJump(i)
      BY <1>3 DEF IsPacketLoad, IsHeaderLoad, IsLoad, IsStore, IsJump, IsAlu
    <3> QED BY <1>3, <3>1 DEF Successors
  <2>3. Arithmetic(i, s) = {[Next1(s) EXCEPT !.A = v] : v \in Alu(i.op, s.A, i.k)}
    BY <2>1, <1>3 DEF Arithmetic
  <2>4. Alu(i.op, s.A, i.k) # {}
    <3>1. i.op \in AluOps
      BY <1>3 DEF IsAlu
    <3>2. ShiftCounts(i.k) # {}
      BY DEF ShiftCounts
    <3> QED BY <3>1, <3>2 DEF AluOps, Alu
  <2>5. PICK v : v \in Alu(i.op, s.A, i.k)
    BY <2>4
  <2>6. [Next1(s) EXCEPT !.A = v] \in Arithmetic(i, s)
    BY <2>3, <2>5
  <2> QED BY <1>0, <2>2, <2>6
<1>4. Verdict(i, s) = "crash" => (IsAlu(i) /\ i.arg # "x") \/ IsStore(i)
  BY DEF Verdict
<1> QED BY <1>2, <1>3, <1>4 DEF i

\* A step that executes an instruction stays inside and does not crash.
LEMMA ExecuteInside ==
  ASSUME Inside, NEW kinds, Execute(kinds)
  PROVE  Inside'
<1>1. /\ prog \in Programs /\ bpf_validate(prog) /\ m.pc \in 1 .. Len(prog)
      /\ prog' = prog
      /\ IsMachine(m)
  BY DEF Inside, Execute
<1>2. CASE Successors(prog[m.pc], m, pkt) = {}
  <2>1. m' = m /\ end' = Verdict(prog[m.pc], m)
    BY <1>2 DEF Execute
  <2>2. Verdict(prog[m.pc], m) \in {"returned", "abort", "crash"}
    BY DEF Verdict
  <2> QED BY <1>1, <1>2, <2>1, <2>2, NoCrash DEF Inside, IsMachine
<1>3. CASE Successors(prog[m.pc], m, pkt) # {}
  <2>1. m' \in Successors(prog[m.pc], m, pkt) /\ end' = "running"
    BY <1>3 DEF Execute
  <2> QED BY <1>1, <2>1, SuccessorsInside DEF Inside
<1> QED BY <1>2, <1>3

\* A program that bpf_validate accepted stays inside its instructions and the scratch words,
\* and never divides by a constant zero, whatever the packet.
THEOREM ValidatedIsContained == Spec => []Contained
<1>1. Init => Inside
  BY DEF Init, Inside, Start, IsMachine
<1>2. Inside /\ [Next]_vars => Inside'
  <2> SUFFICES ASSUME Inside, [Next]_vars PROVE Inside'
    OBVIOUS
  <2>1. CASE Install
    <3>1. bpf_validate(prog) => Len(prog) >= 1 /\ Len(prog) \in Nat
      BY BpfAssumption, BpfCodeAssumption DEF bpf_validate, Inside
    <3> QED BY <2>1, <3>1 DEF Install, Inside, IsMachine
  <2>2. CASE Run
    BY <2>2, ExecuteInside DEF Run, LoadStep, StoreStep, AluStep, JumpStep, MiscStep, RetStep
  <2>3. CASE UNCHANGED vars
    BY <2>3 DEF vars, Inside, IsMachine
  <2> QED BY <2>1, <2>2, <2>3 DEF Next
<1>3. Inside => Contained
  BY DEF Inside, Contained
<1> QED BY <1>1, <1>2, <1>3, PTL DEF Spec
=============================================================================
