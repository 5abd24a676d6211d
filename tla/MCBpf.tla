------------------------------- MODULE MCBpf -------------------------------
(***************************************************************************)
(* Every program of up to three of the instructions below: one at least of *)
(* each form, with operands at the edges of what bpf_validate lets pass.   *)
(***************************************************************************)
EXTENDS Bpf

I(cls, op, arg, k) == [cls |-> cls, op |-> op, arg |-> arg, k |-> k, jt |-> 0, jf |-> 0]
J(op, arg, k, jt, jf) == [cls |-> "jmp", op |-> op, arg |-> arg, k |-> k, jt |-> jt, jf |-> jf]

Instructions ==
  { I("ld", "abs", "H", 1), I("ld", "abs", "W", Word - 2), I("ld", "ind", "B", 1),
    I("ldx", "msh", "B", 0), I("ldx", "imm", "W", 1), I("ldx", "len", "W", 0),
    I("ld", "mem", "W", MemWords - 1), I("ld", "mem", "W", MemWords),
    I("st", "-", "-", 0), I("stx", "-", "-", MemWords), I("ldx", "abs", "W", 0),
    I("alu", "div", "k", 0), I("alu", "div", "x", 0), I("alu", "and", "k", 6),
    I("alu", "lsh", "x", 0), I("alu", "sub", "k", 1), I("alu", "neg", "k", 0),
    I("misc", "tax", "-", 0), I("misc", "txa", "-", 0), I("ret", "a", "-", 0),
    I("ret", "k", "-", 7), I("jmp", "ja", "k", 1), I("jmp", "ja", "k", Word - 1),
    I("jmp", "ja", "k", Word - 3), J("jeq", "k", 1, 0, 1), J("jgt", "x", 0, 1, 0),
    J("jset", "k", 2, 2, 0) }

ShortPrograms == {p \in BoundedSeq(Instructions, 3) : p = <<>> \/ p[Len(p)].cls \in {"ret", "jmp"}}

SomePackets == { <<>>, <<3, 1, 2>> }

AnyScratch == {[i \in MemIndex |-> 5 * i + 1]}
=============================================================================
