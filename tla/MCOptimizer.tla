---------------------------- MODULE MCOptimizer ----------------------------
(***************************************************************************)
(* Filters built from a handful of tests, one of each form in which        *)
(* gencode.c generates them: every way to combine two of them, and many to *)
(* combine three.                                                          *)
(***************************************************************************)
EXTENDS Optimizer

Ld(op, arg, k) == Stmt("ld", op, arg, k)
St(r) == Stmt("st", "-", "-", r)
LdM(r) == Ld("mem", "W", r)
LdxM(r) == Stmt("ldx", "mem", "W", r)
AluX(op) == Stmt("alu", op, "x", 0)
AluK(op, k) == Stmt("alu", op, "k", k)
Jmp(op, arg, k) == Stmt("jmp", op, arg, k)

Test(stmts, s) == [is |-> "test", stmts |-> stmts, s |-> s]
Cmp(op, k, size, v) == Test(<<Ld("abs", size, k)>>, Jmp(op, "k", v))

\* gen_mcmp, gen_snap, gen_len
Masked == Test(<<Ld("abs", "B", 1), AluK("and", 2)>>, Jmp("jeq", "k", 0))
Long == Test(<<Ld("len", "W", 0)>>, Jmp("jge", "k", 7))
\* gen_portop, with the length of the header in X
Port == Test(<<Stmt("ldx", "msh", "B", 0), Ld("ind", "B", 1)>>, Jmp("jeq", "k", 1))
\* gen_relation: link[link[0]] = 1 + 1, and link[1] & 1 != link[0], with registers 0 to 2
LoadByte(r) == <<LdxM(r), Ld("ind", "B", 0), St(r)>>
Imm(k, r) == <<Ld("imm", "W", k), St(r)>>
Arith(op, r0, r1, r) == <<LdxM(r1), LdM(r0), AluX(op), St(r)>>
Indirect == Test(Imm(0, 0) \o LoadByte(0) \o LoadByte(0) \o Imm(1, 1) \o Imm(1, 2) \o Arith("add", 1, 2, 1)
                 \o <<LdxM(1), LdM(0), AluX("sub")>>, Jmp("jeq", "k", 0))
Parity == Test(Imm(1, 0) \o LoadByte(0) \o Imm(1, 1) \o Arith("and", 0, 1, 0) \o Imm(0, 1) \o LoadByte(1)
               \o <<LdxM(1), LdM(0)>>, Jmp("jgt", "x", 0))

\* 1 / 0: folding it is an error.
Quotient == Test(Imm(1, 0) \o Imm(0, 1) \o Arith("div", 0, 1, 0) \o <<LdM(0)>>, Jmp("jgt", "k", 1))

Tests == { Cmp("jeq", 0, "B", 1), Cmp("jeq", 0, "B", 2), Cmp("jgt", 0, "B", 1),
           Cmp("jeq", 1, "B", 1), Masked, Long, Port, Indirect, Parity }

Not(E) == {[is |-> "not", of |-> e] : e \in E}
Two(A, B) == {[is |-> c, left |-> a, right |-> b] : c \in {"and", "or"}, a \in A, b \in B}

Pairs == Two(Tests \cup Not(Tests), Tests)
Triples == Two(Two({Indirect, Port, Cmp("jeq", 0, "B", 1)}, {Port, Parity}), Tests \ {Masked})
SomeExpressions == Tests \cup Pairs \cup Triples \cup {Quotient}

\* "type mgt and type mgt and type mgt", and "type mgt and a or type mgt and b"
MaskedTwice ==
  LET A == Cmp("jeq", 0, "B", 1)
      B == Cmp("jeq", 0, "B", 2)
      both(x, y) == [is |-> "and", left |-> x, right |-> y]
  IN  { both(both(Masked, Masked), Masked),
        [is |-> "or", left |-> both(Masked, A), right |-> both(Masked, B)] }

\* Long enough for every load: the furthest is of byte 5, by Port.
SomePackets ==
  {<<a, b, 0, 0, 0, 1>> : a \in 0 .. 3, b \in 0 .. 3} \cup {<<2, 1, 3, 0, 0, 0, 0, 0>>}
SomeScratch == {[i \in MemIndex |-> i]}
=============================================================================
