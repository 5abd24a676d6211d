----------------------------- MODULE Optimizer -----------------------------
(***************************************************************************)
(* bpf_optimize (optimize.c): the passes over the flow graph of a filter,  *)
(* and the conversion of what they leave to a program.                     *)
(*                                                                         *)
(* The optimizer runs in one thread; a step is a round of opt_loop, or a   *)
(* pass.  opt is the record of what a round works on:                      *)
(*   g           the graph                                                 *)
(*   levels      blocks of each level, in the order of their links         *)
(*   dom, edom   dominators of blocks, and of edges                        *)
(*   in, out     in_use and out_use                                        *)
(*   into        in_edges                                                  *)
(*   val, oval   value numbers of the atoms at a block's end, and of its   *)
(*               operand; ecode, the code of a block's branch then         *)
(*   T           the value table: its n-th member has value number n       *)
(*   done        the flag that nothing was changed                         *)
(* An edge is a pair <<block, which>>, which is TRUE for JT.               *)
(***************************************************************************)
EXTENDS FilterGraph

CONSTANTS
  Expressions,  \* expressions that are compiled
  Packets,      \* packets the result is tried on
  Scratch,      \* what the scratch memory may hold before
  Snaplen       \* what an accepting filter returns

ASSUME OptimizerAssumption == Scratch \subseteq [MemIndex -> Operand] /\ Snaplen \in Operand \ {0}

VARIABLES
  input,    \* the expression, its graph, and the root of that
  opt,      \* the optimizer's data
  root,     \* the root of opt.g
  phase,    \* "branches", "stmts", "intern", "root", "convert", "done", "error"
  code,     \* the program, once phase is "done"
  tick      \* flips with every step: one that changes nothing else is a step, too

vars == <<input, opt, root, phase, code, tick>>

-----------------------------------------------------------------------------
(* Atoms, edges, blocks *)

A_ATOM == MemWords
X_ATOM == MemWords + 1
Atoms == 0 .. X_ATOM

JT(o, b) == o.g.jt[b]
JF(o, b) == o.g.jf[b]
Succ(o, e) == IF e[2] THEN JT(o, e[1]) ELSE JF(o, e[1])
SetSucc(o, e, t) == IF e[2] THEN [o EXCEPT !.g.jt[e[1]] = t] ELSE [o EXCEPT !.g.jf[e[1]] = t]

\* The registers a statement uses and the one it defines, as sets.
atomuse(s) ==
  CASE s.cls = "nop" -> {}
    [] s.cls = "ret" -> IF s.op = "a" THEN {A_ATOM} ELSE {}
    [] s.cls \in {"ld", "ldx"} ->
         IF s.op = "ind" THEN {X_ATOM} ELSE IF s.op = "mem" THEN {s.k} ELSE {}
    [] s.cls = "st" -> {A_ATOM}
    [] s.cls = "stx" -> {X_ATOM}
    [] s.cls \in {"jmp", "alu"} -> IF s.arg = "x" THEN {A_ATOM, X_ATOM} ELSE {A_ATOM}
    [] s.cls = "misc" -> IF s.op = "txa" THEN {X_ATOM} ELSE {A_ATOM}

atomdef(s) ==
  CASE s.cls \in {"ld", "alu"} -> {A_ATOM}
    [] s.cls = "ldx" -> {X_ATOM}
    [] s.cls \in {"st", "stx"} -> {s.k}
    [] s.cls = "misc" -> IF s.op = "tax" THEN {X_ATOM} ELSE {A_ATOM}
    [] OTHER -> {}

-----------------------------------------------------------------------------
(* Numbering and levels *)

\* number_blks_r: depth first, the true branch first.
RECURSIVE number_blks_r(_, _, _)
number_blks_r(g, b, seen) ==
  IF b = No \/ Contains(seen, b) THEN seen
  ELSE number_blks_r(g, g.jf[b], number_blks_r(g, g.jt[b], Append(seen, b)))

\* find_levels_r: a block is put in front of its level when its successors are done with.
Deeper(a, b) == IF a > b THEN a ELSE b
RECURSIVE find_levels_r(_, _, _)
find_levels_r(g, b, lev) ==
  IF b \in DOMAIN lev.of THEN lev
  ELSE LET below == IF g.jt[b] = No THEN lev
                    ELSE find_levels_r(g, g.jf[b], find_levels_r(g, g.jt[b], lev))
           n == IF g.jt[b] = No THEN 0
                ELSE Deeper(below.of[g.jt[b]], below.of[g.jf[b]]) + 1
           linked == IF n + 1 \in DOMAIN below.at THEN below.at[n + 1] ELSE <<>>
       IN  [of |-> [c \in DOMAIN below.of \cup {b} |-> IF c = b THEN n ELSE below.of[c]],
            at |-> IF n + 1 \in DOMAIN below.at
                   THEN [below.at EXCEPT ![n + 1] = <<b>> \o linked]
                   ELSE Append(below.at, <<b>>)]

find_levels(g, r) == find_levels_r(g, r, [of |-> <<>>, at |-> <<>>]).at

\* The blocks from the root down, from the lowest level up, and those above the leaves.
TopDown(o) == FlattenSeq(Reverse(o.levels))
Inner(o) == FlattenSeq(Tail(o.levels))

-----------------------------------------------------------------------------
(* Dominators and reachability *)

find_dom(o, r) ==
  LET Visit(dom, b) ==
        LET own == [dom EXCEPT ![b] = @ \cup {b}]
            JTdone == [own EXCEPT ![JT(o, b)] = @ \cap own[b]]
        IN  IF JT(o, b) = No THEN own ELSE [JTdone EXCEPT ![JF(o, b)] = @ \cap own[b]]
  IN  FoldLeft(Visit, [b \in Blocks(o.g) |-> IF b = r THEN {} ELSE Blocks(o.g)], TopDown(o))

find_closure(o) ==
  LET Visit(reach, b) ==
        LET own == [reach EXCEPT ![b] = @ \cup {b}]
            JTdone == [own EXCEPT ![JT(o, b)] = @ \cup own[b]]
        IN  IF JT(o, b) = No THEN own ELSE [JTdone EXCEPT ![JF(o, b)] = @ \cup own[b]]
  IN  FoldLeft(Visit, [b \in Blocks(o.g) |-> {}], TopDown(o))

Edges(g) == Blocks(g) \X BOOLEAN

propedomTrueOnly(o, edom, e) ==
  LET own == [edom EXCEPT ![e] = @ \cup {e}]
      t == Succ(o, e)
  IN  IF t = No THEN own ELSE [own EXCEPT ![<<t, TRUE>>] = @ \cap own[e]]

propedom(o, edom, e) ==
  LET own == [edom EXCEPT ![e] = @ \cup {e}]
      t == Succ(o, e)
  IN  IF t = No THEN own
      ELSE [own EXCEPT ![<<t, TRUE>>] = @ \cap own[e], ![<<t, FALSE>>] = @ \cap own[e]]

find_edom(o, r) ==
  FoldLeft(LAMBDA edom, b : propedom(o, propedom(o, edom, <<b, TRUE>>), <<b, FALSE>>),
           [e \in Edges(o.g) |-> IF e[1] = r THEN {} ELSE Edges(o.g)], TopDown(o))

-----------------------------------------------------------------------------
(* Use and definition *)

\* Registers used before they are defined, and defined before they are used, in a block.
compute_local_ud(g, b) ==
  LET Visit(u, s) ==
        LET used == u.use \cup (atomuse(s) \ u.def)
        IN  [use |-> used, kill |-> u.kill \cup (atomdef(s) \ used), def |-> u.def \cup atomdef(s)]
      last == FoldLeft(Visit, [use |-> {}, kill |-> {}, def |-> {}], g.stmts[b])
  IN  [last EXCEPT !.use = @ \cup (IF IsJmp(g.s[b]) THEN atomuse(g.s[b]) \ last.def ELSE {})]

find_ud(o) ==
  LET local == [b \in Blocks(o.g) |-> compute_local_ud(o.g, b)]
      Visit(u, b) ==
        LET out == u.in[JT(o, b)] \cup u.in[JF(o, b)]
        IN  [in |-> [u.in EXCEPT ![b] = @ \cup (out \ local[b].kill)], out |-> [u.out EXCEPT ![b] = out]]
  IN  FoldLeft(Visit, [in |-> [b \in Blocks(o.g) |-> local[b].use],
                       out |-> [b \in Blocks(o.g) |-> {}]], Inner(o))

-----------------------------------------------------------------------------
(* Value numbers.  x is what opt_stmt works on: [s, val, T, done, error]. *)

\* F: the table with a value, and the number of a value of the table.
Known(T, n) == IF Contains(T, n) THEN T ELSE Append(T, n)
Number(T, n) == SelectInSeq(T, LAMBDA v : v = n)
Value(s, v0, v1) == [code |-> <<s.cls, s.op, s.arg>>, v0 |-> v0, v1 |-> v1]
Const(i) == [code |-> <<"ld", "imm", "W">>, v0 |-> i, v1 |-> 0]

is_const(T, v) == v # 0 /\ T[v].code = <<"ld", "imm", "W">>
const_val(T, v) == T[v].v0

vstore(x, atom, v, alter) ==
  IF alter /\ x.val[atom] = v THEN [x EXCEPT !.s = Nop] ELSE [x EXCEPT !.val[atom] = v]

\* v = F(n); vstore(s, &val[atom], v, alter)
Store1(x, atom, n, alter) ==
  LET T == Known(x.T, n) IN vstore([x EXCEPT !.T = T], atom, Number(T, n), alter)
\* val[A_ATOM] = F(n)
Define(x, n) == LET T == Known(x.T, n) IN [x EXCEPT !.T = T, !.val[A_ATOM] = Number(T, n)]

LdImm(k) == Stmt("ld", "imm", "W", k)

\* The shifts are by less than the width of a word: Alu has one outcome.
Fold(op, a, b) == CHOOSE v \in Alu(op, a, b) : TRUE
fold_op(x, a, b) ==
  IF x.s.op = "div" /\ b = 0 THEN [x EXCEPT !.error = TRUE]
  ELSE LET k == Fold(x.s.op, a, b) IN Define([x EXCEPT !.s = LdImm(k), !.done = FALSE], Const(k))

\* An operation on A with the constant that is already in the table.
OperateK(x) ==
  LET T == Known(x.T, Const(x.s.k))
  IN  Define([x EXCEPT !.T = T], Value(x.s, x.val[A_ATOM], Number(T, Const(x.s.k))))

\* "sub #0" is kept: it may be needed later to fix up the generated arithmetic.
opt_alu_k(x, alter) ==
  LET s == x.s
      T == Known(x.T, Const(s.k))
      va == x.val[A_ATOM]
  IN  IF alter /\ s.k = 0 /\ s.op \in {"add", "lsh", "rsh", "or"} THEN [x EXCEPT !.s = Nop]
      ELSE IF alter /\ s.k = 0 /\ s.op \in {"mul", "and"} THEN
        Define([x EXCEPT !.s = LdImm(0)], Const(0))
      ELSE IF alter /\ is_const(x.T, va) THEN
        fold_op([x EXCEPT !.T = T], const_val(x.T, va), s.k)
      ELSE OperateK(x)

opt_alu_x(x, alter) ==
  LET s == x.s
      va == x.val[A_ATOM]
      vx == x.val[X_ATOM]
      zero == alter /\ is_const(x.T, va) /\ const_val(x.T, va) = 0
  IN  IF alter /\ is_const(x.T, vx) THEN
        IF is_const(x.T, va) THEN fold_op(x, const_val(x.T, va), const_val(x.T, vx))
        ELSE OperateK([x EXCEPT !.s = Stmt("alu", s.op, "k", const_val(x.T, vx)), !.done = FALSE])
      ELSE IF zero /\ s.op \in {"add", "or"} THEN
        vstore([x EXCEPT !.s = Stmt("misc", "txa", "-", s.k)], A_ATOM, vx, alter)
      ELSE IF zero /\ s.op \in {"mul", "div", "and", "lsh", "rsh"} THEN
        Store1([x EXCEPT !.s = LdImm(0)], A_ATOM, Const(0), alter)
      ELSE Define(x, Value(s, va, vx))

opt_neg(x, alter) ==
  LET va == x.val[A_ATOM]
  IN  IF alter /\ is_const(x.T, va)
      THEN LET k == Wrap(0 - const_val(x.T, va)) IN Define([x EXCEPT !.s = LdImm(k)], Const(k))
      ELSE Define(x, Value(x.s, va, 0))

opt_ind(x, alter) ==
  LET s == x.s
      v == x.val[X_ATOM]
      abs == Stmt("ld", "abs", s.arg, IF is_const(x.T, v) THEN Wrap(s.k + const_val(x.T, v)) ELSE 0)
  IN  IF alter /\ is_const(x.T, v)
      THEN Store1([x EXCEPT !.s = abs, !.done = FALSE], A_ATOM, Value(abs, abs.k, 0), alter)
      ELSE Store1(x, A_ATOM, Value(s, s.k, v), alter)

\* A load from the scratch memory becomes one of a constant if that is what it holds.
opt_mem(x, atom, alter) ==
  LET v == x.val[x.s.k]
      known == alter /\ is_const(x.T, v)
      imm == Stmt(x.s.cls, "imm", "W", IF is_const(x.T, v) THEN const_val(x.T, v) ELSE 0)
  IN  vstore(IF known THEN [x EXCEPT !.s = imm, !.done = FALSE] ELSE x, atom, v, alter)

opt_stmt(x, alter) ==
  LET s == x.s
  IN  CASE s.cls = "ld" /\ s.op = "abs" -> Store1(x, A_ATOM, Value(s, s.k, 0), alter)
        [] s.cls = "ld" /\ s.op = "ind" -> opt_ind(x, alter)
        [] s.cls = "ld" /\ s.op = "len" -> Store1(x, A_ATOM, Value(s, 0, 0), alter)
        [] s.cls = "ld" /\ s.op = "imm" -> Store1(x, A_ATOM, Const(s.k), alter)
        [] s.cls = "ldx" /\ s.op = "imm" -> Store1(x, X_ATOM, Const(s.k), alter)
        [] s.cls = "ldx" /\ s.op = "msh" -> Store1(x, X_ATOM, Value(s, s.k, 0), alter)
        [] s.cls = "alu" /\ s.op = "neg" -> opt_neg(x, alter)
        [] s.cls = "alu" /\ s.op # "neg" /\ s.arg = "k" -> opt_alu_k(x, alter)
        [] s.cls = "alu" /\ s.op # "neg" /\ s.arg = "x" -> opt_alu_x(x, alter)
        [] s.cls = "misc" /\ s.op = "txa" -> vstore(x, A_ATOM, x.val[X_ATOM], alter)
        [] s.cls = "misc" /\ s.op = "tax" -> vstore(x, X_ATOM, x.val[A_ATOM], alter)
        [] s.cls = "ld" /\ s.op = "mem" -> opt_mem(x, A_ATOM, alter)
        [] s.cls = "ldx" /\ s.op = "mem" -> opt_mem(x, X_ATOM, alter)
        [] s.cls = "st" -> vstore(x, s.k, x.val[A_ATOM], alter)
        [] s.cls = "stx" -> vstore(x, s.k, x.val[X_ATOM], alter)
        [] OTHER -> x

-----------------------------------------------------------------------------
(* opt_peep *)

\* The place of the first statement from place i on that is not a nop, or 0.
this_op(stmts, i) == SelectInSubSeq(stmts, i, Len(stmts), LAMBDA s : s.cls # "nop")

Is(stmts, i, cls, op) == i # 0 /\ stmts[i].cls = cls /\ stmts[i].op = op
Erase(stmts, places) == [i \in DOMAIN stmts |-> IF i \in places THEN Nop ELSE stmts[i]]

\* st M[k]; ldx M[k]  becomes  st M[k]; tax
PeepStore(stmts, i, j) ==
  IF stmts[i].cls = "st" /\ Is(stmts, j, "ldx", "mem") /\ stmts[i].k = stmts[j].k
  THEN [stmts EXCEPT ![j] = Stmt("misc", "tax", "-", stmts[j].k)]
  ELSE stmts

\* ld #k; tax  becomes  ldx #k; txa
PeepTransfer(stmts, i, j) ==
  IF Is(stmts, i, "ld", "imm") /\ Is(stmts, j, "misc", "tax")
  THEN [stmts EXCEPT ![i].cls = "ldx", ![j].op = "txa"]
  ELSE stmts

\* ldi #k; (ldxms;) addx; tax; ild [x+n]  becomes  (ldxms;) ild [x+k+n], unless X is used later.
PeepIndex(stmts, i, j, outX) ==
  LET add == IF Is(stmts, j, "ldx", "msh") THEN this_op(stmts, j + 1) ELSE j
      tax == this_op(stmts, add + 1)
      ild == this_op(stmts, tax + 1)
  IN  IF /\ Is(stmts, i, "ld", "imm") /\ ~outX
         /\ Is(stmts, add, "alu", "add") /\ stmts[add].arg = "x"
         /\ Is(stmts, tax, "misc", "tax") /\ Is(stmts, ild, "ld", "ind")
      THEN Erase([stmts EXCEPT ![ild].k = Wrap(@ + stmts[i].k)], {i, add, tax})
      ELSE stmts

\* From place i on; last is the place of the last statement looked at.
RECURSIVE PeepFrom(_, _, _, _)
PeepFrom(stmts, i, last, outX) ==
  LET s == this_op(stmts, i)
      next == IF s = 0 THEN 0 ELSE this_op(stmts, s + 1)
  IN  IF next = 0 THEN [stmts |-> stmts, last |-> last]
      ELSE PeepFrom(PeepIndex(PeepTransfer(PeepStore(stmts, s, next), s, next), s, next, outX),
                    next, next, outX)

\* The branch made simpler: on an equality test against a constant, when A is not used later,
\* the subtraction or the masking that comes last is merged into the comparison.
PeepBranch(o, b, last) ==
  LET s == o.g.stmts[b][last]
      branch == o.g.s[b]
      vx == o.val[b][X_ATOM]
      Merged(h) == [o EXCEPT !.g = [h EXCEPT !.stmts[b][last] = Nop], !.done = FALSE]
      WithK(k) == [o.g EXCEPT !.s[b].k = k]
  IN  IF ~(branch.op = "jeq" /\ branch.arg = "k" /\ IsJmp(branch)) \/ A_ATOM \in o.out[b]
         \/ s.cls # "alu" THEN o
      ELSE IF s.op = "sub" /\ s.arg = "x" THEN
        IF is_const(o.T, vx) THEN Merged(WithK(Wrap(branch.k + const_val(o.T, vx))))
        ELSE IF branch.k = 0 THEN Merged([o.g EXCEPT !.s[b].arg = "x"]) ELSE o
      ELSE IF s.op = "sub" /\ s.arg = "k" THEN Merged(WithK(Wrap(branch.k + s.k)))
      ELSE IF s.op = "and" /\ s.arg = "k" /\ branch.k = 0 THEN
        Merged([o.g EXCEPT !.s[b] = Stmt("jmp", "jset", "k", s.k),
                           !.jt[b] = o.g.jf[b], !.jf[b] = o.g.jt[b]])  \* opt_not
      ELSE o

Always(o, b) == [o EXCEPT !.g.jf[b] = JT(o, b)]
Never(o, b) == [o EXCEPT !.g.jt[b] = JF(o, b)]

\* jset #0 and jset #ffffffff
PeepJset(o, b) ==
  LET branch == o.g.s[b]
  IN  IF ~(IsJmp(branch) /\ branch.op = "jset" /\ branch.arg = "k") THEN o
      ELSE IF branch.k = 0 THEN Never(o, b)
      ELSE IF branch.k = Word - 1 THEN Always(o, b) ELSE o

\* A comparison with an X that is known, and one of an A that is known.
PeepKnown(o, b) ==
  LET vx == o.val[b][X_ATOM]
      va == o.val[b][A_ATOM]
      p == IF is_const(o.T, vx) /\ o.g.s[b].arg = "x"
           THEN [o EXCEPT !.g.s[b].arg = "k", !.g.s[b].k = const_val(o.T, vx)] ELSE o
      branch == p.g.s[b]
      q == [p EXCEPT !.done = @ /\ JF(p, b) = JT(p, b)]
  IN  IF ~(is_const(o.T, va) /\ branch.arg = "k") THEN p
      ELSE IF Holds(branch.op, const_val(o.T, va), branch.k) THEN Always(q, b) ELSE Never(q, b)

PeepStmts(o, b, peeped) ==
  PeepBranch([o EXCEPT !.g.stmts[b] = peeped.stmts, !.done = @ /\ peeped.stmts = o.g.stmts[b]],
             b, peeped.last)
opt_peep(o, b) ==
  IF o.g.stmts[b] = <<>> THEN o
  ELSE PeepKnown(PeepJset(PeepStmts(o, b, PeepFrom(o.g.stmts[b], 1, 1, X_ATOM \in o.out[b])), b), b)

-----------------------------------------------------------------------------
(* opt_deadstores *)

\* d holds the places that are dead, and for each atom the place it was last defined at, 0 if
\* it has been used since.
deadstmt(d, s, place) ==
  LET def == atomdef(s)
  IN  [dead |-> d.dead \cup {d.last[a] : a \in {c \in def : c \notin atomuse(s) /\ d.last[c] # 0}},
       last |-> [a \in Atoms |-> IF a \in def THEN place ELSE IF a \in atomuse(s) THEN 0 ELSE d.last[a]]]

Drop(o, b, dead) == [o EXCEPT !.g.stmts[b] = Erase(@, dead), !.done = @ /\ dead = {}]
DeadAfter(d, out) == d.dead \cup {d.last[a] : a \in {c \in Atoms \ out : d.last[c] # 0}}
opt_deadstores(o, b) ==
  LET stmts == Append(o.g.stmts[b], o.g.s[b])
      nothing == [dead |-> {}, last |-> [a \in Atoms |-> 0]]
  IN  Drop(o, b, DeadAfter(FoldLeftDomain(LAMBDA d, i : deadstmt(d, stmts[i], i), nothing, stmts),
                           o.out[b]))

-----------------------------------------------------------------------------
(* opt_blk *)

\* What the predecessors agree on; 0, the undefined value, is the number of everything else.
Inherited(o, b) ==
  LET edges == o.into[b]
      first == o.val[edges[1][1]]
  IN  [a \in Atoms |-> IF edges = <<>> THEN 0
                       ELSE IF \A i \in DOMAIN edges : o.val[edges[i][1]][a] = first[a]
                       THEN first[a] ELSE 0]

\* The statements, one by one.
Record(o, b, x) ==
  [o EXCEPT !.g.stmts[b] = Append(@, x.s), !.val[b] = x.val, !.T = x.T,
            !.done = x.done, !.error = x.error]
OptStmts(o, b, alter) ==
  FoldLeft(LAMBDA p, s : Record(p, b, opt_stmt([s |-> s, val |-> p.val[b], T |-> p.T,
                                                done |-> p.done, error |-> p.error], alter)),
           [o EXCEPT !.g.stmts[b] = <<>>, !.val[b] = Inherited(o, b)], o.g.stmts[b])

\* Nothing of the block is used, or it returns: its statements go.
Useless(o, b, before) ==
  \/ /\ o.out[b] = {}
     /\ \A a \in {A_ATOM, X_ATOM} : before[a] # 0 /\ o.val[b][a] = before[a]
  \/ o.g.s[b].cls = "ret"

Simplify(o, b, do_stmts, before) ==
  IF do_stmts /\ Useless(o, b, before)
  THEN [o EXCEPT !.g.stmts[b] = <<>>, !.done = @ /\ o.g.stmts[b] = <<>>]
  ELSE opt_deadstores(opt_peep(o, b), b)

\* Set up values for branch optimizer.
BranchValue(o, b) ==
  LET branch == o.g.s[b]
      T == IF branch.arg = "x" THEN o.T ELSE Known(o.T, Const(branch.k))
  IN  [o EXCEPT !.T = T, !.ecode[b] = <<branch.cls, branch.op, branch.arg>>,
                !.oval[b] = IF branch.arg = "x" THEN o.val[b][X_ATOM] ELSE Number(T, Const(branch.k))]

opt_blk(o, b, do_stmts) ==
  BranchValue(Simplify(OptStmts(o, b, do_stmts), b, do_stmts, Inherited(o, b)), b)

-----------------------------------------------------------------------------
(* opt_j: an edge whose end is decided by an edge that dominates it is moved *)

use_conflict(o, b, succ) == \E a \in o.out[succ] : o.val[b][a] # o.val[succ][a]

\* Where the branch at the end of child leads when edge e has been taken before, or No.
fold_edge(o, child, e) ==
  LET s == o.g.s[child]
      c == <<s.cls, s.op, s.arg>>
  IN  IF c # o.ecode[e[1]] \/ o.val[child][A_ATOM] # o.val[e[1]][A_ATOM] THEN No
      ELSE IF o.oval[child] = o.oval[e[1]] THEN IF e[2] THEN JT(o, child) ELSE JF(o, child)
      ELSE IF e[2] /\ c = <<"jmp", "jeq", "k">> THEN JF(o, child) ELSE No

\* edges[]: the true edges in the order of the blocks, then the false ones.
EdgeOrder(o) == [i \in 1 .. 2 * Len(o.blocks) |->
                  IF i <= Len(o.blocks) THEN <<o.blocks[i], TRUE>>
                  ELSE <<o.blocks[i - Len(o.blocks)], FALSE>>]

RECURSIVE Promote(_, _)
Promote(o, e) ==
  LET order == EdgeOrder(o)
      Target(d) == fold_edge(o, Succ(o, e), d)
      k == SelectInSeq(order, LAMBDA d : /\ d \in o.edom[e]
                                         /\ Target(d) # No
                                         /\ ~use_conflict(o, e[1], Target(d)))
      moved == [SetSucc(o, e, Target(order[k])) EXCEPT !.done = FALSE]
  IN  IF k = 0 THEN o ELSE IF JT(o, Target(order[k])) # No THEN Promote(moved, e) ELSE moved

opt_j(o, e) ==
  LET t == Succ(o, e)
      same == JT(o, t) = JF(o, t) /\ ~use_conflict(o, e[1], JT(o, t))
  IN  IF JT(o, t) = No THEN o
      ELSE Promote(IF same THEN [SetSucc(o, e, JT(o, t)) EXCEPT !.done = FALSE] ELSE o, e)

-----------------------------------------------------------------------------
(* or_pullup and and_pullup: a test of a value the predecessors have loaded *)
(* is moved in front of those of other values.  side is the branch the tests *)
(* of the chain have in common: TRUE, JT, for "or".                          *)

\* The cell, an edge, at which the walk from cell e along the other branch stops: it leads to a
\* test of value val, or of another one if same is FALSE.  <<>> if there is none.
RECURSIVE Walk(_, _, _, _, _, _)
Walk(o, b, e, side, val, same) ==
  LET c == Succ(o, e)
  IN  IF \/ c = No
         \/ Succ(o, <<c, side>>) # Succ(o, <<b, side>>)
         \/ b \notin o.dom[c] THEN <<>>
      ELSE IF (o.val[c][A_ATOM] = val) = same THEN e
      ELSE Walk(o, b, <<c, ~side>>, side, val, same)

pullup(o, b, side) ==
  LET preds == o.into[b]
      first == preds[1][1]
      val == o.val[first][A_ATOM]
      top == <<first, JT(o, first) = b>>
      diffp == Walk(o, b, top, side, val, FALSE)
      samep == Walk(o, b, <<Succ(o, diffp), ~side>>, side, val, TRUE)
      pull == Succ(o, samep)
      diff == Succ(o, diffp)
      cut == SetSucc(o, samep, Succ(o, <<pull, ~side>>))
      above == SetSucc(cut, <<pull, ~side>>, diff)
      Redirect(p, e) == SetSucc(p, <<e[1], JT(p, e[1]) = b>>, pull)
  IN  IF preds = <<>> \/ \E i \in DOMAIN preds : o.val[preds[i][1]][A_ATOM] # val THEN o
      ELSE IF diffp = <<>> THEN o
      ELSE IF samep = <<>> THEN o
      ELSE [(IF diffp = top THEN FoldLeft(Redirect, above, preds) ELSE SetSucc(above, diffp, pull))
              EXCEPT !.done = FALSE]

or_pullup(o, b) == pullup(o, b, TRUE)
and_pullup(o, b) == pullup(o, b, FALSE)

-----------------------------------------------------------------------------
(* Passes *)

find_inedges(o) ==
  LET Entering(b) == <<<<b, TRUE>>, <<b, FALSE>>>>
      edges == FlattenSeq([i \in DOMAIN TopDown(o) |->
                 IF JT(o, TopDown(o)[i]) = No THEN <<>> ELSE Entering(TopDown(o)[i])])
  IN  [o EXCEPT !.into = [b \in Blocks(o.g) |-> Reverse(SelectSeq(edges, LAMBDA e : Succ(o, e) = b))]]

MoveEdges(o) == FoldLeft(LAMBDA p, b : opt_j(opt_j(p, <<b, TRUE>>), <<b, FALSE>>), o, Inner(o))
PullUp(o) == FoldLeft(LAMBDA p, b : and_pullup(or_pullup(p, b), b), find_inedges(o), Inner(o))

\* With an empty value table, from init_val.
opt_blks(o, do_stmts) ==
  FoldLeft(LAMBDA p, b : opt_blk(p, b, do_stmts), find_inedges([o EXCEPT !.T = <<>>]), TopDown(o))

opt_init(g, r) ==
  LET blocks == number_blks_r(g, r, <<>>)
  IN  [g |-> g, blocks |-> blocks, levels |-> <<>>, dom |-> <<>>, reach |-> <<>>, edom |-> <<>>,
       in |-> <<>>, out |-> <<>>, into |-> <<>>, T |-> <<>>, done |-> FALSE, error |-> FALSE,
       val |-> [b \in Blocks(g) |-> [a \in Atoms |-> 0]],
       oval |-> [b \in Blocks(g) |-> 0], ecode |-> [b \in Blocks(g) |-> <<>>],
       maxval |-> 3 * FoldLeft(LAMBDA n, b : n + slength(g.stmts[b]) + 1, 0, blocks)]

\* The find_ passes of a round of opt_loop.
Analyse(o, r) ==
  LET ud == find_ud(o)
  IN  [o EXCEPT !.dom = find_dom(o, r), !.reach = find_closure(o), !.edom = find_edom(o, r),
                !.in = ud.in, !.out = ud.out]
Analysed(o, r) == Analyse([o EXCEPT !.levels = find_levels(o.g, r), !.done = TRUE], r)

\* intern_blocks: block i gives way to a block behind it in blocks[] that does the same.
eq_blk(g, a, b) ==
  /\ g.s[a] = g.s[b] /\ g.jt[a] = g.jt[b] /\ g.jf[a] = g.jf[b]
  /\ Effective(g.stmts[a]) = Effective(g.stmts[b])

LinksOf(o, r) ==
  LET n == Len(o.blocks)
      marked == {b \in Blocks(o.g) : Contains(number_blks_r(o.g, r, <<>>), b)}
      Twin(i) == SelectInSubSeq(o.blocks, i + 1, n,
                   LAMBDA b : b \in marked /\ o.blocks[i] \in marked /\ eq_blk(o.g, o.blocks[i], b))
      Visit(link, i) ==
        LET t == o.blocks[Twin(i)]
        IN  IF Twin(i) = 0 THEN link
            ELSE [link EXCEPT ![o.blocks[i]] = IF link[t] # No THEN link[t] ELSE t]
  IN  FoldLeft(Visit, [b \in Blocks(o.g) |-> No], Reverse([i \in 1 .. n - 1 |-> i]))

InternRound(o, r) ==
  LET link == LinksOf(o, r)
      To(t) == IF t # No /\ link[t] # No THEN link[t] ELSE t
  IN  [o EXCEPT !.g.jt = [b \in Blocks(o.g) |-> To(@[b])],
                !.g.jf = [b \in Blocks(o.g) |-> To(@[b])]]

\* opt_root: tests at the root that decide nothing are skipped; their statements are kept, and
\* dropped if only a return is left.
RECURSIVE Undecided(_, _)
Undecided(g, b) == IF IsJmp(g.s[b]) /\ g.jt[b] = g.jf[b] THEN Undecided(g, g.jt[b]) ELSE b
RootStmts(g, r, b) == IF g.s[b].cls = "ret" THEN <<>> ELSE IF b = r THEN g.stmts[r]
                      ELSE g.stmts[r] \o g.stmts[b]
opt_root(o, r) ==
  LET b == Undecided(o.g, r)
  IN  [o EXCEPT !.g.stmts[b] = RootStmts(o.g, r, b)]

-----------------------------------------------------------------------------
Init ==
  /\ \E e \in Expressions :
       LET x == Generate(EmptyGraph, e)
           parsed == finish_parse(x.graph, x.b, Snaplen)
       IN  input = [expr |-> e, graph |-> parsed.graph, root |-> parsed.root]
  /\ root = input.root
  /\ opt = opt_init(input.graph, input.root)
  /\ phase = "branches"
  /\ code = <<>>
  /\ tick = TRUE

\* A round of opt_loop: without do_stmts first, and then with it, until nothing changes.
OptLoop(here, next, do_stmts) ==
  /\ phase = here
  /\ opt' = IF do_stmts THEN opt_blks(Analysed(opt, root), TRUE)
             ELSE PullUp(MoveEdges(opt_blks(Analysed(opt, root), FALSE)))
  /\ phase' = IF opt'.error THEN "error" ELSE IF opt'.done THEN next ELSE here
  /\ tick' = ~tick
  /\ UNCHANGED <<input, root, code>>

OptBranches == OptLoop("branches", "stmts", FALSE)
OptStatements == OptLoop("stmts", "intern", TRUE)

InternBlocks ==
  /\ phase = "intern"
  /\ opt' = InternRound(opt, root)
  /\ phase' = IF opt'.g = opt.g THEN "root" ELSE "intern"
  /\ tick' = ~tick
  /\ UNCHANGED <<input, root, code>>

OptRoot ==
  /\ phase = "root"
  /\ opt' = opt_root(opt, root)
  /\ root' = Undecided(opt.g, root)
  /\ phase' = "convert"
  /\ tick' = ~tick
  /\ UNCHANGED <<input, code>>

\* icode_to_fcode: a branch that is too far is marked, and the conversion done again.
ConvertAgain ==
  /\ phase = "convert"
  /\ FirstUnjumped(opt.g, root) # No
  /\ opt' = [opt EXCEPT !.g = MarkLong(opt.g, root, FirstUnjumped(opt.g, root))]
  /\ tick' = ~tick
  /\ UNCHANGED <<input, root, phase, code>>

Convert ==
  /\ phase = "convert"
  /\ FirstUnjumped(opt.g, root) = No
  /\ code' = Program(opt.g, root)
  /\ phase' = "done"
  /\ tick' = ~tick
  /\ UNCHANGED <<input, opt, root>>

Next == OptBranches \/ OptStatements \/ InternBlocks \/ OptRoot \/ ConvertAgain \/ Convert

Over == phase \in {"done", "error"}

\* bpf_optimize and icode_to_fcode run without waiting for anything: as long as they are not
\* over they take steps.  (It is WF_vars(Next), with ENABLED Next written out.)
Spec == Init /\ [][Next]_vars /\ ([]<>Over \/ []<><<TRUE>>_vars)

-----------------------------------------------------------------------------
TypeOK ==
  /\ root \in Blocks(opt.g) /\ Blocks(opt.g) = Blocks(input.graph)
  /\ \A b \in Blocks(opt.g) :
       /\ opt.g.jt[b] \in Blocks(opt.g) \cup {No} /\ opt.g.jf[b] \in Blocks(opt.g) \cup {No}
       /\ opt.g.jt[b] = No <=> ~IsJmp(opt.g.s[b])
  /\ phase \in {"branches", "stmts", "intern", "root", "convert", "done", "error"}

\* What an expression says of a packet.
RECURSIVE Truth(_, _, _)
Truth(e, p, mem) ==
  CASE e.is = "test" ->
         \E t \in After(e.stmts, Start(mem), p) :
           Holds(e.s.op, t.A, IF e.s.arg = "x" THEN t.X ELSE e.s.k)
    [] e.is = "not" -> ~Truth(e.of, p, mem)
    [] e.is = "and" -> Truth(e.left, p, mem) /\ Truth(e.right, p, mem)
    [] e.is = "or" -> Truth(e.left, p, mem) \/ Truth(e.right, p, mem)

\* The graph that is built for an expression, and whatever the passes make of it, accepts the
\* packets of which the expression is true, whatever the scratch memory holds.  (It is asked of
\* packets that all tests can be made on: one that is too short is rejected by the first load
\* outside of it, and the optimizer may remove or move that load.)
SameVerdict ==
  phase # "error" =>
    \A p \in Packets, mem \in Scratch :
      LET wanted == {IF Truth(input.expr, p, mem) THEN Snaplen ELSE 0}
      IN  IF phase = "done" THEN Outcomes(code, p, mem) = wanted
          ELSE Returns(opt.g, root, Start(mem), p) = wanted

\* The program is one that install_bpf_program takes: also when branches were too far.
Installable == phase = "done" => bpf_validate(code)

\* The tables for values, allocated before the first round from the number of statements,
\* are large enough for every round: F writes vmap[++curval] without looking.
ValuesFit == Len(opt.T) < opt.maxval

\* The tables hold what the passes make, and the program what they leave.
TablesHold == TypeOK /\ ValuesFit /\ Installable

\* The blocks that can be reached from b without taking an edge of a set.
RECURSIVE ReachedFrom(_, _, _)
ReachedFrom(o, b, avoided) ==
  {b} \cup UNION {ReachedFrom(o, Succ(o, <<b, w>>), avoided) :
                    w \in {v \in BOOLEAN : Succ(o, <<b, v>>) # No /\ <<b, v>> \notin avoided}}

\* find_dom, find_edom and find_closure find what they are to find, on every graph the passes
\* come to: edges are moved on the strength of it.
PathsAreRight ==
  phase \in {"branches", "stmts"} =>
    LET a == Analysed(opt, root)
        live == ReachedFrom(a, root, {})
        Without(edges) == ReachedFrom(a, root, edges)
    IN  /\ \A b \in live, d \in live :
             /\ d \in a.dom[b] <=> d = b \/ b \notin Without({d} \X BOOLEAN)
             /\ d \in a.reach[b] <=> b \in ReachedFrom(a, d, {})
        /\ \A e \in live \X BOOLEAN, f \in live \X BOOLEAN :
             IsJmp(a.g.s[e[1]]) =>
               (f \in a.edom[e] <=> f = e \/ e[1] \notin Without({f}))

\* opt_loop, intern_blocks and icode_to_fcode all come to an end.
Ends == <>Over
=============================================================================
