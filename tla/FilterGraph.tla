---------------------------- MODULE FilterGraph ----------------------------
(***************************************************************************)
(* The flow graph the filter compiler works on: how gencode.c puts the     *)
(* blocks of an expression together, and how optimize.c lays a graph out   *)
(* as a program.                                                           *)
(*                                                                         *)
(* A graph is a record of sequences, indexed by block: stmts and s, its    *)
(* side effects and its branch; jt and jf, its successors (JT and JF; No   *)
(* is the null pointer); sense and head; longjt and longjf.  While an      *)
(* expression is parsed a block's open successors are linked into a list   *)
(* through jt and jf themselves: sense says through which of them.         *)
(***************************************************************************)
EXTENDS BpfCode

No == 0  \* the null pointer to a block

Stmt(cls, op, arg, k) == [cls |-> cls, op |-> op, arg |-> arg, k |-> k, jt |-> 0, jf |-> 0]
Nop == Stmt("nop", "-", "-", 0)
IsJmp(s) == s.cls = "jmp"

EmptyGraph ==
  [stmts |-> <<>>, s |-> <<>>, jt |-> <<>>, jf |-> <<>>, sense |-> <<>>, head |-> <<>>,
   longjt |-> <<>>, longjf |-> <<>>]

Blocks(g) == DOMAIN g.s

\* new_block and the statements its caller gives it; the new block is the last one.
new_block(g, stmts, s) ==
  LET b == Len(g.s) + 1
  IN  [stmts |-> Append(g.stmts, stmts), s |-> Append(g.s, s),
       jt |-> Append(g.jt, No), jf |-> Append(g.jf, No), sense |-> Append(g.sense, FALSE),
       head |-> Append(g.head, b), longjt |-> Append(g.longjt, 0), longjf |-> Append(g.longjf, 0)]
Newest(g) == Len(g.s)

-----------------------------------------------------------------------------
(* gencode.c *)

\* The open successor of a block, and the rest of the list it is a member of.
Link(g, b) == IF g.sense[b] THEN g.jf[b] ELSE g.jt[b]
SetLink(g, b, t) == IF g.sense[b] THEN [g EXCEPT !.jf[b] = t] ELSE [g EXCEPT !.jt[b] = t]

RECURSIVE backpatch(_, _, _)
backpatch(g, list, target) ==
  IF list = No THEN g ELSE backpatch(SetLink(g, list, target), Link(g, list), target)

RECURSIVE LastOf(_, _)
LastOf(g, list) == IF Link(g, list) = No THEN list ELSE LastOf(g, Link(g, list))
merge(g, b0, b1) == SetLink(g, LastOf(g, b0), b1)

gen_not(g, b) == [g EXCEPT !.sense[b] = ~g.sense[b]]

gen_andUnflipped(g, b0, b1) ==
  LET patched == backpatch(g, b0, g.head[b1])
      merged == merge(gen_not(patched, b0), b1, b0)
  IN  [merged EXCEPT !.head[b1] = g.head[b0]]
gen_and(g, b0, b1) ==
  LET patched == backpatch(g, b0, g.head[b1])
      merged == merge(gen_not(gen_not(patched, b0), b1), b1, b0)
  IN  [gen_not(merged, b1) EXCEPT !.head[b1] = g.head[b0]]

gen_or(g, b0, b1) ==
  LET patched == gen_not(backpatch(gen_not(g, b0), b0, g.head[b1]), b0)
  IN  [merge(patched, b1, b0) EXCEPT !.head[b1] = g.head[b0]]

gen_retblk(g, v) == new_block(g, <<>>, Stmt("ret", "k", "-", v))

\* The true exits lead to a block that accepts, the false ones to one that rejects.
finish_parse(g, p, snaplen) ==
  LET accept == gen_retblk(g, snaplen)
      patched == backpatch(accept, p, Newest(accept))
      reject == gen_retblk(gen_not(patched, p), 0)
  IN  [graph |-> backpatch(reject, p, Newest(reject)), root |-> g.head[p]]

\* The expressions of the grammar: what is generated for one is in the graph it returns,
\* with b, the block that stands for it.
RECURSIVE Generate(_, _)
Generate(g, e) ==
  CASE e.is = "test" ->
         LET h == new_block(g, e.stmts, e.s) IN [graph |-> h, b |-> Newest(h)]
    [] e.is = "not" ->
         LET x == Generate(g, e.of) IN [x EXCEPT !.graph = gen_not(x.graph, x.b)]
    [] e.is \in {"and", "or"} ->
         LET x == Generate(g, e.left)
             y == Generate(x.graph, e.right)
         IN  [graph |-> IF e.is = "and" THEN gen_and(y.graph, x.b, y.b)
                        ELSE gen_or(y.graph, x.b, y.b),
              b |-> y.b]

-----------------------------------------------------------------------------
(* What a graph does with a packet: the values it may return. *)

Effective(stmts) == SelectSeq(stmts, LAMBDA s : s.cls # "nop")

\* The machines after some statements; none when a load outside the packet has ended the run.
After(stmts, s, p) ==
  FoldLeft(LAMBDA S, i : UNION {Successors(i, t, p) : t \in S}, {s}, Effective(stmts))

RECURSIVE Returns(_, _, _, _)
Returns(g, b, s, p) ==
  LET machines == After(g.stmts[b], s, p)
      branch == g.s[b]
      Taken(t) == Holds(branch.op, t.A, IF branch.arg = "x" THEN t.X ELSE branch.k)
  IN  IF machines = {} THEN {0}
      ELSE IF branch.cls = "ret" THEN {Returned(branch, t) : t \in machines}
      ELSE UNION {Returns(g, IF Taken(t) THEN g.jt[b] ELSE g.jf[b], t, p) : t \in machines}

-----------------------------------------------------------------------------
(* optimize.c: icode_to_fcode *)

slength(stmts) == Len(Effective(stmts))

\* The blocks in the order convert_code_r leaves them: false branch, true branch, the block.
RECURSIVE Unlaid(_, _, _)
Unlaid(g, b, done) ==
  IF b = No \/ Contains(done, b) THEN done
  ELSE Append(Unlaid(g, g.jt[b], Unlaid(g, g.jf[b], done)), b)

BlockLength(g, b) == slength(g.stmts[b]) + 1 + g.longjt[b] + g.longjf[b]
count_stmts(g, root) == FoldLeft(LAMBDA n, b : n + BlockLength(g, b), 0, Unlaid(g, root, <<>>))

\* Blocks are laid out from the end of the program to its beginning.
OffsetOf(g, root, b) ==
  LET order == Unlaid(g, root, <<>>)
      at == CHOOSE i \in DOMAIN order : order[i] = b
  IN  count_stmts(g, root) - FoldLeft(LAMBDA n, c : n + BlockLength(g, c), 0, SubSeq(order, 1, at))

\* What the offset of a jump from block b to block t would be.
Distance(g, root, b, t) ==
  OffsetOf(g, root, t) - (OffsetOf(g, root, b) + slength(g.stmts[b])) - 1

\* A branch whose offset does not fit into a byte needs a jump of its own.
Far(d) == d >= Byte
Unjumped(g, root, b) ==
  /\ g.jt[b] # No
  /\ \/ Far(Distance(g, root, b, g.jt[b])) /\ g.longjt[b] = 0
     \/ Far(Distance(g, root, b, g.jf[b])) /\ g.longjf[b] = 0

MarkLongNever(g, root, b) == g
\* convert_code_r found block b in want of a jump: it marks the branch, and all starts again.
MarkLong(g, root, b) ==
  IF Far(Distance(g, root, b, g.jt[b])) /\ g.longjt[b] = 0 THEN [g EXCEPT !.longjt[b] = 1]
  ELSE [g EXCEPT !.longjf[b] = 1]

\* A conditional jump inside a block names its targets by their places in the list; offsets
\* are relative.  The one before the last statement is left as it is.
LocalJump(stmts, off) ==
  LET s == stmts[off]
  IN  IF s.cls = "jmp" /\ s.op # "ja" /\ off # Len(stmts) - 1
      THEN [s EXCEPT !.jt = s.jt - off - 1, !.jf = s.jf - off - 1]
      ELSE s

JumpTo(offset) == Stmt("jmp", "ja", "k", offset)

\* The instructions of a block.  An offset is stored in a byte.
EmitPast(g, root, b) ==
  LET stmts == Effective(g.stmts[b])
      dt == Distance(g, root, b, g.jt[b])
      df == Distance(g, root, b, g.jf[b])
      extra == IF Far(dt) THEN 1 ELSE 0
      branch == IF g.jt[b] = No THEN g.s[b]
                ELSE [g.s[b] EXCEPT !.jt = IF Far(dt) THEN 0 ELSE dt % Byte,
                                    !.jf = IF Far(df) THEN extra ELSE df % Byte]
      jumps == (IF g.jt[b] # No /\ Far(dt) THEN <<JumpTo(dt)>> ELSE <<>>)
               \o (IF g.jt[b] # No /\ Far(df) THEN <<JumpTo(df - extra)>> ELSE <<>>)
  IN  [off \in DOMAIN stmts |-> LocalJump(stmts, off)] \o <<branch>> \o jumps
Emit(g, root, b) ==
  LET stmts == Effective(g.stmts[b])
      dt == Distance(g, root, b, g.jt[b])
      df == Distance(g, root, b, g.jf[b])
      extra == IF Far(dt) THEN 1 ELSE 0
      branch == IF g.jt[b] = No THEN g.s[b]
                ELSE [g.s[b] EXCEPT !.jt = IF Far(dt) THEN 0 ELSE dt % Byte,
                                    !.jf = IF Far(df) THEN extra ELSE df % Byte]
      jumps == (IF g.jt[b] # No /\ Far(dt) THEN <<JumpTo(dt - 1)>> ELSE <<>>)
               \o (IF g.jt[b] # No /\ Far(df) THEN <<JumpTo(df - extra - 1)>> ELSE <<>>)
  IN  [off \in DOMAIN stmts |-> LocalJump(stmts, off)] \o <<branch>> \o jumps

Program(g, root) ==
  FoldLeft(LAMBDA code, b : Emit(g, root, b) \o code, <<>>, Unlaid(g, root, <<>>))

\* The first block convert_code_r comes to that makes it fail, or No.
FirstUnjumped(g, root) ==
  LET order == Unlaid(g, root, <<>>)
      i == SelectInSeq(order, LAMBDA b : Unjumped(g, root, b))
  IN  IF i = 0 THEN No ELSE order[i]
=============================================================================
