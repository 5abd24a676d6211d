---------------------------- MODULE FilterParser ----------------------------
(***************************************************************************)
(* pcap_compile: the parser of grammar.y (yyparse in grammar.c) and the    *)
(* code that its reductions generate.  The parser's stack holds, with each *)
(* symbol, its code and the qualifiers of the last value in it: a value    *)
(* without a qualifier of its own takes them from the symbol below, which  *)
(* is what $<blk>0 means.  The layout of the headers and the registers are *)
(* static variables: they live from one compilation to the next.           *)
(*                                                                         *)
(* A token is a qualifier, a value, a whole term, an operator or a         *)
(* parenthesis, with the words as they are spelled.  Every reduction is    *)
(* taken as soon as it is possible, as the tables of this grammar have it. *)
(***************************************************************************)
EXTENDS FilterKeywords

CONSTANT Sessions         \* what is compiled, one after the other: sequences of records with a link
                          \* type, a netmask, a snapshot length and a sequence of tokens

VARIABLES session, compiled,  \* the expressions, and how many of them have been begun
          phase,          \* "idle", "parsing", "done", "failed" (bpf_error) or "aborted"
          input,          \* the tokens that are left
          stack, layout, regs,
          root            \* the code of the expression: the argument of finish_parse
vars == <<session, compiled, phase, input, stack, layout, regs, root>>

filter == session[compiled]

-----------------------------------------------------------------------------
(* Values and terms *)

qerr == [proto |-> "undef", dir |-> "undef", addr |-> "undef"]
Symbol(sym, q, b) == [sym |-> sym, q |-> q, b |-> b]
NoCode == gen_true

ValueCode(L, value, q) ==
  CASE value.is = "name" -> gen_scode(L, value, q)
    [] value.is \in {"masked", "prefix"} -> gen_mcode(L, value, q)
    [] value.is = "octets" ->
         IF q.addr \in {"port", "portrange", "proto", "protochain"} THEN bpf_error ELSE gen_ncode(L, value, q)
    [] value.is = "num" -> gen_ncode(L, value, q)
    [] value.is = "digits" -> gen_ncode(L, [is |-> "num", v |-> stoi(value.prefix, value.digits)], q)
    [] value.is = "ip6" -> gen_mcode6(L, value.addr, value.masklen, q)
    [] value.is = "mac" -> gen_ecode(L, value.addr, q)
    [] value.is = "aid" -> gen_acode(L, value.addr, q)

\* gen_protochain takes a register for the protocol, and with no version of IP gives back none.
ChainRegisters(R, q) ==
  LET first == alloc_reg(R)
      second == IF q.proto = "default" THEN alloc_reg(Using(R, first)) ELSE first
  IN  IF q.addr # "protochain" THEN R
      ELSE IF q.proto = "default" THEN free_reg(Using(Using(R, first), second), second)
      ELSE free_reg(Using(R, first), first)

\* The code of a term, with the layout and the registers that it leaves.
Term(L, R, term) ==
  LET Kept(b) == [L |-> L, R |-> R, b |-> b]
      Moved(g) == [L |-> g.L, R |-> R, b |-> g.b]
      Related(g) == [L |-> L, R |-> g.R, b |-> g.b]
  IN  CASE term.is = "proto" -> Kept(gen_proto_abbrev(L, Word(term.proto)))
        [] term.is = "relation" -> Related(Relation(L, R, term.code, term.a0, term.a1, term.reversed))
        [] term.is = "broadcast" -> Kept(gen_broadcast(L, Word(term.proto), filter.netmask))
        [] term.is = "multicast" -> Kept(gen_multicast(L, Word(term.proto)))
        [] term.is = "less" -> Kept(gen_less(term.v))
        [] term.is = "greater" -> Kept(gen_greater(term.v))
        [] term.is = "byte" -> Kept(gen_byteop(L, term.op, term.at, term.v))
        [] term.is = "inbound" -> Kept(gen_inbound(L, term.out))
        [] term.is = "vlan" -> Moved(gen_vlan(L, term.v))
        [] term.is = "mpls" -> Moved(gen_mpls(L, term.v))
        [] term.is = "pppoed" -> Kept(gen_pppoed(L))
        [] term.is = "pppoes" -> Moved(gen_pppoes(L))
        [] Word(term.is) = "pf" -> Kept(gen_pf)
        [] term.is = "wlan name" -> Kept(p80211(L, term.type, term.subtype))
        [] term.is = "wlan type" -> Kept(gen_p80211_type(L, term.v, term.mask))
        [] term.is = "wlan dir" -> Kept(gen_p80211_fcdir(L, term.v))
        [] term.is = "atm" -> Moved(gen_atmtype_abbrev(L, term.type))
        [] term.is = "atm cells" -> Kept(gen_atmmulti_abbrev(L, term.type))
        [] term.is = "atm field" -> Kept(AnyOf([i \in DOMAIN term.v |->
             gen_atmfield_code(L, term.field, term.v[i], term.code, term.reversed)]))
        [] term.is = "mtp2" -> Kept(gen_mtp2type_abbrev(L, Word(term.type)))
        [] term.is = "mtp3" -> Kept(AnyOf([i \in DOMAIN term.v |->
             gen_mtp3field_code(L, term.field, term.v[i], term.code, term.reversed)]))

-----------------------------------------------------------------------------
(* Reductions *)

Joined(op, left, right) ==
  Symbol(left.sym, right.q, IF op.sym = "and" THEN gen_and(left.b, right.b) ELSE gen_or(left.b, right.b))

\* What the two or three symbols at the top of the stack reduce to, and how many they are.
Reduction(below, under, top) ==
  CASE under.sym = "not" /\ top.sym \in {"id", "term"} -> [n |-> 2, to |-> Symbol(top.sym, top.q, gen_not(top.b))]
    [] under.sym = "head" /\ top.sym = "id" -> [n |-> 2, to |-> Symbol("term", top.q, top.b)]
    [] under.sym \in {"and", "or"} /\ below.sym = "expr" /\ top.sym \in {"id", "term"} ->
         [n |-> 3, to |-> Joined(under, below, top)]
    [] under.sym \in {"and", "or"} /\ below.sym = "pid" /\ top.sym = "id" -> [n |-> 3, to |-> Joined(under, below, top)]
    [] under.sym \in {"null", "paren"} /\ top.sym = "term" -> [n |-> 1, to |-> Symbol("expr", top.q, top.b)]
    [] under.sym = "paren" /\ top.sym = "id" -> [n |-> 1, to |-> Symbol("pid", top.q, top.b)]
Reducible(below, under, top) ==
  \/ under.sym = "not" /\ top.sym \in {"id", "term"}
  \/ under.sym = "head" /\ top.sym = "id"
  \/ under.sym \in {"and", "or"} /\ below.sym = "expr" /\ top.sym \in {"id", "term"}
  \/ under.sym \in {"and", "or"} /\ below.sym = "pid" /\ top.sym = "id"
  \/ under.sym \in {"null", "paren"} /\ top.sym = "term"
  \/ under.sym = "paren" /\ top.sym = "id"

RECURSIVE Reduced(_)
Reduced(s) ==
  LET n == Len(s)
      below == IF n > 2 THEN s[n - 2] ELSE s[1]
  IN  IF n < 2 \/ ~Reducible(below, s[n - 1], s[n]) THEN s
      ELSE LET r == Reduction(below, s[n - 1], s[n])
           IN  Reduced(Append(SubSeq(s, 1, n - r.n), r.to))

-----------------------------------------------------------------------------
(* Compiling *)

Top == Last(stack)

\* bpf_error jumps back to pcap_compile, and the stack is gone.
GiveUp(b) ==
  /\ phase' = IF b = abort THEN "aborted" ELSE "failed"
  /\ stack' = <<>> /\ input' = <<>>
  /\ UNCHANGED <<session, root, compiled>>

\* The parser goes on with one symbol more, unless its code could not be generated.
Push(symbol) ==
  IF ~IsCode(symbol.b) THEN GiveUp(symbol.b)
  ELSE /\ stack' = Reduced(Append(stack, symbol))
       /\ input' = Tail(input)
       /\ UNCHANGED <<session, phase, root, compiled>>

Init ==
  /\ session \in Sessions /\ compiled = 0
  /\ phase = "idle"
  /\ input = <<>> /\ stack = <<>>
  /\ layout = NoLayout /\ regs = NoneUsed
  /\ root = NoCode

\* The beginning of pcap_compile: with a snapshot length of 0 no packet would be accepted, and a
\* link type that init_linktype does not know has its offsets only reset.
Compile ==
  /\ phase \in {"idle", "done", "failed"}
  /\ compiled < Len(session)
  /\ compiled' = compiled + 1
  /\ regs' = NoneUsed /\ root' = NoCode
  /\ IF session[compiled + 1].snaplen = 0 \/ session[compiled + 1].dlt \notin LinkTypes
     THEN /\ phase' = "failed" /\ input' = <<>> /\ stack' = <<>>
          /\ layout' = IF session[compiled + 1].snaplen = 0 THEN layout ELSE ResetOffsets(layout, session[compiled + 1].dlt)
     ELSE /\ phase' = "parsing"
          /\ input' = session[compiled + 1].tokens
          /\ stack' = <<Symbol("null", qerr, NoCode)>>
          /\ layout' = init_linktype(layout, session[compiled + 1].dlt)
  /\ UNCHANGED session

\* What may be on top of the stack before a token.
Operands == {"null", "and", "or", "not", "paren"}
After(t) ==
  CASE t \in {"and", "or", "close"} -> {"expr", "pid"}
    [] t \in {"not", "paren"} -> Operands \cup {"head"}
    [] t \in {"head", "term"} -> Operands
    [] t = "value" -> {"head", "and", "or", "not", "paren"}
    [] t = "illegal" -> {}
Token == Word(Head(input).t)
Next1(t) ==
  /\ phase = "parsing" /\ input # <<>>
  /\ Token = t /\ Top.sym \in After(t)

\* and, or: the qualifiers of what precedes them.
Operator(t) ==
  /\ Next1(t)
  /\ Push(Symbol(t, Top.q, NoCode))
  /\ UNCHANGED <<layout, regs>>

\* not, (: the qualifiers of what is below.
Prefix(t) ==
  /\ Next1(t)
  /\ Push(Symbol(t, Top.q, NoCode))
  /\ UNCHANGED <<layout, regs>>

Spelled(q) == [proto |-> Word(q.proto), dir |-> Word(q.dir), addr |-> q.addr]
Qualifiers ==
  /\ Next1("head")
  /\ Push(Symbol("head", Spelled(Head(input).q), NoCode))
  /\ UNCHANGED <<layout, regs>>

Value ==
  /\ Next1("value")
  /\ Push(Symbol("id", Top.q, Generated(layout, ValueCode(layout, Head(input).v, Top.q))))
  /\ regs' = ChainRegisters(regs, Top.q)
  /\ UNCHANGED layout

Shift(g) ==
  /\ Push(Symbol("term", qerr, Generated(layout, g.b)))
  /\ layout' = g.L /\ regs' = g.R
Keyword ==
  /\ Next1("term")
  /\ Shift(Term(layout, regs, Head(input)))

\* The qualifiers of a parenthesis around an expression are those of the parenthesis.
Closed(s) ==
  LET n == Len(s)
  IN  Append(SubSeq(s, 1, n - 2),
             IF s[n].sym = "expr" THEN Symbol("term", s[n - 1].q, s[n].b) ELSE Symbol("id", s[n].q, s[n].b))
Opened == Len(stack) > 2 /\ stack[Len(stack) - 1].sym = "paren"
Close ==
  /\ Next1("close") /\ Opened
  /\ stack' = Reduced(Closed(stack))
  /\ input' = Tail(input)
  /\ UNCHANGED <<session, phase, layout, regs, root, compiled>>

\* The end of pcap_compile; without an expression every packet is accepted.
Complete == Len(stack) = 1 \/ (Len(stack) = 2 /\ Top.sym = "expr")
Finish ==
  /\ phase = "parsing" /\ input = <<>> /\ Complete
  /\ root' = IF Len(stack) = 1 THEN gen_true ELSE Top.b
  /\ phase' = "done"
  /\ stack' = <<>>
  /\ UNCHANGED <<session, input, layout, regs, compiled>>

\* No rule of the grammar has this token, or the end, here; the scanner itself refuses what is
\* no token.
SyntaxError ==
  /\ phase = "parsing"
  /\ IF input = <<>> THEN ~Complete
     ELSE Top.sym \notin After(Token) \/ (Token = "close" /\ ~Opened)
  /\ GiveUp(bpf_error)
  /\ UNCHANGED <<layout, regs>>

Next ==
  \/ Compile \/ Qualifiers \/ Value \/ Keyword \/ Close \/ Finish \/ SyntaxError
  \/ \E t \in {"and", "or"} : Operator(t)
  \/ \E t \in {"not", "paren"} : Prefix(t)
Spec == Init /\ [][Next]_vars
=============================================================================
