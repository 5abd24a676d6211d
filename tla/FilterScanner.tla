---------------------------- MODULE FilterScanner ----------------------------
(***************************************************************************)
(* yylex of scanner.c: what the parser is given for a word.  A keyword is  *)
(* itself, unless it is another spelling of one; a number is its digits    *)
(* with the prefix of its base, and some words are numbers.                *)
(***************************************************************************)
EXTENDS Integers, Sequences, SequencesExt, TLC

LOCAL For(words, token) == [w \in words |-> token]

\* Protocols: whatever kind of link is named, the link that there is, is meant.
ProtocolSpellings ==
  For({"ether", "ppp", "slip", "fddi", "tr", "wlan"}, "link") @@ ("es-is" :> "esis") @@ ("is-is" :> "isis")
\* Qualifiers and operators.
QualifierSpellings ==
  ("direction" :> "dir") @@ ("address1" :> "addr1") @@ ("address2" :> "addr2") @@ ("address3" :> "addr3")
  @@ ("address4" :> "addr4") @@ ("&&" :> "and") @@ ("||" :> "or") @@ ("len" :> "length")
\* Kinds of packets.
TermSpellings ==
  For({"on", "ifname", "rset", "ruleset", "rnr", "rulenum", "srnr", "subrulenum", "reason", "action"}, "pf")
  @@ ("lsu" :> "lssu")
Spellings == ProtocolSpellings @@ QualifierSpellings @@ TermSpellings
Word(w) == IF w \in DOMAIN Spellings THEN Spellings[w] ELSE w

\* Offsets in a header, and the values that are found there.
NumberWords ==
  ("icmptype" :> 0) @@ ("icmpcode" :> 1) @@ ("icmp-echoreply" :> 0) @@ ("icmp-unreach" :> 3)
  @@ ("icmp-sourcequench" :> 4) @@ ("icmp-redirect" :> 5) @@ ("icmp-echo" :> 8) @@ ("icmp-routeradvert" :> 9)
  @@ ("icmp-routersolicit" :> 10) @@ ("icmp-timxceed" :> 11) @@ ("icmp-paramprob" :> 12) @@ ("icmp-tstamp" :> 13)
  @@ ("icmp-tstampreply" :> 14) @@ ("icmp-ireq" :> 15) @@ ("icmp-ireqreply" :> 16) @@ ("icmp-maskreq" :> 17)
  @@ ("icmp-maskreply" :> 18) @@ ("tcpflags" :> 13) @@ ("tcp-fin" :> 1) @@ ("tcp-syn" :> 2) @@ ("tcp-rst" :> 4)
  @@ ("tcp-push" :> 8) @@ ("tcp-ack" :> 16) @@ ("tcp-urg" :> 32)

\* "0x" and "0" are for hexadecimal and octal; a digit is not tested against the base.
Base(prefix) == CASE prefix = "0x" -> 16 [] prefix = "0" -> 8 [] prefix = "" -> 10
stoi(prefix, digits) == FoldLeft(LAMBDA n, d : n * Base(prefix) + d, 0, digits)
=============================================================================
