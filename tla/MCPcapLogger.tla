---------------------------- MODULE MCPcapLogger ----------------------------
(* PcapLogger for TLC: model values. *)
EXTENDS PcapLogger

CONSTANTS c1, c2, a, b

OneCard  == {c1}
TwoCards == {c1, c2}
TwoPaths == {a, b}
OnePath  == {a}
OneLength  == {1}
TwoLengths == {1, 2}
=============================================================================
