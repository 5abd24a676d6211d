--------------------------- MODULE MCEeprom93cx6 ---------------------------
(***************************************************************************)
(* Values for Eeprom93cx6: the addresses attachUsbDevice reads, and        *)
(* memories in which they hold different words.                            *)
(***************************************************************************)
EXTENDS Eeprom93cx6

\* TXPWR_BASE, MAC_ADDR, the words of an 8187B, TXPWR_CHAN_1, TXPWR_CHAN_6 and TXPWR_CHAN_4.
AttachWords == {5, 7, 8, 9, 10, 22, 23, 24, 27, 28, 61, 62}

Patterns == {0, 1, 32768, 43690, 65535}

PatternMemories == {[a \in Address |-> (p + 257 * a) % 2^WordBits] : p \in Patterns}
=============================================================================
