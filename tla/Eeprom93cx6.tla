---------------------------- MODULE Eeprom93cx6 ----------------------------
(***************************************************************************)
(* Reading the card's EEPROM, a 93C46 or 93C66, by driving its four pins   *)
(* through the register EEPROM_CMD: eeprom_93cx6_read of Rtl8187Card.java  *)
(* and the routines it calls.                                              *)
(*                                                                         *)
(* A step is one control transfer, which reads or writes the register.     *)
(* The transfers have a timeout of a millisecond and nobody looks at their *)
(* results: one that is lost reads as zero, or writes nothing.  The chip   *)
(* is clocked by the writes; it is modelled as far as it can be made to    *)
(* react by them, including by a command from which bits are missing.      *)
(***************************************************************************)
EXTENDS Naturals, Sequences

CONSTANTS
  Width,     \* eeprom_width: bits of an address, of a 93C46 or a 93C66
  Memories,  \* what the EEPROM may hold: functions from addresses to words
  Wanted,    \* the addresses that are read
  MaxLost    \* bound: transfers that are lost

WordBits == 16
Word == 0 .. 2^WordBits - 1
Address == 0 .. 2^Width - 1

ASSUME EepromAssumption ==
  /\ Width \in {6, 8}
  /\ Memories \subseteq [Address -> Word]
  /\ Wanted \subseteq Address
  /\ MaxLost \in Nat

VARIABLES
  at,       \* where the driver is: the transfer it does next
  word,     \* the address it reads
  togo,     \* the bits it has left to send or to receive
  buf,      \* the bits it has received
  reg,      \* the eeprom_reg_ fields: [in, out, clock, select]
  pins,     \* the register, which is the chip's pins
  chip,     \* the chip: [mode, bits, left, enabled]
  memory,   \* what it holds
  altered,  \* it has carried out an instruction that changes what it holds
  lost,     \* transfers lost so far
  clean     \* history: no transfer of this read was lost

driver == <<at, word, togo, buf, reg>>
eepromVars == <<driver, pins, chip, memory, altered, lost, clean>>

Pins == [in : BOOLEAN, out : BOOLEAN, clock : BOOLEAN, select : BOOLEAN]
AllLow == [in |-> FALSE, out |-> FALSE, clock |-> FALSE, select |-> FALSE]

Bit(n, k) == (n \div 2^k) % 2

Chip(mode, bits, left, enabled) ==
  [mode |-> mode, bits |-> bits, left |-> left, enabled |-> enabled]

EepromInit ==
  /\ at = "idle" /\ word = 0 /\ togo = 0 /\ buf = 0
  /\ reg = AllLow
  /\ pins = AllLow
  /\ chip = Chip("waiting", <<>>, 0, FALSE)
  /\ memory \in Memories
  /\ altered = FALSE
  /\ lost = 0
  /\ clean = TRUE

-----------------------------------------------------------------------------
(* The chip. *)

Opcode(bits) == <<bits[1], bits[2]>>
Operand(bits) == CHOOSE a \in Address : \A k \in 0 .. Width - 1 : Bit(a, k) = bits[2 + Width - k]

\* Opcode 00 has further instructions in the top of the address.
Extended(bits, top) == Opcode(bits) = <<0, 0>> /\ <<bits[3], bits[4]>> = top

\* What follows a start bit, an opcode and an address: a read, permission to change
\* the memory or the end of it, an erasure, or a write, which has a word to come.
Decode(c, bits) ==
  CASE Opcode(bits) = <<1, 0>> -> Chip("reading", bits, WordBits, c.enabled)
    [] Extended(bits, <<1, 1>>) -> Chip("done", bits, c.left, TRUE)
    [] Extended(bits, <<0, 0>>) -> Chip("done", bits, c.left, FALSE)
    [] Extended(bits, <<1, 0>>) -> Chip("erase", bits, c.left, c.enabled)
    [] Extended(bits, <<0, 1>>) -> Chip("write", bits, WordBits, c.enabled)
    [] Opcode(bits) = <<1, 1>>  -> Chip("erase", bits, c.left, c.enabled)
    [] Opcode(bits) = <<0, 1>>  -> Chip("write", bits, WordBits, c.enabled)

\* A rising edge of the clock while the chip is selected.
Clocked(c, in) ==
  CASE c.mode = "waiting" -> IF in THEN Chip("command", <<>>, c.left, c.enabled) ELSE c
    [] c.mode = "command" ->
         LET bits == Append(c.bits, IF in THEN 1 ELSE 0) IN
         IF Len(bits) = 2 + Width THEN Decode(c, bits) ELSE [c EXCEPT !.bits = bits]
    [] c.mode \in {"reading", "write"} /\ c.left > 0 -> [c EXCEPT !.left = c.left - 1]
    [] OTHER -> c

\* The output pin: a zero before the word, then its bits from the highest.
Out(c) ==
  /\ c.mode = "reading" /\ c.left < WordBits
  /\ Bit(memory[Operand(c.bits)], c.left) = 1

\* The pins become p.  An instruction that changes the memory is carried out when the
\* chip is no longer selected, if such were allowed and all of it has arrived.
Drive(p) ==
  LET rises == p.clock /\ ~pins.clock /\ p.select
      ends == pins.select /\ ~p.select
  IN /\ pins' = p
     /\ chip' = CASE ends  -> Chip("waiting", <<>>, 0, chip.enabled)
                  [] rises -> Clocked(chip, p.in)
                  [] OTHER -> chip
     /\ altered' = \/ altered
                   \/ /\ ends /\ chip.enabled
                      /\ \/ chip.mode = "erase"
                         \/ chip.mode = "write" /\ chip.left = 0

-----------------------------------------------------------------------------
(* The driver's access to the register. *)

\* The next transfer is done, or lost.
Lose == lost < MaxLost /\ lost' = lost + 1 /\ clean' = FALSE
Keep == UNCHANGED <<lost, clean>>

\* rtl8187_eeprom_register_read at `here'; f maps the fields to what the routine
\* makes of them.
RegisterRead(here, f) ==
  /\ at = here
  /\ \/ Keep /\ reg' = f[[pins EXCEPT !.out = Out(chip)]]
     \/ Lose /\ reg' = f[AllLow]
  /\ UNCHANGED <<pins, chip, memory, altered, word>>

\* rtl8187_eeprom_register_write of fields r.
RegisterWrite(here, r) ==
  /\ at = here
  /\ reg' = r
  /\ \/ Keep /\ Drive(r)
     \/ Lose /\ UNCHANGED <<pins, chip, altered>>
  /\ UNCHANGED <<memory, word>>

Goto(there) == at' = there
High == [reg EXCEPT !.clock = TRUE]
Low == [reg EXCEPT !.clock = FALSE]

-----------------------------------------------------------------------------
(* eeprom_93cx6_startup. *)

Read(w) ==
  /\ at = "idle"
  /\ Goto("startup")
  /\ word' = w
  /\ clean' = TRUE
  /\ UNCHANGED <<togo, buf, reg, pins, chip, memory, altered, lost>>

Startup ==
  /\ RegisterRead("startup", [r \in Pins |-> [AllLow EXCEPT !.select = TRUE]])
  /\ Goto("select")
  /\ UNCHANGED <<togo, buf>>

Select   == RegisterWrite("select", reg) /\ Goto("startHigh") /\ UNCHANGED <<togo, buf>>
StartHigh == RegisterWrite("startHigh", High) /\ Goto("startLow") /\ UNCHANGED <<togo, buf>>
StartLow == RegisterWrite("startLow", Low) /\ Goto("command") /\ UNCHANGED <<togo, buf>>

(* eeprom_93cx6_write_bits: the command, PCI_EEPROM_READ_OPCODE before the address. *)

ReadOpcode == 6
WidthOpcode == 3
Command == ReadOpcode * 2^Width + word

StartCommand ==
  /\ RegisterRead("command", [r \in Pins |-> [r EXCEPT !.in = FALSE, !.out = FALSE]])
  /\ Goto("bit")
  /\ togo' = WidthOpcode + Width
  /\ UNCHANGED buf

WriteBit ==
  /\ RegisterWrite("bit", [reg EXCEPT !.in = (Bit(Command, togo - 1) = 1)])
  /\ Goto("bitHigh")
  /\ UNCHANGED <<togo, buf>>

BitHigh == RegisterWrite("bitHigh", High) /\ Goto("bitLow") /\ UNCHANGED <<togo, buf>>

BitLow ==
  /\ RegisterWrite("bitLow", Low)
  /\ togo' = togo - 1
  /\ Goto(IF togo' > 0 THEN "bit" ELSE "release")
  /\ UNCHANGED buf

Release ==
  /\ RegisterWrite("release", [reg EXCEPT !.in = FALSE])
  /\ Goto("data")
  /\ UNCHANGED <<togo, buf>>

(* eeprom_93cx6_read_bits. *)

StartData ==
  /\ RegisterRead("data", [r \in Pins |-> [r EXCEPT !.in = FALSE, !.out = FALSE]])
  /\ Goto("dataHigh")
  /\ togo' = WordBits
  /\ buf' = 0

DataHigh == RegisterWrite("dataHigh", High) /\ Goto("sample") /\ UNCHANGED <<togo, buf>>

Sample ==
  /\ RegisterRead("sample", [r \in Pins |-> [r EXCEPT !.in = FALSE]])
  /\ buf' = IF reg'.out THEN buf + 2^(togo - 1) ELSE buf
  /\ Goto("dataLow")
  /\ UNCHANGED togo

DataLow ==
  /\ RegisterWrite("dataLow", Low)
  /\ togo' = togo - 1
  /\ Goto(IF togo' > 0 THEN "dataHigh" ELSE "cleanup")
  /\ UNCHANGED buf

(* eeprom_93cx6_cleanup. *)

\* Mutant of Cleanup: the chip stays selected.
CleanupSelected ==
  /\ RegisterRead("cleanup", [r \in Pins |-> [r EXCEPT !.in = FALSE]])
  /\ Goto("deselect")
  /\ UNCHANGED <<togo, buf>>

Cleanup ==
  /\ RegisterRead("cleanup", [r \in Pins |-> [r EXCEPT !.in = FALSE, !.select = FALSE]])
  /\ Goto("deselect")
  /\ UNCHANGED <<togo, buf>>

Deselect == RegisterWrite("deselect", reg) /\ Goto("endHigh") /\ UNCHANGED <<togo, buf>>
EndHigh == RegisterWrite("endHigh", High) /\ Goto("endLow") /\ UNCHANGED <<togo, buf>>
EndLow == RegisterWrite("endLow", Low) /\ Goto("idle") /\ UNCHANGED <<togo, buf>>

-----------------------------------------------------------------------------
EepromNext ==
  \/ \E w \in Wanted : Read(w)
  \/ Startup \/ Select \/ StartHigh \/ StartLow
  \/ StartCommand \/ WriteBit \/ BitHigh \/ BitLow \/ Release
  \/ StartData \/ DataHigh \/ Sample \/ DataLow
  \/ Cleanup \/ Deselect \/ EndHigh \/ EndLow

EepromSpec == EepromInit /\ [][EepromNext]_eepromVars

-----------------------------------------------------------------------------
(* Properties. *)

\* Every variable keeps its type.
EepromTypeOK ==
  /\ at \in {"idle", "startup", "select", "startHigh", "startLow", "command", "bit", "bitHigh",
             "bitLow", "release", "data", "dataHigh", "sample", "dataLow", "cleanup",
             "deselect", "endHigh", "endLow"}
  /\ word \in Address
  /\ togo \in 0 .. WordBits
  /\ buf \in Word
  /\ reg \in Pins /\ pins \in Pins
  /\ chip \in [mode : {"waiting", "command", "reading", "erase", "write", "done"},
              bits : Seq({0, 1}), left : 0 .. WordBits, enabled : BOOLEAN]
  /\ Len(chip.bits) <= 2 + Width
  /\ memory \in Memories
  /\ altered \in BOOLEAN
  /\ lost \in 0 .. MaxLost
  /\ clean \in BOOLEAN

\* A read in which no transfer was lost returns the word, also when transfers of earlier
\* reads were lost at any point and left the pins and the chip as they were then.
CleanReadIsRight == at = "cleanup" /\ clean => buf = memory[word]

\* Reading never makes the chip change what it holds, though a lost transfer may turn a
\* read into another instruction: one is not enough.  With MaxLost = 2 it is violated, by
\* a read that becomes the permission to change, and another that becomes a write.
NeverAltered == ~altered

\* Words are read right, and only read.
ReadsRight == EepromTypeOK /\ CleanReadIsRight /\ NeverAltered
=============================================================================
