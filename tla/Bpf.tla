-------------------------------- MODULE Bpf --------------------------------
(***************************************************************************)
(* The BPF machine of libpcap: a program is installed if bpf_validate      *)
(* accepts it, and bpf_filter runs it on a packet.                         *)
(***************************************************************************)
EXTENDS BpfCode

CONSTANTS
  Programs,  \* programs somebody asks to install
  Packets,   \* packets: sequences of bytes
  Scratch    \* what the uninitialized scratch memory may hold

ASSUME BpfAssumption ==
  /\ \A p \in Programs : /\ p \in Seq(Instruction)
                         /\ 2 * Len(p) <= Word
  /\ Scratch \subseteq [MemIndex -> Operand]

VARIABLES
  prog,  \* the program
  pkt,   \* the packet it is run on
  m,     \* the machine: [pc, A, X, mem]
  end    \* "new", "refused", "running", or how it ended: "returned", "abort", "crash"

vars == <<prog, pkt, m, end>>

-----------------------------------------------------------------------------
Init ==
  /\ prog \in Programs
  /\ pkt \in Packets
  /\ \E mem \in Scratch : m = Start(mem)
  /\ end = "new"

\* install_bpf_program keeps the program if it is valid.
Install ==
  /\ end = "new"
  /\ end' = IF bpf_validate(prog) THEN "running" ELSE "refused"
  /\ UNCHANGED <<prog, pkt, m>>

Execute(kinds) ==
  /\ end = "running"
  /\ m.pc \in DOMAIN prog
  /\ LET i == prog[m.pc]
         next == Successors(i, m, pkt)
     IN  /\ i.cls \in kinds
         /\ IF next = {} THEN m' = m /\ end' = Verdict(i, m)
            ELSE m' \in next /\ end' = end
  /\ UNCHANGED <<prog, pkt>>

LoadStep == Execute({"ld", "ldx"})
StoreStep == Execute({"st", "stx"})
AluStep == Execute({"alu"})
JumpStep == Execute({"jmp"})
MiscStep == Execute({"misc"})
RetStep == Execute({"ret"})

Run == LoadStep \/ StoreStep \/ AluStep \/ JumpStep \/ MiscStep \/ RetStep
Next == Install \/ Run

\* bpf_filter is a loop that nothing interrupts.
Spec == Init /\ [][Next]_vars /\ WF_vars(Next)

-----------------------------------------------------------------------------
TypeOK ==
  /\ prog \in Programs /\ pkt \in Packets
  /\ m.pc \in Int /\ m.A \in Operand /\ m.X \in Operand
  /\ m.mem \in [MemIndex -> Operand]
  /\ end \in {"new", "refused", "running", "returned", "abort", "crash"}

\* What bpf_validate is for (the comment above it): a program it accepted never runs off its
\* end, or off its beginning by a backward jump, never touches memory other than the scratch
\* words, and never divides by a constant zero.  Loads from the packet, and the divisions by
\* X, are checked by bpf_filter as it runs.
Contained ==
  /\ end = "running" => m.pc \in 1 .. Len(prog)
  /\ end # "crash"

ForwardOnly(f) == \A n \in DOMAIN f : f[n].op = "ja" => Signed(f[n].k) >= 0

\* "That the code terminates with either an accept or reject": so it does when no jump goes
\* backward, but for the codes bpf_validate lets pass and bpf_filter does not know, for which
\* it calls abort().  With the backward jumps of "protochain" it need not end.
Terminates == ForwardOnly(prog) => <>(end \notin {"new", "running"})
=============================================================================
