------------------------------- MODULE MCCpu -------------------------------
(***************************************************************************)
(* Instructions and memory windows for model checking Cpu.                 *)
(***************************************************************************)
EXTENDS Cpu

Imm(ops, values) == [op: ops, mode: {"immediate"}, imm: values]
Acc(ops)         == [op: ops, mode: {"accumulator"}, imm: {0}]
Imp(ops)         == [op: ops, mode: {"implied"}, imm: {0}]
In(m, ops, imms) == [op: ops, mode: {m}, imm: imms]

\* The operands at which a sum or a difference changes its flags.
Boundary == {0, 1, 127, 128, 129, 255}

Arithmetics ==
  Imm({"ADC", "SBC", "CMP", "CPX", "CPY"}, Boundary)
  \cup Acc({"ASL", "ROL"}) \cup In("zeropage", {"ADC", "CPX"}, {0})

RightShifts ==
  Imm({"LDA"}, Boundary) \cup Acc({"LSR", "ROR"}) \cup Imp({"SEC", "CLC"})

(* Pushes and pulls over the wrap of S, and a store over what was pushed.  *)
Stacks ==
  Imp({"PHA", "PHP", "PLA", "PLP", "TXS", "SEC"})
  \cup Imm({"LDA"}, {129}) \cup Imm({"LDX"}, {1})
  \cup In("absolute", {"STX"}, {511})

(* Every addressing mode, over a page zero whose pointers lead back into   *)
(* the window.                                                             *)
Addressings ==
  In("indirect_zeropage_indexedX", {"LDA", "STA"}, {0, 255})
  \cup In("indirect_zeropage_indexedY", {"LDA", "STA"}, {1})
  \cup In("zeropage_indexedX", {"STA"}, {1, 255})
  \cup In("absolute_indexedX", {"ORA"}, {255})
  \cup In("absolute_indexedY", {"AND", "EOR"}, {65535})
  \cup In("zeropage", {"BIT", "STY"}, {1})
  \cup Imp({"TAX", "TAY", "TXA", "TYA", "TSX", "NOP"})

(* Read-modify-write of one cell, and X through every value: the cell is   *)
(* also the one ASL 1,X comes to when X is 255.                            *)
Modifications ==
  In("zeropage", {"ROL", "DEC"}, {0}) \cup In("zeropage_indexedX", {"ASL"}, {1})
  \cup Imp({"INX", "CLC"})

(* The instructions of a run come from one family throughout, each with    *)
(* the cells it may touch and what registers and memory hold at first:     *)
(* registers that have nothing to do with each other would only multiply   *)
(* the states.                                                             *)
CONSTANT Chosen    \* the families of a run
VARIABLE family    \* the one that was drawn

Family(ins, cells, bytes, flags) ==
  [ins |-> ins, cells |-> cells, bytes |-> bytes, flags |-> flags]

BothFlags  == {[f \in Flag |-> b] : b \in BOOLEAN}
ClearFlags == {[f \in Flag |-> FALSE]}

Families ==
  [arithmetic   |-> Family(Arithmetics, {0}, {128}, ClearFlags),
   modification |-> Family(Modifications, {0}, {128}, ClearFlags),
   stack        |-> Family(Stacks, {256, 257, 511}, {1}, BothFlags),
   addressing   |-> Family(Addressings, {0, 1, 256}, {0, 1}, ClearFlags),
   rightshifts  |-> Family(RightShifts, {}, {0}, ClearFlags)]

AllInstructions == UNION {Families[f].ins : f \in Chosen}

FamilyInit ==
  /\ Init
  /\ family \in Chosen
  /\ LET f == Families[family]
     IN  /\ \A n \in {"A", "X", "Y"} : reg[n] \in f.bytes
         /\ flag \in f.flags
         /\ \A c \in Cells : memory[c] \in IF c \in f.cells THEN f.bytes ELSE {0}

FamilyNext ==
  /\ \E ins \in Families[family].ins :
       /\ InWindow(ins)
       /\ Addresses(ins) \subseteq Families[family].cells \cup Wild
       /\ Execute(ins)
  /\ UNCHANGED family

FamilySpec == FamilyInit /\ [][FamilyNext]_<<vars, family>>
============================================================================
