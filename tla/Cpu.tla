--------------------------------- MODULE Cpu ---------------------------------
(***************************************************************************)
(* The emitted function between two control transfers: what the IR of each *)
(* operation and addressing-mode callback (TranslatorCallbacks.cxx) does   *)
(* to the registers and flags, which are allocas of the function, and to   *)
(* the memory behind rrpMemRead and rrpMemWrite (MemoryMapperDebug.c).     *)
(*                                                                         *)
(* The given instructions may run in any order.  Memory is seen through    *)
(* the window Cells: an instruction that would touch another cell is not   *)
(* taken.                                                                  *)
(***************************************************************************)
EXTENDS Alu, Opcodes

CONSTANTS
  Instructions,  \* the instructions that may run: records <op, mode, imm>
  Cells,         \* the addresses whose memory the model holds
  Wild,          \* the cells an ill-typed address may come to
  InitBytes,     \* what uninitialised registers and memory may hold
  InitFlags,     \* and uninitialised flags
  MaxPushed      \* bound on the bytes on the stack

StraightLine(b) == ~IsStandard(b) /\ uuCb[b] \notin Transfers \cup Unsupported

\* An instruction of the tables, with an operand of its width.
Encodes(b, ins) ==
  \/ /\ IsStandard(b) /\ Callable(b)
     /\ ins.op = Operation(b) /\ ins.mode = Addressing(b)
     /\ ins.imm \in Word
     /\ ins.mode \notin TwoByteModes => ins.imm \in Byte
  \/ /\ StraightLine(b)
     /\ ins.op = uuCb[b] /\ ins.mode = "implied" /\ ins.imm = 0

ASSUME InstructionsAssumption ==
         \A ins \in Instructions : \E b \in Byte : Encodes(b, ins)
ASSUME CellsAssumption == Cells \subseteq Word /\ Wild \subseteq Cells
ASSUME InitAssumption  == /\ InitBytes \subseteq Byte
                          /\ InitFlags \subseteq [Flag -> BOOLEAN]
ASSUME PushedAssumption == MaxPushed \in 0..256

VARIABLES
  reg,      \* _A, _X, _Y and _S
  flag,     \* _flag
  memory,   \* memory, through the window
  inst,     \* history: the instruction that ran last
  operand,  \* the value its read callback returned last
  pushed    \* history: what PHA and PHP pushed and nothing pulled yet

vars == <<reg, flag, memory, inst, operand, pushed>>

Register == {"A", "X", "Y", "S"}

NoInstruction == [op |-> "NOP", mode |-> "implied", imm |-> 0]

\* The constructor's code sets S; rrpInit leaves the memory as malloc does.
Init ==
  /\ \E r \in [Register \ {"S"} -> InitBytes] :
       reg = [n \in Register |-> IF n = "S" THEN 255 ELSE r[n]]
  /\ flag \in InitFlags
  /\ memory \in [Cells -> InitBytes]
  /\ inst = NoInstruction
  /\ operand = 0
  /\ pushed = <<>>

------------------------------------------------------------------------------
(* Addressing modes.                                                       *)

\* The zero-page address of an X-indexed operand: an i8 sum, or an i16 one.
LongIndexed(n)     == n + reg["X"]
ZeroPageIndexed(n) == (n + reg["X"]) % 256

\* The cells read to find the address.
Pointer(ins) ==
  IF ins.mode = "indirect_zeropage_indexedX"
  THEN <<ZeroPageIndexed(ins.imm), (ZeroPageIndexed(ins.imm) + 1) % 256>>
  ELSE IF ins.mode = "indirect_zeropage_indexedY"
  THEN <<ins.imm, (ins.imm + 1) % 256>>
  ELSE <<>>

\* The addresses the instruction may access: one, except where (ind),Y adds
\* the i8 in Y to an i16.
Addresses(ins) ==
  IF ins.mode \in {"zeropage", "absolute"} THEN {ins.imm}
  ELSE IF ins.mode = "zeropage_indexedX" THEN {ZeroPageIndexed(ins.imm)}
  ELSE IF ins.mode = "absolute_indexedX" THEN {(ins.imm + reg["X"]) % 65536}
  ELSE IF ins.mode = "absolute_indexedY" THEN {(ins.imm + reg["Y"]) % 65536}
  ELSE IF ins.mode = "indirect_zeropage_indexedX"
  THEN {makeword(memory[Pointer(ins)[1]], memory[Pointer(ins)[2]])}
  ELSE IF ins.mode = "indirect_zeropage_indexedY" THEN Wild
  ELSE {}

InWindow(ins) ==
  /\ \A k \in 1..Len(Pointer(ins)) : Pointer(ins)[k] \in Cells
  /\ Addresses(ins) \subseteq Cells

\* What the read callback may return.
Read(ins) ==
  IF ins.mode = "immediate" THEN {ins.imm}
  ELSE IF ins.mode = "accumulator" THEN {reg["A"]}
  ELSE {memory[a] : a \in Addresses(ins)}

\* The cells of the stack that hold what was pushed, the k-th from the top.
LiveCell(k) == 256 + ((reg["S"] + k) % 256)
LiveCells   == {LiveCell(k) : k \in 1..Len(pushed)}

(* The write callback.  A write to a live cell of the stack ends what      *)
(* pushed claims.                                                          *)
Write(ins, v) ==
  \/ /\ ins.mode = "immediate"
     /\ UNCHANGED <<reg, memory, pushed>>
  \/ /\ ins.mode = "accumulator"
     /\ reg' = [reg EXCEPT !["A"] = v]
     /\ UNCHANGED <<memory, pushed>>
  \/ \E a \in Addresses(ins) :
       /\ memory' = [memory EXCEPT ![a] = v]
       /\ pushed' = IF a \in LiveCells THEN <<>> ELSE pushed
       /\ UNCHANGED reg

------------------------------------------------------------------------------
(* Operations of the standard form.                                        *)

\* The register each of these works on.
RegisterOf ==
  [LDA |-> "A", LDX |-> "X", LDY |-> "Y", STA |-> "A", STX |-> "X",
   STY |-> "Y", CMP |-> "A", CPX |-> "X", CPY |-> "Y"]

Load(ins) ==
  /\ ins.op \in {"LDA", "LDX", "LDY"}
  /\ \E v \in Read(ins) :
       /\ reg' = [reg EXCEPT ![RegisterOf[ins.op]] = v]
       /\ flag' = SetZS(flag, v)
       /\ operand' = v
  /\ UNCHANGED <<memory, pushed>>

Store(ins) ==
  /\ ins.op \in {"STA", "STX", "STY"}
  /\ Write(ins, reg[RegisterOf[ins.op]])
  /\ UNCHANGED <<flag, operand>>

Logic(ins) ==
  /\ ins.op \in {"ORA", "AND", "EOR", "BIT"}
  /\ \E v \in Read(ins) :
       LET val == IF ins.op = "ORA" THEN ORA(reg["A"], v)
                  ELSE IF ins.op = "EOR" THEN EOR(reg["A"], v)
                  ELSE AND(reg["A"], v)
       IN  /\ reg' = IF ins.op = "BIT" THEN reg ELSE [reg EXCEPT !["A"] = val]
           /\ flag' = SetZS(flag, val)
           /\ operand' = v
  /\ UNCHANGED <<memory, pushed>>

\* Store the flags of a result.
FlagsOf(r) == SetZS([flag EXCEPT !["C"] = r.C, !["V"] = r.V], r.val)

Arithmetic(ins) ==
  /\ ins.op \in {"ADC", "SBC"}
  /\ \E v \in Read(ins) :
       LET r == IF ins.op = "ADC" THEN ADC(reg["A"], v, flag["C"])
                ELSE SBC(reg["A"], v, flag["C"])
       IN  /\ reg' = [reg EXCEPT !["A"] = r.val]
           /\ flag' = FlagsOf(r)
           /\ operand' = v
  /\ UNCHANGED <<memory, pushed>>

Comparison(ins) ==
  /\ ins.op \in {"CMP", "CPX", "CPY"}
  /\ \E v \in Read(ins) :
       /\ flag' = FlagsOf(Compare(reg[RegisterOf[ins.op]], v))
       /\ operand' = v
  /\ UNCHANGED <<reg, memory, pushed>>

\* What a read-modify-write operation makes of the value it read.
Modified(op, v) ==
  IF op = "ASL" THEN ASL(v)
  ELSE IF op = "ROL" THEN ROL(v, flag["C"])
  ELSE IF op = "LSR" THEN LSR(v)
  ELSE IF op = "ROR" THEN ROR(v, flag["C"])
  ELSE [val |-> IF op = "DEC" THEN DEC(v) ELSE INC(v), C |-> flag["C"]]

Modify(ins) ==
  /\ ins.op \in {"ASL", "ROL", "LSR", "ROR", "DEC", "INC"}
  /\ \E v \in Read(ins) :
       LET r == Modified(ins.op, v)
       IN  /\ Write(ins, r.val)
           /\ flag' = SetZS([flag EXCEPT !["C"] = r.C], r.val)
           /\ operand' = v

------------------------------------------------------------------------------
(* Operations of uuCb.                                                     *)

SourceOf == [TAX |-> "A", TAY |-> "A", TXA |-> "X", TYA |-> "Y", TSX |-> "S"]
TargetOf == [TAX |-> "X", TAY |-> "Y", TXA |-> "A", TYA |-> "A", TSX |-> "X"]

TransferRegister(op) ==
  /\ op \in {"TAX", "TAY", "TXA", "TYA", "TSX"}
  /\ reg' = [reg EXCEPT ![TargetOf[op]] = reg[SourceOf[op]]]
  /\ flag' = SetZS(flag, reg[SourceOf[op]])
  /\ UNCHANGED <<memory, operand, pushed>>

\* Moving the stack ends what pushed claims, too.
TXS(op) ==
  /\ op = "TXS"
  /\ reg' = [reg EXCEPT !["S"] = reg["X"]]
  /\ pushed' = <<>>
  /\ UNCHANGED <<flag, memory, operand>>

StepRegister(op) ==
  /\ op \in {"INX", "DEX", "INY", "DEY"}
  /\ LET r == IF op \in {"INX", "DEX"} THEN "X" ELSE "Y"
         v == IF op \in {"INX", "INY"} THEN INC(reg[r]) ELSE DEC(reg[r])
     IN  /\ reg' = [reg EXCEPT ![r] = v]
         /\ flag' = SetZS(flag, v)
  /\ UNCHANGED <<memory, operand, pushed>>

FlagOf == [SEC |-> "C", CLC |-> "C", SED |-> "D", CLD |-> "D", CLV |-> "V",
           SEI |-> "I", CLI |-> "I"]

ChangeFlag(op) ==
  /\ op \in {"SEC", "CLC", "SED", "CLD", "CLV", "SEI", "CLI"}
  /\ flag' = [flag EXCEPT ![FlagOf[op]] = op \in {"SEC", "SED", "SEI"}]
  /\ UNCHANGED <<reg, memory, operand, pushed>>

\* The cell a push writes to, with S as it was or as it will be.
PreDecremented(s) == 256 + DEC(s)
PushCell(s)       == 256 + s

\* PHA and PHP write to 100h + S and decrement S.
Push(op) ==
  /\ op \in {"PHA", "PHP"}
  /\ Len(pushed) < MaxPushed
  /\ PushCell(reg["S"]) \in Cells
  /\ LET v == IF op = "PHA" THEN reg["A"] ELSE _build_flags(flag)
     IN  memory' = [memory EXCEPT ![PushCell(reg["S"])] = v]
  /\ reg' = [reg EXCEPT !["S"] = DEC(@)]
  /\ pushed' = Append(pushed, [op |-> op, A |-> reg["A"], flag |-> flag])
  /\ UNCHANGED <<flag, operand>>

\* PLA and PLP increment S and read from 100h + S.
Pull(op) ==
  /\ op \in {"PLA", "PLP"}
  /\ LET top == 256 + INC(reg["S"])
     IN  /\ top \in Cells
         /\ operand' = memory[top]
         /\ flag' = IF op = "PLA" THEN SetZS(flag, memory[top])
                    ELSE _decompose_flags(memory[top])
         /\ reg' = [reg EXCEPT !["S"] = INC(@),
                               !["A"] = IF op = "PLA" THEN memory[top] ELSE @]
  /\ pushed' = IF pushed = <<>> THEN <<>>
               ELSE SubSeq(pushed, 1, Len(pushed) - 1)
  /\ UNCHANGED memory

NOP(op) == op = "NOP" /\ UNCHANGED <<reg, flag, memory, operand, pushed>>

------------------------------------------------------------------------------
Standard(ins) == \/ Load(ins) \/ Store(ins) \/ Logic(ins) \/ Arithmetic(ins)
                 \/ Comparison(ins) \/ Modify(ins)

Unusual(op) == \/ TransferRegister(op) \/ TXS(op) \/ StepRegister(op)
               \/ ChangeFlag(op) \/ Push(op) \/ Pull(op) \/ NOP(op)

Execute(ins) ==
  /\ InWindow(ins)
  /\ Standard(ins) \/ Unusual(ins.op)
  /\ inst' = ins

Next == \E ins \in Instructions : Execute(ins)

Spec == Init /\ [][Next]_vars

------------------------------------------------------------------------------
(* Properties.                                                             *)

TypeOK ==
  /\ reg \in [Register -> Byte]
  /\ flag \in [Flag -> BOOLEAN]
  /\ memory \in [Cells -> Byte]
  /\ operand \in Byte
  /\ pushed \in Seq([op: {"PHA", "PHP"}, A: Byte, flag: [Flag -> BOOLEAN]])
  /\ Len(pushed) <= MaxPushed

\* A byte as a number in two's complement, the reference for overflow.
Signed(v) == IF Negative(v) THEN v - 256 ELSE v
InRange(n) == n \in -128..127

(* ADC: carry and accumulator together are the sum of the accumulator, the *)
(* operand and the carry that was in; V says that the signed sum does not  *)
(* fit; Z and S describe the result.                                       *)
AddsExactly ==
  inst'.op = "ADC" =>
    /\ reg'["A"] + 256 * Num(flag'["C"])
         = reg["A"] + operand' + Num(flag["C"])
    /\ flag'["V"] <=> ~InRange(Signed(reg["A"]) + Signed(operand')
                               + Num(flag["C"]))
    /\ flag'["Z"] <=> reg'["A"] = 0
    /\ flag'["S"] <=> Signed(reg'["A"]) < 0
AdditionExact == [][AddsExactly]_vars

(* SBC: likewise for the difference, with C the absence of a borrow.       *)
SubtractsExactly ==
  inst'.op = "SBC" =>
    /\ reg'["A"] - 256 * Num(~flag'["C"])
         = reg["A"] - operand' - Num(~flag["C"])
    /\ flag'["V"] <=> ~InRange(Signed(reg["A"]) - Signed(operand')
                               - Num(~flag["C"]))
    /\ flag'["Z"] <=> reg'["A"] = 0
    /\ flag'["S"] <=> Signed(reg'["A"]) < 0
SubtractionExact == [][SubtractsExactly]_vars

(* CMP, CPX and CPY order the register and the operand as unsigned bytes   *)
(* and change no register: the result of the subtraction is discarded.     *)
ComparesExactly ==
  inst'.op \in {"CMP", "CPX", "CPY"} =>
    /\ flag'["C"] <=> reg[RegisterOf[inst'.op]] >= operand'
    /\ flag'["Z"] <=> reg[RegisterOf[inst'.op]] = operand'
    /\ UNCHANGED <<reg, memory>>
CompareExact == [][ComparesExactly]_vars

\* Where the result of the last operation went.
Result == IF inst.mode = "accumulator" THEN reg["A"]
          ELSE memory[CHOOSE a \in Addresses(inst) : TRUE]

(* ASL and ROL shift the nine bits of carry and byte to the left, and what *)
(* they read is what they overwrite, whichever cell or register it is.     *)
ShiftsLeftExactly ==
  inst'.op \in {"ASL", "ROL"} /\ inst'.mode # "immediate" =>
    LET in == IF inst'.op = "ROL" THEN Num(flag["C"]) ELSE 0
    IN  Result' + 256 * Num(flag'["C"]) = 2 * operand' + in
LeftShiftsExact == [][ShiftsLeftExactly]_vars

(* Page one holds, above S and wrapped at its end, what was pushed and not *)
(* pulled, with nothing in between: the reason why pulls match pushes.     *)
Saved(e)   == IF e.op = "PHA" THEN e.A ELSE _build_flags(e.flag)
StackHolds ==
  \A k \in 1..Len(pushed) :
    /\ LiveCell(k) \in Cells
    /\ memory[LiveCell(k)] = Saved(pushed[Len(pushed) - k + 1])

(* A pull undoes its push: PLA brings back the accumulator and PLP all the *)
(* flags as the push that it matches found them, whatever ran in between,  *)
(* unless that moved the stack or wrote over it.                           *)
PullMatchesPush ==
  Len(pushed) > 0 =>
    LET last == pushed[Len(pushed)]
    IN  /\ inst'.op = "PLA" /\ last.op = "PHA" => reg'["A"] = last.A
        /\ inst'.op = "PLP" /\ last.op = "PHP" => flag' = last.flag
PullRestores == [][PullMatchesPush]_vars

(* Indexing wraps within page zero and the stack within page one: an       *)
(* instruction of these modes writes to no other page.                     *)
WriteStaysInPage ==
  \A a \in Cells : memory'[a] # memory[a] =>
    /\ inst'.mode \in {"zeropage", "zeropage_indexedX"} => a \div 256 = 0
    /\ inst'.op \in {"PHA", "PHP"} => a \div 256 = 1
WritesStayInPage == [][WriteStaysInPage]_vars

------------------------------------------------------------------------------
(* Statements of the repository that the code does not keep.               *)

(* TranslatorCallbacks.cxx:634 and 651, LSR "(logical shift right)" and     *)
(* ROR "(rotate right)": the nine bits of byte and carry move one place to *)
(* the right, and the bit that enters at the left is clear or the carry.   *)
RightShiftsExact ==
  [][inst'.op \in {"LSR", "ROR"} /\ inst'.mode # "immediate" =>
       LET in == IF inst'.op = "ROR" THEN Num(flag["C"]) ELSE 0
       IN  2 * Result' + Num(flag'["C"]) = operand' + 256 * in]_vars
=============================================================================
