------------------------------ MODULE CpuProofs ------------------------------
(***************************************************************************)
(* Theorems about Cpu: that the emitted code keeps bytes bytes, computes   *)
(* sums, differences, comparisons and left shifts exactly, and pulls what  *)
(* it pushed, for every set of instructions, window of memory and initial  *)
(* contents.                                                               *)
(***************************************************************************)
EXTENDS Cpu, TLAPS

------------------------------------------------------------------------------
(* Bytes and their bits.                                                   *)

(* Any set of bits is the set of the bits of a byte: ORA, AND, EOR and     *)
(* _build_flags return bytes.                                              *)
LEMMA ValueOfByte == \A bits : ValueOf(bits) \in Byte
BY DEF ValueOf, Byte

(* Taking bit w out of the sum of the chosen bits finds whether it was     *)
(* chosen; PLP takes out of a byte the flags that PHP put into it.         *)
LEMMA BitsOfValue ==
  ASSUME NEW bits
  PROVE  \A w \in Bit : w \in BitsOf(ValueOf(bits)) <=> w \in bits
<1> DEFINE part(w) == IF w \in bits THEN w ELSE 0
           v == ValueOf(bits)
<1>1. v = part(1) + part(2) + part(4) + part(8)
          + part(16) + part(32) + part(64) + part(128)
  BY DEF ValueOf
<1>2. /\ part(1) \in {0, 1} /\ part(2) \in {0, 2}
      /\ part(4) \in {0, 4} /\ part(8) \in {0, 8}
      /\ part(16) \in {0, 16} /\ part(32) \in {0, 32}
      /\ part(64) \in {0, 64} /\ part(128) \in {0, 128}
  OBVIOUS
<1>3. /\ part(1) = 1 <=> 1 \in bits
      /\ part(2) = 2 <=> 2 \in bits
      /\ part(4) = 4 <=> 4 \in bits
      /\ part(8) = 8 <=> 8 \in bits
      /\ part(16) = 16 <=> 16 \in bits
      /\ part(32) = 32 <=> 32 \in bits
      /\ part(64) = 64 <=> 64 \in bits
      /\ part(128) = 128 <=> 128 \in bits
  OBVIOUS
<1> HIDE DEF part, v
<1>4. v \in Nat
  BY <1>1, <1>2
<1>5. (v \div 1) % 2 = 1 <=> part(1) = 1
  BY <1>1, <1>2, Z3
<1>6. (v \div 2) % 2 = 1 <=> part(2) = 2
  BY <1>1, <1>2, Z3
<1>7. (v \div 4) % 2 = 1 <=> part(4) = 4
  BY <1>1, <1>2, Z3
<1>8. (v \div 8) % 2 = 1 <=> part(8) = 8
  BY <1>1, <1>2, Z3
<1>9. (v \div 16) % 2 = 1 <=> part(16) = 16
  BY <1>1, <1>2, Z3
<1>10. (v \div 32) % 2 = 1 <=> part(32) = 32
  BY <1>1, <1>2, Z3
<1>11. (v \div 64) % 2 = 1 <=> part(64) = 64
  BY <1>1, <1>2, Z3
<1>12. (v \div 128) % 2 = 1 <=> part(128) = 128
  BY <1>1, <1>2, Z3
<1>13. \A w \in Bit : (v \div w) % 2 = 1 <=> w \in bits
  BY <1>3, <1>5, <1>6, <1>7, <1>8, <1>9, <1>10, <1>11, <1>12 DEF Bit
<1> QED
  BY <1>13 DEF v, BitsOf

(* PLP gets back from the stack the flags PHP packed into it.               *)
LEMMA FlagsRoundTrip ==
  ASSUME NEW f \in [Flag -> BOOLEAN]
  PROVE  _decompose_flags(_build_flags(f)) = f
<1> DEFINE bits == {FlagBit[g] : g \in {h \in Flag : f[h]}}
<1>1. \A g \in Flag : FlagBit[g] \in Bit
  BY DEF Flag, FlagBit, Bit
<1>2. \A g, h \in Flag : FlagBit[g] = FlagBit[h] => g = h
  BY DEF Flag, FlagBit
<1>3. \A g \in Flag : FlagBit[g] \in bits <=> f[g]
  BY <1>2
<1>4. \A g \in Flag : FlagBit[g] \in BitsOf(ValueOf(bits)) <=> f[g]
  BY <1>1, <1>3, BitsOfValue
<1>5. _decompose_flags(_build_flags(f))
        = [g \in Flag |-> FlagBit[g] \in BitsOf(ValueOf(bits))]
  BY DEF _decompose_flags, _build_flags
<1>6. [g \in Flag |-> FlagBit[g] \in BitsOf(ValueOf(bits))]
        = [g \in Flag |-> f[g]]
  BY <1>4
<1> QED
  BY <1>5, <1>6

------------------------------------------------------------------------------
(* The operators of Alu on bytes.                                          *)

(* Every result an operation stores is a byte again.                       *)
LEMMA ResultsAreBytes ==
  ASSUME NEW a \in Byte, NEW m \in Byte, NEW c \in BOOLEAN
  PROVE  /\ ORA(a, m) \in Byte /\ AND(a, m) \in Byte /\ EOR(a, m) \in Byte
         /\ ADC(a, m, c).val \in Byte /\ SBC(a, m, c).val \in Byte
         /\ Compare(a, m).val \in Byte
         /\ ASL(m).val \in Byte /\ ROL(m, c).val \in Byte
         /\ LSR(m).val \in Byte /\ ROR(m, c).val \in Byte
         /\ DEC(m) \in Byte /\ INC(m) \in Byte
<1>1. ORA(a, m) \in Byte /\ AND(a, m) \in Byte /\ EOR(a, m) \in Byte
  BY ValueOfByte DEF ORA, AND, EOR
<1>2. ADC(a, m, c).val \in Byte
  BY DEF ADC, Num, Byte
<1>3. SBC(a, m, c).val \in Byte /\ Compare(a, m).val \in Byte
  BY DEF SBC, Compare, Difference, Num, Byte
<1>4. ASL(m).val \in Byte /\ ROL(m, c).val \in Byte
  BY DEF ASL, ROL, Num, Negative, Byte
<1>5. AShr(m) \in Byte
  BY DEF AShr, Negative, Byte
<1>6. LSR(m).val \in Byte /\ ROR(m, c).val \in Byte
  BY <1>5, ValueOfByte DEF LSR, ROR, ORA
<1>7. DEC(m) \in Byte /\ INC(m) \in Byte
  BY DEF DEC, INC, Byte
<1> QED
  BY <1>1, <1>2, <1>3, <1>4, <1>6, <1>7

(* The carries they compute are flags.                                     *)
LEMMA CarriesAreFlags ==
  ASSUME NEW a \in Byte, NEW m \in Byte, NEW c \in BOOLEAN
  PROVE  /\ ADC(a, m, c).C \in BOOLEAN /\ ADC(a, m, c).V \in BOOLEAN
         /\ SBC(a, m, c).C \in BOOLEAN /\ SBC(a, m, c).V \in BOOLEAN
         /\ Compare(a, m).C \in BOOLEAN /\ Compare(a, m).V \in BOOLEAN
         /\ ASL(m).C \in BOOLEAN /\ ROL(m, c).C \in BOOLEAN
         /\ LSR(m).C \in BOOLEAN /\ ROR(m, c).C \in BOOLEAN
BY DEF ADC, SBC, Compare, Difference, Overflow, ASL, ROL, LSR, ROR, Negative

(* _set_z and _set_s change two flags of the eight.                        *)
LEMMA SetZSType ==
  ASSUME NEW f \in [Flag -> BOOLEAN], NEW v \in Byte
  PROVE  SetZS(f, v) \in [Flag -> BOOLEAN]
<1>1. \A x, y \in BOOLEAN :
        [f EXCEPT !["Z"] = x, !["S"] = y] \in [Flag -> BOOLEAN]
  OBVIOUS
<1>2. (v = 0) \in BOOLEAN /\ Negative(v) \in BOOLEAN
  BY DEF Negative
<1> QED
  BY <1>1, <1>2, Zenon DEF SetZS

------------------------------------------------------------------------------
(* Type correctness.                                                       *)

(* An immediate operand is a byte: only the absolute modes take a word.    *)
LEMMA ImmediateIsByte ==
  \A ins \in Instructions : ins.mode = "immediate" => ins.imm \in Byte
<1> SUFFICES ASSUME NEW ins \in Instructions, ins.mode = "immediate"
             PROVE  ins.imm \in Byte
  OBVIOUS
<1>1. PICK b \in Byte : Encodes(b, ins)
  BY InstructionsAssumption
<1> QED
  BY <1>1 DEF Encodes, TwoByteModes

(* What a read callback returns is a byte.                                 *)
LEMMA ReadsBytes ==
  ASSUME TypeOK, NEW ins \in Instructions, InWindow(ins), NEW v \in Read(ins)
  PROVE  v \in Byte
<1>1. \A a \in Addresses(ins) : memory[a] \in Byte
  BY DEF InWindow, TypeOK
<1> QED
  BY <1>1, ImmediateIsByte DEF Read, TypeOK, Register

(* A write callback leaves bytes in registers and memory.                  *)
LEMMA WriteType ==
  ASSUME TypeOK, NEW ins \in Instructions, InWindow(ins), NEW v \in Byte,
         Write(ins, v)
  PROVE  /\ reg' \in [Register -> Byte]
         /\ memory' \in [Cells -> Byte]
         /\ pushed' \in {pushed, <<>>}
BY DEF Write, TypeOK, InWindow

\* What is left to show of an instruction that pushes nothing.
DataType ==
  /\ reg' \in [Register -> Byte]
  /\ flag' \in [Flag -> BOOLEAN]
  /\ memory' \in [Cells -> Byte]
  /\ operand' \in Byte
  /\ pushed' \in {pushed, <<>>}

(* A step that leaves the variables typed as DataType says keeps TypeOK.    *)
LEMMA DataTypeSuffices == TypeOK /\ DataType => TypeOK'
<1> DEFINE Entry == [op: {"PHA", "PHP"}, A: Byte, flag: [Flag -> BOOLEAN]]
<1> SUFFICES ASSUME TypeOK, DataType PROVE TypeOK'
  OBVIOUS
<1>1. pushed \in Seq(Entry) /\ Len(pushed) <= MaxPushed
  BY DEF TypeOK
<1> HIDE DEF Entry
<1>2. <<>> \in Seq(Entry) /\ Len(<<>>) <= MaxPushed
  BY PushedAssumption
<1>3. pushed' \in Seq(Entry) /\ Len(pushed') <= MaxPushed
  BY <1>1, <1>2 DEF DataType
<1> QED
  BY <1>3 DEF TypeOK, DataType, Entry

(* The instructions of the standard form keep bytes bytes.                 *)
LEMMA StandardType ==
  ASSUME TypeOK, NEW ins \in Instructions, InWindow(ins), Standard(ins)
  PROVE  DataType
<1> USE DEF DataType
<1>1. /\ reg \in [Register -> Byte] /\ flag \in [Flag -> BOOLEAN]
      /\ memory \in [Cells -> Byte] /\ operand \in Byte
  BY DEF TypeOK
<1>2. \A r \in Register : reg[r] \in Byte
  BY <1>1
<1>3. flag["C"] \in BOOLEAN
  BY <1>1 DEF Flag
<1>4. "A" \in Register
  BY DEF Register
<1>5. CASE Load(ins)
  <2>1. PICK v \in Read(ins) :
          /\ reg' = [reg EXCEPT ![RegisterOf[ins.op]] = v]
          /\ flag' = SetZS(flag, v)
          /\ operand' = v
    BY <1>5 DEF Load
  <2> QED
    BY <1>1, <1>5, <2>1, ReadsBytes, SetZSType DEF Load
<1>6. CASE Store(ins)
  <2>1. reg[RegisterOf[ins.op]] \in Byte
    BY <1>2, <1>6 DEF Store, RegisterOf, Register
  <2> QED
    BY <1>1, <1>6, <2>1, WriteType DEF Store
<1>7. CASE Logic(ins)
  <2>1. PICK v \in Read(ins), val \in Byte :
          /\ reg' = IF ins.op = "BIT" THEN reg ELSE [reg EXCEPT !["A"] = val]
          /\ flag' = SetZS(flag, val)
          /\ operand' = v
    BY <1>2, <1>4, <1>7, ReadsBytes, ResultsAreBytes DEF Logic
  <2> QED
    BY <1>1, <1>7, <2>1, ReadsBytes, SetZSType DEF Logic
<1>8. CASE Arithmetic(ins)
  <2>1. PICK v \in Read(ins) :
          LET r == IF ins.op = "ADC" THEN ADC(reg["A"], v, flag["C"])
                   ELSE SBC(reg["A"], v, flag["C"])
          IN  /\ reg' = [reg EXCEPT !["A"] = r.val]
              /\ flag' = FlagsOf(r)
              /\ operand' = v
    BY <1>8 DEF Arithmetic
  <2> DEFINE r == IF ins.op = "ADC" THEN ADC(reg["A"], v, flag["C"])
                  ELSE SBC(reg["A"], v, flag["C"])
  <2>2. v \in Byte
    BY ReadsBytes
  <2>3. r.val \in Byte /\ r.C \in BOOLEAN /\ r.V \in BOOLEAN
    BY <1>2, <1>3, <1>4, <2>2, ResultsAreBytes, CarriesAreFlags
  <2>4. /\ reg' = [reg EXCEPT !["A"] = r.val]
        /\ flag' = FlagsOf(r)
        /\ operand' = v
    BY <2>1
  <2> HIDE DEF r
  <2>5. [flag EXCEPT !["C"] = r.C, !["V"] = r.V] \in [Flag -> BOOLEAN]
    BY <1>1, <2>3
  <2> QED
    BY <1>1, <1>8, <2>2, <2>3, <2>4, <2>5, SetZSType DEF Arithmetic, FlagsOf
<1>9. CASE Comparison(ins)
  <2>1. PICK v \in Read(ins) :
          /\ flag' = FlagsOf(Compare(reg[RegisterOf[ins.op]], v))
          /\ operand' = v
    BY <1>9 DEF Comparison
  <2> DEFINE r == Compare(reg[RegisterOf[ins.op]], v)
  <2>2. v \in Byte /\ reg[RegisterOf[ins.op]] \in Byte
    BY <1>2, <1>9, ReadsBytes DEF Comparison, RegisterOf, Register
  <2>3. r.val \in Byte /\ r.C \in BOOLEAN /\ r.V \in BOOLEAN
    BY <2>2, ResultsAreBytes, CarriesAreFlags
  <2> HIDE DEF r
  <2>4. [flag EXCEPT !["C"] = r.C, !["V"] = r.V] \in [Flag -> BOOLEAN]
    BY <1>1, <2>3
  <2> QED
    BY <1>1, <1>9, <2>1, <2>2, <2>3, <2>4, SetZSType
       DEF Comparison, FlagsOf, r
<1>10. CASE Modify(ins)
  <2>1. PICK v \in Read(ins) :
          /\ Write(ins, Modified(ins.op, v).val)
          /\ flag' = SetZS([flag EXCEPT !["C"] = Modified(ins.op, v).C],
                            Modified(ins.op, v).val)
          /\ operand' = v
    BY <1>10 DEF Modify
  <2> DEFINE r == Modified(ins.op, v)
  <2>2. v \in Byte
    BY ReadsBytes
  <2>3. r.val \in Byte /\ r.C \in BOOLEAN
    BY <1>3, <2>2, ResultsAreBytes, CarriesAreFlags DEF Modified
  <2>4. /\ Write(ins, r.val)
        /\ flag' = SetZS([flag EXCEPT !["C"] = r.C], r.val)
        /\ operand' = v
    BY <2>1
  <2> HIDE DEF r
  <2>5. [flag EXCEPT !["C"] = r.C] \in [Flag -> BOOLEAN]
    BY <1>1, <2>3
  <2> QED
    BY <1>1, <2>2, <2>3, <2>4, <2>5, SetZSType, WriteType
<1> QED
  BY <1>5, <1>6, <1>7, <1>8, <1>9, <1>10 DEF Standard

(* So do the transfers, increments and flag instructions.                  *)
LEMMA RegisterType ==
  ASSUME TypeOK, NEW op,
         \/ TransferRegister(op) \/ TXS(op) \/ StepRegister(op)
         \/ ChangeFlag(op) \/ NOP(op)
  PROVE  DataType
<1> USE DEF DataType
<1>1. /\ reg \in [Register -> Byte] /\ flag \in [Flag -> BOOLEAN]
      /\ memory \in [Cells -> Byte] /\ operand \in Byte
  BY DEF TypeOK
<1>2. \A r \in Register : reg[r] \in Byte
  BY <1>1
<1>3. CASE TransferRegister(op)
  <2>1. reg[SourceOf[op]] \in Byte
    BY <1>2, <1>3 DEF TransferRegister, SourceOf, Register
  <2> QED
    BY <1>1, <1>3, <2>1, SetZSType DEF TransferRegister
<1>4. CASE TXS(op)
  BY <1>1, <1>2, <1>4 DEF TXS, Register
<1>5. CASE StepRegister(op)
  <2>1. PICK r \in {"X", "Y"} :
          \E v \in {INC(reg[r]), DEC(reg[r])} :
            reg' = [reg EXCEPT ![r] = v] /\ flag' = SetZS(flag, v)
    BY <1>5 DEF StepRegister
  <2>2. PICK v \in Byte :
          reg' = [reg EXCEPT ![r] = v] /\ flag' = SetZS(flag, v)
    BY <1>2, <2>1, ResultsAreBytes DEF Register
  <2>3. UNCHANGED <<memory, operand, pushed>>
    BY <1>5 DEF StepRegister
  <2> QED
    BY <1>1, <2>2, <2>3, SetZSType
<1>6. CASE ChangeFlag(op)
  <2>1. flag' \in [Flag -> BOOLEAN]
    <3>1. \A b \in BOOLEAN, f \in Flag :
            [flag EXCEPT ![f] = b] \in [Flag -> BOOLEAN]
      BY <1>1
    <3>2. (op \in {"SEC", "SED", "SEI"}) \in BOOLEAN
      OBVIOUS
    <3>3. FlagOf[op] \in Flag
      BY <1>6 DEF ChangeFlag, FlagOf, Flag
    <3> QED
      BY <1>6, <3>1, <3>2, <3>3, Zenon DEF ChangeFlag
  <2> QED
    BY <1>1, <1>6, <2>1 DEF ChangeFlag
<1>7. CASE NOP(op)
  BY <1>1, <1>7 DEF NOP
<1> QED
  BY <1>3, <1>4, <1>5, <1>6, <1>7

(* A push and a pull do, and the history keeps its type and its bound.     *)
LEMMA StackType ==
  ASSUME TypeOK, NEW op, Push(op) \/ Pull(op)
  PROVE  TypeOK'
<1> DEFINE Entry == [op: {"PHA", "PHP"}, A: Byte, flag: [Flag -> BOOLEAN]]
<1>1. /\ reg \in [Register -> Byte] /\ flag \in [Flag -> BOOLEAN]
      /\ memory \in [Cells -> Byte] /\ operand \in Byte
      /\ pushed \in Seq(Entry) /\ Len(pushed) <= MaxPushed
  BY DEF TypeOK
<1>2. reg["A"] \in Byte /\ reg["S"] \in Byte
  BY <1>1 DEF Register
<1>3. INC(reg["S"]) \in Byte /\ DEC(reg["S"]) \in Byte
  BY <1>2, ResultsAreBytes
<1>4. MaxPushed \in Nat
  BY PushedAssumption
<1>5. CASE Push(op)
  <2>1. PICK v \in Byte : memory' = [memory EXCEPT ![PushCell(reg["S"])] = v]
    BY <1>2, <1>5, ValueOfByte DEF Push, _build_flags
  <2>2. reg' \in [Register -> Byte]
    BY <1>1, <1>3, <1>5 DEF Push
  <2>3. [op |-> op, A |-> reg["A"], flag |-> flag] \in Entry
    BY <1>1, <1>2, <1>5 DEF Push
  <2> HIDE DEF Entry
  <2>4. pushed' \in Seq(Entry) /\ Len(pushed') <= MaxPushed
    BY <1>1, <1>4, <1>5, <2>3 DEF Push
  <2> QED
    BY <1>1, <1>5, <2>1, <2>2, <2>4 DEF Push, TypeOK, Entry
<1>6. CASE Pull(op)
  <2> DEFINE v == memory[256 + INC(reg["S"])]
  <2>1. v \in Byte
    BY <1>1, <1>6 DEF Pull
  <2>2. operand' = v /\ memory' = memory
    BY <1>6 DEF Pull
  <2>3. reg' = [reg EXCEPT !["S"] = INC(@), !["A"] = IF op = "PLA" THEN v ELSE @]
    BY <1>6 DEF Pull
  <2>4. flag' = IF op = "PLA" THEN SetZS(flag, v) ELSE _decompose_flags(v)
    BY <1>6 DEF Pull
  <2> HIDE DEF v
  <2>5. reg' \in [Register -> Byte]
    BY <1>1, <1>2, <1>3, <2>1, <2>3
  <2>6. _decompose_flags(v) \in [Flag -> BOOLEAN]
    BY DEF _decompose_flags
  <2>7. flag' \in [Flag -> BOOLEAN]
    BY <1>1, <2>1, <2>4, <2>6, SetZSType
  <2> HIDE DEF Entry
  <2>8. pushed' \in Seq(Entry) /\ Len(pushed') <= MaxPushed
    <3>1. CASE pushed = <<>>
      BY <1>1, <1>6, <3>1 DEF Pull
    <3>2. CASE pushed # <<>>
      <4>1. Len(pushed) - 1 \in 0..Len(pushed)
        BY <1>1, <3>2
      <4>2. pushed' = SubSeq(pushed, 1, Len(pushed) - 1)
        BY <1>6, <3>2 DEF Pull
      <4> QED
        BY <1>1, <1>4, <4>1, <4>2
    <3> QED
      BY <3>1, <3>2
  <2> QED
    BY <2>1, <2>2, <2>5, <2>7, <2>8, <1>1 DEF TypeOK, Entry
<1> QED
  BY <1>5, <1>6

(* Every instruction preserves TypeOK: one case for each action of Execute. *)
LEMMA StepType == TypeOK /\ [Next]_vars => TypeOK'
<1> SUFFICES ASSUME TypeOK, [Next]_vars PROVE TypeOK'
  OBVIOUS
<1>1. CASE UNCHANGED vars
  BY <1>1 DEF vars, TypeOK
<1>2. ASSUME NEW ins \in Instructions, Execute(ins) PROVE TypeOK'
  <2>1. CASE Standard(ins)
    BY <1>2, <2>1, StandardType, DataTypeSuffices DEF Execute
  <2>2. CASE Push(ins.op) \/ Pull(ins.op)
    BY <2>2, StackType
  <2>3. CASE \/ TransferRegister(ins.op) \/ TXS(ins.op)
             \/ StepRegister(ins.op) \/ ChangeFlag(ins.op) \/ NOP(ins.op)
    BY <2>3, RegisterType, DataTypeSuffices
  <2> QED
    BY <1>2, <2>1, <2>2, <2>3 DEF Execute, Unusual
<1> QED
  BY <1>1, <1>2 DEF Next

(* The initial registers, flags and memory are of the right type.           *)
LEMMA InitType == Init => TypeOK
<1> SUFFICES ASSUME Init PROVE TypeOK
  OBVIOUS
<1> DEFINE Entry == [op: {"PHA", "PHP"}, A: Byte, flag: [Flag -> BOOLEAN]]
<1>1. reg \in [Register -> Byte]
  <2>1. PICK r \in [Register \ {"S"} -> InitBytes] :
          reg = [n \in Register |-> IF n = "S" THEN 255 ELSE r[n]]
    BY DEF Init
  <2>2. \A n \in Register \ {"S"} : r[n] \in Byte
    BY <2>1, InitAssumption
  <2>3. 255 \in Byte
    BY DEF Byte
  <2> QED
    BY <2>1, <2>2, <2>3
<1>2. flag \in [Flag -> BOOLEAN] /\ memory \in [Cells -> Byte]
  BY InitAssumption DEF Init
<1> HIDE DEF Entry
<1>3. pushed \in Seq(Entry) /\ Len(pushed) <= MaxPushed
  BY PushedAssumption DEF Init
<1>4. operand \in Byte
  BY DEF Init, Byte
<1> QED
  BY <1>1, <1>2, <1>3, <1>4 DEF TypeOK, Entry

(* Registers, memory and operands are bytes, flags are bits, and the       *)
(* history is bounded, whatever instructions run in whatever order.        *)
THEOREM CpuTypeCorrect == Spec => []TypeOK
<1> QED
  BY InitType, StepType, PTL DEF Spec

------------------------------------------------------------------------------
(* Arithmetic.                                                             *)

(* The nine bits of carry and result are the sum, and V its overflow.      *)
LEMMA ADCExact ==
  ASSUME NEW a \in Byte, NEW m \in Byte, NEW c \in BOOLEAN
  PROVE  /\ ADC(a, m, c).val + 256 * Num(ADC(a, m, c).C) = a + m + Num(c)
         /\ ADC(a, m, c).V <=> ~InRange(Signed(a) + Signed(m) + Num(c))
<1> DEFINE sum == m + a + Num(c)
           val == sum % 256
<1>1. /\ ADC(a, m, c).val = val
      /\ Num(ADC(a, m, c).C) = IF sum > 255 THEN 1 ELSE 0
      /\ ADC(a, m, c).V <=> Overflow(a, m, val)
  BY DEF ADC, Num
<1>2. a \in 0..255 /\ m \in 0..255 /\ Num(c) \in 0..1
  BY DEF Byte, Num
<1>3. val = IF sum > 255 THEN sum - 256 ELSE sum
  BY <1>2
<1> HIDE DEF val
<1>4. ADC(a, m, c).val + 256 * Num(ADC(a, m, c).C) = a + m + Num(c)
  BY <1>1, <1>2, <1>3
<1>5. Overflow(a, m, val) <=> ~InRange(Signed(a) + Signed(m) + Num(c))
  BY <1>2, <1>3 DEF Overflow, InRange, Signed, Negative
<1> QED
  BY <1>1, <1>4, <1>5

(* The byte and the borrow are the difference, and V its overflow.         *)
LEMMA DifferenceExact ==
  ASSUME NEW r \in Byte, NEW m \in Byte, NEW b \in BOOLEAN
  PROVE  /\ Difference(r, m, b).val - 256 * Num(~Difference(r, m, b).C)
              = r - m - Num(b)
         /\ Difference(r, m, b).V
              <=> ~InRange(Signed(r) - Signed(m) - Num(b))
<1> DEFINE d    == Difference(r, m, b)
           n    == r - m - Num(b)
           diff == n % 65536
           val  == diff % 256
<1>1. /\ d.val = val
      /\ Num(~d.C) = IF diff < 256 THEN 0 ELSE 1
      /\ d.V <=> Negative(r) # Negative(val) /\ Negative(r) # Negative(m)
  <2>1. d.val = val
    BY DEF Difference
  <2>2. d.C = (diff < 256)
    BY DEF Difference
  <2>3. d.V = (Negative(r) # Negative(val) /\ Negative(r) # Negative(m))
    BY DEF Difference
  <2> HIDE DEF d, diff, val
  <2>4. Num(~d.C) = IF diff < 256 THEN 0 ELSE 1
    BY <2>2, Zenon DEF Num
  <2>5. d.V <=> Negative(r) # Negative(val) /\ Negative(r) # Negative(m)
    BY <2>3, Zenon
  <2> QED
    BY <2>1, <2>4, <2>5
<1>2. r \in 0..255 /\ m \in 0..255 /\ Num(b) \in 0..1
  BY DEF Byte, Num
<1>3. diff = IF n < 0 THEN n + 65536 ELSE n
  BY <1>2
<1>4. val = IF n < 0 THEN n + 256 ELSE n
  BY <1>2, <1>3
<1> HIDE DEF val, diff
<1>5. d.val - 256 * Num(~d.C) = n
  BY <1>1, <1>2, <1>3, <1>4
<1>6. (Negative(r) # Negative(val) /\ Negative(r) # Negative(m))
        <=> ~InRange(Signed(r) - Signed(m) - Num(b))
  BY <1>2, <1>4 DEF InRange, Signed, Negative
<1> QED
  BY <1>1, <1>5, <1>6

(* _set_z and _set_s say of a byte whether it is zero and negative, and    *)
(* leave the other flags.                                                  *)
LEMMA SetZSExact ==
  ASSUME NEW f \in [Flag -> BOOLEAN], NEW v \in Byte
  PROVE  /\ SetZS(f, v)["Z"] <=> v = 0
         /\ SetZS(f, v)["S"] <=> Signed(v) < 0
         /\ SetZS(f, v)["C"] = f["C"]
         /\ SetZS(f, v)["V"] = f["V"]
<1>1. \A x, y \in BOOLEAN :
        LET g == [f EXCEPT !["Z"] = x, !["S"] = y]
        IN  /\ g["Z"] = x /\ g["S"] = y
            /\ g["C"] = f["C"] /\ g["V"] = f["V"]
  BY DEF Flag
<1>2. (v = 0) \in BOOLEAN /\ Negative(v) \in BOOLEAN
  BY DEF Negative
<1>3. Negative(v) <=> Signed(v) < 0
  BY DEF Negative, Signed, Byte
<1> QED
  BY <1>1, <1>2, <1>3, Zenon DEF SetZS

(* The flags an arithmetic result leaves.                                  *)
LEMMA FlagsOfExact ==
  ASSUME TypeOK, NEW r, r.val \in Byte, r.C \in BOOLEAN, r.V \in BOOLEAN
  PROVE  /\ FlagsOf(r)["Z"] <=> r.val = 0
         /\ FlagsOf(r)["S"] <=> Signed(r.val) < 0
         /\ FlagsOf(r)["C"] = r.C
         /\ FlagsOf(r)["V"] = r.V
<1> DEFINE f == [flag EXCEPT !["C"] = r.C, !["V"] = r.V]
<1>1. f \in [Flag -> BOOLEAN] /\ f["C"] = r.C /\ f["V"] = r.V
  BY DEF TypeOK, Flag
<1> HIDE DEF f
<1>2. FlagsOf(r) = SetZS(f, r.val)
  BY DEF FlagsOf, f
<1> QED
  BY <1>1, <1>2, SetZSExact

------------------------------------------------------------------------------
(* Steps.                                                                  *)

(* The operation of an instruction decides which action executes it.       *)
LEMMA Dispatch ==
  ASSUME NEW ins, Execute(ins)
  PROVE  /\ ins.op \in {"ADC", "SBC"} => Arithmetic(ins)
         /\ ins.op \in {"CMP", "CPX", "CPY"} => Comparison(ins)
         /\ ins.op \in {"ASL", "ROL"} => Modify(ins)
         /\ ins.op \in {"PHA", "PHP"} => Push(ins.op)
         /\ ins.op \in {"PLA", "PLP"} => Pull(ins.op)
<1>1. Load(ins) => ins.op \in {"LDA", "LDX", "LDY"}
  BY DEF Load
<1>2. Store(ins) => ins.op \in {"STA", "STX", "STY"}
  BY DEF Store
<1>3. Logic(ins) => ins.op \in {"ORA", "AND", "EOR", "BIT"}
  BY DEF Logic
<1>4. Arithmetic(ins) => ins.op \in {"ADC", "SBC"}
  BY DEF Arithmetic
<1>5. Comparison(ins) => ins.op \in {"CMP", "CPX", "CPY"}
  BY DEF Comparison
<1>6. Modify(ins) => ins.op \in {"ASL", "ROL", "LSR", "ROR", "DEC", "INC"}
  BY DEF Modify
<1>7. TransferRegister(ins.op) => ins.op \in {"TAX", "TAY", "TXA", "TYA", "TSX"}
  BY DEF TransferRegister
<1>8. /\ TXS(ins.op) => ins.op = "TXS"
      /\ NOP(ins.op) => ins.op = "NOP"
      /\ StepRegister(ins.op) => ins.op \in {"INX", "DEX", "INY", "DEY"}
  BY DEF TXS, NOP, StepRegister
<1>9. ChangeFlag(ins.op)
        => ins.op \in {"SEC", "CLC", "SED", "CLD", "CLV", "SEI", "CLI"}
  BY DEF ChangeFlag
<1>10. /\ Push(ins.op) => ins.op \in {"PHA", "PHP"}
       /\ Pull(ins.op) => ins.op \in {"PLA", "PLP"}
  BY DEF Push, Pull
<1>11. Standard(ins) \/ Unusual(ins.op)
  BY DEF Execute
<1> QED
  BY <1>1, <1>2, <1>3, <1>4, <1>5, <1>6, <1>7, <1>8, <1>9, <1>10, <1>11
     DEF Standard, Unusual

(* ADC and SBC store the sum and the difference of the accumulator and an  *)
(* operand, and its flags.                                                 *)
LEMMA ArithmeticStep ==
  ASSUME TypeOK, NEW ins \in Instructions, InWindow(ins), Arithmetic(ins)
  PROVE  \E r \in {IF ins.op = "ADC" THEN ADC(reg["A"], operand', flag["C"])
                   ELSE SBC(reg["A"], operand', flag["C"])} :
           /\ operand' \in Byte
           /\ reg["A"] \in Byte /\ flag["C"] \in BOOLEAN
           /\ reg'["A"] = r.val
           /\ flag'["C"] = r.C /\ flag'["V"] = r.V
           /\ flag'["Z"] <=> reg'["A"] = 0
           /\ flag'["S"] <=> Signed(reg'["A"]) < 0
<1>1. PICK v \in Read(ins) :
        LET r == IF ins.op = "ADC" THEN ADC(reg["A"], v, flag["C"])
                 ELSE SBC(reg["A"], v, flag["C"])
        IN  /\ reg' = [reg EXCEPT !["A"] = r.val]
            /\ flag' = FlagsOf(r)
            /\ operand' = v
  BY DEF Arithmetic
<1>2. v \in Byte
  BY ReadsBytes
<1>3. reg \in [Register -> Byte] /\ "A" \in Register
  BY DEF TypeOK, Register
<1>4. reg["A"] \in Byte /\ flag["C"] \in BOOLEAN
  BY <1>3 DEF TypeOK, Flag
<1> DEFINE r == IF ins.op = "ADC" THEN ADC(reg["A"], v, flag["C"])
                ELSE SBC(reg["A"], v, flag["C"])
<1>5. r.val \in Byte /\ r.C \in BOOLEAN /\ r.V \in BOOLEAN
  BY <1>2, <1>4, ResultsAreBytes, CarriesAreFlags
<1>6. reg' = [reg EXCEPT !["A"] = r.val] /\ flag' = FlagsOf(r) /\ operand' = v
  BY <1>1
<1>7. r = IF ins.op = "ADC" THEN ADC(reg["A"], operand', flag["C"])
          ELSE SBC(reg["A"], operand', flag["C"])
  BY <1>6
<1> HIDE DEF r
<1>8. reg'["A"] = r.val
  BY <1>3, <1>6
<1>9. /\ flag'["C"] = r.C /\ flag'["V"] = r.V
      /\ flag'["Z"] <=> reg'["A"] = 0
      /\ flag'["S"] <=> Signed(reg'["A"]) < 0
  BY <1>5, <1>6, <1>8, FlagsOfExact
<1> QED
  BY <1>2, <1>4, <1>6, <1>7, <1>8, <1>9

(* Executing ADC stores what ArithmeticStep and ADCExact say it does.       *)
LEMMA AddsStep ==
  ASSUME TypeOK, Next PROVE AddsExactly
<1> SUFFICES ASSUME inst'.op = "ADC"
             PROVE  /\ reg'["A"] + 256 * Num(flag'["C"])
                         = reg["A"] + operand' + Num(flag["C"])
                    /\ flag'["V"] <=> ~InRange(Signed(reg["A"]) + Signed(operand')
                                               + Num(flag["C"]))
                    /\ flag'["Z"] <=> reg'["A"] = 0
                    /\ flag'["S"] <=> Signed(reg'["A"]) < 0
  BY DEF AddsExactly
<1>1. PICK ins \in Instructions : Execute(ins)
  BY DEF Next
<1>2. InWindow(ins) /\ ins.op = "ADC"
  BY <1>1 DEF Execute
<1>3. Arithmetic(ins)
  BY <1>1, <1>2, Dispatch
<1> DEFINE r == ADC(reg["A"], operand', flag["C"])
<1>4. /\ operand' \in Byte
      /\ reg["A"] \in Byte /\ flag["C"] \in BOOLEAN
      /\ reg'["A"] = r.val
      /\ flag'["C"] = r.C /\ flag'["V"] = r.V
      /\ flag'["Z"] <=> reg'["A"] = 0
      /\ flag'["S"] <=> Signed(reg'["A"]) < 0
  BY <1>2, <1>3, ArithmeticStep
<1>5. /\ r.val + 256 * Num(r.C) = reg["A"] + operand' + Num(flag["C"])
      /\ r.V <=> ~InRange(Signed(reg["A"]) + Signed(operand') + Num(flag["C"]))
  BY <1>4, ADCExact
<1> HIDE DEF r
<1> QED
  BY <1>4, <1>5

(* ADC is exact addition, with its carry out and its signed overflow.      *)
THEOREM AdditionCorrect == Spec => AdditionExact
<1>1. TypeOK /\ [Next]_vars => [AddsExactly]_vars
  BY AddsStep
<1> QED
  BY <1>1, CpuTypeCorrect, PTL DEF Spec, AdditionExact

(* Executing SBC stores what ArithmeticStep and DifferenceExact say.        *)
LEMMA SubtractsStep ==
  ASSUME TypeOK, Next PROVE SubtractsExactly
<1> SUFFICES ASSUME inst'.op = "SBC"
             PROVE  /\ reg'["A"] - 256 * Num(~flag'["C"])
                         = reg["A"] - operand' - Num(~flag["C"])
                    /\ flag'["V"] <=> ~InRange(Signed(reg["A"]) - Signed(operand')
                                               - Num(~flag["C"]))
                    /\ flag'["Z"] <=> reg'["A"] = 0
                    /\ flag'["S"] <=> Signed(reg'["A"]) < 0
  BY DEF SubtractsExactly
<1>1. PICK ins \in Instructions : Execute(ins)
  BY DEF Next
<1>2. InWindow(ins) /\ ins.op = "SBC"
  BY <1>1 DEF Execute
<1>3. Arithmetic(ins)
  BY <1>1, <1>2, Dispatch
<1> DEFINE b == ~flag["C"]
           r == Difference(reg["A"], operand', b)
<1>4. /\ operand' \in Byte
      /\ reg["A"] \in Byte /\ flag["C"] \in BOOLEAN
      /\ reg'["A"] = r.val
      /\ flag'["C"] = r.C /\ flag'["V"] = r.V
      /\ flag'["Z"] <=> reg'["A"] = 0
      /\ flag'["S"] <=> Signed(reg'["A"]) < 0
  BY <1>2, <1>3, ArithmeticStep DEF SBC
<1>5. b \in BOOLEAN
  OBVIOUS
<1> HIDE DEF b
<1>6. /\ r.val - 256 * Num(~r.C) = reg["A"] - operand' - Num(b)
      /\ r.V <=> ~InRange(Signed(reg["A"]) - Signed(operand') - Num(b))
  BY <1>4, <1>5, DifferenceExact
<1> HIDE DEF r
<1> QED
  BY <1>4, <1>6 DEF b

(* SBC is exact subtraction, with its borrow and its signed overflow.      *)
THEOREM SubtractionCorrect == Spec => SubtractionExact
<1>1. TypeOK /\ [Next]_vars => [SubtractsExactly]_vars
  BY SubtractsStep
<1> QED
  BY <1>1, CpuTypeCorrect, PTL DEF Spec, SubtractionExact

(* The difference without a borrow orders its operands.                    *)
LEMMA CompareOrders ==
  ASSUME NEW r \in Byte, NEW m \in Byte
  PROVE  /\ Compare(r, m).C <=> r >= m
         /\ Compare(r, m).val = 0 <=> r = m
<1> DEFINE d == Compare(r, m)
<1>1. d.val - 256 * Num(~d.C) = r - m - Num(FALSE)
  <2> DEFINE b == FALSE
  <2>1. b \in BOOLEAN /\ d = Difference(r, m, b)
    BY DEF Compare
  <2> HIDE DEF b, d
  <2>2. d.val - 256 * Num(~d.C) = r - m - Num(b)
    BY <2>1, DifferenceExact
  <2> QED
    BY <2>2 DEF b
<1>2. d.val \in 0..255 /\ r \in 0..255 /\ m \in 0..255
  BY ResultsAreBytes DEF Byte
<1> HIDE DEF d
<1>3. CASE d.C
  BY <1>1, <1>2, <1>3 DEF Num, d
<1>4. CASE ~d.C
  BY <1>1, <1>2, <1>4 DEF Num, d
<1> QED
  BY <1>3, <1>4

(* Executing CMP, CPX or CPY sets C, Z and S from the order of the bytes.   *)
LEMMA ComparesStep ==
  ASSUME TypeOK, Next PROVE ComparesExactly
<1> SUFFICES ASSUME inst'.op \in {"CMP", "CPX", "CPY"}
             PROVE  /\ flag'["C"] <=> reg[RegisterOf[inst'.op]] >= operand'
                    /\ flag'["Z"] <=> reg[RegisterOf[inst'.op]] = operand'
                    /\ UNCHANGED <<reg, memory>>
  BY DEF ComparesExactly
<1>1. PICK ins \in Instructions : Execute(ins)
  BY DEF Next
<1>2. InWindow(ins) /\ inst' = ins
  BY <1>1 DEF Execute
<1>3. Comparison(ins)
  BY <1>1, <1>2, Dispatch
<1>4. PICK v \in Read(ins) :
        flag' = FlagsOf(Compare(reg[RegisterOf[ins.op]], v)) /\ operand' = v
  BY <1>3 DEF Comparison
<1> DEFINE r == reg[RegisterOf[ins.op]]
           d == Compare(r, v)
<1>5. v \in Byte /\ r \in Byte
  BY <1>2, <1>3, ReadsBytes DEF Comparison, RegisterOf, TypeOK, Register
<1> HIDE DEF r
<1>6. d.val \in Byte /\ d.C \in BOOLEAN /\ d.V \in BOOLEAN
  BY <1>5, ResultsAreBytes, CarriesAreFlags
<1>7. (d.C <=> r >= v) /\ (d.val = 0 <=> r = v)
  BY <1>5, CompareOrders
<1>8. flag' = FlagsOf(d)
  BY <1>4 DEF r
<1> HIDE DEF d
<1>9. (flag'["Z"] <=> d.val = 0) /\ flag'["C"] = d.C
  BY <1>6, <1>8, FlagsOfExact
<1> QED
  BY <1>2, <1>3, <1>4, <1>7, <1>9 DEF r, Comparison

(* The comparisons order unsigned bytes and discard the result.            *)
THEOREM CompareCorrect == Spec => CompareExact
<1>1. TypeOK /\ [Next]_vars => [ComparesExactly]_vars
  BY ComparesStep
<1> QED
  BY <1>1, CpuTypeCorrect, PTL DEF Spec, CompareExact

------------------------------------------------------------------------------
(* Shifts to the left.                                                     *)

(* ASL and ROL of a byte, with the carry out as a ninth bit, are doubling.  *)
LEMMA LeftShiftsOfBytes ==
  ASSUME NEW m \in Byte, NEW c \in BOOLEAN
  PROVE  /\ ASL(m).val + 256 * Num(ASL(m).C) = 2 * m
         /\ ROL(m, c).val + 256 * Num(ROL(m, c).C) = 2 * m + Num(c)
<1>1. m \in 0..255 /\ Num(c) \in 0..1
  BY DEF Byte, Num
<1>2. ((2 * m) % 256) + 256 * Num(Negative(m)) = 2 * m
  BY <1>1 DEF Negative, Num
<1> DEFINE low == (2 * m) % 256
<1>3. ASL(m).val = low /\ ROL(m, c).val = low + Num(c)
  BY DEF ASL, ROL
<1>4. ASL(m).C = Negative(m) /\ ROL(m, c).C = Negative(m)
  BY DEF ASL, ROL
<1>5. low \in Int /\ Num(Negative(m)) \in Int
  BY <1>1 DEF Num
<1> HIDE DEF low
<1> QED
  BY <1>1, <1>2, <1>3, <1>4, <1>5 DEF low

(* The shifts have no indirect mode: writing their result cannot move the  *)
(* pointer it is written through.                                          *)
LEMMA ShiftModes ==
  ASSUME NEW ins \in Instructions, ins.op \in {"ASL", "ROL"}
  PROVE  ins.mode \notin {"indirect_zeropage_indexedX",
                         "indirect_zeropage_indexedY"}
<1>1. PICK b \in Byte : Encodes(b, ins)
  BY InstructionsAssumption
<1>2. /\ Mode(b) \in 0..3 /\ AddrMode(b) \in 0..7 /\ Opcode(b) \in 0..7
  BY DEF Mode, AddrMode, Opcode, Byte
<1>3. CASE ins.mode = "implied"
  BY <1>3
<1>4. CASE ins.op = Operation(b) /\ ins.mode = Addressing(b)
  <2>1. Mode(b) = 2
    BY <1>2, <1>4 DEF Operation, opCb, NoCb
  <2>2. Addressing(b) = addrModeCb[3][AddrMode(b) + 1]
    BY <2>1 DEF Addressing
  <2> QED
    BY <1>2, <1>4, <2>2 DEF addrModeCb, NoCb
<1> QED
  BY <1>1, <1>3, <1>4 DEF Encodes

(* Executing ASL or ROL replaces the byte at its operand, and C, as that says.*)
LEMMA ShiftsLeftStep ==
  ASSUME TypeOK, Next PROVE ShiftsLeftExactly
<1> DEFINE in == IF inst'.op = "ROL" THEN Num(flag["C"]) ELSE 0
<1> SUFFICES ASSUME inst'.op \in {"ASL", "ROL"}, inst'.mode # "immediate"
             PROVE  Result' + 256 * Num(flag'["C"]) = 2 * operand' + in
  BY DEF ShiftsLeftExactly
<1>1. PICK ins \in Instructions : Execute(ins)
  BY DEF Next
<1>2. InWindow(ins) /\ inst' = ins
  BY <1>1 DEF Execute
<1>3. Modify(ins)
  BY <1>1, <1>2, Dispatch
<1>4. PICK v \in Read(ins) :
        /\ Write(ins, Modified(ins.op, v).val)
        /\ flag' = SetZS([flag EXCEPT !["C"] = Modified(ins.op, v).C],
                          Modified(ins.op, v).val)
        /\ operand' = v
  BY <1>3 DEF Modify
<1> DEFINE r == Modified(ins.op, v)
<1>5. v \in Byte
  BY <1>2, ReadsBytes
<1>6. flag["C"] \in BOOLEAN
  BY DEF TypeOK, Flag
<1>7. r = IF ins.op = "ROL" THEN ROL(v, flag["C"]) ELSE ASL(v)
  BY <1>2 DEF Modified
<1>8. /\ r.val \in Byte /\ r.C \in BOOLEAN
      /\ r.val + 256 * Num(r.C) = 2 * v + in
  <2>1. v \in 0..255
    BY <1>5 DEF Byte
  <2>2. CASE ins.op = "ROL"
    <3>1. r = ROL(v, flag["C"]) /\ in = Num(flag["C"])
      BY <1>2, <1>7, <2>2
    <3> HIDE DEF r, in
    <3> QED
      BY <1>5, <1>6, <3>1, ResultsAreBytes, CarriesAreFlags, LeftShiftsOfBytes
  <2>3. CASE ins.op = "ASL"
    <3>1. r = ASL(v) /\ in = 0
      BY <1>2, <1>7, <2>3
    <3> HIDE DEF r, in
    <3>2. r.val \in Byte /\ r.C \in BOOLEAN /\ r.val + 256 * Num(r.C) = 2 * v
      BY <1>5, <1>6, <3>1, ResultsAreBytes, CarriesAreFlags,
         LeftShiftsOfBytes, Zenon
    <3> QED
      BY <2>1, <3>1, <3>2
  <2> QED
    BY <1>2, <2>2, <2>3
<1>9. Write(ins, r.val) /\ flag' = SetZS([flag EXCEPT !["C"] = r.C], r.val)
  BY <1>4
<1> HIDE DEF r, in
<1>10. flag'["C"] = r.C
  <2>1. [flag EXCEPT !["C"] = r.C] \in [Flag -> BOOLEAN]
    BY <1>8 DEF TypeOK
  <2>2. [flag EXCEPT !["C"] = r.C]["C"] = r.C
    BY DEF TypeOK, Flag
  <2> QED
    BY <1>8, <1>9, <2>1, <2>2, SetZSExact
<1>11. Result' = r.val
  <2>1. CASE ins.mode = "accumulator"
    <3>1. Addresses(ins) = {}
      BY <2>1 DEF Addresses
    <3>2. reg' = [reg EXCEPT !["A"] = r.val]
      BY <1>9, <2>1, <3>1 DEF Write
    <3> QED
      BY <1>2, <2>1, <3>2 DEF Result, TypeOK, Register
  <2>2. CASE ins.mode # "accumulator"
    <3>1. PICK a \in Addresses(ins) :
            memory' = [memory EXCEPT ![a] = r.val] /\ reg' = reg
      BY <1>2, <1>9, <2>2 DEF Write
    <3>2. Addresses(ins) = {a}
      BY <1>2, <3>1, ShiftModes DEF Addresses
    <3>3. Addresses(inst)' = Addresses(ins)
      BY <1>2, <3>1, ShiftModes DEF Addresses, ZeroPageIndexed
    <3>4. (CHOOSE x \in Addresses(inst) : TRUE)' = a
      BY <3>2, <3>3
    <3>5. a \in Cells
      BY <1>2, <3>1 DEF InWindow
    <3> QED
      BY <1>2, <2>2, <3>1, <3>4, <3>5 DEF Result, TypeOK
  <2> QED
    BY <2>1, <2>2
<1> QED
  BY <1>4, <1>8, <1>10, <1>11

(* ASL and ROL shift nine bits exactly and put them where they found eight *)
(* of them.                                                                *)
THEOREM LeftShiftsCorrect == Spec => LeftShiftsExact
<1>1. TypeOK /\ [Next]_vars => [ShiftsLeftExactly]_vars
  BY ShiftsLeftStep
<1> QED
  BY <1>1, CpuTypeCorrect, PTL DEF Spec, LeftShiftsExact

------------------------------------------------------------------------------
(* Pages of memory.                                                        *)

(* Only the instructions without an operand push.                          *)
LEMMA PushesAreImplied ==
  ASSUME NEW ins \in Instructions, ins.op \in {"PHA", "PHP"}
  PROVE  ins.mode = "implied"
<1>1. PICK b \in Byte : Encodes(b, ins)
  BY InstructionsAssumption
<1>2. Mode(b) \in 0..3 /\ Opcode(b) \in 0..7
  BY DEF Mode, Opcode, Byte
<1>3. ins.op # Operation(b)
  BY <1>2 DEF Operation, opCb, NoCb
<1> QED
  BY <1>1, <1>3 DEF Encodes

(* Page-zero operands are bytes.                                           *)
LEMMA ZeroPageIsByte ==
  ASSUME NEW ins \in Instructions, ins.mode = "zeropage"
  PROVE  ins.imm \in Byte
<1>1. PICK b \in Byte : Encodes(b, ins)
  BY InstructionsAssumption
<1> QED
  BY <1>1 DEF Encodes, TwoByteModes

(* Addresses are integers.                                                  *)
LEMMA WordsAreNumbers == \A n \in Word : n \in Int
BY DEF Word

(* Memory changes by a push or by the write callback.                      *)
LEMMA MemoryChanges ==
  ASSUME NEW ins, Execute(ins), memory' # memory
  PROVE  \/ Push(ins.op)
         \/ \E v : memory' \in {[memory EXCEPT ![a] = v] : a \in Addresses(ins)}
<1>1. CASE Store(ins)
  BY <1>1 DEF Store, Write
<1>2. CASE Modify(ins)
  <2>1. PICK v : Write(ins, v)
    BY <1>2 DEF Modify
  <2> QED
    BY <2>1 DEF Write
<1>3. ~Load(ins) /\ ~Logic(ins) /\ ~Arithmetic(ins) /\ ~Comparison(ins)
  <2>1. ~Load(ins)
    BY DEF Load
  <2>2. ~Logic(ins)
    BY DEF Logic
  <2>3. ~Arithmetic(ins)
    BY DEF Arithmetic
  <2>4. ~Comparison(ins)
    BY DEF Comparison
  <2> QED
    BY <2>1, <2>2, <2>3, <2>4
<1>4. /\ ~TransferRegister(ins.op) /\ ~TXS(ins.op) /\ ~StepRegister(ins.op)
      /\ ~ChangeFlag(ins.op) /\ ~Pull(ins.op) /\ ~NOP(ins.op)
  <2>1. ~TransferRegister(ins.op) /\ ~TXS(ins.op) /\ ~NOP(ins.op)
    BY DEF TransferRegister, TXS, NOP
  <2>2. ~StepRegister(ins.op) /\ ~ChangeFlag(ins.op)
    BY DEF StepRegister, ChangeFlag
  <2>3. ~Pull(ins.op)
    BY DEF Pull
  <2> QED
    BY <2>1, <2>2, <2>3
<1> QED
  BY <1>1, <1>2, <1>3, <1>4 DEF Execute, Standard, Unusual

(* A zero-page store or a push writes inside its page.                      *)
LEMMA WriteStaysStep ==
  ASSUME TypeOK, Next PROVE WriteStaysInPage
<1> SUFFICES ASSUME NEW a \in Cells, memory'[a] # memory[a]
             PROVE  /\ inst'.mode \in {"zeropage", "zeropage_indexedX"}
                         => a \div 256 = 0
                    /\ inst'.op \in {"PHA", "PHP"} => a \div 256 = 1
  BY DEF WriteStaysInPage
<1>1. PICK ins \in Instructions : Execute(ins)
  BY DEF Next
<1>2. inst' = ins
  BY <1>1 DEF Execute
<1>3. memory \in [Cells -> Byte] /\ reg["S"] \in Byte /\ reg["X"] \in Byte
  BY DEF TypeOK, Register
<1>4. ASSUME ins.mode \in {"zeropage", "zeropage_indexedX"}
      PROVE  a \div 256 = 0
  <2>1. ~Push(ins.op)
    BY <1>4, PushesAreImplied DEF Push
  <2>2. PICK c \in Addresses(ins) :
          \E v : memory' = [memory EXCEPT ![c] = v]
    BY <1>1, <2>1, MemoryChanges
  <2>3. a = c
    BY <1>3, <2>2
  <2>4. a \in Byte
    <3>1. CASE ins.mode = "zeropage"
      BY <2>3, <3>1, ZeroPageIsByte DEF Addresses
    <3>2. CASE ins.mode = "zeropage_indexedX"
      <4>1. a = (ins.imm + reg["X"]) % 256
        BY <2>3, <3>2 DEF Addresses, ZeroPageIndexed
      <4>2. ins.imm \in Int
        <5>1. PICK b \in Byte : Encodes(b, ins)
          BY InstructionsAssumption
        <5>2. ins.imm \in Word \/ ins.imm = 0
          BY <5>1 DEF Encodes
        <5> QED
          BY <5>2, WordsAreNumbers
      <4>3. ins.imm + reg["X"] \in Int
        BY <1>3, <4>2 DEF Byte
      <4>4. \A n \in Int : n % 256 \in Byte
        BY DEF Byte
      <4> QED
        BY <4>1, <4>3, <4>4
    <3> QED
      BY <1>4, <3>1, <3>2
  <2> QED
    BY <2>4 DEF Byte
<1>5. ASSUME ins.op \in {"PHA", "PHP"}
      PROVE  a \div 256 = 1
  <2>1. Push(ins.op)
    BY <1>1, <1>5, Dispatch
  <2>2. a = 256 + reg["S"]
    BY <1>3, <2>1 DEF Push, PushCell
  <2> QED
    BY <1>3, <2>2 DEF Byte
<1> QED
  BY <1>2, <1>4, <1>5

(* An indexed page-zero store stays in page zero, and a push in page one.  *)
THEOREM PagesCorrect == Spec => WritesStayInPage
<1>1. TypeOK /\ [Next]_vars => [WriteStaysInPage]_vars
  BY WriteStaysStep
<1> QED
  BY <1>1, CpuTypeCorrect, PTL DEF Spec, WritesStayInPage

------------------------------------------------------------------------------
(* The stack.                                                              *)

(* Where the live cells are after S was decremented and incremented.       *)
LEMMA StackPointerSteps ==
  ASSUME NEW s \in Byte, NEW k \in Nat
  PROVE  /\ (INC(s) + k) % 256 = (s + (k + 1)) % 256
         /\ (DEC(s) + (k + 1)) % 256 = (s + k) % 256
<1>1. s \in 0..255
  BY DEF Byte
<1>2. INC(s) = IF s = 255 THEN 0 ELSE s + 1
  BY <1>1 DEF INC
<1>3. DEC(s) = IF s = 0 THEN 255 ELSE s - 1
  BY <1>1 DEF DEC
<1>4. \A n \in Nat : (n + 256) % 256 = n % 256
  OBVIOUS
<1>5. (INC(s) + k) % 256 = (s + (k + 1)) % 256
  <2>1. CASE s = 255
    BY <1>2, <1>4, <2>1
  <2>2. CASE s # 255
    BY <1>1, <1>2, <2>2
  <2> QED
    BY <2>1, <2>2
<1>6. (DEC(s) + (k + 1)) % 256 = (s + k) % 256
  <2>1. CASE s = 0
    BY <1>3, <1>4, <2>1
  <2>2. CASE s # 0
    BY <1>1, <1>3, <2>2
  <2> QED
    BY <2>1, <2>2
<1> QED
  BY <1>5, <1>6

(* The cell a push writes to is not live while less than a page is.        *)
LEMMA PushCellIsFree ==
  ASSUME NEW s \in Byte, NEW k \in 1..255
  PROVE  (s + k) % 256 # s
<1>1. s \in 0..255
  BY DEF Byte
<1>2. (s + k) % 256 = IF s + k > 255 THEN s + k - 256 ELSE s + k
  BY <1>1
<1> QED
  BY <1>1, <1>2

\* A step that leaves the stack where it is, and its live cells alone.
StackKept ==
  /\ pushed' = pushed
  /\ reg'["S"] = reg["S"]
  /\ \A k \in 1..Len(pushed) : memory'[LiveCell(k)] = memory[LiveCell(k)]

(* A step that keeps S, the history and the live cells keeps StackHolds.    *)
LEMMA KeptHolds ==
  ASSUME StackHolds, StackKept \/ pushed' = <<>>
  PROVE  StackHolds'
<1>1. CASE pushed' = <<>>
  BY <1>1 DEF StackHolds
<1>2. CASE StackKept
  <2>1. \A k : LiveCell(k)' = LiveCell(k)
    BY <1>2 DEF StackKept, LiveCell
  <2> QED
    BY <1>2, <2>1 DEF StackKept, StackHolds
<1> QED
  BY <1>1, <1>2

(* A write callback ends the history where it hits a live cell.            *)
LEMMA WriteKeeps ==
  ASSUME TypeOK, NEW ins, NEW v, Write(ins, v)
  PROVE  StackKept \/ pushed' = <<>>
<1>1. reg \in [Register -> Byte] /\ memory \in [Cells -> Byte]
  BY DEF TypeOK
<1>2. CASE reg' = reg /\ memory' = memory /\ pushed' = pushed
  BY <1>2 DEF StackKept
<1>3. CASE /\ reg' = [reg EXCEPT !["A"] = v]
           /\ memory' = memory /\ pushed' = pushed
  BY <1>1, <1>3 DEF StackKept, Register
<1>4. ASSUME NEW a \in Addresses(ins),
             memory' = [memory EXCEPT ![a] = v],
             pushed' = IF a \in LiveCells THEN <<>> ELSE pushed,
             reg' = reg
      PROVE  StackKept \/ pushed' = <<>>
  <2>1. CASE a \in LiveCells
    BY <1>4, <2>1
  <2>2. CASE a \notin LiveCells
    <3>1. \A k \in 1..Len(pushed) : LiveCell(k) # a
      BY <2>2 DEF LiveCells
    <3>2. \A c : c # a => memory'[c] = memory[c]
      BY <1>1, <1>4
    <3> QED
      BY <1>4, <2>2, <3>1, <3>2 DEF StackKept
  <2> QED
    BY <2>1, <2>2
<1> QED
  BY <1>2, <1>3, <1>4 DEF Write

(* Nothing but a push and a pull moves S and keeps the history.            *)
LEMMA OthersKeep ==
  ASSUME TypeOK, NEW ins, Execute(ins), ~Push(ins.op), ~Pull(ins.op)
  PROVE  StackKept \/ pushed' = <<>>
<1>1. reg \in [Register -> Byte]
  BY DEF TypeOK
<1> DEFINE Data == memory' = memory /\ pushed' = pushed
<1>2. Data /\ reg'["S"] = reg["S"] => StackKept
  BY DEF StackKept
<1> HIDE DEF Data
<1>3. CASE Load(ins)
  <2>1. RegisterOf[ins.op] \in {"A", "X", "Y"} /\ Data
    BY <1>3 DEF Load, RegisterOf, Data
  <2>2. PICK v : reg' = [reg EXCEPT ![RegisterOf[ins.op]] = v]
    BY <1>3 DEF Load
  <2> QED
    BY <1>1, <1>2, <2>1, <2>2 DEF Register
<1>4. CASE Store(ins)
  BY <1>4, WriteKeeps DEF Store
<1>5. CASE Logic(ins)
  <2>1. PICK v : reg' \in {reg, [reg EXCEPT !["A"] = v]}
    BY <1>5 DEF Logic
  <2> QED
    BY <1>1, <1>2, <1>5, <2>1 DEF Register, Logic, Data
<1>6. CASE Arithmetic(ins)
  <2>1. PICK v : reg' = [reg EXCEPT !["A"] = v]
    BY <1>6 DEF Arithmetic
  <2>2. Data
    BY <1>6 DEF Arithmetic, Data
  <2> QED
    BY <1>1, <1>2, <2>1, <2>2 DEF Register
<1>7. CASE Comparison(ins)
  BY <1>2, <1>7 DEF Comparison, Data
<1>8. CASE Modify(ins)
  BY <1>8, WriteKeeps DEF Modify
<1>9. CASE TransferRegister(ins.op)
  <2>1. TargetOf[ins.op] \in {"A", "X", "Y"} /\ Data
    BY <1>9 DEF TransferRegister, TargetOf, Data
  <2>2. reg' = [reg EXCEPT ![TargetOf[ins.op]] = reg[SourceOf[ins.op]]]
    BY <1>9 DEF TransferRegister
  <2> QED
    BY <1>1, <1>2, <2>1, <2>2 DEF Register
<1>10. CASE TXS(ins.op)
  BY <1>10 DEF TXS
<1>11. CASE StepRegister(ins.op)
  <2>1. PICK n \in {"X", "Y"} : \E v : reg' = [reg EXCEPT ![n] = v]
    BY <1>11 DEF StepRegister
  <2>2. Data
    BY <1>11 DEF StepRegister, Data
  <2> QED
    BY <1>1, <1>2, <2>1, <2>2 DEF Register
<1>12. CASE ChangeFlag(ins.op)
  BY <1>2, <1>12 DEF ChangeFlag, Data
<1>13. CASE NOP(ins.op)
  BY <1>2, <1>13 DEF NOP, Data
<1> QED
  BY <1>3, <1>4, <1>5, <1>6, <1>7, <1>8, <1>9, <1>10, <1>11, <1>12, <1>13
     DEF Execute, Standard, Unusual

(* PHA and PHP add one live cell and leave the others as they were.         *)
LEMMA PushHolds ==
  ASSUME TypeOK, StackHolds, NEW op, Push(op)
  PROVE  StackHolds'
<1> DEFINE s == reg["S"]
           n == Len(pushed)
           e == [op |-> op, A |-> reg["A"], flag |-> flag]
<1>1. /\ reg \in [Register -> Byte] /\ memory \in [Cells -> Byte]
      /\ n \in Nat /\ s \in Byte
  BY DEF TypeOK, Register
<1>2. n \in 0..255
  <2>1. n < MaxPushed
    BY DEF Push
  <2>2. MaxPushed \in Int /\ MaxPushed <= 256
    BY PushedAssumption
  <2> HIDE DEF n
  <2> QED
    BY <1>1, <2>1, <2>2
<1>3. reg'["S"] = DEC(s)
  BY <1>1 DEF Push, Register
<1>4. /\ Len(pushed') = n + 1
      /\ pushed'[n + 1] = e
      /\ \A k \in 1..n : pushed'[k] = pushed[k]
  BY DEF Push, TypeOK
<1>5. /\ 256 + s \in Cells
      /\ memory' = [memory EXCEPT ![256 + s] = Saved(e)]
  BY DEF Push, PushCell, Saved
<1>6. \A j \in Nat : LiveCell(j + 1)' = 256 + ((s + j) % 256)
  BY <1>1, <1>3, StackPointerSteps DEF LiveCell
<1> SUFFICES ASSUME NEW k \in 1..(n + 1)
             PROVE  /\ LiveCell(k)' \in Cells
                    /\ memory'[LiveCell(k)'] = Saved(pushed'[n + 1 - k + 1])
  BY <1>4 DEF StackHolds, Saved
<1> HIDE DEF e, s, n
<1>7. CASE k = 1
  <2>1. LiveCell(1)' = 256 + s
    <3>1. s \in 0..255
      BY <1>1 DEF Byte
    <3>2. LiveCell(0 + 1)' = 256 + ((s + 0) % 256)
      BY <1>6
    <3> QED
      BY <3>1, <3>2
  <2>2. n + 1 - k + 1 = n + 1
    BY <1>1, <1>7
  <2> QED
    BY <1>1, <1>4, <1>5, <1>7, <2>1, <2>2
<1>8. CASE k # 1
  <2> DEFINE j == k - 1
  <2>1. j \in 1..n /\ j \in 1..255 /\ j \in Nat /\ k = j + 1
    BY <1>1, <1>2, <1>8
  <2>2. n + 1 - k + 1 = n - j + 1 /\ n - j + 1 \in 1..n
    BY <1>1, <2>1
  <2> HIDE DEF j
  <2>3. LiveCell(k)' = LiveCell(j)
    BY <1>6, <2>1 DEF LiveCell, s
  <2>4. LiveCell(j) # 256 + s
    <3>1. (s + j) % 256 # s
      BY <1>1, <2>1, PushCellIsFree
    <3>2. s \in Int /\ (s + j) % 256 \in Int
      BY <1>1, <2>1 DEF Byte
    <3> QED
      BY <3>1, <3>2 DEF LiveCell, s
  <2>5. LiveCell(j) \in Cells /\ memory[LiveCell(j)] = Saved(pushed[n - j + 1])
    BY <2>1 DEF StackHolds, n
  <2> QED
    BY <1>1, <1>4, <1>5, <2>2, <2>3, <2>4, <2>5
<1> QED
  BY <1>7, <1>8

(* PLA and PLP take the top live cell away and leave the others.            *)
LEMMA PullHolds ==
  ASSUME TypeOK, StackHolds, NEW op, Pull(op)
  PROVE  StackHolds'
<1>1. CASE pushed = <<>>
  BY <1>1 DEF Pull, StackHolds
<1>2. CASE pushed # <<>>
  <2> DEFINE s == reg["S"]
             n == Len(pushed)
  <2>1. reg \in [Register -> Byte] /\ n \in Nat \ {0} /\ s \in Byte
    BY <1>2 DEF TypeOK, Register
  <2>2. reg'["S"] = INC(s) /\ memory' = memory
    BY <2>1 DEF Pull, Register
  <2>3. Len(pushed') = n - 1 /\ \A k \in 1..(n - 1) : pushed'[k] = pushed[k]
    <3>1. pushed' = SubSeq(pushed, 1, n - 1)
      BY <1>2 DEF Pull
    <3>2. PICK Entry : pushed \in Seq(Entry)
      BY DEF TypeOK
    <3>3. n - 1 \in 0..Len(pushed)
      BY <2>1
    <3>4. \A k \in 1..(n - 1) : SubSeq(pushed, 1, n - 1)[k] = pushed[k]
      BY <3>2, <3>3
    <3>5. Len(SubSeq(pushed, 1, n - 1)) = n - 1
      <4>1. n - 1 \in Int /\ 1 <= n
        BY <2>1
      <4>2. CASE n = 1
        BY <3>2, <4>2
      <4>3. CASE n # 1
        <5>1. 1 <= n - 1 /\ n - 1 <= Len(pushed) /\ (n - 1) - 1 + 1 = n - 1
          BY <4>1, <4>3
        <5> HIDE DEF n
        <5> QED
          BY <3>2, <4>1, <5>1
      <4> QED
        BY <4>2, <4>3
    <3> QED
      BY <3>1, <3>4, <3>5
  <2>4. \A j \in Nat : LiveCell(j)' = LiveCell(j + 1)
    BY <2>1, <2>2, StackPointerSteps DEF LiveCell
  <2> SUFFICES ASSUME NEW k \in 1..(n - 1)
               PROVE  /\ LiveCell(k)' \in Cells
                      /\ memory'[LiveCell(k)'] = Saved(pushed'[n - 1 - k + 1])
    BY <2>3 DEF StackHolds, Saved
  <2>5. /\ k \in Nat /\ k + 1 \in 1..n
        /\ n - 1 - k + 1 = n - (k + 1) + 1 /\ n - 1 - k + 1 \in 1..(n - 1)
    BY <2>1
  <2>6. /\ LiveCell(k + 1) \in Cells
        /\ memory[LiveCell(k + 1)] = Saved(pushed[n - (k + 1) + 1])
    BY <2>5 DEF StackHolds
  <2> HIDE DEF n, s
  <2> QED
    BY <2>2, <2>3, <2>4, <2>5, <2>6
<1> QED
  BY <1>1, <1>2

(* Every instruction preserves StackHolds.                                  *)
LEMMA StackStep == TypeOK /\ StackHolds /\ [Next]_vars => StackHolds'
<1> SUFFICES ASSUME TypeOK, StackHolds, [Next]_vars PROVE StackHolds'
  OBVIOUS
<1>1. CASE UNCHANGED vars
  <2>1. StackKept
    BY <1>1 DEF vars, StackKept
  <2> QED
    BY <2>1, KeptHolds
<1>2. ASSUME NEW ins \in Instructions, Execute(ins) PROVE StackHolds'
  <2>1. CASE Push(ins.op)
    BY <2>1, PushHolds
  <2>2. CASE Pull(ins.op)
    BY <2>2, PullHolds
  <2>3. CASE ~Push(ins.op) /\ ~Pull(ins.op)
    BY <1>2, <2>3, OthersKeep, KeptHolds
  <2> QED
    BY <2>1, <2>2, <2>3
<1> QED
  BY <1>1, <1>2 DEF Next

(* What was pushed and not pulled is in page one above S, where pulls look *)
(* for it, through every wrap of S.                                        *)
THEOREM StackCorrect == Spec => []StackHolds
<1>1. Init => StackHolds
  BY DEF Init, StackHolds
<1> QED
  BY <1>1, StackStep, CpuTypeCorrect, PTL DEF Spec

(* With StackHolds before it, a pull loads what the matching push stored.   *)
LEMMA PullMatchesStep ==
  ASSUME TypeOK, StackHolds, Next PROVE PullMatchesPush
<1> DEFINE n    == Len(pushed)
           last == pushed[n]
           top  == 256 + INC(reg["S"])
<1> SUFFICES ASSUME n > 0
             PROVE  /\ inst'.op = "PLA" /\ last.op = "PHA" => reg'["A"] = last.A
                    /\ inst'.op = "PLP" /\ last.op = "PHP" => flag' = last.flag
  BY DEF PullMatchesPush
<1>1. PICK ins \in Instructions : Execute(ins)
  BY DEF Next
<1>2. inst' = ins
  BY <1>1 DEF Execute
<1>3. n \in Nat /\ reg \in [Register -> Byte] /\ last.flag \in [Flag -> BOOLEAN]
  <2> DEFINE Entry == [op: {"PHA", "PHP"}, A: Byte, flag: [Flag -> BOOLEAN]]
  <2>1. pushed \in Seq(Entry)
    BY DEF TypeOK
  <2> HIDE DEF Entry
  <2>2. n \in Nat /\ last \in Entry
    BY <2>1
  <2>3. last.flag \in [Flag -> BOOLEAN]
    BY <2>2 DEF Entry
  <2> QED
    BY <2>2, <2>3 DEF TypeOK
<1>4. memory[top] = Saved(last)
  <2>1. 1 \in 1..n /\ n - 1 + 1 = n
    BY <1>3
  <2>2. LiveCell(1) = top
    BY DEF LiveCell, INC
  <2> QED
    BY <2>1, <2>2 DEF StackHolds
<1>5. ASSUME Pull(ins.op)
      PROVE  /\ ins.op = "PLA" => reg'["A"] = memory[top]
             /\ ins.op = "PLP" => flag' = _decompose_flags(memory[top])
  BY <1>3, <1>5 DEF Pull, Register
<1>6. ASSUME inst'.op = "PLA", last.op = "PHA" PROVE reg'["A"] = last.A
  BY <1>1, <1>2, <1>4, <1>5, <1>6, Dispatch DEF Saved
<1>7. ASSUME inst'.op = "PLP", last.op = "PHP" PROVE flag' = last.flag
  BY <1>1, <1>2, <1>3, <1>4, <1>5, <1>7, Dispatch, FlagsRoundTrip DEF Saved
<1> QED
  BY <1>6, <1>7

(* PLA undoes PHA and PLP undoes PHP.                                      *)
THEOREM PullsCorrect == Spec => PullRestores
<1>1. TypeOK /\ StackHolds /\ [Next]_vars => [PullMatchesPush]_vars
  BY PullMatchesStep
<1> QED
  BY <1>1, CpuTypeCorrect, StackCorrect, PTL DEF Spec, PullRestores
==============================================================================
