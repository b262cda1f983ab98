--------------------------- MODULE TranslatorProofs ---------------------------
(***************************************************************************)
(* Proofs about Translator, for every set of files, every size of the      *)
(* address space and every origin.                                         *)
(***************************************************************************)
EXTENDS Translator, SequenceTheorems, TLAPS

------------------------------------------------------------------------------
(* The tables.                                                             *)

(* ppCb has one of four entries for every byte, and gives each kind of     *)
(* control transfer of uuCb the first-pass callback made for it: a jump    *)
(* the first pass has not labelled is a position, never an opcode.         *)
LEMMA TablesAgree ==
  ASSUME NEW b \in Byte
  PROVE  /\ ppCb[b] \in {NoCb, "mklb0", "mklb1", "mklb2"}
         /\ uuCb[b] = "RTS" <=> ppCb[b] = "mklb0"
         /\ uuCb[b] = "bra" <=> ppCb[b] = "mklb1"
         /\ uuCb[b] \in {"jump", "JSR"} <=> ppCb[b] = "mklb2"
  <1> USE DEF Byte, Row, Column, ColumnX0, ColumnX8, ColumnXA, NoCb
  <1>1. ppCb[b] \in {NoCb, "mklb0", "mklb1", "mklb2"}
    BY DEF ppCb
  <1>2. uuCb[b] = "RTS" <=> ppCb[b] = "mklb0"
    BY SMTT(60) DEF uuCb, ppCb
  <1>3. uuCb[b] = "bra" <=> ppCb[b] = "mklb1"
    BY SMTT(60) DEF uuCb, ppCb
  <1>4. uuCb[b] \in {"jump", "JSR"} <=> ppCb[b] = "mklb2"
    BY SMTT(60) DEF uuCb, ppCb
  <1> QED BY <1>1, <1>2, <1>3, <1>4

\* An instruction of the standard form has no first-pass callback.
LEMMA StandardHasNoCallback ==
  ASSUME NEW b \in Byte, IsStandard(b)
  PROVE  ppCb[b] = NoCb
  BY TablesAgree DEF IsStandard, NoCb

\* The NOP at the end of the buffer is no standard instruction.
LEMMA SentinelIsImplied == ~IsStandard(\hEA)
  BY DEF IsStandard, uuCb, Byte, Row, Column, ColumnXA, NoCb

\* sizeArr advances the first pass by one, two or three.
LEMMA SizeInRange ==
  ASSUME NEW b \in Byte
  PROVE  sizeArr[b] \in 1..3
  <1>1. Row(b) \in 0..15 /\ Column(b) \in 0..15
    BY DEF Byte, Row, Column
  <1>2. \A c \in 0..15 : EvenRowSizes[c + 1] \in 1..3
    BY DEF EvenRowSizes
  <1>3. \A c \in 0..15 : OddRowSizes[c + 1] \in 1..3
    BY DEF OddRowSizes
  <1> QED BY <1>1, <1>2, <1>3 DEF sizeArr

(* The size table is right about the instructions with a two-byte operand, *)
(* the only ones that could run out of the buffer.                         *)
LEMMA TwoByteSize ==
  ASSUME NEW b \in Byte, OperandBytes(b) = 2
  PROVE  sizeArr[b] = 3
  <1>1. Mode(b) \in 0..3 /\ AddrMode(b) \in 0..7
    BY DEF Byte, Mode, AddrMode
  <1>2. Addressing(b) \in TwoByteModes
    BY DEF OperandBytes
  <1>3. \/ AddrMode(b) \in {3, 7} /\ Mode(b) # 3
        \/ AddrMode(b) = 6 /\ Mode(b) = 1
    BY <1>1, <1>2 DEF Addressing, addrModeCb, TwoByteModes, NoCb
  <1>4. Column(b) \in {12, 13, 14} \/ (Column(b) = 9 /\ Row(b) % 2 = 1)
    BY <1>3 DEF Mode, AddrMode, Column, Row, Byte
  <1> QED BY <1>1, <1>4, SMTT(60)
          DEF sizeArr, EvenRowSizes, OddRowSizes, Byte, Column, Row

\* No instruction takes more than two operand bytes.
LEMMA OperandRange == ASSUME NEW b PROVE OperandBytes(b) \in {0, 1, 2}
  BY DEF OperandBytes

\* What the tables name is an operation.
LEMMA OperationNamed ==
  ASSUME NEW b \in Byte
  PROVE  Operation(b) \in Operations /\ uuCb[b] \in Operations
  <1>1. Mode(b) + 1 \in 1..4 /\ Opcode(b) + 1 \in 1..8
    BY DEF Byte, Mode, Opcode
  <1>2. Operation(b) \in StandardOps
    BY <1>1 DEF Operation, StandardOps
  <1>3. uuCb[b] \in UnusualOps
    BY DEF UnusualOps
  <1> QED BY <1>2, <1>3 DEF Operations

------------------------------------------------------------------------------
(* The buffer.                                                             *)

\* Labelling changes the labels of ps and the destination at i, no more.
LEMMA LabelledKeeps ==
  ASSUME buf \in Seq(IData), NEW ps, NEW target \in {0} \cup 1..Len(buf)
  PROVE  /\ Labelled(ps, target) \in Seq(IData)
         /\ Len(Labelled(ps, target)) = Len(buf)
         /\ \A p \in 1..Len(buf) :
              /\ Labelled(ps, target)[p].addr = buf[p].addr
              /\ Labelled(ps, target)[p].byte = buf[p].byte
              /\ Labelled(ps, target)[p].label =
                   IF p \in ps THEN buf[p].addr ELSE buf[p].label
              /\ Labelled(ps, target)[p].dst =
                   IF p = i /\ target # 0 THEN buf[target].addr ELSE buf[p].dst
  <1> DEFINE L == Labelled(ps, target)
  <1>1. Len(buf) \in Nat /\ \A p \in 1..Len(buf) : buf[p] \in IData
    OBVIOUS
  <1>2. target # 0 => buf[target].addr \in Label
    BY <1>1 DEF IData, Label, Addr
  <1>3. ASSUME NEW p \in 1..Len(buf)
        PROVE  /\ L[p] \in IData
               /\ L[p].addr = buf[p].addr
               /\ L[p].byte = buf[p].byte
               /\ L[p].label = IF p \in ps THEN buf[p].addr ELSE buf[p].label
               /\ L[p].dst = IF p = i /\ target # 0 THEN buf[target].addr
                             ELSE buf[p].dst
    BY <1>1, <1>2 DEF Labelled, SrcLabel, IData, Label
  <1>4. L = [p \in 1..Len(buf) |-> L[p]] /\ L \in [1..Len(buf) -> IData]
    BY <1>3 DEF Labelled
  <1>5. L \in Seq(IData) /\ Len(L) = Len(buf)
    BY <1>1, <1>4, SeqDef
  <1> QED BY <1>3, <1>5

\* A loaded file is a buffer of IData without labels that ends in a NOP.
LEMMA LoadIsBuffer ==
  ASSUME NEW image \in Images
  PROVE  /\ Load(image) \in Seq(IData)
         /\ Len(Load(image)) = Len(image) + 1
         /\ Len(image) \in Nat
         /\ \A p \in 1..Len(Load(image)) : Load(image)[p].label = NoLabel
         /\ Load(image)[Len(image) + 1].byte = \hEA
  <1>1. Len(image) \in Nat /\ \A p \in 1..Len(image) : image[p] \in Byte
    BY ImagesAssumption
  <1>2. ASSUME NEW n \in Int PROVE n % AddrSpace \in Addr
    BY AddrSpaceAssumption DEF Addr
  <1>3. ASSUME NEW p \in 1..(Len(image) + 1)
        PROVE  Load(image)[p] \in IData /\ Load(image)[p].label = NoLabel
    <2>1. Origin + p - 1 \in Int /\ Origin + Len(image) + 1 \in Int
      BY <1>1, OriginAssumption
    <2>2. /\ (Origin + p - 1) % AddrSpace \in Addr
          /\ (Origin + Len(image) + 1) % AddrSpace \in Addr
      BY <1>2, <2>1
    <2> QED BY <1>1, <2>2 DEF Load, IData, Label, Byte
  <1>4. Load(image) \in [1..(Len(image) + 1) -> IData]
    BY <1>3 DEF Load
  <1>5. Load(image) \in Seq(IData) /\ Len(Load(image)) = Len(image) + 1
    BY <1>1, <1>4, SeqDef
  <1>6. Load(image)[Len(image) + 1].byte = \hEA
    BY <1>1 DEF Load
  <1> QED BY <1>1, <1>3, <1>5, <1>6

------------------------------------------------------------------------------
(* Type correctness.                                                       *)

(* The program starts in well-typed states.  Type correctness is inductive *)
(* only together with the bound of the second pass, which keeps it on      *)
(* bytes of the buffer.                                                    *)
LEMMA InitTypeOK == Init => TypeOK /\ SecondPassInBounds
  <1> SUFFICES ASSUME Init PROVE TypeOK /\ SecondPassInBounds
    OBVIOUS
  <1>1. PICK image \in Images : buf = Load(image)
    BY DEF Init
  <1>2. buf \in Seq(IData)
    BY <1>1, LoadIsBuffer
  <1>3. Origin \in Addr
    BY OriginAssumption DEF Addr
  <1>4. [bb |-> Origin, at |-> 0, op |-> "prologue", dests |-> <<>>] \in IRCode
    BY <1>3 DEF IRCode, Operations
  <1>5. code \in Seq(IRCode)
    BY <1>4 DEF Init
  <1> QED BY <1>2, <1>3, <1>5 DEF Init, TypeOK, Running, Stopped, Errors,
                                SecondPassInBounds

\* An IR entry emitted for the instruction at i.
LEMMA IRTyped ==
  ASSUME TypeOK, NEW op \in Operations, NEW dests \in Seq(Addr)
  PROVE  IR(op, dests) \in IRCode
  BY DEF IR, IRCode, TypeOK

\* The entries the second pass emits.
LEMMA EntriesTyped ==
  ASSUME TypeOK
  PROVE  /\ \A op \in Operations : IR(op, <<>>) \in IRCode
         /\ \A op \in {"fall", "br", "assoc"}, d \in Addr :
              IR(op, <<d>>) \in IRCode
         /\ \A d, e \in Addr : IR("condbr", <<d, e>>) \in IRCode
         /\ IR("indirectbr", indBrDests) \in IRCode
         /\ IR("ret", <<>>) \in IRCode
  <1>1. {"fall", "br", "assoc", "condbr", "indirectbr", "ret"} \subseteq Operations
    BY DEF Operations, Terminators
  <1>2. <<>> \in Seq(Addr) /\ indBrDests \in Seq(Addr)
    BY DEF TypeOK
  <1>3. ASSUME NEW op \in Operations PROVE IR(op, <<>>) \in IRCode
    BY <1>2, IRTyped
  <1>4. ASSUME NEW op \in {"fall", "br", "assoc"}, NEW d \in Addr
        PROVE  IR(op, <<d>>) \in IRCode
    <2>1. <<d>> \in Seq(Addr) /\ op \in Operations
      BY <1>1
    <2> QED BY <2>1, IRTyped
  <1>5. ASSUME NEW d \in Addr, NEW e \in Addr
        PROVE  IR("condbr", <<d, e>>) \in IRCode
    <2>1. <<d, e>> \in Seq(Addr) /\ "condbr" \in Operations
      BY <1>1
    <2> QED BY <2>1, IRTyped
  <1>6. IR("indirectbr", indBrDests) \in IRCode
    <2>1. "indirectbr" \in Operations
      BY <1>1
    <2> QED BY <1>2, <2>1, IRTyped
  <1>7. IR("ret", <<>>) \in IRCode
    <2>1. "ret" \in Operations
      BY <1>1
    <2> QED BY <1>3, <2>1
  <1> QED BY <1>3, <1>4, <1>5, <1>6, <1>7

\* Every step of the program preserves the types and the bound.
LEMMA NextTypeOK ==
  TypeOK /\ SecondPassInBounds /\ [Next]_vars => TypeOK' /\ SecondPassInBounds'
  <1> SUFFICES ASSUME TypeOK, SecondPassInBounds, [Next]_vars
               PROVE  TypeOK' /\ SecondPassInBounds'
    OBVIOUS
  <1> USE DEF Running, Stopped, Errors, SecondPassInBounds, End
  <1> DEFINE b == buf[i].byte
  <1>0. /\ Len(buf) \in Nat
        /\ \A p \in 1..Len(buf) : buf[p].byte \in Byte /\ buf[p].addr \in Addr
    <2>1. buf \in Seq(IData)
      BY DEF TypeOK
    <2>2. \A p \in 1..Len(buf) : buf[p] \in IData
      BY <2>1
    <2> QED BY <2>1, <2>2 DEF IData
  <1>1. CASE PpSkip
    <2>1. i \in 1..Len(buf) /\ b \in Byte
      BY <1>0, <1>1 DEF PpSkip, AtPreprocess, InBuffer
    <2>2. sizeArr[b] \in 1..3
      BY <2>1, SizeInRange
    <2>3. i' \in Nat \ {0}
      BY <1>1, <2>1, <2>2 DEF PpSkip
    <2> QED BY <1>1, <2>1, <2>3 DEF PpSkip, TypeOK, emitVars, AtPreprocess
  <1>2. CASE _pp_mklb0
    <2>1. i \in 1..Len(buf) /\ i + 1 \in 1..Len(buf)
      BY <1>2 DEF _pp_mklb0, AtPreprocess, InBuffer, PpInBounds, PpNext
    <2>2. buf' \in Seq(IData) /\ Len(buf') = Len(buf)
      BY <1>2, LabelledKeeps DEF _pp_mklb0, TypeOK
    <2>3. bbMap' \subseteq Addr /\ starts1' \subseteq 1..Len(buf')
      BY <1>0, <1>2, <2>1, <2>2 DEF _pp_mklb0, TypeOK
    <2>4. /\ phase = "preprocess" /\ i' \in Nat \ {0}
          /\ UNCHANGED <<phase, error, indBrDests, emitVars>>
      BY <1>2, <2>1 DEF _pp_mklb0, AtPreprocess
    <2> QED BY <2>2, <2>3, <2>4 DEF TypeOK, emitVars
  <1>3. CASE _pp_mklb1
    <2>1. /\ i \in 1..Len(buf) /\ i + 2 \in 1..Len(buf)
          /\ RelativeTarget \in 1..Len(buf)
      BY <1>3 DEF _pp_mklb1, AtPreprocess, InBuffer, PpInBounds, PpNext
    <2>2. buf' \in Seq(IData) /\ Len(buf') = Len(buf)
      BY <1>3, <2>1, LabelledKeeps DEF _pp_mklb1, TypeOK
    <2>3. bbMap' \subseteq Addr /\ starts1' \subseteq 1..Len(buf')
      BY <1>0, <1>3, <2>1, <2>2 DEF _pp_mklb1, TypeOK
    <2>4. /\ phase = "preprocess" /\ i' \in Nat \ {0}
          /\ UNCHANGED <<phase, error, indBrDests, emitVars>>
      BY <1>3, <2>1 DEF _pp_mklb1, AtPreprocess
    <2> QED BY <2>2, <2>3, <2>4 DEF TypeOK, emitVars
  <1>4. CASE _pp_mklb2
    <2>1. /\ i \in 1..Len(buf) /\ i + 3 \in 1..Len(buf)
          /\ AbsoluteTarget \in 1..Len(buf)
      BY <1>4 DEF _pp_mklb2, AtPreprocess, InBuffer, PpInBounds, PpNext
    <2>2. buf' \in Seq(IData) /\ Len(buf') = Len(buf)
      BY <1>4, <2>1, LabelledKeeps DEF _pp_mklb2, TypeOK
    <2>3. indBrDests' \in Seq(Addr)
      BY <1>0, <1>4, <2>1 DEF _pp_mklb2, TypeOK
    <2>4. bbMap' \subseteq Addr /\ starts1' \subseteq 1..Len(buf')
      BY <1>0, <1>4, <2>1, <2>2 DEF _pp_mklb2, TypeOK
    <2>5. /\ phase = "preprocess" /\ i' \in Nat \ {0}
          /\ UNCHANGED <<phase, error, emitVars>>
      BY <1>4, <2>1 DEF _pp_mklb2, AtPreprocess
    <2> QED BY <2>2, <2>3, <2>4, <2>5 DEF TypeOK, emitVars
  <1>5. CASE PpUndefined
    BY <1>5 DEF PpUndefined, ReadOutside, TypeOK, passVars, emitVars
  <1>6. CASE PpDone
    BY <1>0, <1>6 DEF PpDone, TypeOK, passVars, emitVars
  <1>7. CASE EnterLabel
    <2>1. CASE buf[i].label \in bbMap
      <3>1. buf[i].label \in Addr /\ i \in 1..Len(buf)
        BY <1>7, <2>1 DEF EnterLabel, TypeOK, InBuffer
      <3>2. IR("fall", <<buf[i].label>>) \in IRCode
        BY <3>1, EntriesTyped
      <3>3. code' \in Seq(IRCode) /\ blocks' \in Seq(Addr) /\ curBB' \in Addr
        <4>1. /\ code' = Append(code, IR("fall", <<buf[i].label>>))
              /\ blocks' = Append(blocks, curBB)
              /\ curBB' = buf[i].label
          BY <1>7, <2>1 DEF EnterLabel
        <4>2. code \in Seq(IRCode) /\ blocks \in Seq(Addr) /\ curBB \in Addr
          BY DEF TypeOK
        <4> QED BY <3>1, <3>2, <4>1, <4>2
      <3>4. /\ phase' = "generate" /\ starts2' = starts2 \cup {i}
            /\ phase = "label" /\ UNCHANGED <<error, needsBr, i, passVars>>
        BY <1>7, <2>1 DEF EnterLabel
      <3> QED BY <1>0, <3>1, <3>3, <3>4 DEF TypeOK, passVars
    <2>2. CASE buf[i].label \notin bbMap
      BY <1>7, <2>2 DEF EnterLabel, TypeOK, passVars, emitVars
    <2> QED BY <2>1, <2>2
  <1>8. CASE StayInBlock
    BY <1>0, <1>8 DEF StayInBlock, TypeOK, passVars, InBuffer
  <1>9. ASSUME NEW op \in Operations, NEW n \in {0, 1, 2},
               phase = "generate", InBuffer(i + n), EmitStraight(op, n)
        PROVE  TypeOK' /\ SecondPassInBounds'
    <2>1. IR(op, <<>>) \in IRCode
      BY EntriesTyped
    <2>2. code' \in Seq(IRCode)
      BY <1>9, <2>1 DEF EmitStraight, TypeOK
    <2>3. i' \in Nat \ {0} /\ i' <= Len(buf) + 1
      BY <1>0, <1>9 DEF EmitStraight, Advanced, TypeOK, InBuffer
    <2> QED BY <1>9, <2>2, <2>3 DEF EmitStraight, TypeOK, passVars
  <1>10. ASSUME NEW e \in Errors \ {"none"}, Throw(e)
         PROVE  TypeOK' /\ SecondPassInBounds'
    BY <1>10 DEF Throw, TypeOK, passVars, emitVars
  <1>11. ASSUME phase = "generate"
         PROVE  i \in 1..Len(buf) /\ b \in Byte
    BY <1>0, <1>11 DEF TypeOK
  <1>12. CASE Standard
    <2>1. Operation(b) \in Operations
      BY <1>11, <1>12, OperationNamed DEF Standard
    <2>2. OperandBytes(b) \in {0, 1, 2}
      BY OperandRange
    <2>3. CASE InBuffer(i + OperandBytes(b))
      <3> HIDE DEF b
      <3> QED BY <1>9, <1>12, <2>1, <2>2, <2>3 DEF Standard, b
    <2>4. CASE ~InBuffer(i + OperandBytes(b))
      <3>1. CASE Throw("PREMATURE_EOF")
        BY <1>10, <3>1
      <3>2. CASE ReadOutside
        BY <1>11, <1>12, <3>2 DEF Standard, ReadOutside, TypeOK, passVars, emitVars
      <3> QED BY <1>12, <2>4, <3>1, <3>2 DEF Standard
    <2> QED BY <2>3, <2>4
  <1>13. CASE BadFunctionCall
    BY <1>13 DEF BadFunctionCall, TypeOK, passVars, emitVars
  <1>14. CASE Implied
    <2>1. uuCb[b] \in Operations /\ InBuffer(i + 0)
      BY <1>0, <1>11, <1>14, OperationNamed DEF Implied, InBuffer
    <2> QED BY <1>9, <1>14, <2>1 DEF Implied
  <1>15. CASE UnsupportedInstruction
    BY <1>10, <1>15 DEF UnsupportedInstruction
  <1>16. ASSUME NEW cb, NEW ir \in Seq(IRCode), Transfer(cb, ir)
         PROVE  TypeOK' /\ SecondPassInBounds'
    <2>1. After \in 1..Len(buf) /\ nextBB \in Addr
      BY <1>16 DEF Transfer, InBuffer, BlocksFound, TypeOK
    <2>2. code' \in Seq(IRCode) /\ blocks' \in Seq(Addr)
      BY <1>16 DEF Transfer, TypeOK
    <2>3. /\ phase = "generate" /\ phase' = "label" /\ i' = After
          /\ curBB' = nextBB /\ needsBr' = FALSE
          /\ UNCHANGED <<error, passVars, starts2>>
      BY <1>16 DEF Transfer
    <2>4. After \in Nat \ {0} /\ After <= Len(buf) + 1
      BY <1>0, <2>1
    <2> HIDE DEF b
    <2> QED BY <2>1, <2>2, <2>3, <2>4 DEF TypeOK, passVars
  <1>17. ASSUME phase = "generate", BlocksFound
         PROVE  /\ nextBB \in Addr
                /\ uuCb[b] # "RTS" => destBB \in Addr
    BY <1>17 DEF BlocksFound, TypeOK
  <1>18. CASE _uu_bra
    <2>1. nextBB \in Addr /\ destBB \in Addr
      BY <1>17, <1>18 DEF _uu_bra, Transfer
    <2>2. IR("condbr", <<destBB, nextBB>>) \in IRCode
      BY <2>1, EntriesTyped
    <2>3. <<IR("condbr", <<destBB, nextBB>>)>> \in Seq(IRCode)
      BY <2>2
    <2> QED BY <1>16, <1>18, <2>3 DEF _uu_bra
  <1>19. CASE _uu_jump
    <2>1. IR("br", <<destBB>>) \in IRCode
      BY <1>17, <1>19, EntriesTyped DEF _uu_jump, Transfer
    <2>2. <<IR("br", <<destBB>>)>> \in Seq(IRCode)
      BY <2>1
    <2> QED BY <1>16, <1>19, <2>2 DEF _uu_jump
  <1>20. CASE _uu_JSR
    <2>1. nextBB \in Addr /\ destBB \in Addr
      BY <1>17, <1>20 DEF _uu_JSR, Transfer
    <2>2. /\ IR("assoc", <<nextBB>>) \in IRCode
          /\ IR("br", <<destBB>>) \in IRCode
      BY <2>1, EntriesTyped
    <2>3. <<IR("assoc", <<nextBB>>), IR("br", <<destBB>>)>>
            \in Seq(IRCode)
      BY <2>2
    <2> QED BY <1>16, <1>20, <2>3 DEF _uu_JSR
  <1>21. CASE _uu_RTS
    <2>1. IR("indirectbr", indBrDests) \in IRCode
      BY EntriesTyped
    <2>2. <<IR("indirectbr", indBrDests)>> \in Seq(IRCode)
      BY <2>1
    <2> QED BY <1>16, <1>21, <2>2 DEF _uu_RTS
  <1>22. CASE NonexistantBranch
    BY <1>10, <1>22 DEF NonexistantBranch
  <1>23. CASE TransferUndefined
    BY <1>23 DEF TransferUndefined, ReadOutside, TypeOK, passVars, emitVars
  <1>24. CASE Finish
    <2>1. IR("ret", <<>>) \in IRCode
      BY EntriesTyped
    <2>2. code' \in Seq(IRCode) /\ blocks' \in Seq(Addr)
      BY <1>24, <2>1 DEF Finish, TypeOK
    <2>3. /\ phase = "label" /\ phase' = "generated"
          /\ UNCHANGED <<error, i, passVars, curBB, needsBr, starts2>>
      BY <1>24 DEF Finish
    <2> QED BY <2>2, <2>3 DEF TypeOK, passVars
  <1>25. CASE output_bitcode
    BY <1>25 DEF output_bitcode, TypeOK, passVars, emitVars
  <1>26. CASE UNCHANGED vars
    BY <1>26 DEF TypeOK, vars
  <1> QED BY <1>1, <1>2, <1>3, <1>4, <1>5, <1>6, <1>7, <1>8, <1>12, <1>13,
             <1>14, <1>15, <1>18, <1>19, <1>20, <1>21, <1>22, <1>23, <1>24,
             <1>25, <1>26
          DEF Next, Step, Done, FirstPass, SecondPass

(* In every reachable state every variable has its type, and an exception  *)
(* is recorded exactly when one was thrown.                                *)
THEOREM TypeCorrect == Spec => []TypeOK
  BY InitTypeOK, NextTypeOK, PTL DEF Spec

(* The second pass never steps past the end of the buffer.                 *)
THEOREM SecondPassBounded == Spec => []SecondPassInBounds
  BY InitTypeOK, NextTypeOK, PTL DEF Spec

------------------------------------------------------------------------------
(* The two passes.                                                         *)

\* The steps of the first pass that go over one instruction.
PpStep == PpSkip \/ _pp_mklb0 \/ _pp_mklb1 \/ _pp_mklb2

\* What such a step keeps of the buffer and the blocks, and adds to them.
Grows ==
  /\ i \in 1..Len(buf)
  /\ starts1' = starts1 \cup {i}
  /\ Len(buf') = Len(buf)
  /\ \A p \in 1..Len(buf) : /\ buf'[p].byte = buf[p].byte
                            /\ buf'[p].addr = buf[p].addr
                            /\ p # i => buf'[p].dst = buf[p].dst
                            /\ \/ buf'[p].label = buf[p].label
                               \/ buf'[p].label \in Addr \cap bbMap'
  /\ bbMap \subseteq bbMap'
  /\ i' \in Nat /\ i' > i

\* What it leaves for the instruction it goes over.
Leaves(n) == i + n <= Len(buf) /\ buf'[i + n].label # NoLabel
Handles ==
  /\ ppCb[buf[i].byte] = NoCb => i' = i + sizeArr[buf[i].byte]
  /\ ppCb[buf[i].byte] = "mklb0" => Leaves(1)
  /\ ppCb[buf[i].byte] = "mklb1" => Leaves(2) /\ buf'[i].dst \in bbMap'
  /\ ppCb[buf[i].byte] = "mklb2" => Leaves(3) /\ buf'[i].dst \in bbMap'

\* Each callback labels, maps and records as the invariant needs.
LEMMA PpStepEffect == TypeOK /\ PpStep => Grows /\ Handles
  <1> SUFFICES ASSUME TypeOK, PpStep PROVE Grows /\ Handles
    OBVIOUS
  <1> USE DEF Grows, Handles, Leaves
  <1>0. /\ Len(buf) \in Nat /\ i \in Nat \ {0} /\ buf \in Seq(IData)
        /\ \A p \in 1..Len(buf) : buf[p].byte \in Byte /\ buf[p].addr \in Addr
    <2>1. buf \in Seq(IData) /\ i \in Nat \ {0}
      BY DEF TypeOK
    <2>2. \A p \in 1..Len(buf) : buf[p] \in IData
      BY <2>1
    <2> QED BY <2>1, <2>2 DEF IData
  <1>1. \A a \in Addr : a # NoLabel
    BY DEF Addr, NoLabel
  <1>2. CASE PpSkip
    <2>1. i \in 1..Len(buf) /\ sizeArr[buf[i].byte] \in 1..3
      BY <1>0, <1>2, SizeInRange DEF PpSkip, AtPreprocess, InBuffer
    <2> QED BY <1>0, <1>2, <2>1 DEF PpSkip, AtPreprocess, NoCb
  <1>3. CASE _pp_mklb0
    <2>1. /\ i \in 1..Len(buf) /\ i + 1 \in 1..Len(buf)
          /\ ppCb[buf[i].byte] = "mklb0"
      BY <1>3 DEF _pp_mklb0, AtPreprocess, InBuffer, PpInBounds, PpNext
    <2>2. /\ buf' = Labelled({i + 1}, 0) /\ i' = i + 1
          /\ bbMap' = bbMap \cup {buf[i + 1].addr}
          /\ starts1' = starts1 \cup {i}
      BY <1>3 DEF _pp_mklb0
    <2> QED BY <1>0, <1>1, <2>1, <2>2, LabelledKeeps DEF NoCb
  <1>4. CASE _pp_mklb1
    <2> DEFINE t == RelativeTarget
    <2>1. /\ i \in 1..Len(buf) /\ i + 2 \in 1..Len(buf) /\ t \in 1..Len(buf)
          /\ ppCb[buf[i].byte] = "mklb1"
      BY <1>4 DEF _pp_mklb1, AtPreprocess, InBuffer, PpInBounds, PpNext
    <2>2. /\ buf' = Labelled({t, i + 2}, t) /\ i' = i + 2
          /\ bbMap' = bbMap \cup {buf[t].addr, buf[i + 2].addr}
          /\ starts1' = starts1 \cup {i}
      BY <1>4 DEF _pp_mklb1
    <2> HIDE DEF t
    <2> QED BY <1>0, <1>1, <2>1, <2>2, LabelledKeeps DEF NoCb
  <1>5. CASE _pp_mklb2
    <2> DEFINE t == AbsoluteTarget
    <2>1. /\ i \in 1..Len(buf) /\ i + 3 \in 1..Len(buf) /\ t \in 1..Len(buf)
          /\ ppCb[buf[i].byte] = "mklb2"
      BY <1>5 DEF _pp_mklb2, AtPreprocess, InBuffer, PpInBounds, PpNext
    <2>2. /\ buf' = Labelled({t, i + 3}, t) /\ i' = i + 3
          /\ bbMap' = bbMap \cup {buf[t].addr, buf[i + 3].addr}
          /\ starts1' = starts1 \cup {i}
      BY <1>5 DEF _pp_mklb2
    <2> HIDE DEF t
    <2> QED BY <1>0, <1>1, <2>1, <2>2, LabelledKeeps DEF NoCb
  <1> QED BY <1>2, <1>3, <1>4, <1>5 DEF PpStep

\* All other steps leave the first pass's results alone.
LEMMA OtherSteps ==
  [Next]_vars =>
    \/ PpStep /\ phase = "preprocess" /\ phase' = "preprocess"
    \/ PpDone
    \/ /\ UNCHANGED passVars
       /\ (phase' = phase /\ i' = i) \/ phase' # "preprocess"
       /\ phase' \in {"label", "generate"} => phase \in {"label", "generate"}
  <1> SUFFICES ASSUME [Next]_vars
               PROVE  \/ PpStep /\ phase = "preprocess" /\ phase' = "preprocess"
                      \/ PpDone
                      \/ /\ UNCHANGED passVars
                         /\ (phase' = phase /\ i' = i) \/ phase' # "preprocess"
                         /\ phase' \in {"label", "generate"}
                              => phase \in {"label", "generate"}
    OBVIOUS
  <1>1. CASE PpStep
    BY <1>1 DEF PpStep, PpSkip, _pp_mklb0, _pp_mklb1, _pp_mklb2, AtPreprocess
  <1>2. CASE PpUndefined
    BY <1>2 DEF PpUndefined, ReadOutside
  <1>3. CASE EnterLabel
    BY <1>3 DEF EnterLabel
  <1>4. CASE StayInBlock
    BY <1>4 DEF StayInBlock, passVars
  <1>5. CASE Standard
    BY <1>5 DEF Standard, EmitStraight, Throw, ReadOutside
  <1>6. CASE Implied \/ UnsupportedInstruction \/ NonexistantBranch
    BY <1>6 DEF Implied, EmitStraight, UnsupportedInstruction,
                NonexistantBranch, Throw
  <1>7. CASE BadFunctionCall \/ TransferUndefined
    BY <1>7 DEF BadFunctionCall, TransferUndefined, ReadOutside
  <1>8. CASE _uu_bra \/ _uu_jump \/ _uu_JSR \/ _uu_RTS
    BY <1>8 DEF _uu_bra, _uu_jump, _uu_JSR, _uu_RTS, Transfer
  <1>9. CASE Finish \/ output_bitcode
    BY <1>9 DEF Finish, output_bitcode
  <1>10. CASE UNCHANGED vars
    BY <1>10 DEF vars, passVars
  <1> QED BY <1>1, <1>2, <1>3, <1>4, <1>5, <1>6, <1>7, <1>8, <1>9, <1>10
          DEF Next, Step, Done, FirstPass, SecondPass, PpStep

\* The buffer keeps its sentinel, and every label and destination a block.
LabelsInv == Sentinel /\ LabelsMapped /\ Preprocessed

(* Before the first pass there is no label, and the buffer process_file    *)
(* loads ends in its NOP.                                                  *)
LEMMA InitLabelsInv == Init => LabelsInv
  <1> SUFFICES ASSUME Init PROVE LabelsInv
    OBVIOUS
  <1>1. PICK image \in Images : buf = Load(image)
    BY DEF Init
  <1>2. Sentinel
    BY <1>1, LoadIsBuffer DEF Sentinel
  <1>3. LabelsMapped
    BY <1>1, LoadIsBuffer DEF LabelsMapped, Init
  <1> QED BY <1>2, <1>3 DEF LabelsInv, Preprocessed, Init

(* No step loses the sentinel, stores a label without making its block, or *)
(* takes back what the first pass left for an instruction.                 *)
LEMMA NextLabelsInv == TypeOK /\ LabelsInv /\ [Next]_vars => LabelsInv'
  <1> SUFFICES ASSUME TypeOK, LabelsInv, [Next]_vars PROVE LabelsInv'
    OBVIOUS
  <1>0. /\ Len(buf) \in Nat /\ i \in Nat \ {0}
        /\ starts1 \subseteq 1..Len(buf) /\ buf \in Seq(IData)
        /\ \A p \in 1..Len(buf) : buf[p].byte \in Byte
    <2>1. /\ buf \in Seq(IData) /\ i \in Nat \ {0}
          /\ starts1 \subseteq 1..Len(buf)
      BY DEF TypeOK
    <2>2. \A p \in 1..Len(buf) : buf[p] \in IData
      BY <2>1
    <2> QED BY <2>1, <2>2 DEF IData
  <1>1. CASE PpStep /\ phase = "preprocess" /\ phase' = "preprocess"
    <2>1. Grows /\ Handles
      BY <1>1, PpStepEffect
    <2>2. Sentinel'
      BY <1>0, <2>1 DEF LabelsInv, Sentinel, Grows
    <2>3. LabelsMapped'
      <3>1. ASSUME NEW p \in 1..Len(buf'), buf'[p].label # NoLabel
            PROVE  buf'[p].label \in bbMap'
        BY <2>1, <3>1 DEF LabelsInv, LabelsMapped, Grows
      <3>2. \A m \in 1..Len(indBrDests') : indBrDests'[m] \in bbMap'
        <4>1. CASE indBrDests' = indBrDests
          BY <2>1, <4>1 DEF LabelsInv, LabelsMapped, Grows
        <4>2. CASE indBrDests' # indBrDests
          <5>1. _pp_mklb2
            BY <1>1, <4>2 DEF PpStep, PpSkip, _pp_mklb0, _pp_mklb1
          <5>2. /\ indBrDests' = Append(indBrDests, buf[i + 3].addr)
                /\ buf[i + 3].addr \in bbMap'
            BY <4>2, <5>1 DEF _pp_mklb2
          <5>3. indBrDests \in Seq(Addr)
            BY DEF TypeOK
          <5> QED BY <2>1, <5>2, <5>3 DEF LabelsInv, LabelsMapped, Grows
        <4> QED BY <4>1, <4>2
      <3> QED BY <3>1, <3>2 DEF LabelsMapped
    <2>4. Preprocessed'
      <3> DEFINE Landing(p, n) == p + n <= Len(buf) /\ buf[p + n].label # NoLabel
                 Landed(p, n) == p + n <= Len(buf') /\ buf'[p + n].label # NoLabel
      <3>1. ASSUME NEW p \in 1..Len(buf), NEW n \in {1, 2, 3}, Landing(p, n)
            PROVE  Landed(p, n)
        BY <1>0, <2>1, <3>1 DEF Grows, Addr, NoLabel
      <3>2. ASSUME NEW p \in starts1
            PROVE  /\ ppCb[buf[p].byte] = NoCb => p + sizeArr[buf[p].byte] <= i
                   /\ ppCb[buf[p].byte] = "mklb0" => Landing(p, 1)
                   /\ ppCb[buf[p].byte] = "mklb1" => Landing(p, 2) /\ buf[p].dst \in bbMap
                   /\ ppCb[buf[p].byte] = "mklb2" => Landing(p, 3) /\ buf[p].dst \in bbMap
        BY <1>1, <3>2 DEF LabelsInv, Preprocessed
      <3>3. ASSUME NEW p \in starts1, p # i
            PROVE  /\ ppCb[buf'[p].byte] = NoCb => p + sizeArr[buf'[p].byte] <= i'
                   /\ ppCb[buf'[p].byte] = "mklb0" => Landed(p, 1)
                   /\ ppCb[buf'[p].byte] = "mklb1" => Landed(p, 2) /\ buf'[p].dst \in bbMap'
                   /\ ppCb[buf'[p].byte] = "mklb2" => Landed(p, 3) /\ buf'[p].dst \in bbMap'
        <4>1. p \in 1..Len(buf) /\ buf'[p].byte = buf[p].byte
          BY <1>0, <2>1, <3>3 DEF Grows
        <4>2. buf'[p].dst = buf[p].dst /\ bbMap \subseteq bbMap' /\ i' > i
          BY <2>1, <3>3, <4>1 DEF Grows
        <4>3. sizeArr[buf[p].byte] \in 1..3
          BY <1>0, <4>1, SizeInRange
        <4>4. i' \in Nat
          BY <2>1 DEF Grows
        <4> HIDE DEF Landing, Landed
        <4> QED BY <1>0, <3>1, <3>2, <4>1, <4>2, <4>3, <4>4
      <3>4. /\ ppCb[buf'[i].byte] = NoCb => i + sizeArr[buf'[i].byte] <= i'
            /\ ppCb[buf'[i].byte] = "mklb0" => Landed(i, 1)
            /\ ppCb[buf'[i].byte] = "mklb1" => Landed(i, 2) /\ buf'[i].dst \in bbMap'
            /\ ppCb[buf'[i].byte] = "mklb2" => Landed(i, 3) /\ buf'[i].dst \in bbMap'
        <4>1. i \in 1..Len(buf) /\ buf'[i].byte = buf[i].byte /\ Len(buf') = Len(buf)
          BY <2>1 DEF Grows
        <4>2. sizeArr[buf[i].byte] \in 1..3
          BY <1>0, <4>1, SizeInRange
        <4> QED BY <1>0, <2>1, <4>1, <4>2 DEF Handles, Leaves
      <3>5. starts1' = starts1 \cup {i}
        BY <2>1 DEF Grows
      <3> QED BY <1>1, <3>3, <3>4, <3>5 DEF Preprocessed
    <2> QED BY <2>2, <2>3, <2>4 DEF LabelsInv
  <1>2. CASE PpDone
    <2>1. /\ phase = "preprocess" /\ i = End /\ phase' = "label"
          /\ UNCHANGED <<buf, bbMap, indBrDests, starts1>>
      BY <1>2 DEF PpDone, passVars
    <2>2. Sentinel' /\ LabelsMapped'
      BY <2>1 DEF LabelsInv, Sentinel, LabelsMapped
    <2>3. Preprocessed'
      BY <2>1 DEF LabelsInv, Preprocessed, End
    <2> QED BY <2>2, <2>3 DEF LabelsInv
  <1>3. CASE /\ UNCHANGED passVars
             /\ (phase' = phase /\ i' = i) \/ phase' # "preprocess"
             /\ phase' \in {"label", "generate"} => phase \in {"label", "generate"}
    <2>1. UNCHANGED <<buf, bbMap, indBrDests, starts1>>
      BY <1>3 DEF passVars
    <2>2. Sentinel' /\ LabelsMapped'
      BY <2>1 DEF LabelsInv, Sentinel, LabelsMapped
    <2>3. Preprocessed'
      BY <1>3, <2>1 DEF LabelsInv, Preprocessed, End
    <2> QED BY <2>2, <2>3 DEF LabelsInv
  <1> QED BY <1>1, <1>2, <1>3, OtherSteps

\* So these facts hold in every reachable state.
LEMMA LabelsInvariant == Spec => [](TypeOK /\ SecondPassInBounds /\ LabelsInv)
  BY InitTypeOK, NextTypeOK, InitLabelsInv, NextLabelsInv, PTL DEF Spec

------------------------------------------------------------------------------
(* Progress.                                                               *)

\* The second pass begins with the label check.
Going == phase = "preprocess" => starts2 = {}

(* Each step over an instruction ends on a later element.                  *)
LEMMA NextAdvances ==
  TypeOK /\ Going /\ PassesAdvance /\ [Next]_vars => (Going /\ PassesAdvance)'
  <1> SUFFICES ASSUME TypeOK, Going, PassesAdvance, [Next]_vars
               PROVE  (Going /\ PassesAdvance)'
    OBVIOUS
  <1> USE DEF Going, PassesAdvance
  <1>0. /\ i \in Nat /\ starts1 \subseteq 1..Len(buf) /\ starts2 \subseteq 1..Len(buf)
        /\ Len(buf) \in Nat
    BY DEF TypeOK
  <1>1. CASE PpStep
    <2>1. starts1' = starts1 \cup {i} /\ i' \in Nat /\ i' > i
      BY <1>1, PpStepEffect DEF Grows
    <2>2. phase = "preprocess" /\ phase' = phase /\ starts2' = starts2
      BY <1>1 DEF PpStep, PpSkip, _pp_mklb0, _pp_mklb1, _pp_mklb2, AtPreprocess,
                  emitVars
    <2> QED BY <1>0, <2>1, <2>2
  <1>2. CASE PpDone
    BY <1>2 DEF PpDone, emitVars
  <1>3. CASE EnterLabel
    <2>1. phase = "label" /\ i' = i /\ starts1' = starts1
      BY <1>3 DEF EnterLabel, passVars
    <2>2. CASE phase' = "thrown"
      BY <2>2
    <2>3. CASE phase' = "generate" /\ starts2' = starts2 \cup {i}
      BY <1>0, <2>1, <2>3
    <2> QED BY <1>3, <2>2, <2>3 DEF EnterLabel
  <1>4. CASE StayInBlock
    BY <1>0, <1>4 DEF StayInBlock, passVars
  <1>5. ASSUME NEW n \in Nat, phase = "generate", phase' = "label", i' = i + 1 + n,
               starts2' = starts2
        PROVE  (Going /\ PassesAdvance)'
    BY <1>0, <1>5
  <1>6. ASSUME phase' \in {"thrown", "undefined", "terminated", "generated", "written"}
        PROVE  (Going /\ PassesAdvance)'
    BY <1>6
  <1>7. CASE Standard
    BY <1>5, <1>6, <1>7, OperandRange
       DEF Standard, EmitStraight, Advanced, Throw, ReadOutside
  <1>8. CASE Implied
    BY <1>5, <1>8 DEF Implied, EmitStraight, Advanced
  <1>9. CASE _uu_bra \/ _uu_jump \/ _uu_JSR \/ _uu_RTS
    <2>1. /\ phase = "generate" /\ phase' = "label" /\ i' = After
          /\ starts2' = starts2
      BY <1>9 DEF _uu_bra, _uu_jump, _uu_JSR, _uu_RTS, Transfer
    <2>2. After \in {i + 1 + 0, i + 1 + 1, i + 1 + 2}
      BY <1>0 DEF After
    <2>3. PICK n \in {0, 1, 2} : i' = i + 1 + n
      BY <2>1, <2>2
    <2> QED BY <1>5, <2>1, <2>3
  <1>10. CASE PpUndefined \/ BadFunctionCall \/ UnsupportedInstruction
              \/ NonexistantBranch \/ TransferUndefined \/ Finish \/ output_bitcode
    BY <1>6, <1>10 DEF PpUndefined, BadFunctionCall, UnsupportedInstruction, Throw,
                       NonexistantBranch, TransferUndefined, ReadOutside, Finish,
                       output_bitcode
  <1>11. CASE UNCHANGED vars
    BY <1>11 DEF vars
  <1> QED BY <1>1, <1>2, <1>3, <1>4, <1>7, <1>8, <1>9, <1>10, <1>11
          DEF Next, Step, Done, FirstPass, SecondPass, PpStep

\* So what a pass has begun always lies before the iterator.
LEMMA AdvanceInvariant == Spec => [](Going /\ PassesAdvance)
  <1>1. Init => Going /\ PassesAdvance
    BY DEF Init, Going, PassesAdvance
  <1> QED BY <1>1, NextAdvances, TypeCorrect, PTL DEF Spec

(* Neither pass goes over an element twice or turns back, on any file.     *)
THEOREM PassesAdvancing == Spec => []PassesAdvance
  BY AdvanceInvariant, PTL

------------------------------------------------------------------------------
(* Errors.                                                                 *)

\* The second pass fails only where the invariant says it may.
LEMMA NextErrors ==
  TypeOK /\ SecondPassInBounds /\ LabelsInv /\ PassesAdvance /\ LookupNeverFails
    /\ ErrorsOnlyOutOfStep /\ [Next]_vars
  => LookupNeverFails' /\ ErrorsOnlyOutOfStep'
  <1> SUFFICES ASSUME TypeOK, SecondPassInBounds, LabelsInv, PassesAdvance,
                      LookupNeverFails, ErrorsOnlyOutOfStep, [Next]_vars
               PROVE  LookupNeverFails' /\ ErrorsOnlyOutOfStep'
    OBVIOUS
  <1> USE DEF LookupNeverFails, ErrorsOnlyOutOfStep
  <1> DEFINE b == buf[i].byte
  <1>0. Len(buf) \in Nat /\ \A p \in 1..Len(buf) : buf[p].byte \in Byte
    <2>1. buf \in Seq(IData)
      BY DEF TypeOK
    <2>2. \A p \in 1..Len(buf) : buf[p] \in IData
      BY <2>1
    <2> QED BY <2>1, <2>2 DEF IData
  <1>1. phase \in Running => error = "none"
    BY DEF TypeOK, Running
  <1>2. ASSUME phase = "generate"
        PROVE  i \in 1..Len(buf) /\ b \in Byte
    BY <1>0, <1>2 DEF TypeOK, SecondPassInBounds
  <1>3. ASSUME phase \in Running, error' = error PROVE error' = "none"
    BY <1>1, <1>3
  <1>4. ASSUME phase = "generate", uuCb[b] \in Transfers, i \in starts1
         PROVE  InBuffer(After) /\ BlocksFound
    <2>1. i \in 1..Len(buf) /\ b \in Byte
      BY <1>2, <1>4
    <2>2. CASE uuCb[b] = "RTS"
      <3>1. i + 1 <= Len(buf) /\ buf[i + 1].label # NoLabel
        BY <1>4, <2>1, <2>2, TablesAgree DEF LabelsInv, Preprocessed
      <3> QED BY <1>0, <2>1, <2>2, <3>1
              DEF BlocksFound, nextBB, destBB, After, InBuffer, LabelsInv,
                  LabelsMapped
    <2>3. CASE uuCb[b] = "bra"
      <3>1. /\ i + 2 <= Len(buf) /\ buf[i + 2].label # NoLabel
            /\ buf[i].dst \in bbMap
        BY <1>4, <2>1, <2>3, TablesAgree DEF LabelsInv, Preprocessed
      <3> QED BY <1>0, <2>1, <2>3, <3>1
              DEF BlocksFound, nextBB, destBB, After, InBuffer, LabelsInv,
                  LabelsMapped
    <2>4. CASE uuCb[b] \in {"jump", "JSR"}
      <3>1. /\ i + 3 <= Len(buf) /\ buf[i + 3].label # NoLabel
            /\ buf[i].dst \in bbMap
        BY <1>4, <2>1, <2>4, TablesAgree DEF LabelsInv, Preprocessed
      <3> QED BY <1>0, <2>1, <2>4, <3>1
              DEF BlocksFound, nextBB, destBB, After, InBuffer, LabelsInv,
                  LabelsMapped
    <2> QED BY <1>4, <2>2, <2>3, <2>4 DEF Transfers
  <1>5. CASE EnterLabel
    BY <1>1, <1>5 DEF EnterLabel, LabelsInv, LabelsMapped, Running, InBuffer
  <1>6. CASE Standard
    <2>1. CASE InBuffer(i + OperandBytes(b))
      BY <1>3, <1>6, <2>1 DEF Standard, EmitStraight, Running
    <2>2. CASE ~InBuffer(i + OperandBytes(b))
      <3>1. i \in 1..Len(buf) /\ b \in Byte /\ phase = "generate"
        BY <1>2, <1>6 DEF Standard
      <3>2. error' \in {"PREMATURE_EOF", error} /\ UNCHANGED <<i, starts1>>
        BY <1>6, <2>2 DEF Standard, Throw, ReadOutside, passVars
      <3>3. SUFFICES ASSUME i \in starts1 PROVE FALSE
        BY <1>1, <3>1, <3>2 DEF Running
      <3>4. ppCb[b] = NoCb
        BY <1>6, <3>1, StandardHasNoCallback DEF Standard
      <3>5. i + sizeArr[b] <= Len(buf) + 1
        BY <3>1, <3>3, <3>4 DEF LabelsInv, Preprocessed, End
      <3>6. CASE OperandBytes(b) = 0
        BY <2>2, <3>1, <3>6 DEF InBuffer
      <3>7. CASE OperandBytes(b) = 1
        <4>1. i = Len(buf)
          BY <1>0, <2>2, <3>1, <3>7 DEF InBuffer
        <4> QED BY <1>6, <4>1, SentinelIsImplied
                DEF Standard, LabelsInv, Sentinel
      <3>8. CASE OperandBytes(b) = 2
        <4>1. sizeArr[b] = 3
          BY <3>1, <3>8, TwoByteSize
        <4> QED BY <1>0, <2>2, <3>1, <3>5, <3>8, <4>1 DEF InBuffer
      <3> QED BY <3>6, <3>7, <3>8, OperandRange
    <2> QED BY <2>1, <2>2
  <1>7. CASE NonexistantBranch
    <2>1. /\ phase = "generate" /\ uuCb[b] \in Transfers /\ ~BlocksFound
          /\ error' = "NONEXISTANT_BRANCH" /\ UNCHANGED <<i, starts1>>
      BY <1>7 DEF NonexistantBranch, Throw, passVars
    <2> QED BY <1>4, <2>1
  <1>8. CASE TransferUndefined
    <2>1. /\ phase = "generate" /\ uuCb[b] \in Transfers /\ ~InBuffer(After)
          /\ UNCHANGED <<error, i, starts1>>
      BY <1>8 DEF TransferUndefined, ReadOutside, passVars
    <2> QED BY <1>3, <1>4, <2>1 DEF Running
  <1>9. CASE PpUndefined
    <2>1. /\ phase = "preprocess" /\ phase' = "undefined"
          /\ UNCHANGED <<error, i, starts1>>
      BY <1>9 DEF PpUndefined, ReadOutside, passVars
    <2>2. i \notin starts1
      <3>1. i \in Nat
        BY DEF TypeOK
      <3> QED BY <2>1, <3>1 DEF PassesAdvance
    <2> QED BY <1>3, <2>1, <2>2 DEF Running
  <1>10. CASE UnsupportedInstruction
    BY <1>10 DEF UnsupportedInstruction, Throw
  <1>11. CASE PpStep \/ PpDone
    BY <1>3, <1>11 DEF PpStep, PpSkip, _pp_mklb0, _pp_mklb1, _pp_mklb2,
                      AtPreprocess, PpDone, Running
  <1>12. CASE StayInBlock \/ Implied \/ BadFunctionCall \/ Finish
             \/ output_bitcode
    BY <1>3, <1>12 DEF StayInBlock, Implied, EmitStraight, BadFunctionCall,
                      Finish, output_bitcode, Running
  <1>13. CASE _uu_bra \/ _uu_jump \/ _uu_JSR \/ _uu_RTS
    BY <1>3, <1>13 DEF _uu_bra, _uu_jump, _uu_JSR, _uu_RTS, Transfer, Running
  <1>14. CASE UNCHANGED vars
    BY <1>14 DEF vars
  <1> QED BY <1>5, <1>6, <1>7, <1>8, <1>9, <1>10, <1>11, <1>12, <1>13, <1>14
          DEF Next, Step, Done, FirstPass, SecondPass, PpStep

\* Both facts about exceptions hold in every reachable state.
LEMMA ErrorsInvariant == Spec => [](LookupNeverFails /\ ErrorsOnlyOutOfStep)
  <1>1. Init => LookupNeverFails /\ ErrorsOnlyOutOfStep
    BY DEF Init, LookupNeverFails, ErrorsOnlyOutOfStep
  <1> QED BY <1>1, NextErrors, LabelsInvariant, AdvanceInvariant, PTL DEF Spec

\* The label lookup of the second pass never throws UNKNOWN.
THEOREM LookupCorrect == Spec => []LookupNeverFails
  BY ErrorsInvariant, PTL

(* NONEXISTANT_BRANCH and PREMATURE_EOF are thrown, and elements past the  *)
(* buffer are read, only at an instruction the first pass never went over, *)
(* for every file.                                                         *)
THEOREM ErrorsCorrect == Spec => []ErrorsOnlyOutOfStep
  BY ErrorsInvariant, PTL

------------------------------------------------------------------------------
(* Blocks.                                                                 *)

(* Only a transfer clears _needsBr, and it leaves the iterator on the       *)
(* element whose block it has made current; the next step sets it again.   *)
LEMMA NextOpenBlock ==
  TypeOK /\ OpenBlock /\ [Next]_vars => OpenBlock'
  <1> SUFFICES ASSUME TypeOK, OpenBlock, [Next]_vars PROVE OpenBlock'
    OBVIOUS
  <1> USE DEF OpenBlock
  <1>1. CASE PpStep \/ PpUndefined \/ PpDone
    <2>1. phase = "preprocess" /\ needsBr' = needsBr
      BY <1>1 DEF PpStep, PpSkip, _pp_mklb0, _pp_mklb1, _pp_mklb2,
                  AtPreprocess, PpUndefined, ReadOutside, PpDone, emitVars
    <2> QED BY <2>1 DEF TypeOK
  <1>2. CASE EnterLabel
    BY <1>2 DEF EnterLabel, emitVars
  <1>3. CASE StayInBlock
    BY <1>3 DEF StayInBlock
  <1>4. ASSUME phase # "label", needsBr' = needsBr PROVE OpenBlock'
    BY <1>4 DEF TypeOK
  <1>5. CASE Standard \/ Implied
    BY <1>4, <1>5 DEF Standard, Implied, EmitStraight, Throw, ReadOutside, emitVars
  <1>6. CASE BadFunctionCall \/ UnsupportedInstruction \/ NonexistantBranch
             \/ TransferUndefined \/ output_bitcode
    BY <1>4, <1>6 DEF BadFunctionCall, UnsupportedInstruction, Throw,
                      NonexistantBranch, TransferUndefined, ReadOutside,
                      output_bitcode, emitVars
  <1>7. CASE _uu_bra \/ _uu_jump \/ _uu_JSR \/ _uu_RTS
    <2>1. /\ InBuffer(After) /\ i' = After /\ phase' = "label" /\ buf' = buf
          /\ curBB' = buf[After].label
      BY <1>7 DEF nextBB, _uu_bra, _uu_jump, _uu_JSR, _uu_RTS, Transfer, passVars
    <2> QED BY <2>1 DEF InBuffer
  <1>8. CASE Finish
    BY <1>8 DEF Finish, InBuffer, End, TypeOK
  <1>9. CASE UNCHANGED vars
    BY <1>9 DEF vars, InBuffer
  <1> QED BY <1>1, <1>2, <1>3, <1>5, <1>6, <1>7, <1>8, <1>9
          DEF Next, Step, Done, FirstPass, SecondPass, PpStep

(* Whenever _needsBr is false at the head of the loop, the current block   *)
(* is the block of the label the iterator is on.                           *)
THEOREM TransfersCorrect == Spec => []TransferLandsOnLabel
  <1>1. Init => OpenBlock
    BY DEF Init, OpenBlock
  <1>2. OpenBlock => TransferLandsOnLabel
    BY DEF OpenBlock, TransferLandsOnLabel
  <1> QED BY <1>1, <1>2, NextOpenBlock, TypeCorrect, PTL DEF Spec

------------------------------------------------------------------------------
(* Return destinations.                                                    *)

(* _indBrDests grows only by the block after the JSR at hand, and only when *)
(* _bbMap had no such block, so not by one the list already holds.         *)
LEMMA NextReturnDests ==
  TypeOK /\ LabelsInv /\ ReturnDestsAreContinuations /\ [Next]_vars
  => ReturnDestsAreContinuations'
  <1> SUFFICES ASSUME TypeOK, LabelsInv, ReturnDestsAreContinuations, [Next]_vars
               PROVE  ReturnDestsAreContinuations'
    OBVIOUS
  <1> DEFINE After20(a) == \E p \in starts1 : /\ buf[p].byte = \h20
                                             /\ p + 3 <= Len(buf)
                                             /\ a = buf[p + 3].addr
             After20n(a) == \E p \in starts1' : /\ buf'[p].byte = \h20
                                               /\ p + 3 <= Len(buf')
                                               /\ a = buf'[p + 3].addr
  <1>0. /\ indBrDests \in Seq(Addr) /\ Len(buf) \in Nat
        /\ starts1 \subseteq 1..Len(buf)
    BY DEF TypeOK
  <1>1. /\ \A m, n \in 1..Len(indBrDests) : indBrDests[m] = indBrDests[n] => m = n
        /\ \A m \in 1..Len(indBrDests) : After20(indBrDests[m])
    BY DEF ReturnDestsAreContinuations
  <1>2. SUFFICES
          /\ \A m, n \in 1..Len(indBrDests') :
               indBrDests'[m] = indBrDests'[n] => m = n
          /\ \A m \in 1..Len(indBrDests') : After20n(indBrDests'[m])
    BY DEF ReturnDestsAreContinuations
  <1>3. CASE PpStep
    <2>1. Grows
      BY <1>3, PpStepEffect
    <2>2. ASSUME NEW a, After20(a) PROVE After20n(a)
      <3>1. PICK p \in starts1 : /\ buf[p].byte = \h20
                                 /\ p + 3 <= Len(buf)
                                 /\ a = buf[p + 3].addr
        BY <2>2
      <3>2. p \in starts1' /\ p \in 1..Len(buf) /\ p + 3 \in 1..Len(buf)
        BY <1>0, <2>1, <3>1 DEF Grows
      <3> QED BY <2>1, <3>1, <3>2 DEF Grows
    <2>3. CASE indBrDests' = indBrDests
      BY <1>1, <2>2, <2>3
    <2>4. CASE indBrDests' # indBrDests
      <3> DEFINE next == buf[i + 3].addr
      <3>1. /\ _pp_mklb2 /\ indBrDests' = Append(indBrDests, next)
            /\ next \notin bbMap /\ buf[i].byte = \h20 /\ i + 3 \in 1..Len(buf)
        <4>1. _pp_mklb2
          BY <1>3, <2>4 DEF PpStep, PpSkip, _pp_mklb0, _pp_mklb1
        <4> QED BY <2>4, <4>1
                DEF _pp_mklb2, AtPreprocess, PpInBounds, PpNext, InBuffer, IsJSR
      <3>2. After20n(next)
        BY <1>0, <2>1, <3>1 DEF Grows
      <3>3. \A m \in 1..Len(indBrDests) : indBrDests[m] # next
        BY <3>1 DEF LabelsInv, LabelsMapped
      <3>4. /\ Len(indBrDests') = Len(indBrDests) + 1
            /\ \A m \in 1..Len(indBrDests) : indBrDests'[m] = indBrDests[m]
            /\ indBrDests'[Len(indBrDests) + 1] = next
        BY <1>0, <3>1
      <3> HIDE DEF next, After20, After20n
      <3> QED BY <1>0, <1>1, <2>2, <3>2, <3>3, <3>4
    <2> QED BY <2>3, <2>4
  <1>4. CASE PpDone
    BY <1>1, <1>4 DEF PpDone, passVars
  <1>5. CASE UNCHANGED passVars
    BY <1>1, <1>5 DEF passVars
  <1> QED BY <1>3, <1>4, <1>5, OtherSteps

(* An RTS is given no block twice, and only blocks that follow a JSR.      *)
THEOREM ReturnDestsCorrect == Spec => []ReturnDestsAreContinuations
  <1>1. Init => ReturnDestsAreContinuations
    BY DEF Init, ReturnDestsAreContinuations
  <1> QED BY <1>1, NextReturnDests, LabelsInvariant, PTL DEF Spec
==============================================================================
