------------------------------- MODULE Opcodes -------------------------------
(***************************************************************************)
(* The static tables of the translator (TranslatorData.cxx) and the way    *)
(* process_file takes an instruction byte apart.  A callback is named by   *)
(* the suffix of the member function the table holds; NoCb is nullptr, an  *)
(* empty std::function.                                                    *)
(***************************************************************************)
EXTENDS Defs, Sequences

NoCb == "nullptr"

\* The four bit fields process_file extracts from an instruction byte.
Mode(b)     == b % 4
AddrMode(b) == (b \div 4) % 8
Opcode(b)   == b \div 32

Row(b)    == b \div 16
Column(b) == b % 16

------------------------------------------------------------------------------
(* addrModeCb: the read/write pair of each (mode, addrmode).               *)
addrModeCb ==
  << <<"immediate", "zeropage", NoCb, "absolute",
       NoCb, "zeropage_indexedX", NoCb, "absolute_indexedX">>,
     <<"indirect_zeropage_indexedX", "zeropage", "immediate", "absolute",
       "indirect_zeropage_indexedY", "zeropage_indexedX",
       "absolute_indexedY", "absolute_indexedX">>,
     <<"immediate", "zeropage", "accumulator", "absolute",
       NoCb, "zeropage_indexedX", NoCb, "absolute_indexedX">>,
     <<NoCb, NoCb, NoCb, NoCb, NoCb, NoCb, NoCb, NoCb>> >>

(* opCb: the operation of each (mode, opcode); row 3 is value-initialised. *)
opCb ==
  << <<NoCb, "BIT", NoCb, NoCb, "STY", "LDY", "CPY", "CPX">>,
     <<"ORA", "AND", "EOR", "ADC", "STA", "LDA", "CMP", "SBC">>,
     <<"ASL", "ROL", "LSR", "ROR", "STX", "LDX", "DEC", "INC">>,
     <<NoCb, NoCb, NoCb, NoCb, NoCb, NoCb, NoCb, NoCb>> >>

(* sizeArr: the size table of the first pass, row by row; rows of equal    *)
(* parity agree except for the five bytes listed first.                    *)
GappedRowSizes == <<1, 1, 1, 0, 2, 2, 2, 1, 1, 2, 1, 1, 3, 3, 3, 1>>
EvenRowSizes == <<1, 1, 1, 1, 2, 2, 2, 1, 1, 2, 1, 1, 3, 3, 3, 1>>
OddRowSizes  == <<2, 1, 1, 1, 2, 2, 2, 1, 1, 3, 1, 1, 3, 3, 3, 1>>

sizeArr ==
  [b \in Byte |-> IF b = \h20 THEN 3
                  ELSE IF b \in {\hA0, \hA2, \hC0} THEN 2
                  ELSE IF b = \h89 THEN 1
                  ELSE IF Row(b) % 2 = 0 THEN EvenRowSizes[Column(b) + 1]
                  ELSE OddRowSizes[Column(b) + 1]]

(* ppCb: the first-pass callbacks of the control-transfer instructions.    *)
ppCbWithoutJSR ==
  [b \in Byte |-> IF b = \h60 THEN "mklb0"
                  ELSE IF b % 32 = \h10 THEN "mklb1"
                  ELSE IF b = \h4C THEN "mklb2"
                  ELSE NoCb]
ppCb ==
  [b \in Byte |-> IF b = \h60 THEN "mklb0"
                  ELSE IF b % 32 = \h10 THEN "mklb1"
                  ELSE IF b \in {\h20, \h4C} THEN "mklb2"
                  ELSE NoCb]

(* uuCb: the "unusual" instructions, by column of the table.               *)
ColumnX0 == <<NoCb, "bra", "JSR", "bra", "RTI", "bra", "RTS", "bra",
              NoCb, "bra", NoCb, "bra", NoCb, "bra", NoCb, "bra">>
ColumnX8 == <<"PHP", "CLC", "PLP", "SEC", "PHA", "CLI", "PLA", "SEI",
              "DEY", "TYA", "TAY", "CLV", "INY", "CLD", "INX", "SED">>
ColumnXA == <<NoCb, NoCb, NoCb, NoCb, NoCb, NoCb, NoCb, NoCb,
              "TXA", "TXS", "TAX", "TSX", "DEX", NoCb, "NOP", NoCb>>
uuCb ==
  [b \in Byte |-> IF Column(b) = 0 THEN ColumnX0[Row(b) + 1]
                  ELSE IF Column(b) = 8 THEN ColumnX8[Row(b) + 1]
                  ELSE IF Column(b) = 10 THEN ColumnXA[Row(b) + 1]
                  ELSE IF b = \h4C THEN "jump"
                  ELSE IF b = \h6C THEN "IJMP"
                  ELSE NoCb]

------------------------------------------------------------------------------
(* The standard instructions: what process_file looks up in opCb and       *)
(* addrModeCb, and how many operand bytes the callbacks then take from the *)
(* buffer.  A read-modify-write operation fetches its operand once: the    *)
(* read callback sets _immRead and the write callback finds it set.        *)
Operation(b)  == opCb[Mode(b) + 1][Opcode(b) + 1]
Addressing(b) == addrModeCb[Mode(b) + 1][AddrMode(b) + 1]

IsStandard(b) == uuCb[b] = NoCb

\* Calling an empty std::function throws std::bad_function_call.
Callable(b) == Operation(b) # NoCb /\ Addressing(b) # NoCb

OnlyWrites == {"STA", "STX", "STY"}

TwoByteModes == {"absolute", "absolute_indexedX", "absolute_indexedY"}

OperandBytes(b) ==
  LET m == Addressing(b) IN
  IF m \in TwoByteModes THEN 2
  ELSE IF m = "accumulator" THEN 0
  ELSE IF m = "immediate" /\ Operation(b) \in OnlyWrites THEN 0
  ELSE 1

\* The instructions of uuCb that end a basic block or throw; the others
\* emit straight-line code and take no operand.
Transfers   == {"bra", "JSR", "jump", "RTS"}
Unsupported == {"IJMP", "RTI"}

\* The operations the tables name.
StandardOps == {opCb[m][o] : m \in 1..4, o \in 1..8}
UnusualOps  == {uuCb[b] : b \in Byte}
==============================================================================
