---------------------------- MODULE RuntimeProofs ----------------------------
(***************************************************************************)
(* Proofs about the emitted program when it runs, for every set of files,  *)
(* size of the address space, origin and size of the stack: that it stays  *)
(* within what was emitted, and does what the guest program does, every    *)
(* behaviour of Runtime being, under the refinement mapping GuestAt, one   *)
(* of Guest.                                                               *)
(***************************************************************************)
EXTENDS Runtime, OutputProofs

------------------------------------------------------------------------------
(* Translating and running.                                                *)

\* The translator only moves in its running phases.
LEMMA StepRuns == Step => phase \in Running
  BY DEF Step, FirstPass, SecondPass, PpSkip, _pp_mklb0, _pp_mklb1, _pp_mklb2,
         AtPreprocess, PpUndefined, PpDone, EnterLabel, StayInBlock, Standard,
         BadFunctionCall, Implied, UnsupportedInstruction, Transfer, _uu_bra,
         _uu_jump, _uu_JSR, _uu_RTS, NonexistantBranch, TransferUndefined,
         Finish, output_bitcode, Running

\* What a step does is a step of the translator, or leaves it alone.
LEMMA RuntimeTranslates == [RuntimeNext]_<<vars, runVars>> => [Next]_vars
  BY DEF RuntimeNext, Translate, Execute, Over, Next

\* Running the program leaves the translation as it was.
LEMMA RuntimeConsistent == RuntimeSpec => []Consistent
  BY InitConsistent, NextConsistent, RuntimeTranslates, PTL
     DEF RuntimeSpec, RuntimeInit

------------------------------------------------------------------------------
(* The values of the variables, and what the associations are worth.       *)

\* Nothing has run before the function is written, and then it is complete.
Idle == /\ k = 1 /\ ~lost
        /\ assoc_table = [c \in Cell |-> Unset]
        /\ frames = [c \in Cell |-> 0]
RunInv == /\ RuntimeTypeOK /\ AssocMirrorsStack
          /\ running = "no" => Idle
          /\ running # "no" => Executable

\* There is code to run.
LEMMA CodeStarts == Consistent => 1 \in 1..Len(code)
  <1> SUFFICES ASSUME Consistent PROVE 1 \in 1..Len(code)
    OBVIOUS
  <1>1. code \in Seq(IRCode)
    BY DEF Consistent, TypeOK
  <1>2. Len(code) >= 1
    <2>1. CASE phase = "preprocess"
      BY <2>1 DEF Consistent, BlocksInv, Untouched
    <2>2. CASE phase # "preprocess"
      BY <2>2 DEF Consistent, FlowInv, Flow
    <2> QED BY <2>1, <2>2
  <1> QED BY <1>1, <1>2

\* Only a complete translation is run.
LEMMA ExecutableIsComplete == Consistent /\ Executable => Complete
  BY DEF Executable, Complete

\* The cells of the stack.
LEMMA CellsWrap ==
  ASSUME NEW s \in Cell
  PROVE  /\ (s - 1) % StackSize \in Cell /\ (s + 1) % StackSize \in Cell
         /\ (s - 2) % StackSize \in Cell /\ (s + 2) % StackSize \in Cell
         /\ Moved(s - 1) \in Cell /\ Moved(s + 1) \in Cell
         /\ Moved(s - 2) \in Cell /\ Moved(s + 2) \in Cell
  BY StackSizeAssumption DEF Cell, Moved

\* A block of a complete function has a head.
LEMMA HeadIs ==
  ASSUME Complete, NEW bb \in BlockSet
  PROVE  HeadOf(bb) \in CodeOf(bb) /\ HeadOf(bb) \in 1..Len(code)
         /\ code[HeadOf(bb)].at = EntryOf(bb)
  <1>1. PICK h \in CodeOf(bb) : h = CHOOSE m \in CodeOf(bb) :
                                      \A n \in CodeOf(bb) : m <= n
    BY HeadExists
  <1> QED BY <1>1 DEF HeadOf, EntryOf, CodeOf

\* An assoc records the block of the element after its JSR.
LEMMA AssocIs ==
  ASSUME Complete, NEW n \in 1..Len(code), code[n].op = "assoc"
  PROVE  /\ code[n].at + 3 \in 1..Len(buf)
         /\ code[n].dests[1] = buf[code[n].at + 3].addr
         /\ code[n].dests[1] \in BlockSet
  <1>1. Flow(code) /\ Len(code) \in Nat /\ code[1].op = "prologue"
    BY CompleteIs DEF Flow
  <1>2. n \in 2..Len(code)
    BY <1>1
  <1>3. Faithful(code[n])
    BY <1>1, <1>2 DEF Flow
  <1>4. /\ code[n].at + 3 \in 1..Len(buf) /\ buf[code[n].at + 3].label # NoLabel
        /\ code[n].dests = <<buf[code[n].at + 3].label>>
    BY <1>3 DEF Faithful
  <1> QED BY <1>4, EntryIs

\* A step of the emitted program.
LEMMA NextRun == Consistent /\ Consistent' /\ RunInv /\ [RuntimeNext]_<<vars, runVars>>
                 => RunInv'
  <1> SUFFICES ASSUME Consistent, Consistent', RunInv,
                      [RuntimeNext]_<<vars, runVars>>
               PROVE  RunInv'
    OBVIOUS
  <1>0. RuntimeTypeOK /\ AssocMirrorsStack
    BY DEF RunInv
  <1>1. CASE UNCHANGED <<vars, runVars>>
    BY <1>1 DEF RunInv, RuntimeTypeOK, AssocMirrorsStack, Idle, Executable, vars,
                runVars, Translatable, UniqueAddrs, Registered, JSRs, BlockSet
  <1>2. CASE Translate
    <2>1. running = "no" /\ Idle
      BY <1>2, StepRuns DEF Translate, RunInv, Executable, Running
    <2>2. Idle' /\ running' = "no" /\ S' = S
      BY <1>2, <2>1 DEF Translate, runVars, Idle
    <2>3. Consistent' => (1 \in 1..Len(code))'
      BY CodeStarts, PTL
    <2>4. /\ assoc_table' = [c \in Cell |-> Unset] /\ frames' = [c \in Cell |-> 0]
          /\ k' = 1 /\ lost' = lost
      BY <1>2, <2>2 DEF Idle, Translate, runVars
    <2>5. Len(buf') \in Nat
      <3>1. buf' \in Seq(IData)'
        BY DEF Consistent, TypeOK
      <3>2. buf' \in Seq(IData)
        BY <3>1 DEF IData
      <3> QED BY <3>2
    <2>6. RuntimeTypeOK'
      BY <1>0, <2>2, <2>3, <2>4, <2>5 DEF RuntimeTypeOK
    <2>7. AssocMirrorsStack'
      BY <2>4 DEF AssocMirrorsStack
    <2> QED BY <2>2, <2>6, <2>7 DEF RunInv
  <1>3. CASE Execute
    <2>0. UNCHANGED <<phase, buf, indBrDests, blocks, code, starts1, starts2>>
          /\ UNCHANGED vars
      BY <1>3 DEF Execute, vars
    <2>1. Executable /\ running' # "no"
      BY <1>3 DEF Execute, RunInv, Start, ExecPush, ExecPull, ExecTXS, ExecOther,
                  ExecAssoc, ExecBr, ExecIndirectBr, ExecUndefined, ExecRet, At
    <2>2. Complete
      BY <2>1, ExecutableIsComplete
    <2>3. Executable'
      BY <2>0, <2>1 DEF Executable, Translatable, UniqueAddrs, Registered, JSRs
    <2>4. BlockSet' = BlockSet
      BY <2>0 DEF BlockSet
    <2>5. /\ k \in 1..Len(code) /\ S \in Cell /\ lost \in BOOLEAN
          /\ running \in {"no", "yes", "exited", "undefined"}
          /\ assoc_table \in [Cell -> BlockSet \cup {Unset}]
          /\ frames \in [Cell -> 0..Len(buf)]
          /\ Len(buf) \in Nat /\ Len(code) \in Nat
          /\ \A c \in Cell : frames[c] # 0 => assoc_table[c] = buf[frames[c]].addr
      BY <1>0, <2>2, CompleteIs DEF RuntimeTypeOK, AssocMirrorsStack
    <2>6. ASSUME running' \in {"yes", "exited", "undefined"}, k' \in 1..Len(code),
                 S' \in Cell, lost' \in BOOLEAN,
                 assoc_table' \in [Cell -> BlockSet \cup {Unset}],
                 frames' \in [Cell -> 0..Len(buf)],
                 \A c \in Cell : frames'[c] # 0
                                   => assoc_table'[c] = buf[frames'[c]].addr
          PROVE  RunInv'
      BY <2>0, <2>1, <2>3, <2>4, <2>6
         DEF RunInv, RuntimeTypeOK, AssocMirrorsStack
    <2>7. ASSUME NEW cells
          PROVE  /\ Left(cells) \in [Cell -> 0..Len(buf)]
                 /\ \A c \in Cell : Left(cells)[c] \in {0, frames[c]}
      BY <2>5 DEF Left
    <2>8. ASSUME code[k].op \notin Terminators PROVE NextOf(k) \in 1..Len(code)
      BY <2>2, <2>5, <2>8, NextIs
    <2>9. CASE Start
      <3>1. running = "no" /\ k = 1
        BY <2>9 DEF Start, RunInv, Idle
      <3>2. code[1].op = "prologue"
        BY <2>2, CompleteIs DEF Flow
      <3>3. NextOf(k) \in 1..Len(code)
        BY <2>8, <3>1, <3>2 DEF Terminators
      <3>4. StackSize - 1 \in Cell
        BY StackSizeAssumption DEF Cell
      <3>5. /\ running' = "yes" /\ k' = NextOf(k) /\ S' = StackSize - 1
            /\ UNCHANGED <<assoc_table, frames, lost>>
        BY <2>9, <3>1 DEF Start
      <3> QED BY <2>5, <2>6, <3>3, <3>4, <3>5
    <2>10. CASE ExecPush
      <3>1. /\ running' = "yes" /\ k' = NextOf(k) /\ S' = Moved(S - 1)
            /\ frames' = Left({S}) /\ UNCHANGED <<assoc_table, lost>>
            /\ code[k].op \notin Terminators
        BY <2>10 DEF ExecPush, At, Terminators
      <3>2. \A c \in Cell : frames'[c] \in {0, frames[c]}
        BY <2>7, <3>1
      <3> QED BY <2>5, <2>6, <2>7, <2>8, <3>1, <3>2, CellsWrap
    <2>11. CASE ExecPull \/ ExecTXS \/ ExecOther
      <3>1. /\ running' = "yes" /\ k' = NextOf(k)
            /\ UNCHANGED <<assoc_table, frames, lost>>
            /\ code[k].op \notin Terminators
        BY <2>11 DEF ExecPull, ExecTXS, ExecOther, At, Terminators
      <3>2. S' \in Cell
        BY <2>5, <2>11, CellsWrap DEF ExecPull, ExecTXS, ExecOther
      <3> QED BY <2>5, <2>6, <2>8, <3>1, <3>2
    <2>12. CASE ExecAssoc
      <3> DEFINE p == code[k].at
                 a == code[k].dests[1]
      <3>1. /\ running' = "yes" /\ k' = NextOf(k) /\ S' = Moved(S - 2)
            /\ assoc_table' = [assoc_table EXCEPT ![S] = a]
            /\ frames' = [Left({S, (S - 1) % StackSize}) EXCEPT ![S] = p + 3]
            /\ lost' = lost /\ code[k].op = "assoc"
        BY <2>12 DEF ExecAssoc, At, Slot
      <3>2. p + 3 \in 1..Len(buf) /\ a = buf[p + 3].addr /\ a \in BlockSet
        BY <2>2, <2>5, <3>1, AssocIs
      <3>3. code[k].op \notin Terminators
        BY <3>1 DEF Terminators
      <3> HIDE DEF a, p
      <3>4. assoc_table' \in [Cell -> BlockSet \cup {Unset}]
        BY <2>5, <3>1, <3>2
      <3>5. PICK l \in [Cell -> 0..Len(buf)] :
              /\ l = Left({S, (S - 1) % StackSize})
              /\ \A c \in Cell : l[c] \in {0, frames[c]}
        BY <2>7
      <3>6. frames' = [l EXCEPT ![S] = p + 3]
        BY <3>1, <3>5
      <3>7. frames' \in [Cell -> 0..Len(buf)]
        BY <2>5, <3>2, <3>6
      <3>8. ASSUME NEW c \in Cell, frames'[c] # 0
            PROVE  assoc_table'[c] = buf[frames'[c]].addr
        <4>1. CASE c = S
          BY <2>5, <3>1, <3>2, <3>6, <4>1
        <4>2. CASE c # S
          BY <2>5, <3>1, <3>5, <3>6, <3>8, <4>2
        <4> QED BY <4>1, <4>2
      <3> QED BY <2>5, <2>6, <2>8, <3>1, <3>3, <3>4, <3>7, <3>8, CellsWrap
    <2>13. CASE ExecBr
      <3>1. /\ running' = "yes" /\ UNCHANGED <<S, assoc_table, frames, lost>>
            /\ \E d \in DestsOf(k) : k' = HeadOf(d)
        BY <2>13 DEF ExecBr, At
      <3>2. DestsOf(k) \subseteq BlockSet
        BY <2>2, <2>5, CompleteIs DEF WellFormed
      <3> QED BY <2>2, <2>5, <2>6, <3>1, <3>2, HeadIs
    <2>14. CASE ExecIndirectBr
      <3>1. /\ running' = "yes" /\ UNCHANGED <<assoc_table, frames>>
            /\ Returned \in DestsOf(k) /\ k' = HeadOf(Returned) /\ S' = Moved(S + 2)
            /\ lost' = (lost \/ frames[(S + 2) % StackSize] = 0)
        BY <2>14 DEF ExecIndirectBr, At, Pulled
      <3>2. DestsOf(k) \subseteq BlockSet
        BY <2>2, <2>5, CompleteIs DEF WellFormed
      <3>3. k' \in 1..Len(code)
        BY <2>2, <3>1, <3>2, HeadIs
      <3> QED BY <2>5, <2>6, <3>1, <3>3, CellsWrap
    <2>15. CASE ExecUndefined
      <3>1. /\ running' = "undefined" /\ UNCHANGED <<k, assoc_table, frames>>
            /\ S' = Moved(S + 2)
            /\ lost' = (lost \/ frames[(S + 2) % StackSize] = 0)
        BY <2>15 DEF ExecUndefined, Pulled
      <3> QED BY <2>5, <2>6, <3>1, CellsWrap
    <2>16. CASE ExecRet
      <3>1. running' = "exited" /\ UNCHANGED <<k, S, assoc_table, frames, lost>>
        BY <2>16 DEF ExecRet
      <3> QED BY <2>5, <2>6, <3>1
    <2> QED BY <1>3, <2>9, <2>10, <2>11, <2>12, <2>13, <2>14, <2>15, <2>16
            DEF Execute
  <1>4. CASE Over
    BY <1>1, <1>4 DEF Over
  <1> QED BY <1>1, <1>2, <1>3, <1>4 DEF RuntimeNext

\* The invariant of the run holds at first.
LEMMA InitRun == RuntimeInit => RunInv
  <1> SUFFICES ASSUME RuntimeInit PROVE RunInv
    OBVIOUS
  <1>1. Consistent
    BY InitConsistent DEF RuntimeInit
  <1>2. 0 \in Cell /\ Len(buf) \in Nat /\ k \in 1..Len(code)
    BY <1>1, StackSizeAssumption, CodeStarts, BufferTyped
       DEF Cell, RuntimeInit, Consistent
  <1> QED BY <1>2 DEF RuntimeInit, RunInv, RuntimeTypeOK, AssocMirrorsStack, Idle

\* It always holds.
LEMMA RunInvariant == RuntimeSpec => [](Consistent /\ RunInv)
  BY InitRun, NextRun, RuntimeConsistent, PTL DEF RuntimeSpec

(* In every execution of an emitted program the stack pointer stays in the *)
(* stack page, control is in the function, and an association is a block   *)
(* of it or was never written.                                             *)
THEOREM RuntimeTypes == RuntimeSpec => []RuntimeTypeOK
  BY RunInvariant, PTL DEF RunInv

(* Wherever the guest's stack holds an intact return address the mapper's  *)
(* table has the block of that address under the same cell, however S was  *)
(* moved and wrapped in between.                                           *)
THEOREM AssocCorrect == RuntimeSpec => []AssocMirrorsStack
  BY RunInvariant, PTL DEF RunInv

------------------------------------------------------------------------------
(* The instructions, by their bytes.                                       *)

\* What the tables say of the bytes that Guest treats apart.
LEMMA Transferring ==
  ASSUME NEW b \in Byte
  PROVE  /\ uuCb[b] = "JSR" <=> b = \h20
         /\ uuCb[b] = "jump" <=> b = \h4C
         /\ uuCb[b] = "RTS" <=> b = \h60
         /\ uuCb[b] = "bra" <=> b % 32 = 16
  <1> USE DEF Byte, Row, Column, ColumnX0, ColumnX8, ColumnXA, NoCb
  <1>1. uuCb[b] = "JSR" <=> b = \h20
    BY SMTT(60) DEF uuCb
  <1>2. uuCb[b] = "jump" <=> b = \h4C
    BY SMTT(60) DEF uuCb
  <1>3. uuCb[b] = "RTS" <=> b = \h60
    BY SMTT(60) DEF uuCb
  <1>4. uuCb[b] = "bra" <=> b % 32 = 16
    BY SMTT(60) DEF uuCb
  <1> QED BY <1>1, <1>2, <1>3, <1>4

\* The operation a byte is translated into.
OpOf(b) == IF IsStandard(b) THEN Operation(b) ELSE uuCb[b]

\* The instructions that move the stack pointer, by their bytes.
LEMMA Stacking ==
  ASSUME NEW b \in Byte
  PROVE  /\ OpOf(b) \in {"PHA", "PHP"} <=> b \in {\h48, \h08}
         /\ OpOf(b) \in {"PLA", "PLP"} <=> b \in {\h68, \h28}
         /\ OpOf(b) \in {"TXS"} <=> b = \h9A
         /\ b \in {\h48, \h08, \h68, \h28, \h9A} => ~IsStandard(b)
  <1> USE DEF Byte, Row, Column, ColumnX0, ColumnX8, ColumnXA, NoCb
  <1>1. Mode(b) + 1 \in 1..4 /\ Opcode(b) + 1 \in 1..8
    BY DEF Mode, Opcode
  <1>2. \A m \in 1..4, o \in 1..8 :
          opCb[m][o] \notin {"PHA", "PHP", "PLA", "PLP", "TXS"}
    BY DEF opCb
  <1>3. Operation(b) \notin {"PHA", "PHP", "PLA", "PLP", "TXS"}
    BY <1>1, <1>2 DEF Operation
  <1>4. uuCb[b] \in {"PHA", "PHP"} <=> b \in {\h48, \h08}
    BY SMTT(60) DEF uuCb
  <1>5. uuCb[b] \in {"PLA", "PLP"} <=> b \in {\h68, \h28}
    BY SMTT(60) DEF uuCb
  <1>6. uuCb[b] \in {"TXS"} <=> b = \h9A
    BY SMTT(60) DEF uuCb
  <1>7. b \in {\h48, \h08, \h68, \h28, \h9A} => ~IsStandard(b)
    BY <1>4, <1>5, <1>6 DEF IsStandard
  <1> QED BY <1>3, <1>4, <1>5, <1>6, <1>7 DEF OpOf

\* Guest reads the same tables.
LEMMA SameTables ==
  /\ G!NoCb = NoCb /\ G!uuCb = uuCb
  /\ \A b : G!IsStandard(b) <=> IsStandard(b)
  /\ \A b : G!OperandBytes(b) = OperandBytes(b)
  /\ \A b : G!offset(b) = offset(b)
  /\ \A x, y : G!makeword(x, y) = makeword(x, y)
  <1>1. G!uuCb = uuCb /\ G!NoCb = NoCb
    BY DEF G!uuCb, uuCb, G!Byte, Byte, G!Row, Row, G!Column, Column, G!ColumnX0,
           ColumnX0, G!ColumnX8, ColumnX8, G!ColumnXA, ColumnXA, G!NoCb, NoCb
  <1>2. \A b : G!IsStandard(b) <=> IsStandard(b)
    BY <1>1 DEF G!IsStandard, IsStandard
  <1>3. G!opCb = opCb /\ G!addrModeCb = addrModeCb
    BY DEF G!opCb, opCb, G!addrModeCb, addrModeCb, G!NoCb, NoCb
  <1>4. ASSUME NEW b
        PROVE  G!Operation(b) = Operation(b) /\ G!Addressing(b) = Addressing(b)
    BY <1>3 DEF G!Operation, Operation, G!Addressing, Addressing, G!Mode, Mode,
                G!Opcode, Opcode, G!AddrMode, AddrMode
  <1>5. ASSUME NEW b PROVE G!OperandBytes(b) = OperandBytes(b)
    BY <1>4 DEF G!OperandBytes, OperandBytes, G!TwoByteModes, TwoByteModes,
                G!OnlyWrites, OnlyWrites
  <1>6. \A b : G!offset(b) = offset(b)
    BY DEF G!offset, offset
  <1>7. \A x, y : G!makeword(x, y) = makeword(x, y)
    BY DEF G!makeword, makeword
  <1> QED BY <1>1, <1>2, <1>5, <1>6, <1>7

------------------------------------------------------------------------------
(* Where the emitted program is.                                           *)

\* The position of the guest while control is at entry n.
PlaceOf(n) == IF EndsCall(code[n]) THEN EntryOf(code[n].dests[1]) ELSE code[n].at

\* What an entry of the code after the prologue consists of.
LEMMA CodeIs ==
  ASSUME Complete, NEW n \in 2..Len(code)
  PROVE  /\ n \in 1..Len(code) /\ Faithful(code[n]) /\ code[n].op # "prologue"
         /\ code[n].op \in Operations
         /\ code[n].op \notin {"ret"} => /\ code[n].at \in 1..Len(buf)
                                         /\ buf[code[n].at].byte \in Byte
  <1>1. Flow(code) /\ code \in Seq(IRCode) /\ Len(code) \in Nat
    BY CompleteIs
  <1>2. n \in 1..Len(code) /\ Faithful(code[n]) /\ code[n].op # "prologue"
    BY <1>1 DEF Flow
  <1>3. code[n] \in IRCode
    BY <1>1, <1>2
  <1>4. code[n].op # "ret" => code[n].at \in 1..Len(buf)
    BY <1>2 DEF Faithful
  <1> QED BY <1>2, <1>3, <1>4, BufferTyped DEF IRCode, Complete, Consistent

\* GuestAt, where control is in the function.
LEMMA GuestAtIs ==
  ASSUME Complete, k \in 2..Len(code)
  PROVE  GuestAt = IF lost THEN -1
                   ELSE IF running = "no" THEN 0
                   ELSE IF running = "undefined" THEN -2
                   ELSE PlaceOf(k)
  <1>1. code[k].op = "br" => code[k].at \in 1..Len(buf) /\ buf[code[k].at].byte \in Byte
    BY CodeIs
  <1>2. EntersBlock <=> EndsCall(code[k])
    BY <1>1, Transferring DEF EntersBlock, EndsCall
  <1> QED BY <1>2 DEF GuestAt, PlaceOf

\* An operation that transfers no control is at its instruction, and the
\* next entry at the next instruction.
LEMMA StraightPlaces ==
  ASSUME Complete, NEW n \in 2..Len(code), code[n].op \in Straight
  PROVE  /\ NextOf(n) \in 2..Len(code)
         /\ PlaceOf(n) = code[n].at
         /\ PlaceOf(NextOf(n)) = StraightNext(code[n].at)
         /\ code[n].at \in 1..Len(buf) /\ buf[code[n].at].byte \in Byte
         /\ code[n].op = OpOf(buf[code[n].at].byte)
         /\ uuCb[buf[code[n].at].byte] \notin Transfers
  <1>1. /\ code[n].op \notin Terminators
        /\ code[n].op \notin {"prologue", "assoc", "ret", "br"}
    BY DEF Straight, Terminators
  <1>2. n \in 1..Len(code) /\ Faithful(code[n]) /\ code[n].at \in 1..Len(buf)
        /\ buf[code[n].at].byte \in Byte
    BY <1>1, CodeIs
  <1>3. NextOf(n) = n + 1 /\ n + 1 \in 1..Len(code) /\ Follows(code[n], code[n + 1])
    BY <1>1, <1>2, NextIs
  <1>4. ~EndsCall(code[n]) /\ ~EndsCall(code[n + 1])
    BY <1>1, <1>3 DEF EndsCall, Follows
  <1>5. code[n + 1].at = StraightNext(code[n].at)
    BY <1>1, <1>3 DEF Follows, MayFollow, NextAt
  <1>6. /\ code[n].op = OpOf(buf[code[n].at].byte)
        /\ uuCb[buf[code[n].at].byte] \notin Transfers
    BY <1>2 DEF Faithful, OpOf
  <1>7. n + 1 \in 2..Len(code)
    BY <1>3
  <1> QED BY <1>2, <1>3, <1>4, <1>5, <1>6, <1>7 DEF PlaceOf

\* The code of a block that has a label is at that label.
LEMMA LabelPlace ==
  ASSUME Complete, NEW p \in 1..Len(buf), buf[p].label # NoLabel
  PROVE  /\ HeadOf(buf[p].label) \in 2..Len(code)
         /\ PlaceOf(HeadOf(buf[p].label)) = p
  BY LabelHead DEF HeadOf, PlaceOf


\* Elements of the file are at their addresses.
Addresses == \A q \in 1..(Len(buf) - 1) : buf[q].addr = (Origin + q - 1) % AddrSpace

\* Every byte is at its address at first.
LEMMA InitAddresses == Init => Addresses
  <1> SUFFICES ASSUME Init, NEW q \in 1..(Len(buf) - 1)
               PROVE  buf[q].addr = (Origin + q - 1) % AddrSpace
    BY DEF Addresses
  <1>1. PICK image \in Images : buf = Load(image)
    BY DEF Init
  <1>2. Len(buf) = Len(image) + 1 /\ Len(image) \in Nat
    BY <1>1, LoadIsBuffer
  <1>3. q \in 1..(Len(image) + 1) /\ q <= Len(image)
    BY <1>2
  <1> QED BY <1>1, <1>3 DEF Load

\* Every step keeps it there.
LEMMA NextAddresses == TypeOK /\ Addresses /\ [Next]_vars => Addresses'
  <1> SUFFICES ASSUME TypeOK, Addresses, [Next]_vars PROVE Addresses'
    OBVIOUS
  <1>1. CASE buf' = buf
    BY <1>1 DEF Addresses
  <1>2. CASE PpStep
    <2>1. Len(buf') = Len(buf) /\ \A p \in 1..Len(buf) : buf'[p].addr = buf[p].addr
      BY <1>2, PpStepEffect DEF Grows
    <2> QED BY <2>1, BufferTyped DEF Addresses
  <1> QED BY <1>1, <1>2, OtherSteps DEF PpDone, passVars

\* The program Guest runs is the buffer.
LEMMA GuestReads ==
  ASSUME Complete, NEW p \in 1..Len(buf), GuestAt = p
  PROVE  /\ G!Running /\ G!opcode = buf[p].byte
         /\ \A n \in 1..2 : p + n \in 1..Len(buf) => G!Operand(n) = buf[p + n].byte
  <1>1. Len(buf) \in Nat
    BY CompleteIs
  <1> DEFINE program == [q \in 1..Len(buf) |-> buf[q].byte]
  <1>2. Len(program) = Len(buf)
    BY <1>1
  <1> QED BY <1>1, <1>2 DEF G!Running, G!opcode, G!Operand

\* What the translator jumps to, the guest jumps to.
LEMMA GuestTargets ==
  ASSUME Complete, Addresses, NEW p \in 1..Len(buf), GuestAt = p,
         NEW t \in 1..Len(buf), p + 3 \in 1..Len(buf), buf[t].addr = JumpAddress(p)
  PROVE  t \in G!Targets
  <1> DEFINE program == [q \in 1..Len(buf) |-> buf[q].byte]
  <1>0. Len(buf) \in Nat
    BY CompleteIs
  <1>1. Len(program) = Len(buf)
    BY <1>0
  <1>2. p + 1 \in 1..Len(buf) /\ p + 2 \in 1..Len(buf)
    BY <1>0
  <1>3. G!Operand(1) = buf[p + 1].byte /\ G!Operand(2) = buf[p + 2].byte
    BY <1>2, GuestReads
  <1>4. G!InFile = {q \in 1..(Len(buf) - 1) :
                      (Origin + q - 1) % AddrSpace = JumpAddress(p)}
    BY <1>1, <1>3, SameTables DEF G!InFile, JumpAddress
  <1>5. G!InFile = {q \in 1..(Len(buf) - 1) : buf[q].addr = buf[t].addr}
    BY <1>4 DEF Addresses
  <1>6. UniqueAddrs
    BY DEF Complete, Translatable
  <1>7. CASE t # Len(buf)
    <2>1. t \in 1..(Len(buf) - 1)
      BY <1>0, <1>7
    <2> QED BY <1>5, <2>1 DEF G!Targets
  <1>8. CASE t = Len(buf)
    <2>1. \A q \in 1..(Len(buf) - 1) : q \in 1..Len(buf) /\ q # t
      BY <1>0, <1>8
    <2>2. G!InFile = {}
      BY <1>5, <1>6, <2>1 DEF UniqueAddrs
    <2>3. G!Targets = {Len(program)}
      BY <2>2 DEF G!Targets
    <2> QED BY <1>1, <1>8, <2>3
  <1> QED BY <1>7, <1>8

(* Where the branches that end a block lead: into the block of the label   *)
(* just reached, to the guest's target, or on.                             *)
LEMMA BranchPlaces ==
  ASSUME Complete, NEW n \in 2..Len(code), code[n].op \in {"fall", "br", "condbr"},
         NEW d \in DestsOf(n)
  PROVE  LET p == code[n].at
         IN  /\ HeadOf(d) \in 2..Len(code)
             /\ code[n].op = "fall" => PlaceOf(HeadOf(d)) = PlaceOf(n)
             /\ EndsCall(code[n]) => PlaceOf(HeadOf(d)) = PlaceOf(n)
             /\ code[n].op = "br" /\ ~EndsCall(code[n]) =>
                  /\ PlaceOf(n) = p /\ uuCb[buf[p].byte] = "jump"
                  /\ PlaceOf(HeadOf(d)) \in 1..Len(buf) /\ p + 3 \in 1..Len(buf)
                  /\ buf[PlaceOf(HeadOf(d))].addr = JumpAddress(p)
             /\ code[n].op = "condbr" =>
                  /\ PlaceOf(n) = p /\ uuCb[buf[p].byte] = "bra"
                  /\ p + 1 \in 1..Len(buf)
                  /\ PlaceOf(HeadOf(d))
                       \in {p + 2, p + 2 + offset(buf[p + 1].byte)}
  <1> DEFINE p == code[n].at
  <1>1. Faithful(code[n]) /\ p \in 1..Len(buf) /\ buf[p].byte \in Byte
    BY CodeIs
  <1>2. /\ uuCb[buf[p].byte] = "bra" <=> ppCb[buf[p].byte] = "mklb1"
        /\ uuCb[buf[p].byte] \in {"jump", "JSR"} <=> ppCb[buf[p].byte] = "mklb2"
    BY <1>1, TablesAgree
  <1>3. Len(buf) \in Nat
    BY CompleteIs
  <1>4. CASE code[n].op = "fall"
    <2>1. buf[p].label # NoLabel /\ DestsOf(n) = {buf[p].label}
      <3>1. buf[p].label # NoLabel /\ code[n].dests = <<buf[p].label>>
        BY <1>1, <1>4 DEF Faithful
      <3> QED BY <3>1 DEF DestsOf
    <2>2. PlaceOf(n) = p /\ ~EndsCall(code[n])
      BY <1>4 DEF PlaceOf, EndsCall
    <2> QED BY <1>1, <1>4, <2>1, <2>2, LabelPlace
  <1>5. CASE code[n].op = "br"
    <2>1. /\ uuCb[buf[p].byte] \in {"jump", "JSR"} /\ buf[p].dst # NoLabel
          /\ code[n].dests = <<buf[p].dst>>
      BY <1>1, <1>5 DEF Faithful
    <2>2. d = buf[p].dst /\ code[n].dests[1] = buf[p].dst
      BY <2>1 DEF DestsOf
    <2>3. PICK t \in 1..Len(buf) : LeadsTo(p, t) /\ EntryOf(buf[p].dst) = t
      BY <1>1, <2>1, TargetIs
    <2>4. buf[t].label # NoLabel /\ buf[t].label = d
      BY <2>2, <2>3, EntryIs DEF LeadsTo
    <2>5. HeadOf(d) \in 2..Len(code) /\ PlaceOf(HeadOf(d)) = t
      BY <2>4, LabelPlace
    <2>6. buf[t].addr = JumpAddress(p) /\ p + 3 \in 1..Len(buf)
      BY <1>2, <2>1, <2>3 DEF LeadsTo
    <2>7. EndsCall(code[n]) => PlaceOf(n) = t
      BY <2>2, <2>3 DEF PlaceOf
    <2>8. ~EndsCall(code[n]) => PlaceOf(n) = p /\ uuCb[buf[p].byte] = "jump"
      BY <1>5, <2>1 DEF PlaceOf, EndsCall
    <2> QED BY <1>5, <2>5, <2>6, <2>7, <2>8
  <1>6. CASE code[n].op = "condbr"
    <2>1. /\ uuCb[buf[p].byte] = "bra" /\ buf[p].dst # NoLabel
          /\ p + 2 \in 1..Len(buf) /\ buf[p + 2].label # NoLabel
          /\ code[n].dests = <<buf[p].dst, buf[p + 2].label>>
      BY <1>1, <1>6 DEF Faithful
    <2>2. d \in {buf[p].dst, buf[p + 2].label}
      <3>1. /\ Len(code[n].dests) = 2 /\ code[n].dests[1] = buf[p].dst
            /\ code[n].dests[2] = buf[p + 2].label
        BY <2>1
      <3> QED BY <3>1 DEF DestsOf
    <2>3. PICK t \in 1..Len(buf) : LeadsTo(p, t) /\ EntryOf(buf[p].dst) = t
      BY <1>1, <2>1, TargetIs
    <2>4. buf[t].label # NoLabel /\ buf[t].label = buf[p].dst
      BY <2>3, EntryIs DEF LeadsTo
    <2>5. t = p + 2 + offset(buf[p + 1].byte)
      BY <1>2, <2>1, <2>3 DEF LeadsTo
    <2>6. HeadOf(d) \in 2..Len(code) /\ PlaceOf(HeadOf(d)) \in {p + 2, t}
      BY <2>1, <2>2, <2>4, LabelPlace
    <2>7. PlaceOf(n) = p /\ ~EndsCall(code[n]) /\ p + 1 \in 1..Len(buf)
      BY <1>1, <1>3, <1>6, <2>1 DEF PlaceOf, EndsCall
    <2> QED BY <1>6, <2>1, <2>5, <2>6, <2>7
  <1> QED BY <1>4, <1>5, <1>6

\* A JSR: its assoc, and then the br to its target.
LEMMA CallPlaces ==
  ASSUME Complete, NEW n \in 2..Len(code), code[n].op = "assoc"
  PROVE  LET p == code[n].at
         IN  /\ NextOf(n) \in 2..Len(code) /\ PlaceOf(n) = p
             /\ p \in JSRs /\ p \in 1..Len(buf) /\ p + 3 \in 1..Len(buf)
             /\ PlaceOf(NextOf(n)) \in 1..Len(buf)
             /\ buf[PlaceOf(NextOf(n))].addr = JumpAddress(p)
  <1> DEFINE p == code[n].at
  <1>1. Faithful(code[n]) /\ p \in 1..Len(buf) /\ buf[p].byte \in Byte
        /\ n \in 1..Len(code)
    BY CodeIs
  <1>2. uuCb[buf[p].byte] = "JSR" /\ buf[p].dst # NoLabel
    BY <1>1 DEF Faithful
  <1>3. ppCb[buf[p].byte] = "mklb2" /\ buf[p].byte = \h20
    BY <1>1, <1>2, TablesAgree, Transferring
  <1>4. PICK t \in 1..Len(buf) : LeadsTo(p, t) /\ EntryOf(buf[p].dst) = t
    BY <1>1, <1>2, TargetIs
  <1>5. p \in starts1 /\ buf[t].addr = JumpAddress(p) /\ p + 3 \in 1..Len(buf)
    BY <1>3, <1>4 DEF LeadsTo
  <1>6. code[n].op \notin Terminators
    BY DEF Terminators
  <1>7. /\ NextOf(n) = n + 1 /\ n + 1 \in 1..Len(code)
        /\ Follows(code[n], code[n + 1]) /\ Faithful(code[n + 1])
    BY <1>1, <1>6, NextIs
  <1> DEFINE f == code[n + 1]
  <1>8. EndsCall(f) /\ f.at = p /\ f.op = "br"
    BY <1>6, <1>7 DEF Follows, EndsCall, MayFollow, NextAt
  <1>9. f.dests[1] = buf[p].dst
    BY <1>7, <1>8 DEF Faithful
  <1>10. PlaceOf(n + 1) = t
    BY <1>4, <1>8, <1>9 DEF PlaceOf
  <1>11. PlaceOf(n) = p
    BY DEF PlaceOf, EndsCall
  <1>12. n + 1 \in 2..Len(code)
    BY <1>7
  <1> QED BY <1>1, <1>3, <1>5, <1>7, <1>10, <1>11, <1>12 DEF JSRs

\* An RTS: a destination of the indirectbr is at the element after a JSR.
LEMMA ReturnPlaces ==
  ASSUME Complete, NEW n \in 2..Len(code), code[n].op = "indirectbr"
  PROVE  /\ PlaceOf(n) = code[n].at /\ code[n].at \in 1..Len(buf)
         /\ buf[code[n].at].byte = \h60 /\ code[n].dests = indBrDests
         /\ \A f \in 1..Len(buf) : buf[f].addr \in DestsOf(n) =>
              PlaceOf(HeadOf(buf[f].addr)) = f
         /\ \A d \in DestsOf(n) : HeadOf(d) \in 2..Len(code)
  <1>1. /\ Faithful(code[n]) /\ code[n].at \in 1..Len(buf)
        /\ buf[code[n].at].byte \in Byte
    BY CodeIs
  <1>2. uuCb[buf[code[n].at].byte] = "RTS" /\ code[n].dests = indBrDests
    BY <1>1 DEF Faithful
  <1>3. PlaceOf(n) = code[n].at
    BY DEF PlaceOf, EndsCall
  <1>4. \A d \in DestsOf(n) : \E q \in 1..Len(buf) : d = buf[q].addr
                                                   /\ buf[q].label # NoLabel
    <2>1. SUFFICES ASSUME NEW m \in 1..Len(indBrDests)
                   PROVE  \E q \in 1..Len(buf) : indBrDests[m] = buf[q].addr
                                                 /\ buf[q].label # NoLabel
      BY <1>2 DEF DestsOf
    <2>2. PICK p \in starts1 : /\ buf[p].byte = \h20 /\ p + 3 <= Len(buf)
                               /\ indBrDests[m] = buf[p + 3].addr
      BY DEF Complete, Consistent, ReturnDestsAreContinuations
    <2>3. ppCb[buf[p].byte] = "mklb2"
      BY <2>2 DEF ppCb, Byte
    <2>4. /\ buf[p + 3].label # NoLabel /\ starts1 \subseteq 1..Len(buf)
          /\ Len(buf) \in Nat
      BY <2>2, <2>3, BufferTyped DEF Complete, Consistent, LabelsInv, Preprocessed
    <2>5. p + 3 \in 1..Len(buf)
      <3>1. p \in 1..Len(buf) /\ p + 3 <= Len(buf)
        BY <2>2, <2>4
      <3> QED BY <2>4, <3>1
    <2> QED BY <2>2, <2>4, <2>5
  <1>5. \A q \in 1..Len(buf) : buf[q].label # NoLabel =>
          /\ HeadOf(buf[q].addr) \in 2..Len(code)
          /\ PlaceOf(HeadOf(buf[q].addr)) = q
    BY LabelPlace, EntryIs
  <1>6. UniqueAddrs
    BY DEF Complete, Translatable
  <1>7. ASSUME NEW f \in 1..Len(buf), buf[f].addr \in DestsOf(n)
        PROVE  PlaceOf(HeadOf(buf[f].addr)) = f
    BY <1>4, <1>5, <1>6, <1>7 DEF UniqueAddrs
  <1> QED BY <1>1, <1>2, <1>3, <1>4, <1>5, <1>7, Transferring

------------------------------------------------------------------------------
(* The steps.                                                              *)

(* While the emitted program runs it is past the prologue, and the frames  *)
(* of the guest's stack are return addresses of JSRs.                      *)
Tracks == /\ running = "yes" => k \in 2..Len(code)
          /\ running = "undefined" => lost
          /\ \A c \in Cell : frames[c] # 0 => \E p \in JSRs : frames[c] = p + 3

RefineInv == Consistent /\ RunInv /\ Addresses /\ Tracks

\* What a step of the function is to the guest.
GuestStep == [G!Next]_<<GuestAt, S, frames>>

\* Both stacks lose the same frames.
LEMMA SameStack ==
  /\ G!Cell = Cell /\ G!Lost = -1
  /\ \A cells : G!Overwritten(cells) = Left(cells)
  /\ \A s : Moved(s) = s % StackSize
  <1>1. G!Cell = Cell
    BY DEF G!Cell, Cell
  <1>2. \A cells : G!Overwritten(cells) = Left(cells)
    BY <1>1 DEF G!Overwritten, Left
  <1> QED BY <1>1, <1>2 DEF G!Lost, Moved

\* Once the guest is lost it stays so, and anything may happen.
LEMMA LostSteps == GuestAt = -1 /\ GuestAt' = -1 => GuestStep
  BY SameStack DEF GuestStep, G!Next, G!Wander

(* The step of a running program from entry k, at position p of the guest, *)
(* which is not lost; the place of the next entry is GuestAt'.             *)
LEMMA PushRefines ==
  ASSUME Complete, NEW p \in 1..Len(buf), GuestAt = p,
         buf[p].byte \in {\h48, \h08}, GuestAt' = p + 1,
         S' = Moved(S - 1), frames' = Left({S})
  PROVE  GuestStep
  <1>1. G!Running /\ G!opcode = buf[p].byte
    BY GuestReads
  <1>2. G!Push
    BY <1>1, SameStack DEF G!Push, G!Pushes
  <1> QED BY <1>2 DEF GuestStep, G!Next

\* PLA and PLP are steps of the guest.
LEMMA PullRefines ==
  ASSUME Complete, NEW p \in 1..Len(buf), GuestAt = p,
         buf[p].byte \in {\h68, \h28}, GuestAt' = p + 1,
         S' = Moved(S + 1), frames' = frames
  PROVE  GuestStep
  <1>1. G!Running /\ G!opcode = buf[p].byte
    BY GuestReads
  <1>2. G!Pull
    BY <1>1, SameStack DEF G!Pull, G!Pulls
  <1> QED BY <1>2 DEF GuestStep, G!Next

\* So is TXS.
LEMMA TXSRefines ==
  ASSUME Complete, NEW p \in 1..Len(buf), GuestAt = p,
         buf[p].byte = \h9A, GuestAt' = p + 1, S' \in Cell, frames' = frames
  PROVE  GuestStep
  <1>1. G!Running /\ G!opcode = buf[p].byte
    BY GuestReads
  <1>2. G!TXS
    BY <1>1, SameStack DEF G!TXS
  <1> QED BY <1>2 DEF GuestStep, G!Next

\* So is JSR.
LEMMA CallRefines ==
  ASSUME Complete, Addresses, NEW p \in 1..Len(buf), GuestAt = p,
         buf[p].byte = \h20, p + 3 \in 1..Len(buf),
         GuestAt' \in 1..Len(buf), buf[GuestAt'].addr = JumpAddress(p),
         S' = Moved(S - 2),
         frames' = [Left({S, (S - 1) % StackSize}) EXCEPT ![S] = p + 3]
  PROVE  GuestStep
  <1>1. G!Running /\ G!opcode = buf[p].byte
    BY GuestReads
  <1>2. PICK t \in 1..Len(buf) : t = GuestAt'
    OBVIOUS
  <1>3. t \in G!Targets
    BY <1>2, GuestTargets
  <1>4. G!Call
    BY <1>1, <1>2, <1>3, SameStack DEF G!Call
  <1> QED BY <1>4 DEF GuestStep, G!Next

\* So are jumps.
LEMMA JumpRefines ==
  ASSUME Complete, Addresses, NEW p \in 1..Len(buf), GuestAt = p,
         buf[p].byte = \h4C, p + 3 \in 1..Len(buf),
         GuestAt' \in 1..Len(buf), buf[GuestAt'].addr = JumpAddress(p),
         S' = S, frames' = frames
  PROVE  GuestStep
  <1>1. G!Running /\ G!opcode = buf[p].byte
    BY GuestReads
  <1>2. PICK t \in 1..Len(buf) : t = GuestAt'
    OBVIOUS
  <1>3. t \in G!Targets
    BY <1>2, GuestTargets
  <1>4. G!Jump
    BY <1>1, <1>2, <1>3 DEF G!Jump
  <1> QED BY <1>4 DEF GuestStep, G!Next

\* So is RTS.
LEMMA ReturnRefines ==
  ASSUME Complete, NEW p \in 1..Len(buf), GuestAt = p, buf[p].byte = \h60,
         S' = Moved(S + 2), frames' = frames,
         GuestAt' = IF frames[Moved(S + 2)] # 0 THEN frames[Moved(S + 2)] ELSE -1
  PROVE  GuestStep
  <1>1. G!Running /\ G!opcode = buf[p].byte
    BY GuestReads
  <1>2. G!Return
    BY <1>1, SameStack DEF G!Return
  <1> QED BY <1>2 DEF GuestStep, G!Next

\* So is any other instruction.
LEMMA OtherRefines ==
  ASSUME Complete, NEW p \in 1..Len(buf), GuestAt = p, buf[p].byte \in Byte,
         buf[p].byte \notin {\h48, \h08, \h68, \h28, \h9A, \h20, \h4C, \h60},
         S' = S, frames' = frames,
         \/ buf[p].byte % 32 # 16 /\ GuestAt' = StraightNext(p)
         \/ /\ buf[p].byte % 32 = 16 /\ p + 1 \in 1..Len(buf)
            /\ GuestAt' \in {p + 2, p + 2 + offset(buf[p + 1].byte)}
  PROVE  GuestStep
  <1>1. G!Running /\ G!opcode = buf[p].byte
    BY GuestReads
  <1>2. G!opcode \notin G!Special
    BY <1>1 DEF G!Special, G!Pushes, G!Pulls
  <1>3. G!Other
    <2>1. CASE buf[p].byte % 32 # 16
      <3>1. G!opcode % 32 # 16
        BY <1>1, <2>1
      <3>2. GuestAt' = p + G!Size
        <4>1. G!Size = IF IsStandard(buf[p].byte)
                       THEN 1 + OperandBytes(buf[p].byte) ELSE 1
          BY <1>1, <3>1, SameTables DEF G!Size
        <4>2. OperandBytes(buf[p].byte) \in {0, 1, 2}
          BY OperandRange
        <4>3. p + (1 + OperandBytes(buf[p].byte)) = p + 1 + OperandBytes(buf[p].byte)
          BY <4>2
        <4> QED BY <2>1, <4>1, <4>3 DEF StraightNext
      <3> QED BY <1>1, <1>2, <3>2 DEF G!Other
    <2>2. CASE buf[p].byte % 32 = 16
      <3>1. G!Operand(1) = buf[p + 1].byte
        BY <2>2, GuestReads
      <3>2. G!Size = 2
        BY <1>1, <2>2 DEF G!Size
      <3>3. G!opcode % 32 = 16
        BY <1>1, <2>2
      <3> QED BY <1>1, <1>2, <2>2, <3>1, <3>2, <3>3, SameTables DEF G!Other
    <2> QED BY <2>1, <2>2
  <1> QED BY <1>3 DEF GuestStep, G!Next

(* A step of the emitted program keeps it where the guest is.              *)
LEMMA ExecuteRefines ==
  ASSUME RefineInv, RunInv', Execute
  PROVE  Tracks' /\ GuestStep
  <1>0. /\ UNCHANGED vars /\ UNCHANGED <<buf, code, indBrDests, starts1>>
        /\ Executable /\ running' # "no"
    BY DEF Execute, vars, RefineInv, RunInv, Start, ExecPush, ExecPull, ExecTXS,
           ExecOther, ExecAssoc, ExecBr, ExecIndirectBr, ExecUndefined, ExecRet, At
  <1>1. Complete /\ Addresses /\ Consistent
    BY <1>0, ExecutableIsComplete DEF RefineInv
  <1>2. /\ k \in 1..Len(code) /\ S \in Cell /\ lost \in BOOLEAN
        /\ frames \in [Cell -> 0..Len(buf)] /\ Len(buf) \in Nat /\ Len(code) \in Nat
        /\ running \in {"no", "yes", "exited", "undefined"}
    BY <1>1, CompleteIs DEF RefineInv, RunInv, RuntimeTypeOK
  <1>3. /\ running = "yes" => k \in 2..Len(code)
        /\ running = "undefined" => lost
        /\ \A c \in Cell : frames[c] # 0 => \E p \in JSRs : frames[c] = p + 3
    BY DEF RefineInv, Tracks
  <1>4. running = "yes" => GuestAt = IF lost THEN -1 ELSE PlaceOf(k)
    BY <1>1, <1>3, GuestAtIs
  \* What is left to show of a step to the entry n.
  <1>5. ASSUME NEW n \in 2..Len(code), k' = n, running' = "yes"
        PROVE  GuestAt' = IF lost' THEN -1 ELSE PlaceOf(n)
    <2>1. n \in 1..Len(code) /\ (code[n].op = "br" => buf[code[n].at].byte \in Byte)
      BY <1>1, CodeIs
    <2>2. (code[n].op = "br" /\ buf[code[n].at].byte = \h20) <=> EndsCall(code[n])
      BY <2>1, Transferring DEF EndsCall
    <2>3. EntryOf(code[n].dests[1])' = EntryOf(code[n].dests[1])
      BY <1>0 DEF EntryOf, CodeOf
    <2>4. EntersBlock' <=> EndsCall(code[n])
      BY <1>0, <1>5, <2>2 DEF EntersBlock
    <2>5. code'[k'].dests[1] = code[n].dests[1] /\ code'[k'].at = code[n].at
      BY <1>0, <1>5
    <2>6. EndsCall(code[n]) =>
            EntryOf(code[k].dests[1])' = EntryOf(code[n].dests[1])
      BY <1>0, <1>5 DEF EntryOf, CodeOf
    <2> QED BY <1>5, <2>4, <2>5, <2>6 DEF GuestAt, PlaceOf
  <1>6. ASSUME running' = "yes", k' \in 2..Len(code), frames' = frames
        PROVE  Tracks'
    BY <1>0, <1>3, <1>6 DEF Tracks, JSRs
  <1>7. ASSUME running = "yes", lost, lost' PROVE GuestStep
    <2>1. GuestAt = -1 /\ GuestAt' = -1
      BY <1>7 DEF GuestAt
    <2> QED BY <2>1, LostSteps
  <1>8. ASSUME NEW cells, NEW c \in Cell PROVE Left(cells)[c] \in {0, frames[c]}
    BY <1>2 DEF Left
  <1>9. CASE Start
    <2>1. /\ running = "no" /\ running' = "yes" /\ k' = NextOf(1) /\ ~lost /\ lost' = lost
          /\ S' = StackSize - 1 /\ frames' = frames /\ frames = [c \in Cell |-> 0]
          /\ 1 \in 1..Len(code)
      BY <1>1, <1>9, CodeStarts DEF Start, RefineInv, RunInv, Idle
    <2>2. code[1].op = "prologue"
      BY <1>1, CompleteIs DEF Flow
    <2>3. /\ NextOf(1) = 2 /\ 2 \in 2..Len(code) /\ Follows(code[1], code[2])
      BY <1>1, <2>1, <2>2, NextIs DEF Terminators
    <2>4. PlaceOf(2) = 1
      BY <2>2, <2>3 DEF PlaceOf, Follows, MayFollow, NextAt, Terminators
    <2>5. GuestAt = 0 /\ GuestAt' = 1
      BY <1>5, <2>1, <2>3, <2>4 DEF GuestAt
    <2>6. G!Start
      BY <2>1, <2>5, SameStack DEF G!Start
    <2> QED BY <1>6, <2>1, <2>3, <2>6 DEF GuestStep, G!Next
  <1>10. CASE ExecPush
    <2> DEFINE p == code[k].at
    <2>1. /\ running = "yes" /\ running' = "yes" /\ k' = NextOf(k) /\ lost' = lost
          /\ S' = Moved(S - 1) /\ frames' = Left({S})
          /\ code[k].op \in {"PHA", "PHP"} /\ k \in 2..Len(code)
      BY <1>3, <1>10 DEF ExecPush, At
    <2>2. code[k].op \in Straight
      BY <1>1, <2>1, CodeIs DEF Straight, Terminators
    <2>3. /\ NextOf(k) \in 2..Len(code) /\ PlaceOf(k) = p
          /\ PlaceOf(NextOf(k)) = StraightNext(p)
          /\ p \in 1..Len(buf) /\ buf[p].byte \in Byte
          /\ code[k].op = OpOf(buf[p].byte)
      BY <1>1, <2>1, <2>2, StraightPlaces
    <2>4. buf[p].byte \in {\h48, \h08} /\ StraightNext(p) = p + 1
      BY <2>1, <2>3, Stacking DEF StraightNext
    <2>5. Tracks'
      <3>1. \A c \in Cell : frames'[c] # 0 => frames'[c] = frames[c]
        BY <1>8, <2>1
      <3> QED BY <1>0, <1>3, <2>1, <2>3, <3>1 DEF Tracks, JSRs
    <2>6. CASE ~lost
      <3>1. GuestAt = p /\ GuestAt' = p + 1
        BY <1>4, <1>5, <2>1, <2>3, <2>4, <2>6
      <3> QED BY <1>1, <2>1, <2>3, <2>4, <2>5, <3>1, PushRefines
    <2> QED BY <1>7, <2>1, <2>5, <2>6
  <1>11. CASE ExecPull \/ ExecTXS \/ ExecOther
    <2> DEFINE p == code[k].at
               b == buf[p].byte
    <2>1. /\ running = "yes" /\ running' = "yes" /\ k' = NextOf(k) /\ lost' = lost
          /\ frames' = frames /\ k \in 2..Len(code)
          /\ code[k].op \notin Terminators \cup {"prologue", "assoc"}
      BY <1>3, <1>11 DEF ExecPull, ExecTXS, ExecOther, At, Terminators
    <2>2. code[k].op \in Straight
      BY <1>1, <2>1, CodeIs DEF Straight
    <2>3. /\ NextOf(k) \in 2..Len(code) /\ PlaceOf(k) = p
          /\ PlaceOf(NextOf(k)) = StraightNext(p)
          /\ p \in 1..Len(buf) /\ b \in Byte
          /\ code[k].op = OpOf(b) /\ uuCb[b] \notin Transfers
      BY <1>1, <2>1, <2>2, StraightPlaces
    <2>4. Tracks'
      BY <1>6, <2>1, <2>3
    <2>5. ASSUME ~lost PROVE GuestAt = p /\ GuestAt' = StraightNext(p)
      BY <1>4, <1>5, <2>1, <2>3, <2>5
    <2>6. b \in {\h48, \h08, \h68, \h28, \h9A} => StraightNext(p) = p + 1
      BY <2>3, Stacking DEF StraightNext
    <2>7. CASE ~lost /\ ExecPull
      <3>1. b \in {\h68, \h28} /\ S' = Moved(S + 1)
        BY <2>3, <2>7, Stacking DEF ExecPull, At
      <3> QED BY <1>1, <2>1, <2>3, <2>4, <2>5, <2>6, <2>7, <3>1, PullRefines
    <2>8. CASE ~lost /\ ExecTXS
      <3>1. b = \h9A /\ S' \in Cell
        BY <2>3, <2>8, Stacking DEF ExecTXS, At
      <3> QED BY <1>1, <2>1, <2>3, <2>4, <2>5, <2>6, <2>8, <3>1, TXSRefines
    <2>9. CASE ~lost /\ ExecOther
      <3>1. S' = S /\ code[k].op \notin {"PHA", "PHP", "PLA", "PLP", "TXS"}
        BY <2>9 DEF ExecOther, At
      <3>2. b \notin {\h48, \h08, \h68, \h28, \h9A}
        BY <2>3, <3>1, Stacking
      <3>3. b \notin {\h20, \h4C, \h60} /\ b % 32 # 16
        BY <2>3, Transferring DEF Transfers
      <3> HIDE DEF b
      <3>4. b = buf[p].byte
        BY DEF b
      <3> QED BY <1>1, <2>1, <2>3, <2>4, <2>5, <2>9, <3>1, <3>2, <3>3, <3>4,
                 OtherRefines
    <2> QED BY <1>7, <1>11, <2>1, <2>4, <2>7, <2>8, <2>9
  <1>12. CASE ExecAssoc
    <2> DEFINE p == code[k].at
    <2>1. /\ running = "yes" /\ running' = "yes" /\ k' = NextOf(k) /\ lost' = lost
          /\ S' = Moved(S - 2) /\ code[k].op = "assoc" /\ k \in 2..Len(code)
          /\ frames' = [Left({S, (S - 1) % StackSize}) EXCEPT ![S] = p + 3]
      BY <1>3, <1>12 DEF ExecAssoc, At
    <2>2. /\ NextOf(k) \in 2..Len(code) /\ PlaceOf(k) = p
          /\ p \in JSRs /\ p \in 1..Len(buf) /\ p + 3 \in 1..Len(buf)
          /\ PlaceOf(NextOf(k)) \in 1..Len(buf)
          /\ buf[PlaceOf(NextOf(k))].addr = JumpAddress(p)
      BY <1>1, <2>1, CallPlaces
    <2>3. buf[p].byte = \h20
      BY <2>2 DEF JSRs
    <2>4. Tracks'
      <3>1. \A c \in Cell : frames'[c] # 0 =>
               (c = S /\ frames'[c] = p + 3) \/ frames'[c] = frames[c]
        <4>1. PICK l : l = Left({S, (S - 1) % StackSize})
                       /\ (\A c \in Cell : l[c] \in {0, frames[c]})
          BY <1>8
        <4>2. l \in [Cell -> {l[c] : c \in Cell}]
          BY <4>1 DEF Left
        <4> QED BY <2>1, <4>1, <4>2
      <3> QED BY <1>0, <1>3, <2>1, <2>2, <3>1 DEF Tracks, JSRs
    <2>5. CASE ~lost
      <3>1. GuestAt = p /\ GuestAt' = PlaceOf(NextOf(k))
        BY <1>4, <1>5, <2>1, <2>2, <2>5
      <3> QED BY <1>1, <2>1, <2>2, <2>3, <2>4, <3>1, CallRefines
    <2> QED BY <1>7, <2>1, <2>4, <2>5
  <1>13. CASE ExecBr
    <2> DEFINE p == code[k].at
    <2>1. /\ running = "yes" /\ running' = "yes" /\ lost' = lost
          /\ S' = S /\ frames' = frames /\ k \in 2..Len(code)
          /\ code[k].op \in {"fall", "br", "condbr"}
      BY <1>3, <1>13 DEF ExecBr, At
    <2>2. PICK d \in DestsOf(k) : k' = HeadOf(d)
      BY <1>13 DEF ExecBr
    <2>3. PICK q : q = PlaceOf(HeadOf(d))
      OBVIOUS
    <2>4. /\ HeadOf(d) \in 2..Len(code)
          /\ code[k].op = "fall" => q = PlaceOf(k)
          /\ EndsCall(code[k]) => q = PlaceOf(k)
          /\ code[k].op = "br" /\ ~EndsCall(code[k]) =>
               /\ PlaceOf(k) = p /\ uuCb[buf[p].byte] = "jump"
               /\ q \in 1..Len(buf) /\ p + 3 \in 1..Len(buf)
               /\ buf[q].addr = JumpAddress(p)
          /\ code[k].op = "condbr" =>
               /\ PlaceOf(k) = p /\ uuCb[buf[p].byte] = "bra"
               /\ p + 1 \in 1..Len(buf)
               /\ q \in {p + 2, p + 2 + offset(buf[p + 1].byte)}
      BY <1>1, <2>1, <2>3, BranchPlaces
    <2>5. Tracks'
      BY <1>6, <2>1, <2>2, <2>4
    <2>6. p \in 1..Len(buf) /\ buf[p].byte \in Byte
      BY <1>1, <2>1, CodeIs
    <2>7. ASSUME ~lost PROVE GuestAt = PlaceOf(k) /\ GuestAt' = q
      BY <1>4, <1>5, <2>1, <2>2, <2>3, <2>4, <2>7
    <2>8. CASE ~lost /\ (code[k].op = "fall" \/ EndsCall(code[k]))
      BY <2>1, <2>4, <2>5, <2>7, <2>8 DEF GuestStep
    <2>9. CASE ~lost /\ code[k].op = "br" /\ ~EndsCall(code[k])
      <3>1. buf[p].byte = \h4C
        BY <2>4, <2>6, <2>9, Transferring
      <3> QED BY <1>1, <2>1, <2>4, <2>5, <2>6, <2>7, <2>9, <3>1, JumpRefines
    <2>10. CASE ~lost /\ code[k].op = "condbr"
      <3>1. buf[p].byte % 32 = 16
        BY <2>4, <2>6, <2>10, Transferring
      <3>2. buf[p].byte \notin {\h48, \h08, \h68, \h28, \h9A, \h20, \h4C, \h60}
        BY <3>1
      <3>3. /\ GuestAt = p /\ p + 1 \in 1..Len(buf)
            /\ GuestAt' \in {p + 2, p + 2 + offset(buf[p + 1].byte)}
        BY <2>4, <2>7, <2>10
      <3>4. GuestStep
        BY <1>1, <2>1, <2>6, <3>1, <3>2, <3>3, OtherRefines
      <3> QED BY <2>5, <3>4
    <2> QED BY <1>7, <2>1, <2>5, <2>8, <2>9, <2>10
  <1>14. CASE ExecIndirectBr
    <2> DEFINE p == code[k].at
    <2>1. /\ running = "yes" /\ running' = "yes" /\ k' = HeadOf(Returned)
          /\ Returned \in DestsOf(k) /\ S' = Moved(S + 2) /\ frames' = frames
          /\ lost' = (lost \/ frames[Moved(S + 2)] = 0)
          /\ code[k].op = "indirectbr" /\ k \in 2..Len(code)
          /\ Returned = assoc_table[Moved(S + 2)]
      BY <1>3, <1>14 DEF ExecIndirectBr, At, Returned, Pulled, Moved
    <2>2. /\ PlaceOf(k) = p /\ p \in 1..Len(buf) /\ buf[p].byte = \h60
          /\ HeadOf(Returned) \in 2..Len(code)
          /\ \A f \in 1..Len(buf) : buf[f].addr \in DestsOf(k) =>
               PlaceOf(HeadOf(buf[f].addr)) = f
      BY <1>1, <2>1, ReturnPlaces
    <2>3. Tracks'
      BY <1>6, <2>1, <2>2
    <2>4. PICK c \in Cell : c = Moved(S + 2)
      BY <1>2, CellsWrap
    <2>5. frames[c] # 0 => /\ frames[c] \in 1..Len(buf)
                           /\ Returned = buf[frames[c]].addr
      BY <1>2, <2>1, <2>4 DEF RefineInv, RunInv, AssocMirrorsStack
    <2>6. CASE ~lost
      <3>1. GuestAt' = IF frames[c] # 0 THEN frames[c] ELSE -1
        BY <1>5, <2>1, <2>2, <2>4, <2>5, <2>6
      <3>2. GuestAt = p
        BY <1>4, <2>1, <2>2, <2>6
      <3> QED BY <1>1, <2>1, <2>2, <2>3, <2>4, <3>1, <3>2, ReturnRefines
    <2> QED BY <1>7, <2>1, <2>3, <2>6
  <1>15. CASE ExecUndefined
    <2> DEFINE p == code[k].at
    <2>1. /\ running = "yes" /\ running' = "undefined" /\ k' = k
          /\ Returned \notin DestsOf(k) /\ S' = Moved(S + 2) /\ frames' = frames
          /\ lost' = (lost \/ frames[Moved(S + 2)] = 0)
          /\ code[k].op = "indirectbr" /\ k \in 2..Len(code)
          /\ Returned = assoc_table[Moved(S + 2)]
      BY <1>3, <1>15 DEF ExecUndefined, At, Returned, Pulled, Moved
    <2>2. /\ PlaceOf(k) = p /\ p \in 1..Len(buf) /\ buf[p].byte = \h60
          /\ code[k].dests = indBrDests
      BY <1>1, <2>1, ReturnPlaces
    <2>3. PICK c \in Cell : c = Moved(S + 2)
      BY <1>2, CellsWrap
    <2>4. frames[c] = 0
      <3>1. SUFFICES ASSUME frames[c] # 0 PROVE FALSE
        OBVIOUS
      <3>2. PICK q \in JSRs : frames[c] = q + 3
        BY <1>3, <3>1
      <3>3. Returned = buf[q + 3].addr
        BY <2>1, <2>3, <3>1, <3>2 DEF RefineInv, RunInv, AssocMirrorsStack
      <3>4. PICK m \in 1..Len(indBrDests) : indBrDests[m] = buf[q + 3].addr
        BY <1>0 DEF Executable, Registered
      <3> QED BY <2>1, <2>2, <3>3, <3>4 DEF DestsOf
    <2>5. lost'
      BY <2>1, <2>3, <2>4
    <2>6. Tracks'
      BY <1>0, <1>3, <2>1, <2>5 DEF Tracks, JSRs
    <2>7. CASE ~lost
      <3>1. GuestAt = p /\ GuestAt' = -1
        BY <1>4, <2>1, <2>2, <2>5, <2>7 DEF GuestAt
      <3> QED BY <1>1, <2>1, <2>2, <2>3, <2>4, <2>6, <3>1, ReturnRefines
    <2> QED BY <1>7, <2>1, <2>5, <2>6, <2>7
  <1>16. CASE ExecRet
    <2>1. /\ running = "yes" /\ running' = "exited" /\ k' = k /\ S' = S
          /\ frames' = frames /\ lost' = lost /\ code[k].op = "ret"
      BY <1>16 DEF ExecRet, At
    <2>2. Tracks'
      BY <1>0, <1>3, <2>1 DEF Tracks, JSRs
    <2>3. ~EntersBlock /\ ~EntersBlock'
      BY <1>0, <2>1 DEF EntersBlock
    <2>4. GuestAt' = GuestAt
      BY <1>0, <2>1, <2>3 DEF GuestAt
    <2> QED BY <2>1, <2>2, <2>4 DEF GuestStep
  <1> QED BY <1>9, <1>10, <1>11, <1>12, <1>13, <1>14, <1>15, <1>16 DEF Execute

\* Every other step leaves the guest where it is.
LEMMA OthersRefine ==
  ASSUME RefineInv, [RuntimeNext]_<<vars, runVars>>, ~Execute
  PROVE  Tracks' /\ GuestStep
  <1>1. CASE Translate
    <2>1. running = "no" /\ Idle
      BY <1>1, StepRuns DEF Translate, RefineInv, RunInv, Executable, Running
    <2>2. UNCHANGED <<running, k, S, assoc_table, frames, lost>>
      BY <1>1 DEF Translate, runVars
    <2>3. GuestAt = 0 /\ GuestAt' = 0
      BY <2>1, <2>2 DEF GuestAt, Idle
    <2>4. frames' = [c \in Cell |-> 0]
      BY <2>1, <2>2 DEF Idle
    <2>5. Tracks'
      BY <2>1, <2>2, <2>4 DEF Tracks
    <2> QED BY <2>2, <2>3, <2>5 DEF GuestStep
  <1>2. CASE UNCHANGED <<vars, runVars>>
    <2>1. UNCHANGED <<buf, code, starts1, running, k, S, frames, lost>>
      BY <1>2 DEF vars, runVars
    <2>2. GuestAt' = GuestAt
      BY <2>1 DEF GuestAt, EntersBlock, EntryOf, CodeOf
    <2>3. Tracks'
      BY <2>1 DEF RefineInv, Tracks, JSRs
    <2> QED BY <2>1, <2>2, <2>3 DEF GuestStep
  <1> QED BY <1>1, <1>2 DEF RuntimeNext, Over

(* The emitted program implements the guest program: for every translatable *)
(* file whose JSRs are all registered it takes the steps of the 6502, calls *)
(* and returns with it while the return addresses on the stack are intact,  *)
(* and behaves in no other way before the guest has lost its way.           *)
THEOREM GuestImplemented == RuntimeSpec => RunsLikeGuest
  <1>1. RuntimeInit => RefineInv /\ G!Init
    <2> SUFFICES ASSUME RuntimeInit PROVE Tracks /\ G!Init
      BY InitConsistent, InitAddresses, InitRun DEF RuntimeInit, RefineInv
    <2>1. GuestAt = 0
      BY DEF RuntimeInit, GuestAt
    <2> QED BY <2>1 DEF RuntimeInit, Tracks, G!Init
  <1>2. RefineInv /\ [RuntimeNext]_<<vars, runVars>> => RefineInv' /\ GuestStep
    <2> SUFFICES ASSUME RefineInv, [RuntimeNext]_<<vars, runVars>>
                 PROVE  RefineInv' /\ GuestStep
      OBVIOUS
    <2>1. Consistent' /\ Addresses'
      BY NextConsistent, NextAddresses, RuntimeTranslates DEF RefineInv, Consistent
    <2>2. RunInv'
      BY <2>1, NextRun DEF RefineInv
    <2>3. Tracks' /\ GuestStep
      BY <2>2, ExecuteRefines, OthersRefine
    <2> QED BY <2>1, <2>2, <2>3 DEF RefineInv
  <1> QED BY <1>1, <1>2, PTL DEF RuntimeSpec, RunsLikeGuest, G!Spec, GuestStep
==============================================================================
