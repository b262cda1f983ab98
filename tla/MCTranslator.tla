---------------------------- MODULE MCTranslator ----------------------------
(***************************************************************************)
(* Input files for model checking Translator: files of arbitrary bytes,    *)
(* which may desynchronise the passes, run off the buffer or be illegal,   *)
(* and files laid out from whole instructions.                             *)
(***************************************************************************)
EXTENDS Translator

FilesOver(bytes, n) == UNION {[1..k -> bytes] : k \in 0..n}

(* Arbitrary files: NOP, JMP, JSR, RTS, BNE, LDA (ind,X), which the two     *)
(* passes size differently, LDA abs, RTI, 3, an opcode that the tables have *)
(* no operation for, and 80h, STY #.  The last two are also operands: the   *)
(* high byte of an address in the file, a forward and a backward offset.    *)
(* LDA abs is in the files of up to four bytes only.                       *)
MixedBytes == {\hEA, \h4C, \h20, \h60, \hD0, \hA1, \hAD, \h40, 3, \h80}
MixedFiles == FilesOver(MixedBytes \ {\hAD}, 5) \cup FilesOver(MixedBytes, 4)

(* Files that fill and overflow an address space of 8 words from origin 4: *)
(* 4Ch is address 4, EAh address 2, 20h and 60h address 0.                 *)
WrapFiles == FilesOver({\hEA, \h4C, \h20, \h60}, 8)

(* Programs of n instructions.  A branch or jump is <<opcode, target>>     *)
(* where target is the number of an instruction, n + 1 being the sentinel. *)
Straight == {<<\hEA>>, <<\hA9, \h60>>, <<\h60>>}
Jumps    == {\h4C, \h20}
Units(n) == Straight \cup (Jumps \X (1..n)) \cup ({\hD0} \X (1..(n + 1)))

\* Returns and calls among PHA, PLA and TXS.
StackStraight == {<<\h60>>, <<\h48>>, <<\h68>>, <<\h9A>>}
StackUnits(n) == StackStraight \cup ({\h20} \X (1..n))

UnitSize(u) == IF u \in Straight \cup StackStraight THEN Len(u)
               ELSE IF u[1] \in Jumps THEN 3 ELSE 2

\* The position of instruction k of a program.
Position(program, k) ==
  LET pos[j \in 1..(Len(program) + 1)] ==
        IF j = 1 THEN 1 ELSE pos[j - 1] + UnitSize(program[j - 1])
  IN  pos[k]

Encode(program, k) ==
  LET u      == program[k]
      target == Position(program, u[2])
  IN  IF u \in Straight \cup StackStraight THEN u
      ELSE IF u[1] \in Jumps THEN <<u[1], target - 1, \h80>>
      ELSE <<u[1], (target - Position(program, k) - 2) % 256>>

Assemble(program) ==
  LET prefix[k \in 0..Len(program)] ==
        IF k = 0 THEN <<>> ELSE prefix[k - 1] \o Encode(program, k)
  IN  prefix[Len(program)]

\* Each of the eight branches, to each place of a short program.
BranchUnits == {\h10, \h30, \h50, \h70, \h90, \hB0, \hD0, \hF0} \X (1..4)
Branchings  == {<< <<\hEA>>, branch, <<\hEA>> >> : branch \in BranchUnits}

MixedAndWrap == MixedFiles \cup WrapFiles
Programs == {Assemble(p) : p \in UNION {[1..n -> Units(n)] : n \in 1..4}
                                \cup UNION {[1..n -> StackUnits(n)] : n \in 1..4}
                                \cup Branchings}

(* The files of the runs that refute a statement of the repository.        *)
IndirectFile   == {<<\hA1, 4>>}                      \* LDA (4,X)
SharedReturn   == {<<\hD0, 3, \h20, 0, \h80>>}   \* BNE over a JSR 8000h
LoopToOrigin   == {<<\hEA, \h4C, 0, \h80>>}              \* JMP 8000h
OutOfFile      == {<<\h4C, 0, \h90>>, <<\hD0, \h80>>}   \* JMP 9000h; BNE to 7F82h
=============================================================================
