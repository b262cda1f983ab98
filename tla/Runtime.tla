------------------------------- MODULE Runtime -------------------------------
(***************************************************************************)
(* The program RRP emits, linked with MemoryMapperDebug: Translator writes *)
(* it, and then its instructions are executed one by one.                  *)
(*                                                                         *)
(* A JSR of the guest stores the address of the block after it in the      *)
(* mapper's table of associations, under 100h + S, and an RTS jumps to     *)
(* what it finds there, whatever was pushed in between: the bytes of the   *)
(* return address are never on the stack.  The table is as malloc left it. *)
(***************************************************************************)
EXTENDS Translator

CONSTANT StackSize   \* number of values of S (256 in the program)

ASSUME StackSizeAssumption == StackSize \in Nat /\ StackSize > 3

VARIABLES
  running,      \* whether the emitted program runs, or how it ended
  k,            \* the entry of code it is at
  S,
  assoc_table,  \* the block stored for each value of S
  frames,       \* history: the intact return addresses of the guest's stack
  lost          \* history: whether the guest returned to no such address

runVars == <<running, k, S, assoc_table, frames, lost>>

Cell  == 0..(StackSize - 1)
Unset == -1   \* an indeterminate pointer

RuntimeInit ==
  /\ Init
  /\ running = "no"
  /\ k = 1
  /\ S = 0
  /\ assoc_table = [c \in Cell |-> Unset]
  /\ frames = [c \in Cell |-> 0]
  /\ lost = FALSE

------------------------------------------------------------------------------
\* The programs executed: RTS can return to the block after every JSR.
Registered == \A p \in JSRs : \E m \in 1..Len(indBrDests) :
                                indBrDests[m] = buf[p + 3].addr
Executable == phase = "written" /\ Translatable /\ Registered

\* The first entry of a block.
HeadOf(bb) == CHOOSE m \in CodeOf(bb) : \A n \in CodeOf(bb) : m <= n

\* The prologue: rrpInit, and S is FFh.
Start ==
  /\ running = "no"
  /\ Executable
  /\ running' = "yes"
  /\ k' = NextOf(1)
  /\ S' = StackSize - 1
  /\ UNCHANGED <<assoc_table, frames, lost>>

At(ops) == running = "yes" /\ code[k].op \in ops

\* The frames of the guest that a push into the cells leaves intact.
Left(cells) == [c \in Cell |->
                 IF {c, (c - 1) % StackSize} \cap cells # {} THEN 0
                 ELSE frames[c]]

Unwrapped(s) == IF s < 0 THEN s ELSE s % StackSize
Moved(s)     == s % StackSize

ExecPush ==
  /\ At({"PHA", "PHP"})
  /\ k' = NextOf(k)
  /\ S' = Moved(S - 1)
  /\ frames' = Left({S})
  /\ UNCHANGED <<running, assoc_table, lost>>

ExecPull ==
  /\ At({"PLA", "PLP"})
  /\ k' = NextOf(k)
  /\ S' = Moved(S + 1)
  /\ UNCHANGED <<running, assoc_table, frames, lost>>

ExecTXS ==
  /\ At({"TXS"})
  /\ k' = NextOf(k)
  /\ S' \in Cell
  /\ UNCHANGED <<running, assoc_table, frames, lost>>

\* Any other operation leaves S and the associations alone.
ExecOther ==
  /\ At(Operations \ (Terminators \cup {"PHA", "PHP", "PLA", "PLP", "TXS",
                                        "prologue", "assoc"}))
  /\ k' = NextOf(k)
  /\ UNCHANGED <<running, S, assoc_table, frames, lost>>

\* JSR: rrpMemWriteAssoc(100h + S, block), and S moves by two.
SlotBelow == Moved(S - 1)
Slot      == S
ExecAssoc ==
  /\ At({"assoc"})
  /\ assoc_table' = [assoc_table EXCEPT ![Slot] = code[k].dests[1]]
  /\ S' = Moved(S - 2)
  /\ k' = NextOf(k)
  /\ frames' = [Left({S, (S - 1) % StackSize}) EXCEPT ![S] = code[k].at + 3]
  /\ UNCHANGED <<running, lost>>

ExecBr ==
  /\ At({"fall", "br", "condbr"})
  /\ \E d \in DestsOf(k) : k' = HeadOf(d)
  /\ UNCHANGED <<running, S, assoc_table, frames, lost>>

\* RTS: rrpMemReadAssoc(100h + S) after S has moved.
PulledOne == Moved(S + 1)
Pulled    == Moved(S + 2)
Returned  == assoc_table[Pulled]

ExecIndirectBr ==
  /\ At({"indirectbr"})
  /\ Returned \in DestsOf(k)
  /\ k' = HeadOf(Returned)
  /\ S' = Pulled
  /\ lost' = (lost \/ frames[(S + 2) % StackSize] = 0)
  /\ UNCHANGED <<running, assoc_table, frames>>

\* An address that is no destination of the indirectbr.
ExecUndefined ==
  /\ At({"indirectbr"})
  /\ Returned \notin DestsOf(k)
  /\ running' = "undefined"
  /\ S' = Pulled
  /\ lost' = (lost \/ frames[(S + 2) % StackSize] = 0)
  /\ UNCHANGED <<k, assoc_table, frames>>

ExecRet ==
  /\ At({"ret"})
  /\ running' = "exited"
  /\ UNCHANGED <<k, S, assoc_table, frames, lost>>

Execute == /\ \/ Start \/ ExecPush \/ ExecPull \/ ExecTXS \/ ExecOther
              \/ ExecAssoc \/ ExecBr \/ ExecIndirectBr \/ ExecUndefined
              \/ ExecRet
           /\ UNCHANGED vars

Translate == Step /\ UNCHANGED runVars

\* The translation failed, or the emitted program has ended.
Over == /\ phase \in Stopped
        /\ running = "no" => ~Executable
        /\ running # "yes"
        /\ UNCHANGED <<vars, runVars>>

RuntimeNext == Translate \/ Execute \/ Over

RuntimeSpec == RuntimeInit /\ [][RuntimeNext]_<<vars, runVars>>

------------------------------------------------------------------------------
(* Properties.                                                             *)

(* The values of the variables: S stays a byte, and the associations are   *)
(* blocks of the function or were never written.                           *)
RuntimeTypeOK ==
  /\ running \in {"no", "yes", "exited", "undefined"}
  /\ k \in 1..Len(code)
  /\ S \in Cell
  /\ assoc_table \in [Cell -> BlockSet \cup {Unset}]
  /\ frames \in [Cell -> 0..Len(buf)]
  /\ lost \in BOOLEAN

(* Wherever the guest's stack holds an intact return address, the table    *)
(* has the block of that address under the same cell: the two, which share *)
(* nothing but S, do not drift apart.                                      *)
AssocMirrorsStack ==
  \A c \in Cell :
    frames[c] # 0 => assoc_table[c] = buf[frames[c]].addr

(* The emitted program does what the guest program does: it takes the same *)
(* steps with the same stack, returns to after the JSR as long as the      *)
(* return address is intact, and its behaviour is only undefined once the  *)
(* guest has returned to an address that no JSR pushed.                    *)
EntersBlock == code[k].op = "br" /\ buf[code[k].at].byte = \h20
GuestAt == IF lost THEN -1
           ELSE IF running = "no" THEN 0
           ELSE IF running = "undefined" THEN -2
           ELSE IF EntersBlock THEN EntryOf(code[k].dests[1])
           ELSE code[k].at

G == INSTANCE Guest WITH program <- [p \in 1..Len(buf) |-> buf[p].byte],
                         at <- GuestAt
RunsLikeGuest == G!Spec
=============================================================================
