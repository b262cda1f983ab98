-------------------------------- MODULE Guest --------------------------------
(***************************************************************************)
(* What the 6502 does with a program, as far as control and the stack go.  *)
(* The return address of a JSR lies in the cells S and S - 1 of the stack  *)
(* page; it is intact until something is pushed over one of them.  The RTS *)
(* that pulls an intact one continues after its JSR.  An RTS that pulls    *)
(* anything else goes to an address made of data: the guest is then lost,  *)
(* and what follows is left open.                                          *)
(***************************************************************************)
EXTENDS Opcodes

CONSTANTS AddrSpace, Origin, StackSize

VARIABLES
  program,  \* the bytes of the file, from Origin on, and the NOP after them
  at,       \* the position of the next instruction; 0 before the start
  S,
  frames    \* the intact return position whose upper byte is in a cell, or 0

Lost  == -1
Cell  == 0..(StackSize - 1)

\* Nothing intact in the cells: a frame lies in its cell and the one below.
Overwritten(cells) ==
  [c \in Cell |-> IF {c, (c - 1) % StackSize} \cap cells # {} THEN 0
                  ELSE frames[c]]

opcode == program[at]

Operand(n) == program[at + n]
\* Where a jump goes: the byte of the file at its operand, or the end.
InFile == {q \in 1..(Len(program) - 1) :
             (Origin + q - 1) % AddrSpace
               = makeword(Operand(1), Operand(2)) % AddrSpace}
Targets == IF InFile # {} THEN InFile ELSE {Len(program)}

Size == IF opcode \in {\h20, \h4C} THEN 3
        ELSE IF opcode % 32 = 16 THEN 2
        ELSE IF IsStandard(opcode) THEN 1 + OperandBytes(opcode)
        ELSE 1

Pushes  == {\h48, \h08}
Pulls   == {\h68, \h28}
Special == Pushes \cup Pulls \cup {\h9A, \h20, \h4C, \h60}

Init == at = 0

Start ==
  /\ at = 0
  /\ at' = 1
  /\ S' = StackSize - 1
  /\ frames' = [c \in Cell |-> 0]

Running == at \in 1..Len(program)

Push ==
  /\ Running /\ opcode \in Pushes
  /\ frames' = Overwritten({S})
  /\ S' = (S - 1) % StackSize
  /\ at' = at + 1

Pull ==
  /\ Running /\ opcode \in Pulls
  /\ S' = (S + 1) % StackSize
  /\ at' = at + 1
  /\ UNCHANGED frames

TXS ==
  /\ Running /\ opcode = \h9A
  /\ S' \in Cell
  /\ at' = at + 1
  /\ UNCHANGED frames

Call ==
  /\ Running /\ opcode = \h20
  /\ frames' = [Overwritten({S, (S - 1) % StackSize}) EXCEPT ![S] = at + 3]
  /\ S' = (S - 2) % StackSize
  /\ at' \in Targets

Return ==
  /\ Running /\ opcode = \h60
  /\ S' = (S + 2) % StackSize
  /\ at' = IF frames[S'] # 0 THEN frames[S'] ELSE Lost
  /\ UNCHANGED frames

Jump ==
  /\ Running /\ opcode = \h4C
  /\ at' \in Targets
  /\ UNCHANGED <<S, frames>>

\* A branch may go to its target; anything else goes on.
Other ==
  /\ Running /\ opcode \notin Special
  /\ at' \in {at + Size} \cup
             (IF opcode % 32 = 16 THEN {at + 2 + offset(Operand(1))} ELSE {})
  /\ UNCHANGED <<S, frames>>

Wander == at = Lost /\ at' = Lost

Next == Start \/ Push \/ Pull \/ TXS \/ Call \/ Return \/ Jump \/ Other \/ Wander

Spec == Init /\ [][Next]_<<at, S, frames>>
=============================================================================
