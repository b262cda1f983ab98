# Formal model of RRP (R2A03 Recompiler Project)

RRP translates a 6502 (2A03) binary into LLVM bitcode. `rrpc` parses its
arguments, loads the file, walks over it twice and writes `rrpout.bc`, which is
linked with a "memory mapper" that supplies guest memory. This directory holds
TLA+ modules for the parts of the program where the behaviour is, the TLC
configurations that check them on small instances, and proofs for all
instances.

## 1. Inventory

| Part | Source | State | Operations |
|---|---|---|---|
| Static tables | `TranslatorData.cxx` | none (constants) | lookups by instruction byte |
| Translator | `Translator.cxx`, `Translator.hxx`, `Defs.hxx` | `_bbMap`, `_indBrDests`, `_curBB`, `_needsBr`, `_main`, the buffer, `_immRead`/`_imm`/`_op` | constructor, `process_file`, `output_bitcode` |
| Preprocess callbacks | `TranslatorCallbacks.cxx` 806-900 | labels of the buffer, `_bbMap`, `_indBrDests` | `_pp_mklb0/1/2` |
| Transfer callbacks | `TranslatorCallbacks.cxx` 1180-1351 | `_curBB`, `_needsBr`, the function's block list | `_uu_bra/jump/JSR/RTS/RTI/IJMP` |
| Operations, addressing modes | `TranslatorCallbacks.cxx` 14-804, 902-1178 | guest registers A X Y S and eight flags (allocas of the emitted function) | one callback per 6502 operation and mode |
| Memory mapper | `MemoryMapperDebug.c` | `memory`, `assoc_table` | `rrpInit`, `rrpExit`, `rrpMem*` |
| Argument parser | `ArgParse.hxx`, `ArgParse.cxx` | `_args`, `_remainingRequiredArgs` | constructor, `verifyRequired`, `hasArg`, `get`, `getFirstParam` |
| main | `main.cxx` | none | the order of the above |
| sparsepp | `sparsepp.h` | a table of groups of buckets, `num_deleted`, the thresholds | `find`, `operator[]`, `insert`, `erase`, `clear`, `resize`, copying, assigning |
| build scripts | `CMakeLists.txt`, `compile.sh`, `Makefile` | | |

How they interact. `main` constructs `ArgParse` and, when all required options
are there, a `Translator`; it calls `process_file` and then `output_bitcode`
and catches `Translator::Exception`. `process_file` calls, through the static
tables, one callback per instruction and pass. The two passes communicate only
through the buffer (labels, destinations), `_bbMap` and `_indBrDests`; the
callbacks of the second pass communicate through `_curBB` and `_needsBr`.
`_bbMap` is a `spp::sparse_hash_map`, the whole of sparsepp's hash table. The
emitted function calls the memory mapper for every access to guest memory, and
for the association of an address on the guest's stack with a block: JSR stores
it, RTS looks it up.

What is hard. There is one thread and no failure to recover from. The
difficulties are of order and agreement: the passes step through the buffer by
different rules, control flow is cut into blocks in one pass and filled in
another, one block is created by whichever callback meets its label first, a
file may be anything (it may jump into operands, out of the file, wrap the
address space, or end inside an instruction), and neither loop checks bounds.
The emitted program keeps return addresses in a table of its own, beside the
stack the guest sees. The hash map reorganises itself in the middle of calls,
and keeps the marks of erased buckets in one place and their number in another.
`PROJECT.json` lists each such place under `hazards`.

What makes each part correct:

- Translator: no lookup fails for a label the first pass made; a transfer
  leaves the builder in the block of the next element; the second pass stays
  in the buffer; exceptions only where the passes disagree; an RTS has exactly
  the blocks after JSRs as destinations; for a translatable file the blocks of
  the function are in order and its control flow is the guest's; both passes end.
- Operations: each computes the 6502's registers, flags and memory.
- Memory mapper with emitted code: an RTS goes where the matching JSR said, as
  long as the guest's return address is intact; the program as a whole does what
  the guest program does.
- Argument parser and main: options and parameters are paired as the command line
  alone says, faults are reported where they are, and what main dereferences is
  there.
- sparsepp: it is a map, its assertions hold, its counters agree with its bitmaps
  and every call ends.

## 2. Modules

| Module | What it is | Stands on |
|---|---|---|
| `Defs` | bytes, words, `makeword` | |
| `Opcodes` | the tables | `Defs` |
| `Translator` | both passes and the function they emit | `Opcodes` |
| `Alu`, `Cpu` | what the emitted instructions compute | `Defs`, `Opcodes` |
| `Guest` | abstract: what the 6502 does, as far as control and the stack go | `Opcodes` |
| `Runtime` | the emitted function executed with the association table; refines `Guest` | `Translator`, `Guest` |
| `ArgParse` | the command line, and main | |
| `Map` | abstract: what a map promises its caller | |
| `SparseGroup` | groups of buckets as operators on values | |
| `SparseHash` | the hash table; refines `Map` | `SparseGroup`, `Map` |
| `TranslatorProofs`, `OutputProofs` | proofs about `Translator`: the passes; the function they emit | the second on the first |
| `RuntimeProofs` | proofs about `Runtime`, and that it refines `Guest` | `OutputProofs` |
| `CpuProofs`, `ArgParseProofs` | proofs about `Cpu` and `ArgParse` | |
| `SparseGroupProofs` | what the operators of `SparseGroup` do to a group and a table | |
| `SparseHashProofs` | proofs about `SparseHash`, and that it refines `Map` | `SparseGroupProofs` |
| `Indices` | lemmas on numbers several proofs use: least elements, powers of two | |
| `MCTranslator`, `MCCpu`, `MCRuntime`, `MCArgParse`, `MCSparseHash` | files, instructions, programs, command lines and hash functions for TLC | |

`Opcodes` holds the five tables and the decoding of an instruction byte. A
callback is the suffix of the member function in the table (`"mklb2"` for
`_pp_mklb2`), `NoCb` an empty `std::function`. `OperandBytes` is the number of
bytes the callbacks of a standard instruction take from the buffer.

`Translator` is `process_file` and `output_bitcode`, one action per callback
that steers control:

| Code | Model |
|---|---|
| constructor, loading of the file | `Init`, `Load` |
| first pass: size table | `PpSkip` |
| first pass: callbacks | `_pp_mklb0`, `_pp_mklb1`, `_pp_mklb2` |
| a dereference outside the buffer | `ReadOutside` in `PpUndefined`, `TransferUndefined` and `Standard` (phase `"undefined"`; nothing is claimed of what follows) |
| second pass: label check and `_needsBr = true` | `EnterLabel`, `StayInBlock` |
| standard instruction | `Standard`; `BadFunctionCall` when a table entry is empty |
| `uuCb` instructions without a transfer | `Implied` |
| transfers | `_uu_bra`, `_uu_jump`, `_uu_JSR`, `_uu_RTS` through `Transfer` |
| flag and value a branch tests | `toTest`, `bit`, `cond` |
| exceptions | `Throw` in `Standard` (which may read `*end()` first, for the address it reports), `NonexistantBranch`, `UnsupportedInstruction`, `EnterLabel` |
| tail of `process_file` | `Finish` |
| `output_bitcode` | `output_bitcode` |

Positions in the buffer count from 1, and `i` stays on the first byte of the
instruction while its callback runs (the callbacks advance it byte by byte,
which nothing observes). A label is the address it spells; a block is the label
it was created under, which identifies it because a block is only created when
`_bbMap` lacks the label. Emitted IR is a sequence of entries with their block,
the position of their instruction, the operation and, for terminators, the
destinations; the dataflow inside an instruction is not in this module, except
for the condition of a branch (`cond`, of its instruction byte and the flags set).
`starts1` and `starts2` are history variables: the positions where each pass
began an instruction. When a block is pushed to the function twice (finding 3
below) LLVM's intrusive list breaks; the model only records the second push.

`MCTranslator` defines the files of the runs.

`Alu` and `Cpu` are the other half of the program, what the emitted function
does between two control transfers. `Alu` has the arithmetic of the IR as pure
operators on bytes and flags; a byte is also the set of its bits, for the
logical operations and for the flag byte of PHP and PLP. `Cpu` is the machine:

| Code | Model |
|---|---|
| allocas `_A _X _Y _S`, `_flag` | `reg`, `flag` |
| `memory`, `rrpInit`, `rrpMemRead`, `rrpMemWrite` | `memory` over the window `Cells` |
| addressing-mode callbacks, address | `Pointer`, `ZeroPageIndexed`, `Addresses` |
| addressing-mode callbacks, `_op` as reader | `Read` |
| addressing-mode callbacks, `_op` as writer | `Write` |
| LDA LDX LDY, STA STX STY | `Load`, `Store` |
| ORA AND EOR BIT | `Logic` |
| ADC SBC, CMP CPX CPY | `Arithmetic`, `Comparison` |
| ASL ROL LSR ROR DEC INC | `Modify`: read callback, operation, write callback at the same address |
| TAX TAY TXA TYA TSX, TXS | `TransferRegister`, `TXS` |
| INX DEX INY DEY | `StepRegister` |
| SEC CLC SED CLD CLV SEI CLI | `ChangeFlag` |
| PHA PHP, PLA PLP | `Push`, `Pull` |

Which instructions there are is not written down again: `Encodes` takes them
from the tables of `Opcodes`, and `InstructionsAssumption` says that the
instructions given are among them. Any of them may run at any time, which covers
every straight-line sequence. An instruction that would touch a cell outside
`Cells` is not taken; with `Cells` all of `Word` nothing is left out, and that is
an instance of the theorems. `(ind),Y` adds an i8 to an i16, which is no valid
IR: the address it comes to is any cell of `Wild`. Uninitialised allocas and
`malloc`ed memory have one arbitrary value each (`InitBytes`, `InitFlags`).
`inst` and `pushed` are history variables, the instruction that ran last and what
was pushed and not yet pulled; `operand` is the value the read callback returned.

`MCCpu` defines the instructions of the runs, in families.

`Runtime` composes the two halves where they meet, in control and the stack. It
runs `Translator` and then, when the file was `Executable`, the entries of
`code` one after the other:

| Code | Model |
|---|---|
| prologue, `rrpInit` | `Start` |
| PHA PHP, PLA PLP, TXS: S | `ExecPush`, `ExecPull`, `ExecTXS` |
| `rrpMemWriteAssoc`, S - 2 in `_uu_JSR` | `ExecAssoc` |
| br and condbr | `ExecBr` |
| S + 2, `rrpMemReadAssoc`, indirectbr in `_uu_RTS` | `ExecIndirectBr`, `ExecUndefined` |
| `rrpExit` and ret | `ExecRet` |
| everything else | `ExecOther` |

Which way a branch goes and what TXS puts in S are open; `Cpu` has the values, and
`ControlFlowPreserved` says that under the same flags a branch goes the same way
in the emitted function as in the guest.
An indirectbr to an address that is none of its destinations is undefined in
LLVM, and nothing is claimed of what follows. The association table starts
indeterminate, as `malloc` leaves it. `frames` and `lost` are history variables:
which cells of the stack page hold the upper byte of a return address that
nothing has overwritten, and whether an RTS has pulled something else. `Guest`
is the same program on a 6502, written without translator, blocks or table: its
states are a position, S and the frames. What the cells of the stack hold
otherwise, and stores into page one by other instructions than pushes, are in
neither; a program that makes an RTS out of data (PHA PHA RTS) is lost in the
sense of `Guest`, because RRP cannot follow it. `Executable` asks for a
translatable file with every JSR's next block among the destinations of RTS, the
condition that finding 2 shows not to hold by itself.

`ArgParse` is the constructor of `ArgParse`, one iteration of its loop per step,
and main after it, one step per statement that can end it. Arguments are
strings; what is an option and what is a parameter depends on all that came
before. Translation is represented by its outcomes, which are `Translator`'s
business. The properties are stated over `IsOption`, which reads the command
line by itself.

`SparseGroup` and `SparseHash` are sparsepp's hash table from the caller down to
the bitmaps:

| Code | Model |
|---|---|
| `sparsegroup`: bitmaps, packed array, `_sizing`, `set`, `erase` | records with `bitmap`, `erased`, `items`, `alloc`; `group_set`, `group_erase` |
| `sparsetable` | `Table`, `table_set`, `table_erase`, `test`, `test_strict`, `unsafe_get` |
| `_find_position`, `find` | `_find_position`, `find`, `Probe`, `Stops` |
| `erase`, `clear` | `EraseMissing`, `Erase`, `Clear` |
| `operator[]`, `find_or_insert` | `Overwrite`, `IndexMissing`, then room is made, then `Place` |
| `insert`, `_insert`, `_insert_at` | `Insert`, then room is made, then `Place` or `AlreadyThere` |
| `_maybe_shrink` | `Shrink`, `DontShrink` |
| `_resize_delta`, `resize` | `Resize`, `Grow`, `DontGrow` |
| `_move_from`, `_copy_from`, copy and swap | `Rehash`, `Move` (one item a step), `Swap` |
| `_squash_deleted`, copy constructor | `Squash`, `Copy` |
| `operator=` | `Assign`, in `AssignSpec` only (finding 6) |

A bitmap is the set of its positions. `slot` is the bucket `find_or_insert`
found before it made room, which is stale if that moved everything.
`squash` stands for what `set_deleted_key` and `clear_deleted_key` do to the table;
`copy` makes the copy the map from then on. `Map` is what a
caller may rely on: a call, one moment at which it takes effect, a result.

Mutated operators stand before the definition they alter: `GappedRowSizes`,
`ppCbWithoutJSR` in `Opcodes`; `MisplacedLabel`, `TargetFromOperand`, `AnyJump`,
`OnlyJMP`, `_uu_braSwapped`, `StayWithoutReset`, `ThrowNothing`, `AdvancedTwice` in `Translator`
(also `destBB` put in place of `nextBB`); `ShiftedFlags`, `OverflowOfOperands`,
`SBCOfCarry`, `CompareBorrowing`, `ROLOfNewCarry`, `INC16` in `Alu`;
`LongIndexed`, `PreDecremented` in `Cpu`; `Unwrapped`, `SlotBelow`, `PulledOne`
in `Runtime`; `NoInputParams`, `ThrowUnplaced`, `PopBack`, `OneForAll`,
`ParamsFromOption`, `LastOf`, `HelpIfComplete` in `ArgParse`;
`GrownOnlyWhenEmpty`, `UnmarkedErased` in `SparseGroup`; `DoubleJumps`,
`StopsAtErased`, `ExactlySized`, `OnlyItems`, `ShrinkWhileAble`, `KeptDeleted` in
`SparseHash`. Each is a plausible slip in the code, and substituting it makes a
property fail.

## 3. Runs

| Run | Inputs | What it shows |
|---|---|---|
| `mixed` | every file of up to 5 bytes over NOP, JMP, JSR, RTS, BNE, LDA (ind,X), RTI and the operand bytes 3 and 80h, of up to 4 with LDA abs among them; every file of up to 8 bytes of NOP, JMP, JSR, RTS | the consistency of the two passes and the bookkeeping of blocks on arbitrary files; that the passes only go forward (`PassesAdvance`) and end (`Termination`) |
| `programs` | every program of up to 4 of: NOP, LDA #, RTS, JMP/JSR to any instruction, BNE to any instruction or the end; and of up to 4 of: RTS, PHA, PLA, TXS, JSR to any; each of the eight branches between two NOPs | the emitted function goes where the guest goes (`ControlFlowPreserved`, `ReturnsReachable`) and, executed, does what the guest does (`RuntimeTypeOK`, `AssocMirrorsStack`, `RunsLikeGuest`) |
| `sizes`, `returns`, `verified`, `badjump` | one file each, two for the last | findings 1 to 4 |
| `instructions` | four families: ADC SBC CMP CPX CPY # and zero page, ASL A, ROL A; ROL, DEC, ASL on a memory cell with INX, CLC; PHA PHP PLA PLP TXS SEC LDA LDX and STX into the stack; each addressing mode over a page zero whose pointers and indices lead over its end | results are those of integers (`AdditionExact`, `SubtractionExact`, `CompareExact`, `LeftShiftsExact`), a pull finds what its push left (`StackHolds`, `PullRestores`), indexed stores stay in page zero (`WritesStayInPage`) |
| `rightshifts` | LSR, ROR with LDA #, SEC, CLC | finding 5 |
| `commandlines` | every command line of up to 6 arguments: the four options, a file name, the name of the output | `AllConsumed`, `FaultReported`, `GetDefined`, `RequiredGiven`, `FirstInputTranslated`, `HelpComesFirst` |
| `usage` | `game.bin` | finding 7 |
| `calls` | every sequence of calls on a map of up to 3 keys and 2 values, with two hash functions | `ImplementsMap`; `StoredKeysFound`, `ErasedCounted`, `GroupsPacked`, `AssertionsHold`, `RehashOnce`, `CallsAdvance`, `CallsReturn` |
| `assign` | the same, with `operator=` | finding 6 |

Bounds. In `mixed` five arbitrary bytes are enough for a three-byte jump whose
operands are instructions, a second instruction it meets or overlaps, and the
sentinel. The address space has 8 words and starts at 4, so that addresses wrap
and, in the longer files, coincide: 64 KiB, the program's own limit, is out of
reach. 80h and 3 make addresses and offsets inside and outside the file. TLC uses
the real tables.

In `programs` the address space and origin are the real ones. The branches tell
their flags and directions apart on every set of flags. Four instructions
allow a loop, a subroutine with two callers, a branch over a call and a
recursion; the stack page has 4 cells (`StackSize`), so that two nested calls
wrap S, a third overwrites the first return address, and a push or a TXS puts S
between the two bytes of one. `Translatable` (distinct addresses, no label on the
first instruction, every label on an instruction of the second pass) is the
precondition of the properties of the output; `verified` shows that the second
conjunct is needed. Most of the programs satisfy it.

In `instructions` bytes have all eight bits. The operands are those at which a
flag changes (0, 1, 127, 128, 129, 255), and the accumulator reaches every value
from them, as do the cell and X in the read-modify-write family. A behaviour stays
in one family: registers that have nothing to do with each other would only
multiply the states. For the stack the window has cells 256, 257 and 511, the two
ends of page one, and at most two bytes (`MaxPushed`) are on the stack, enough for
S to wrap in both directions with something pushed on each side. For the
addressing modes cells 0, 1 and 256 distinguish an index that wraps in page zero
from one that leaves it.

In `commandlines` six arguments hold both required options and two more, so that
options repeat, are taken as parameters, come last without one, or follow a
fault.

In `calls` groups have 8 buckets instead of 32, the least the code provides for,
and tables start at 4, so that the map grows twice (`MaxDoublings`), shrinks
again, and fills a group with items and erased buckets. With one hash
function all keys collide always, with the other two of them do in all but the
largest table. Keys are erased and
inserted without bound.

Fairness. `Translator`'s `Spec` has weak fairness of `Step` (all but
stuttering at the end): `process_file` is sequential and never blocks, so it goes
on while it has a next step. `SparseHash`'s `Spec` has weak fairness of `Run`, the
steps of a call in progress, for the same reason; whether another call is made is
the caller's affair. Only `Termination` and `CallsReturn` use them. The other
modules have no liveness property and need no fairness.

Refinements. `RunsLikeGuest` is `Guest`'s specification under `GuestAt`, which maps
the entry of `code` to the position of the instruction it belongs to (to the
destination, once a JSR has stored its association), to "not started" during
translation and to "lost" after `lost`. `ImplementsMap` is `Map`'s under the value
that the buckets hold for each key; a call takes effect with its last step, and
all the rehashing before it is stuttering.

## 4. Findings

1. `sizes`: the size table disagrees with the operands consumed by the (ind,X)
   and (ind),Y instructions and by CPX #, against the comment on `sizeArr`.
2. `returns`: the block after a JSR is no RTS destination if some other callback
   created it, against the comment in `_pp_mklb2`.
3. `verified`: a branch to the first instruction branches to the entry block;
   the verdict of `llvm::verifyFunction` is ignored.
4. `badjump`: a transfer out of the file is not reported as NONEXISTANT_BRANCH, as
   `_uu_bra` and `_uu_jump` would: in the first pass a branch writes a label
   through an iterator outside the buffer (the trace: BNE to 7F82h), and a jump
   through `end()`.
5. `rightshifts`: LSR and ROR shift with the arithmetic shift, which copies bit 7
   down, against the comments that call them logical shift and rotate.
6. `assign`: `operator=` of sparsepp overwrites `num_deleted` before `clear` looks
   at it. Assigning an empty map to one whose elements were all erased keeps the
   erased buckets and forgets their number, against the comments that `clear` sets
   it; the assertion `assert(num_deleted)` in `_insert_at` then fails. RRP never
   assigns `_bbMap`.
7. `usage`: `rrpc <input 6502 binary file>`, the syntax `README.md` gives and
   `compile.sh` uses, is refused as an invalid argument; `--i` and `--o` are
   required. The name given with `--o` is then ignored: the file written is
   `rrpout.bc`, as `README.md` says and the description of `--o` does not.

## 5. Proofs

Each theorem holds for every value of the constants that satisfies the named
assumptions of its module.

`TranslatorProofs`: for every set of files, address space size and origin
(`ImagesAssumption`, `AddrSpaceAssumption`, `OriginAssumption`), `Spec => []P` for

- `TypeCorrect` and `SecondPassBounded`, proved together: an instruction is on a
  byte of the buffer only if the pass is inside it, and what an instruction
  consumes stays inside because the last element is a NOP or `Standard` checks.
- `LabelsInvariant` (`Sentinel`, `LabelsMapped`, `Preprocessed`): the
  strengthening the error properties need. It says what the first pass has left
  for each instruction it went over, and rests on the tables agreeing
  (`TablesAgree`, `TwoByteSize`): ppCb has a callback of the right kind for every
  transfer of uuCb, and sizeArr is right wherever two operand bytes follow.
- `LookupCorrect` and `ErrorsCorrect` from it: an exception, or a read past the
  buffer, at `i` with `i` in `starts1` would contradict what `Preprocessed` says
  of `i`. In the first pass `i` is not yet in `starts1`, by `PassesAdvance`.
- `TransfersCorrect` from `OpenBlock`, which extends it to all phases.
- `PassesAdvancing`: what a pass has begun lies before the iterator, so a loop has
  at most as many rounds as there are elements. This is the safety half of
  `Termination`: from it only fairness is missing.
- `ReturnDestsCorrect`: `_indBrDests` grows only by a label `_bbMap` lacked, and
  `LabelsMapped` says all earlier ones are in it.

`OutputProofs`, on the same assumptions:

- `ReturnsCorrect`, `Spec => []ReturnsReachable`. The invariant is `Known`: during
  the first pass every block in `_bbMap` is the entry's, the destination's of an
  instruction gone over, or that of an element not past the iterator. The block
  after a JSR lies past it, so it is new unless a branch made it.
- `OutputCorrect`, `Spec => []WellFormedOutput`. The inductive invariant is
  `BlocksInv`. The verifier's conditions say nothing about where the second pass
  is, and are not inductive; `Placed` orders the blocks along the buffer (the
  current one belongs to a position not past the iterator, those pushed to
  positions before it), from which no block is entered twice. `Layout` says that
  a label spells the address of its element, so that with distinct addresses a
  block has one position.
- `FlowCorrect`, `Spec => []ControlFlowPreserved`. `Targets` says that each
  destination the first pass stored is the address of the element the operand
  names. `FlowInv` describes the code entry by entry: each is `Faithful` to its
  instruction, and each is followed by the entry of the next instruction in the
  same block or, after a terminator, by the head of a labelled one. Together they
  are `Consistent`, the invariant all later proofs use. That every block's head is
  the entry of its label (`EntryIs`) then gives the successors; `BranchesAgree`, from
  the bits of the eight instruction bytes, says which of the two a branch takes.

`RuntimeProofs`, for every stack of more than three cells
(`StackSizeAssumption`) besides:

- `RuntimeTypes` and `AssocCorrect`, `RuntimeSpec => []AssocMirrorsStack`, from
  `RunInv`. A JSR writes table and frame under the same S, and every other step
  only removes frames.
- `GuestImplemented`, `RuntimeSpec => RunsLikeGuest`. Initial states map to initial
  states, and `ExecuteRefines` has, for each action of `Runtime`, the step of `Guest`
  it is: a JSR is the guest's call when it stores its association, and the br
  after that a stutter; an RTS with an intact frame returns to the element after
  its JSR because `AssocMirrorsStack` says which block the table has and
  `EntryIs` where that block starts; without one, both are lost. The invariant
  `RefineInv` adds `Addresses` (elements of the file have the addresses the guest
  sees) and `Tracks` (every frame is the element after some JSR).

`CpuProofs`, for every set of instructions of the tables, every window of
memory, every initial content and every `MaxPushed` up to 256 (assumptions
`InstructionsAssumption`, `CellsAssumption`, `InitAssumption`,
`PushedAssumption`):

- `CpuTypeCorrect`, `Spec => []TypeOK`. Everything else needs it: the arithmetic
  is only exact on bytes.
- `AdditionCorrect`, `SubtractionCorrect`, `CompareCorrect`,
  `LeftShiftsCorrect`: the action properties of `instructions`, on all operands
  and in all modes. Each is a lemma on the operator of `Alu` (`ADCExact`,
  `DifferenceExact`, `CompareOrders`, `LeftShiftsOfBytes`) and one on the step
  that uses it. `LeftShiftsCorrect` also needs that a shift has no indirect mode
  (`ShiftModes`, from the tables): a write through a pointer could move it.
- `PagesCorrect`: an indexed zero-page store and a push stay in their pages.
- `StackCorrect`, `Spec => []StackHolds`: what is pushed and not pulled lies above
  S without gaps, wrapped at the end of page one. It is inductive with `TypeOK`,
  because at most 256 bytes are on the stack: the cell a push writes to is not
  one of the live ones (`PushCellIsFree`).
- `PullsCorrect` from `StackHolds` and `FlagsRoundTrip`: PLP takes apart what PHP
  put together (`BitsOfValue`: a byte made of bits has those bits).

`ArgParseProofs`, for every set of command lines of any length
(`CommandLinesAssumption`), all the invariants of `commandlines`:

- `TypeCorrect` and `GetCorrect`. The invariant is `Collected`: while nothing was
  thrown, a required option is still missing or among the ArgObjects. It holds
  although an option is struck off before its parameters are counted, because
  too few of them throw.
- `LineConsumed`, `FaultsReported`, `RequiredAreGiven`, `FirstInput`, `HelpFirst`.
  They compare what was parsed with `IsOption` and `SpelledUpTo`, recursive
  functions of the command line. That there are such functions at all takes no
  induction principle: a least argument at which no function satisfies the
  recursion would have one (`OptionsExist`). From then on a step of the
  constructor is compared with one round of the recursion. The invariant,
  `FullInv`, has a trace (`Traced`): for each ArgObject the argument it was parsed
  at, one after another without a gap up to where control is, no other argument
  before it being an option. Options parsed and options given are then the same
  (`OptionsParsed`, `AllParsed`), the first of them too (`FirstParsed`).
  `FaultsReported` is that the constructor refuses exactly the command lines with
  a fault, at one of them, and says which.

`SparseGroupProofs`, for the group sizes a bitmap of the code can have (`GroupSizeAssumption`: 8, 16,
32 or 64), has what a table
is made of. `Inserted` and `Removed` are about the packed array: the item of a
position is found at the number of positions below it, before and after one is put
in or taken out. `OffsetInverse` is that `offset_to_pos` inverts `pos_to_offset`.
`TableSet` and `TableErase` are what the rest uses: of all buckets, just one has
another item or mark, the groups stay packed, and `num_buckets` counts them.

`SparseHashProofs`, for every set of keys and values, every hash function into the
naturals, every table size and number of doublings, and every set of calls
(`HashesAssumption`; `BucketsAssumption`, the condition sparsepp.h:3753 states, a power
of two and at least 4; `NoneAssumption`; `CallsAssumption`; `RequestsAssumption`):

- Probing. `ProbesDiffer` says that triangular jumps do not meet a bucket twice in
  a table of a power of two: of two factors of the difference one is odd, so the
  other would have the whole power (`OddFactor` of `Indices`). As there are as many
  probes as buckets they meet all of them (`ProbesMeetAll`), so a search ends in
  every table with an empty bucket (`SearchEnds`), and `_find_position` returns
  the bucket of the key or one an insertion may take (`PositionFound`).
- The inductive invariant is `Inv`, of five parts. `Control` is the types and the
  agreement of `pc` and `call`. `Tables`: the table is `Sound` (every item is where
  a search finds it), counted and within its threshold. `Pending`: the key of an
  `operator[]` in progress is not there, and the slot it holds is good as long as
  it has not rehashed. `RoomLeft`: after a shrink there is room for one more,
  which is why one rehash is enough. `Moving`: during a rehash `tmp` holds exactly
  the items of the buckets the iterator has passed, none of them erased. Without
  the last, nothing could be said of the table after a rehash, nor without the two
  before it of the bucket an insertion takes.
- `Typed`, `Counted`, `Found`, `AllPacked`, `Asserted`, `OneRehash` follow from it:
  each is a run's invariant.
- `Advancing`, `Spec => CallsAdvance`: each step of a call is a later stage of it, or
  a later bucket of the table it rehashes. This is the safety half of
  `CallsReturn`.
- `MapImplemented`, `Spec => ImplementsMap`. `StepSeen` has the step of `Map` for each
  action: the last one of a call takes effect, and all others leave what every key
  maps to as it is. For `Swap` that is `Moving` with the iterator at the end.

`AssertionsHold` is proved of `Spec`; with `operator=` it is false (finding 6), and
`Tables` is the part that breaks.

Only model-checked: `Termination` and `CallsReturn`. They are liveness under weak
fairness, whose ENABLED is out of reach of the prover; `PassesAdvance` and
`CallsAdvance`, which are proved, say that the steps run out, and TLC's check for
deadlocks that there always is a next one.

## 6. Not modelled, and the plan

Left out: of sparsepp, iteration, serialisation, insertion of ranges,
`set_resizing_parameters`, the hash functions, allocators, `sparse_hash_set`, and
the move operations, none of which RRP calls and on none of which the invariants
of the table depend; the optimisation passes and the module dump of
`output_bitcode`, printed text, build scripts. What `compile.sh` makes of rrpc's
exit status, which is 0 after every failure, is in no module (that its call is
refused is finding 7).

Abstracted in `Cpu`: LLVM allows each load of an uninitialised alloca or of
undefined memory to give another value; the model fixes one at the start. LLVM's
assertions are taken as compiled out. Two places break the IR's typing in a way
no value can express: the i16 + i8 sum of (ind),Y (any cell of `Wild`), and the
call of `rrpExit` with an argument its declaration does not have. The second makes
`llvm::verifyFunction` reject every output, which nothing looks at; it is not in
the model, and `verified` (finding 3) is about a function that would be rejected
for its blocks alone.

No statement of the repository says what its deviations from a 6502 should be
(LDX and STX with X-indexed modes, BIT taking S from the conjunction, the
comparisons changing V): the model has them as the code does, and no property
is about them.

What would come next:

1. `Runtime` with the registers and memory of `Cpu` in place of open branches and
   TXS, so that `Guest` could be the whole 6502 and not only its control.
2. A theorem that `Run` has a step whenever a call is in progress, and `Step` one
   while a file is being translated: the guards, written out, would take the
   place of TLC's check for deadlocks.
3. The iterators of sparsepp, once something in RRP uses them.
