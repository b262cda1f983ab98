------------------------------ MODULE Translator ------------------------------
(***************************************************************************)
(* RRP::Translator: the constructor, process_file and output_bitcode.      *)
(*                                                                         *)
(* process_file loads a binary into a buffer of IData records, makes one   *)
(* pass over it that labels the branch targets and creates their basic     *)
(* blocks, and a second pass that emits LLVM IR into those blocks.  The    *)
(* two passes walk the buffer independently: the first advances by the     *)
(* size table, the second by what the operand fetches consume.             *)
(*                                                                         *)
(* Buffer positions count from 1; position Len(buf) + 1 is buffer.end().   *)
(* A label "A" + hex(address) is modelled by the address and a BasicBlock  *)
(* by the label it was created under: a block is only ever created when    *)
(* _bbMap lacks its label, so _bbMap is the set of labels that have one.   *)
(* The entry block "ep" is the one _bbMap holds for the origin.            *)
(***************************************************************************)
EXTENDS Opcodes, FiniteSets

CONSTANTS
  Images,     \* the input files: a set of sequences of bytes
  AddrSpace,  \* number of values of word_t (65536 in the program)
  Origin      \* Translator::starting_addr() (8000h in the program)

ASSUME ImagesAssumption    == Images \subseteq Seq(Byte)
ASSUME AddrSpaceAssumption == AddrSpace \in Nat \ {0}
ASSUME OriginAssumption    == Origin \in 0..(AddrSpace - 1)

VARIABLES
  phase,       \* where control is in process_file and output_bitcode
  error,       \* the ExceptionCode thrown, if any
  buf,         \* std::vector<IData>: <srcLabel, address, byte, dstLabel>
  i,           \* the iterator of the running pass
  bbMap,       \* the labels _bbMap has a block for
  indBrDests,  \* _indBrDests
  curBB,       \* _curBB, where the builder inserts
  needsBr,     \* _needsBr
  blocks,      \* the basic blocks pushed to _main, in order
  code,        \* the IR emitted so far, in order
  starts1,     \* history: where the first pass began an instruction
  starts2      \* history: where the second pass began an instruction

vars == <<phase, error, buf, i, bbMap, indBrDests, curBB, needsBr, blocks,
          code, starts1, starts2>>

passVars == <<buf, bbMap, indBrDests, starts1>>
emitVars == <<curBB, needsBr, blocks, code, starts2>>

------------------------------------------------------------------------------
Addr    == 0..(AddrSpace - 1)
NoLabel == -1
Label   == Addr \cup {NoLabel}

IData == [label: Label, addr: Addr, byte: Byte, dst: Label]

Terminators == {"fall", "br", "condbr", "indirectbr", "ret"}

(* One entry of code: an IR instruction of block bb emitted while the      *)
(* second pass was at position "at".  A guest instruction that transfers   *)
(* no control is one entry named by its operation; "assoc" is the call to  *)
(* rrpMemWriteAssoc, whose only element of dests is the block it records;  *)
(* "fall" is the br process_file emits itself to end the block before a    *)
(* label, "br" the one of a JMP or JSR.                                    *)
Operations == StandardOps \cup UnusualOps \cup Terminators
              \cup {"prologue", "assoc"}
IRCode == [bb: Addr, at: Nat, op: Operations, dests: Seq(Addr)]

Errors == {"none", "UNKNOWN", "PREMATURE_EOF", "NONEXISTANT_BRANCH",
           "UNSUPPORTED_INSTRUCTION"}

(* Phases.  "thrown": a Translator::Exception, caught in main.             *)
(* "terminated": std::bad_function_call, which nothing catches.            *)
(* "undefined": an iterator outside the buffer was dereferenced, after     *)
(* which the program may do anything; the model stops there.               *)
Stopped == {"written", "thrown", "terminated", "undefined"}
Running == {"preprocess", "label", "generate", "generated"}

\* The operand of a jump.  (In a smaller address space words are narrower.)
JumpAddress(p) == makeword(buf[p + 1].byte, buf[p + 2].byte) % AddrSpace

End         == Len(buf) + 1
InBuffer(p) == p \in 1..Len(buf)

\* std::find_if of the first element at an address, or end().
FindAddr(a) ==
  IF \E p \in 1..Len(buf) : buf[p].addr = a
  THEN CHOOSE p \in 1..Len(buf) :
         buf[p].addr = a /\ \A r \in 1..(p - 1) : buf[r].addr # a
  ELSE End

------------------------------------------------------------------------------
(* The buffer process_file builds: one element per byte of the file, and a *)
(* NOP whose address is computed from the size with one added.             *)
Load(image) ==
  [p \in 1..(Len(image) + 1) |->
     IF p <= Len(image)
     THEN [label |-> NoLabel, addr |-> (Origin + p - 1) % AddrSpace,
           byte |-> image[p], dst |-> NoLabel]
     ELSE [label |-> NoLabel, addr |-> (Origin + Len(image) + 1) % AddrSpace,
           byte |-> \hEA, dst |-> NoLabel]]

(* The constructor has emitted the prologue (allocas, the stack pointer,   *)
(* the call to rrpInit) into "ep" and registered "ep" as the origin.       *)
Init ==
  /\ \E image \in Images : buf = Load(image)
  /\ phase = "preprocess"
  /\ error = "none"
  /\ i = 1
  /\ bbMap = {Origin}
  /\ indBrDests = <<>>
  /\ curBB = Origin
  /\ needsBr = TRUE
  /\ blocks = <<>>
  /\ code = <<[bb |-> Origin, at |-> 0, op |-> "prologue", dests |-> <<>>]>>
  /\ starts1 = {}
  /\ starts2 = {}

------------------------------------------------------------------------------
(* First pass.                                                             *)

AtPreprocess(cb) ==
  /\ phase = "preprocess"
  /\ InBuffer(i)
  /\ ppCb[buf[i].byte] = cb

\* The element after the instruction, whose label every callback sets.
PpNext ==
  i + (IF ppCb[buf[i].byte] = "mklb0" THEN 1
       ELSE IF ppCb[buf[i].byte] = "mklb1" THEN 2 ELSE 3)

\* The destination of a relative branch, and of JSR and JMP.
TargetFromOperand == i + 1 + offset(buf[i + 1].byte)
RelativeTarget == i + 2 + offset(buf[i + 1].byte)
AbsoluteTarget == FindAddr(JumpAddress(i))

\* The elements the callback of the instruction at i dereferences exist.
PpInBounds ==
  /\ InBuffer(PpNext)
  /\ ppCb[buf[i].byte] = "mklb1" => InBuffer(RelativeTarget)
  /\ ppCb[buf[i].byte] = "mklb2" => InBuffer(AbsoluteTarget)

\* The label of the element at p once those at ps are labelled.
MisplacedLabel(p, ps) == IF p - 1 \in ps THEN buf[p].addr ELSE buf[p].label
SrcLabel(p, ps)       == IF p \in ps THEN buf[p].addr ELSE buf[p].label

(* Store the label of each position of ps in its element, and target's     *)
(* label as the destination of the branch at i.                            *)
Labelled(ps, target) ==
  [p \in 1..Len(buf) |->
     [buf[p] EXCEPT
        !.label = SrcLabel(p, ps),
        !.dst   = IF p = i /\ target # 0 THEN buf[target].addr ELSE @]]

\* An opcode without a callback: advance by the size table.
PpSkip ==
  /\ AtPreprocess(NoCb)
  /\ i' = i + sizeArr[buf[i].byte]
  /\ starts1' = starts1 \cup {i}
  /\ UNCHANGED <<phase, error, buf, bbMap, indBrDests, emitVars>>

\* RTS: label the next instruction.
_pp_mklb0 ==
  /\ AtPreprocess("mklb0")
  /\ PpInBounds
  /\ buf' = Labelled({i + 1}, 0)
  /\ bbMap' = bbMap \cup {buf[i + 1].addr}
  /\ i' = i + 1
  /\ starts1' = starts1 \cup {i}
  /\ UNCHANGED <<phase, error, indBrDests, emitVars>>

\* A branch: label the destination and the next instruction.
_pp_mklb1 ==
  /\ AtPreprocess("mklb1")
  /\ PpInBounds
  /\ buf' = Labelled({RelativeTarget, i + 2}, RelativeTarget)
  /\ bbMap' = bbMap \cup {buf[RelativeTarget].addr, buf[i + 2].addr}
  /\ i' = i + 2
  /\ starts1' = starts1 \cup {i}
  /\ UNCHANGED <<phase, error, indBrDests, emitVars>>

\* Whether the instruction pushes a return address.
AnyJump == buf[i].byte \in {\h20, \h4C}
OnlyJMP == buf[i].byte = \h4C
IsJSR   == buf[i].byte = \h20

(* JSR and JMP: likewise; for a JSR the block after it becomes an RTS      *)
(* destination, if it is this callback that creates the block.             *)
_pp_mklb2 ==
  /\ AtPreprocess("mklb2")
  /\ PpInBounds
  /\ LET next   == buf[i + 3].addr
         before == bbMap \cup {buf[AbsoluteTarget].addr}
     IN  /\ buf' = Labelled({AbsoluteTarget, i + 3}, AbsoluteTarget)
         /\ bbMap' = before \cup {next}
         /\ indBrDests' = IF next \notin before /\ IsJSR
                          THEN Append(indBrDests, next)
                          ELSE indBrDests
  /\ i' = i + 3
  /\ starts1' = starts1 \cup {i}
  /\ UNCHANGED <<phase, error, emitVars>>

\* An element that the buffer does not have is dereferenced.
ReadOutside ==
  /\ phase' = "undefined"
  /\ UNCHANGED <<error, i, passVars, emitVars>>

(* The first pass checks no bound: it dereferences i wherever the steps    *)
(* took it, and the callbacks dereference the elements they label.         *)
PpUndefined ==
  /\ phase = "preprocess"
  /\ \/ i > End
     \/ InBuffer(i) /\ ppCb[buf[i].byte] # NoCb /\ ~PpInBounds
  /\ ReadOutside

PpDone ==
  /\ phase = "preprocess"
  /\ i = End
  /\ phase' = "label"
  /\ i' = 1
  /\ UNCHANGED <<error, passVars, emitVars>>

------------------------------------------------------------------------------
(* Second pass.                                                            *)

IR(op, dests) == [bb |-> curBB, at |-> i, op |-> op, dests |-> dests]

(* A label is reached while the previous block is open: close it with a    *)
(* br and go on in the label's block.                                      *)
EnterLabel ==
  /\ phase = "label"
  /\ InBuffer(i)
  /\ needsBr
  /\ buf[i].label # NoLabel
  /\ IF buf[i].label \in bbMap
     THEN /\ code' = Append(code, IR("fall", <<buf[i].label>>))
          /\ blocks' = Append(blocks, curBB)
          /\ curBB' = buf[i].label
          /\ phase' = "generate"
          /\ starts2' = starts2 \cup {i}
          /\ UNCHANGED <<error, needsBr>>
     ELSE /\ phase' = "thrown"
          /\ error' = "UNKNOWN"
          /\ UNCHANGED emitVars
  /\ UNCHANGED <<i, passVars>>

StayWithoutReset ==
  /\ phase = "label"
  /\ InBuffer(i)
  /\ ~(needsBr /\ buf[i].label # NoLabel)
  /\ phase' = "generate"
  /\ starts2' = starts2 \cup {i}
  /\ UNCHANGED <<error, i, passVars, curBB, blocks, code, needsBr>>

\* No label here, or the transfer just emitted has made its block current.
StayInBlock ==
  /\ phase = "label"
  /\ InBuffer(i)
  /\ ~(needsBr /\ buf[i].label # NoLabel)
  /\ needsBr' = TRUE
  /\ phase' = "generate"
  /\ starts2' = starts2 \cup {i}
  /\ UNCHANGED <<error, i, passVars, curBB, blocks, code>>

ThrowNothing(exception) ==
  /\ phase' = "thrown"
  /\ UNCHANGED <<error, i, passVars, emitVars>>

Throw(exception) ==
  /\ phase' = "thrown"
  /\ error' = exception
  /\ UNCHANGED <<i, passVars, emitVars>>

\* The element after an instruction at i with n operand bytes.
AdvancedTwice(n) == i + 2 + n
Advanced(n)      == i + 1 + n

\* Emit one instruction that transfers no control and takes n operand bytes.
EmitStraight(op, n) ==
  /\ code' = Append(code, IR(op, <<>>))
  /\ i' = Advanced(n)
  /\ phase' = "label"
  /\ UNCHANGED <<error, passVars, curBB, needsBr, blocks, starts2>>

(* opFunc(this, buffer, i, addrModeFunc).  A callback that finds end()     *)
(* where its operand should be reads the address it reports from there;    *)
(* if the program survives that, it throws.                                *)
Standard ==
  /\ phase = "generate"
  /\ IsStandard(buf[i].byte)
  /\ Callable(buf[i].byte)
  /\ IF InBuffer(i + OperandBytes(buf[i].byte))
     THEN EmitStraight(Operation(buf[i].byte), OperandBytes(buf[i].byte))
     ELSE ReadOutside \/ Throw("PREMATURE_EOF")

\* An empty std::function: std::bad_function_call leaves main.
BadFunctionCall ==
  /\ phase = "generate"
  /\ IsStandard(buf[i].byte)
  /\ ~Callable(buf[i].byte)
  /\ phase' = "terminated"
  /\ UNCHANGED <<error, i, passVars, emitVars>>

\* uuCb[instruction](this, buffer, i), by kind of instruction.
Implied ==
  /\ phase = "generate"
  /\ ~IsStandard(buf[i].byte)
  /\ uuCb[buf[i].byte] \notin Transfers \cup Unsupported
  /\ EmitStraight(uuCb[buf[i].byte], 0)

UnsupportedInstruction ==
  /\ phase = "generate"
  /\ uuCb[buf[i].byte] \in Unsupported
  /\ Throw("UNSUPPORTED_INSTRUCTION")

\* The element whose label is the block after a control transfer.
After ==
  i + (IF uuCb[buf[i].byte] = "RTS" THEN 1
       ELSE IF uuCb[buf[i].byte] = "bra" THEN 2 ELSE 3)

\* The labels of the blocks the callbacks look up; NoLabel is never a key.
destBB == buf[i].dst
nextBB == buf[After].label

BlocksFound ==
  /\ nextBB \in bbMap
  /\ uuCb[buf[i].byte] # "RTS" => destBB \in bbMap

(* A control transfer: emit ir into the current block, push the block to   *)
(* _main and continue in the block of the next instruction.                *)
Transfer(cb, ir) ==
  /\ phase = "generate"
  /\ uuCb[buf[i].byte] = cb
  /\ InBuffer(After)
  /\ BlocksFound
  /\ code' = code \o ir
  /\ blocks' = Append(blocks, curBB)
  /\ curBB' = nextBB
  /\ needsBr' = FALSE
  /\ i' = After
  /\ phase' = "label"
  /\ UNCHANGED <<error, passVars, starts2>>

(* The condition of a branch, when "set" are the flags that are set: the   *)
(* instruction byte says which one to test, and for what.  Here the flags  *)
(* have no values, so condbr has the destination if cond holds first and   *)
(* the one if it does not second.                                          *)
toTest(b)    == <<"S", "V", "C", "Z">>[b \div 64 + 1]
bit(b)       == (b \div 32) % 2
cond(b, set) == toTest(b) \in set <=> bit(b) = 1

_uu_braSwapped == Transfer("bra", <<IR("condbr", <<nextBB, destBB>>)>>)

_uu_bra  == Transfer("bra", <<IR("condbr", <<destBB, nextBB>>)>>)
_uu_jump == Transfer("jump", <<IR("br", <<destBB>>)>>)
_uu_JSR  == Transfer("JSR", <<IR("assoc", <<nextBB>>),
                              IR("br", <<destBB>>)>>)
_uu_RTS  == Transfer("RTS", <<IR("indirectbr", indBrDests)>>)

NonexistantBranch ==
  /\ phase = "generate"
  /\ uuCb[buf[i].byte] \in Transfers
  /\ InBuffer(After)
  /\ ~BlocksFound
  /\ Throw("NONEXISTANT_BRANCH")

\* The label of an element past the buffer was read.
TransferUndefined ==
  /\ phase = "generate"
  /\ uuCb[buf[i].byte] \in Transfers
  /\ ~InBuffer(After)
  /\ ReadOutside

\* The tail of process_file: the call to rrpExit and ret, here one entry.
Finish ==
  /\ phase = "label"
  /\ i = End
  /\ code' = Append(code, IR("ret", <<>>))
  /\ blocks' = Append(blocks, curBB)
  /\ phase' = "generated"
  /\ UNCHANGED <<error, i, passVars, curBB, needsBr, starts2>>

\* The verdict of verifyFunction is not looked at.
output_bitcode ==
  /\ phase = "generated"
  /\ phase' = "written"
  /\ UNCHANGED <<error, i, passVars, emitVars>>

------------------------------------------------------------------------------
FirstPass == PpSkip \/ _pp_mklb0 \/ _pp_mklb1 \/ _pp_mklb2 \/ PpUndefined
             \/ PpDone

SecondPass ==
  \/ EnterLabel \/ StayInBlock \/ Standard \/ BadFunctionCall \/ Implied
  \/ UnsupportedInstruction \/ _uu_bra \/ _uu_jump \/ _uu_JSR \/ _uu_RTS
  \/ NonexistantBranch \/ TransferUndefined \/ Finish

Step == FirstPass \/ SecondPass \/ output_bitcode

\* process_file has returned or thrown, or the program is gone.
Done == phase \in Stopped /\ UNCHANGED vars

Next == Step \/ Done

\* The process runs on while it has work: one thread, no blocking call.
Spec == Init /\ [][Next]_vars /\ WF_vars(Step)

------------------------------------------------------------------------------
(* Properties.                                                             *)

(* Every variable keeps its type, and the error is set exactly when an     *)
(* exception was thrown.                                                   *)
TypeOK ==
  /\ phase \in Running \cup Stopped
  /\ error \in Errors
  /\ error # "none" <=> phase = "thrown"
  /\ buf \in Seq(IData)
  /\ i \in Nat \ {0}
  /\ bbMap \subseteq Addr
  /\ indBrDests \in Seq(Addr)
  /\ curBB \in Addr
  /\ needsBr \in BOOLEAN
  /\ blocks \in Seq(Addr)
  /\ code \in Seq(IRCode)
  /\ starts1 \subseteq 1..Len(buf)
  /\ starts2 \subseteq 1..Len(buf)

(* Every label the first pass stored has a block: the lookup of a label    *)
(* the second pass walks onto, the one place that throws UNKNOWN, cannot   *)
(* fail.                                                                   *)
LookupNeverFails == error # "UNKNOWN"

(* While _needsBr is false the block the builder inserts into is the block *)
(* of the label the iterator is on: skipping the label check after a       *)
(* transfer never leaves code in the block of another address.             *)
TransferLandsOnLabel ==
  phase = "label" /\ ~needsBr => InBuffer(i) /\ curBB = buf[i].label

(* The second pass never steps past the end of the buffer: whatever the    *)
(* instructions consume, the loop meets end() or stops before it.          *)
SecondPassInBounds ==
  phase \in {"label", "generate"} => i <= End /\ (phase = "generate" => i <= Len(buf))

(* Neither pass goes over an element twice or turns back: what it has begun *)
(* lies before the iterator.  So each loop ends after at most as many       *)
(* rounds as there are elements, and no instruction is emitted twice.       *)
PassesAdvance ==
  /\ phase = "preprocess" => \A p \in starts1 : p < i
  /\ phase = "label"      => \A p \in starts2 : p < i
  /\ phase = "generate"   => \A p \in starts2 : p <= i

(* _indBrDests holds no block twice, and only blocks that follow a JSR the *)
(* first pass went over: an RTS never returns to anything else.            *)
ReturnDestsAreContinuations ==
  /\ \A m, n \in 1..Len(indBrDests) : indBrDests[m] = indBrDests[n] => m = n
  /\ \A m \in 1..Len(indBrDests) :
       \E p \in starts1 : /\ buf[p].byte = \h20
                          /\ p + 3 <= Len(buf)
                          /\ indBrDests[m] = buf[p + 3].addr

(* An instruction the first pass also went over never makes the second     *)
(* pass throw NONEXISTANT_BRANCH or PREMATURE_EOF, or read an element past *)
(* the buffer (a label, or the address it reports): its blocks exist and   *)
(* its operands are there.  Only where the passes disagree can the second  *)
(* one fail so.                                                            *)
ErrorsOnlyOutOfStep ==
  error \in {"NONEXISTANT_BRANCH", "PREMATURE_EOF"} \/ phase = "undefined"
    => i \notin starts1

(* The facts about the two passes that the invariants above rest on.       *)

\* The buffer ends in the NOP process_file adds.
Sentinel == Len(buf) > 0 /\ buf[Len(buf)].byte = \hEA

(* Every label in the buffer, and every return destination, has a block.   *)
LabelsMapped ==
  /\ \A p \in 1..Len(buf) : buf[p].label # NoLabel => buf[p].label \in bbMap
  /\ \A m \in 1..Len(indBrDests) : indBrDests[m] \in bbMap

(* What the first pass has left for the instructions it went over: the     *)
(* labels and the destination the second pass looks up there, or the bytes *)
(* the size table counts.                                                  *)
Preprocessed ==
  \A p \in starts1 :
    LET cb         == ppCb[buf[p].byte]
        Landing(n) == p + n <= Len(buf) /\ buf[p + n].label # NoLabel
        size       == sizeArr[buf[p].byte]
    IN  /\ cb = NoCb => /\ phase = "preprocess" => p + size <= i
                        /\ phase \in {"label", "generate"} => p + size <= End
        /\ cb = "mklb0" => Landing(1)
        /\ cb = "mklb1" => Landing(2) /\ buf[p].dst \in bbMap
        /\ cb = "mklb2" => Landing(3) /\ buf[p].dst \in bbMap

\* _needsBr is false only between a transfer and the label after it.
OpenBlock == ~needsBr => phase = "label" /\ InBuffer(i) /\ curBB = buf[i].label

\* No two elements of the buffer have the same address.
UniqueAddrs == \A p, q \in 1..Len(buf) : buf[p].addr = buf[q].addr => p = q

PassesDone == phase \in {"label", "generate", "generated", "written"}

JSRs == {p \in starts1 : buf[p].byte = \h20}

(* After the first pass every JSR's next block is an RTS destination,      *)
(* unless that block is the entry block or a branch also jumps to it.      *)
ReturnsReachable ==
  PassesDone /\ UniqueAddrs =>
    \A p \in JSRs :
      LET next == buf[p + 3].addr IN
      \/ next = Origin
      \/ \E q \in starts1 : buf[q].dst = next
      \/ \E m \in 1..Len(indBrDests) : indBrDests[m] = next

------------------------------------------------------------------------------
(* What the emitted function has to be.                                    *)

BlockSet     == {blocks[m] : m \in 1..Len(blocks)}
CodeOf(bb)   == {k \in 1..Len(code) : code[k].bb = bb}
IsLastOf(k)  == \A n \in CodeOf(code[k].bb) : n <= k
DestsOf(k)   == {code[k].dests[m] : m \in 1..Len(code[k].dests)}

(* What llvm::verifyFunction asks of the blocks: the entry block is first, *)
(* no block is in the function twice, every block ends in its only         *)
(* terminator, and every block referred to is in the function.             *)
WellFormed ==
  /\ blocks[1] = Origin
  /\ \A m, n \in 1..Len(blocks) : blocks[m] = blocks[n] => m = n
  /\ \A k \in 1..Len(code) : /\ code[k].bb \in BlockSet
                             /\ DestsOf(k) \subseteq BlockSet
                             /\ code[k].op \in Terminators <=> IsLastOf(k)
  /\ \A bb \in BlockSet : CodeOf(bb) # {}

(* The programs whose blocks RRP gets right: every label is on an instruction the    *)
(* second pass went over, none of them the first (its block "ep" is the    *)
(* entry block, which LLVM lets nothing branch to), in distinct addresses. *)
Translatable ==
  /\ UniqueAddrs
  /\ buf[1].label = NoLabel
  /\ \A p \in 1..Len(buf) : buf[p].label # NoLabel => p \in starts2

(* The bitcode of a translatable program has the blocks and terminators    *)
(* the verifier asks for, which output_bitcode does not make sure of.      *)
(* Nothing is said of the verifier's other demands: it rejects the call of *)
(* rrpExit (Translator.cxx:195) in every output.                           *)
WellFormedOutput == phase = "written" /\ Translatable => WellFormed

\* The position of the first instruction of a block.
EntryOf(bb) == code[CHOOSE k \in CodeOf(bb) : \A n \in CodeOf(bb) : k <= n].at

(* Where the IR goes after entry k, the last one of a guest instruction.   *)
NextOf(k) == CHOOSE n \in CodeOf(code[k].bb) :
               n > k /\ \A l \in CodeOf(code[k].bb) : l <= k \/ n <= l
IRSuccessors(k) ==
  IF code[k].op \in Terminators THEN {EntryOf(d) : d \in DestsOf(k)}
  ELSE LET n == NextOf(k) IN
       IF code[n].op = "fall" THEN {EntryOf(d) : d \in DestsOf(n)}
       ELSE {code[n].at}

(* Where the guest goes after the instruction at p.  An RTS may go to the  *)
(* element after any JSR.                                                  *)
GuestSuccessors(p) ==
  IF uuCb[buf[p].byte] \in {"jump", "JSR"}
  THEN {q \in 1..Len(buf) : buf[q].addr = JumpAddress(p)}
  ELSE IF uuCb[buf[p].byte] = "bra"
  THEN {p + 2, p + 2 + offset(buf[p + 1].byte)}
  ELSE IF uuCb[buf[p].byte] = "RTS" THEN {q + 3 : q \in JSRs}
  ELSE IF IsStandard(buf[p].byte) THEN {p + 1 + OperandBytes(buf[p].byte)}
  ELSE {p + 1}

(* Which of its two ways a branch takes, in the IR and on a 6502, when     *)
(* "set" are the flags that are set.                                       *)
Flags == {"S", "V", "C", "Z"}
IRBranch(k, set) ==
  EntryOf(code[k].dests[IF cond(buf[code[k].at].byte, set) THEN 1 ELSE 2])
Taken(opcode, set) ==
  \/ opcode = \h10 /\ "S" \notin set    \* BPL
  \/ opcode = \h30 /\ "S" \in set       \* BMI
  \/ opcode = \h50 /\ "V" \notin set    \* BVC
  \/ opcode = \h70 /\ "V" \in set       \* BVS
  \/ opcode = \h90 /\ "C" \notin set    \* BCC
  \/ opcode = \hB0 /\ "C" \in set       \* BCS
  \/ opcode = \hD0 /\ "Z" \notin set    \* BNE
  \/ opcode = \hF0 /\ "Z" \in set       \* BEQ
GuestBranch(p, set) ==
  IF Taken(buf[p].byte, set) THEN p + 2 + offset(buf[p + 1].byte) ELSE p + 2

(* In the output for a translatable program control goes from each         *)
(* instruction exactly where the guest's goes, from a branch under the     *)
(* same flags, and from an RTS nowhere else, whatever blocks the two were  *)
(* cut into.                                                               *)
ControlFlowPreserved ==
  phase = "written" /\ Translatable =>
    \A k \in 1..Len(code) :
      /\ code[k].op \notin {"prologue", "assoc", "fall", "ret", "indirectbr"} =>
           IRSuccessors(k) = GuestSuccessors(code[k].at)
      /\ code[k].op = "indirectbr" =>
           IRSuccessors(k) \subseteq GuestSuccessors(code[k].at)
      /\ code[k].op = "condbr" =>
           \A set \in SUBSET Flags :
             IRBranch(k, set) = GuestBranch(code[k].at, set)

(* process_file and output_bitcode come to an end on every file: both      *)
(* passes advance however the bytes are read.                              *)
Termination == <>(phase \in Stopped)

------------------------------------------------------------------------------
(* Statements of the repository that the code does not keep; each is the   *)
(* property of a run that finds a counterexample.                          *)

(* TranslatorData.cxx:110, "sizeArr defines the size of each of the        *)
(* possible 256 instructions": the second pass advances by that size.      *)
SizesAgree ==
  [][phase = "generate" /\ phase' = "label"
       => i' - i = sizeArr[buf[i].byte]]_vars

(* TranslatorCallbacks.cxx:890, "we need to add the created basic block to *)
(* the list of possible RTS destinations": the block after every JSR is.   *)
ReturnsRegistered ==
  PassesDone =>
    \A p \in JSRs : \E m \in 1..Len(indBrDests) :
                      indBrDests[m] = buf[p + 3].addr

(* Translator.cxx:113 calls llvm::verifyFunction before the bitcode is     *)
(* written: what is written satisfies it.                                  *)
OutputVerified == phase = "written" => WellFormed

(* TranslatorCallbacks.cxx:1322 and 1349 throw NONEXISTANT_BRANCH when a   *)
(* branch or a jump has no destination block: one that leads out of the    *)
(* file is never undefined.                                                *)
BadJumpReported ==
  [][phase = "preprocess" /\ InBuffer(i) /\ ppCb[buf[i].byte] # NoCb
     /\ InBuffer(PpNext) => phase' # "undefined"]_vars
==============================================================================
