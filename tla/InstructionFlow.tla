--------------------------- MODULE InstructionFlow ----------------------------
(*****************************************************************************)
(* The course of the instruction pointer: cycle, the branches, compares and  *)
(* tests, and the address computation of memory instructions                 *)
(* (src/src/Core.cc, src/include/Instruction.h).  Calls and returns, which   *)
(* change frames as well, are in RegisterFrames.                             *)
(*                                                                           *)
(* An address has Space values and wraps.  Memory may hold any instruction   *)
(* at any address.  The condition code and the mask of an instruction are    *)
(* sets of bits, 4 for less, 2 for equal and 1 for greater, so that code &   *)
(* mask is their intersection.                                               *)
(*****************************************************************************)
EXTENDS Integers

CONSTANTS
  Space,         \* addresses are 0 .. Space - 1, each also a register's value
  Registers,     \* the registers in use
  LinkRegister,  \* g14, where bal leaves its link
  Instructions,  \* what memory may hold
  Loaded,        \* what loads may yield
  WordBits,      \* getBitPosition takes a bit number modulo 32
  TraceEnable,   \* bits of the process and the trace controls, which none of
  BreakpointTraceMode  \* these instructions changes

Address == 0 .. Space - 1
Bits == {1, 2, 4}
NoInstruction == [op |-> "none"]

IndirectModes == {"RegisterIndirectWithOffset", "RegisterIndirect",
                  "RegisterIndirectWithDisplacement"}
IndexedModes == {"RegisterIndirectWithIndex", "IndexWithDisplacement",
                 "RegisterIndirectWithIndexAndDisplacement"}
PlainModes == {"AbsoluteOffset", "IPWithDisplacement", "AbsoluteDisplacement"}
MEMFormatMode == PlainModes \union IndirectModes \union IndexedModes \union {"Reserved"}

MemoryOps == {"bx", "balx", "lda", "load", "store"}
CompareOps == {"cmpo", "cmpi"}
CompareBranchOps == {"cmpobx", "cmpibx", "bbc", "bbs"}
ControlOps == {"b", "bal", "condBranch", "condFault", "testOp", "mark", "fmark"}

ASSUME SpaceAssumption == Space \in Nat /\ Space > 8 /\ Space % 4 = 0
ASSUME RegisterAssumption == LinkRegister \in Registers /\ NoInstruction \notin Instructions
ASSUME TraceAssumption == {TraceEnable, BreakpointTraceMode} \subseteq BOOLEAN
ASSUME LoadedAssumption == Loaded \subseteq Address
ASSUME InstructionAssumption ==
  \A i \in Instructions :
    i \in [op : MemoryOps \union CompareOps \union CompareBranchOps \union ControlOps,
           mask : SUBSET Bits, disp : Int, mode : MEMFormatMode, abase : Registers,
           index : Registers, scale : {1, 2, 4, 8, 16}, src1 : Registers, src2 : Registers,
           dest : Registers]

VARIABLES
  ip,
  r,            \* the registers
  cc,           \* the condition code
  instruction,  \* the one fetched, between fetch and execution
  halted,       \* generateFault was called
  last          \* the relation that the last compare found, or "none"

vars == <<ip, r, cc, instruction, halted, last>>

-------------------------------------------------------------------------------
(* Addresses.                                                                *)

Wrap(n) == n % Space
Integer(a) == IF a >= Space \div 2 THEN a - Space ELSE a

isDoubleWideInstruction(mode) ==
  mode \in {"IPWithDisplacement", "AbsoluteDisplacement", "RegisterIndirectWithDisplacement",
            "IndexWithDisplacement", "RegisterIndirectWithIndexAndDisplacement"}

\* advanceIPBy, after computeMemoryAddress for memory instructions.
advance(i) == IF i.op \in MemoryOps /\ isDoubleWideInstruction(i.mode) THEN 8 ELSE 4

\* Shifting by 0 to 4 is multiplying by the scale.
scaledIndex(i) == r[i.index] * i.scale

\* Fault: relative to the word after the first, as a branch's operand is not.
FourFurther(i) ==
  Wrap(CASE i.mode = "AbsoluteOffset"                   -> i.disp
         [] i.mode = "RegisterIndirectWithOffset"       -> i.disp + r[i.abase]
         [] i.mode = "RegisterIndirect"                 -> r[i.abase]
         [] i.mode = "RegisterIndirectWithIndex"        -> r[i.abase] + scaledIndex(i)
         [] i.mode = "IPWithDisplacement"               -> ip + i.disp + 4
         [] i.mode = "AbsoluteDisplacement"             -> i.disp
         [] i.mode = "RegisterIndirectWithDisplacement" -> r[i.abase] + i.disp
         [] i.mode = "IndexWithDisplacement"            -> scaledIndex(i) + i.disp
         [] i.mode = "RegisterIndirectWithIndexAndDisplacement" ->
              r[i.abase] + scaledIndex(i) + i.disp
         [] i.mode = "Reserved"                         -> -1)

computeMemoryAddress(i) ==
  Wrap(CASE i.mode = "AbsoluteOffset"                   -> i.disp
         [] i.mode = "RegisterIndirectWithOffset"       -> i.disp + r[i.abase]
         [] i.mode = "RegisterIndirect"                 -> r[i.abase]
         [] i.mode = "RegisterIndirectWithIndex"        -> r[i.abase] + scaledIndex(i)
         [] i.mode = "IPWithDisplacement"               -> ip + i.disp + 8
         [] i.mode = "AbsoluteDisplacement"             -> i.disp
         [] i.mode = "RegisterIndirectWithDisplacement" -> r[i.abase] + i.disp
         [] i.mode = "IndexWithDisplacement"            -> scaledIndex(i) + i.disp
         [] i.mode = "RegisterIndirectWithIndexAndDisplacement" ->
              r[i.abase] + scaledIndex(i) + i.disp
         [] i.mode = "Reserved"                         -> -1)

Advance(i) == ip' = Wrap(ip + advance(i))

ipRelativeBranch(i) == ip' = Wrap(ip + i.disp)
absoluteBranch(address) == ip' = address

-------------------------------------------------------------------------------
(* Handlers.                                                                 *)

compareGeneric(a, b) == IF a < b THEN {4} ELSE IF a = b THEN {2} ELSE {1}
Relation(a, b) == IF a < b THEN "less" ELSE IF a = b THEN "equal" ELSE "greater"

Compare(i, signed) ==
  LET a == IF signed THEN Integer(r[i.src1]) ELSE r[i.src1]
      b == IF signed THEN Integer(r[i.src2]) ELSE r[i.src2]
  IN /\ cc' = compareGeneric(a, b)
     /\ last' = Relation(a, b)

cmpx(i) ==
  /\ i.op \in CompareOps
  /\ Compare(i, i.op = "cmpi")
  /\ Advance(i)
  /\ UNCHANGED <<r, halted>>

\* Fault: the comparison decides and is then forgotten.
CompareForgotten(i) ==
  /\ i.op \in {"cmpobx", "cmpibx"}
  /\ LET a == IF i.op = "cmpibx" THEN Integer(r[i.src1]) ELSE r[i.src1]
         c == IF i.op = "cmpibx" THEN Integer(r[i.src2]) ELSE r[i.src2]
     IN /\ IF i.mask \intersect compareGeneric(a, c) # {} THEN ipRelativeBranch(i) ELSE Advance(i)
        /\ last' = Relation(a, c)
  /\ UNCHANGED <<r, cc, halted>>

\* cmpobx and cmpibx.
cmpxbx(i) ==
  /\ i.op \in {"cmpobx", "cmpibx"}
  /\ Compare(i, i.op = "cmpibx")
  /\ IF i.mask \intersect cc' # {} THEN ipRelativeBranch(i) ELSE Advance(i)
  /\ UNCHANGED <<r, halted>>

bitSet(i) == (r[i.src2] \div 2 ^ (r[i.src1] % WordBits)) % 2 = 1

\* bbc and bbs set the same code for a bit, and branch on opposite ones.
bbx(i) ==
  /\ i.op \in {"bbc", "bbs"}
  /\ cc' = IF bitSet(i) THEN {2} ELSE {}
  /\ IF bitSet(i) = (i.op = "bbs") THEN ipRelativeBranch(i) ELSE Advance(i)
  /\ last' = "none"
  /\ UNCHANGED <<r, halted>>

\* Fault: a mask of no bits is not told from one of all bits.
HoldsForNone(mask) == mask = {} \/ cc \intersect mask # {}

\* The test of condBranch and condFault.
Holds(mask) == IF mask # {} THEN cc \intersect mask # {} ELSE cc = {}

\* The test of testOp.
conditionCodeIs(mask) ==
  IF mask = {} THEN cc \intersect mask = {} ELSE cc \intersect mask # {}

condBranch(i) ==
  /\ i.op = "condBranch"
  /\ IF Holds(i.mask) THEN ipRelativeBranch(i) ELSE Advance(i)
  /\ UNCHANGED <<r, cc, halted, last>>

condFault(i) ==
  /\ i.op = "condFault"
  /\ \/ Holds(i.mask) /\ halted' = TRUE /\ UNCHANGED ip
     \/ ~Holds(i.mask) /\ Advance(i) /\ UNCHANGED halted
  /\ UNCHANGED <<r, cc, last>>

testOp(i) ==
  /\ i.op = "testOp"
  /\ r' = [r EXCEPT ![i.dest] = IF conditionCodeIs(i.mask) THEN 1 ELSE 0]
  /\ Advance(i)
  /\ UNCHANGED <<cc, halted, last>>

b(i) == i.op = "b" /\ ipRelativeBranch(i) /\ UNCHANGED <<r, cc, halted, last>>

bal(i) ==
  /\ i.op = "bal"
  /\ r' = [r EXCEPT ![LinkRegister] = Wrap(ip + 4)]
  /\ ipRelativeBranch(i)
  /\ UNCHANGED <<cc, halted, last>>

bx(i) ==
  /\ i.op = "bx"
  /\ absoluteBranch(computeMemoryAddress(i))
  /\ UNCHANGED <<r, cc, halted, last>>

\* Fault: the link is taken before the second word is known of.
LinkBeforeAddress(i) ==
  /\ i.op = "balx"
  /\ r' = [r EXCEPT ![i.dest] = Wrap(ip + 4)]
  /\ absoluteBranch(computeMemoryAddress(i))
  /\ UNCHANGED <<cc, halted, last>>

\* The address first: it may use the register that the link goes to.
balx(i) ==
  /\ i.op = "balx"
  /\ r' = [r EXCEPT ![i.dest] = Wrap(ip + advance(i))]
  /\ absoluteBranch(computeMemoryAddress(i))
  /\ UNCHANGED <<cc, halted, last>>

lda(i) ==
  /\ i.op = "lda"
  /\ r' = [r EXCEPT ![i.dest] = computeMemoryAddress(i)]
  /\ Advance(i)
  /\ UNCHANGED <<cc, halted, last>>

\* ldob to ldq, and stob to stq: the address computation counts for the
\* length of the instruction; what is at the address is MemoryBus's business.
transfer(i) ==
  /\ i.op \in {"load", "store"}
  /\ \/ i.op = "load" /\ \E v \in Loaded : r' = [r EXCEPT ![i.dest] = v]
     \/ i.op = "store" /\ UNCHANGED r
  /\ Advance(i)
  /\ UNCHANGED <<cc, halted, last>>

\* mark needs the breakpoint trace mode too, fmark does not.
marks(i) ==
  /\ i.op \in {"mark", "fmark"}
  /\ LET event == TraceEnable /\ (BreakpointTraceMode \/ i.op = "fmark")
     IN \/ event /\ halted' = TRUE /\ UNCHANGED ip
        \/ ~event /\ Advance(i) /\ UNCHANGED halted
  /\ UNCHANGED <<r, cc, last>>

-------------------------------------------------------------------------------
(* The cycle.                                                                *)

\* Any word of memory may be there; the last two bits of ip are not looked at.
loadInstruction ==
  /\ instruction = NoInstruction /\ ~halted
  /\ instruction' \in Instructions
  /\ UNCHANGED <<ip, r, cc, halted, last>>

executeInstruction ==
  /\ instruction # NoInstruction /\ ~halted
  /\ \/ cmpx(instruction) \/ cmpxbx(instruction) \/ bbx(instruction)
     \/ condBranch(instruction) \/ condFault(instruction) \/ testOp(instruction)
     \/ b(instruction) \/ bal(instruction) \/ bx(instruction) \/ balx(instruction)
     \/ lda(instruction) \/ transfer(instruction) \/ marks(instruction)
  /\ instruction' = NoInstruction

Init ==
  /\ ip \in Address /\ ip % 4 = 0
  /\ r = [n \in Registers |-> 0]
  /\ cc = {}
  /\ instruction = NoInstruction
  /\ halted = FALSE
  /\ last = "none"

Next == loadInstruction \/ executeInstruction

Spec == Init /\ [][Next]_vars

-------------------------------------------------------------------------------
(* Properties.                                                               *)

TypeOK ==
  /\ ip \in Address
  /\ r \in [Registers -> Address]
  /\ cc \in SUBSET Bits
  /\ halted \in BOOLEAN
  /\ instruction \in Instructions \union {NoInstruction}
  /\ last \in {"none", "less", "equal", "greater"}

Executes(op) == instruction.op = op /\ instruction' = NoInstruction

\* The code that a relation leaves.
CodeOf(relation) ==
  CASE relation = "less" -> {4} [] relation = "equal" -> {2} [] relation = "greater" -> {1}

\* Whatever instructions lie between, the condition code is what the last
\* compare found: none of those that branch, fault, test or link disturb it.
CodeKeepsRelation == last # "none" => cc = CodeOf(last)

\* The modes of one word: the others end in a word of displacement.
OneWordModes == {"AbsoluteOffset", "RegisterIndirectWithOffset", "RegisterIndirect",
                 "RegisterIndirectWithIndex", "Reserved"}

LinkStep ==
  /\ Executes("bal") => r'[LinkRegister] = Wrap(ip + 4)
  /\ Executes("balx") =>
       r'[instruction.dest] = Wrap(ip + (IF instruction.mode \in OneWordModes THEN 4 ELSE 8))
  /\ Executes("balx") /\ instruction.mode = "RegisterIndirect" => ip' = r[instruction.abase]

\* Links of bal and balx lead to the word behind the instruction, also when
\* balx takes two words: coming back goes on where an instruction that did not
\* branch would.  A balx through a register goes where the register led before
\* the link, also when it is the register that it links in.
LinkIsNextInstruction == [][LinkStep]_vars

RelativeStep ==
  Executes("balx") /\ instruction.mode = "IPWithDisplacement" =>
    ip' = Wrap(r'[instruction.dest] + instruction.disp)

\* An address relative to ip counts from the end of the instruction, where
\* balx links to.
RelativeToLink == [][RelativeStep]_vars

\* The relations that each mask names, by the mnemonics of the opcodes
\* (CoreDispatch.cc:46-64).
Named(mask) ==
  {relation \in {"less", "equal", "greater"} : CodeOf(relation) \subseteq mask}

Decided(relation) ==
  Wrap(ip + (IF relation \in Named(instruction.mask) THEN instruction.disp ELSE 4))

DecisionStep ==
  /\ Executes("condBranch") /\ last # "none" => ip' = Decided(last)
  /\ Executes("condFault") /\ last # "none" => halted' = (last \in Named(instruction.mask))
  /\ Executes("cmpobx") \/ Executes("cmpibx") => ip' = Decided(last')
  /\ Executes("testOp") /\ last # "none" =>
       r'[instruction.dest] =
         IF instruction.mask = {} \/ last \in Named(instruction.mask) THEN 1 ELSE 0

\* After a compare, a branch is taken, a fault raised and a test true exactly
\* for the relations the mnemonic names, and the compares that branch decide as
\* a compare and a branch do.  Only testno, which names none, yields 1 always
\* (Register.h:396).
DecisionsFollowRelation == [][DecisionStep]_vars
====
