------------------------------- MODULE Dispatch -------------------------------
(*****************************************************************************)
(* Decoding and dispatch of one instruction after the other: the handler     *)
(* that executeInstruction picks, and the operands this handler asks the     *)
(* instruction for (src/src/CoreDispatch.cc, src/include/Instruction.h,      *)
(* src/src/Core.cc).                                                         *)
(*                                                                           *)
(* Of an instruction word only the opcode and the mode bits matter here: a   *)
(* field is known by whether it decodes to a register, a literal or nothing  *)
(* at all.  What handlers compute with their operands is the business of     *)
(* Arithmetic and InstructionFlow.                                           *)
(*****************************************************************************)
EXTENDS OpcodeTables

VARIABLES
  word,      \* opcode and mode bits of the current instruction
  handler,   \* what executeInstruction called
  requests,  \* operands the handler has yet to look at
  outcome    \* "retired", "running", "halted", or "lost" after a null call

vars == <<word, handler, requests, outcome>>

\* The bits that are something else in a format are left at zero.
Words ==
  {w \in [major : 0 .. 255, minor : 0 .. 15, m1 : 0 .. 1, m2 : 0 .. 1, m3 : 0 .. 1] :
     /\ w.minor # 0 \/ w.m2 = 1 \/ w.m3 = 1 => isREGFormat(w.major)
     /\ w.m1 = 1 => isREGFormat(w.major) \/ isCOBRFormat(w.major)}

-------------------------------------------------------------------------------
(* What a field decodes to.                                                  *)

RegisterIndex(isLiteral) == IF isLiteral = 1 THEN "literal" ELSE "register"

getSrc1(w, ignoreM1) ==
  CASE isREGFormat(w.major)  -> RegisterIndex(w.m1)
    [] isCOBRFormat(w.major) -> RegisterIndex(IF ignoreM1 THEN 0 ELSE w.m1)
    [] OTHER                 -> "Bad"

getSrc2(w) ==
  CASE isREGFormat(w.major)  -> RegisterIndex(w.m2)
    [] isCOBRFormat(w.major) -> "register"
    [] OTHER                 -> "Bad"

\* Fault: the mode bit counts for a destination as well.
SrcDestAlwaysModal(w, treatAsSource) ==
  CASE isREGFormat(w.major) -> RegisterIndex(w.m3)
    [] isMEMFormat(w.major) -> "register"
    [] OTHER                -> "Bad"

\* Fault: memory instructions have no destination.
SrcDestOfRegOnly(w, treatAsSource) ==
  IF isREGFormat(w.major)
  THEN RegisterIndex(IF treatAsSource THEN w.m3 ELSE 0)
  ELSE "Bad"

getSrcDest(w, treatAsSource) ==
  CASE isREGFormat(w.major) -> RegisterIndex(IF treatAsSource THEN w.m3 ELSE 0)
    [] isMEMFormat(w.major) -> "register"
    [] OTHER                -> "Bad"

Field(w, field) ==
  CASE field = "src1"     -> getSrc1(w, FALSE)
    [] field = "src1 reg" -> getSrc1(w, TRUE)
    [] field = "src2"     -> getSrc2(w)
    [] field = "src"      -> getSrcDest(w, TRUE)
    [] field = "dest"     -> getSrcDest(w, FALSE)

-------------------------------------------------------------------------------
(* What a handler asks for.  As a value, a literal does as well as a         *)
(* register (getOperand); as a register, it must be one (getRegister, and    *)
(* its double, triple and quad forms).                                       *)

Value(field) == [field |-> field, as |-> "value"]
Register(field) == [field |-> field, as |-> "register"]

NoOperands == {"b", "bal", "call", "ret", "condBranch", "condFault", "bx", "callx",
               "mark", "fmark", "flushreg", "syncf"}
Compares == {"bbc", "bbs", "cmpobx", "cmpibx", "cmpo", "cmpi", "concmp Ordinal",
             "concmp Integer", "chkbit", "synmov", "synmovl", "synmovq"}
Loads == {"lda", "ldob", "ldos", "ldib", "ldis", "ld", "ldl", "ldt", "ldq", "balx"}
Stores == {"stob", "stos", "stib", "stis", "st", "stl"}
Moves == {"mov", "movl", "movt", "movq", "synld", "scanbit", "spanbit"}

Requests(h) ==
  CASE h \in NoOperands -> <<>>
    [] h = "testOp" -> <<Register("src1 reg")>>
    [] h \in Compares -> <<Value("src1"), Value("src2")>>
    [] h = "calls" -> <<Value("src1")>>
    [] h \in Loads -> <<Register("dest")>>
    [] h \in Stores -> <<Value("src")>>
    [] h \in {"stt", "stq"} -> <<Register("src")>>
    [] h \in Moves -> <<Value("src1"), Register("dest")>>
    [] h = "scanbyte" -> <<Register("src1"), Register("src2")>>
    [] h = "bswap" -> <<Register("src2"), Register("src1")>>
    [] h \in {"modac", "modtc"} -> <<Register("src1"), Value("src"), Value("src2")>>
    [] OTHER -> <<Value("src1"), Value("src2"), Register("dest")>>

Faults(request, kind) == request.as = "register" /\ kind # "register"

-------------------------------------------------------------------------------
(* Actions.                                                                  *)

executeInstruction(w) ==
  /\ outcome = "retired"
  /\ word' = w
  /\ handler' = Handler(w.major, w.minor)
  /\ \/ /\ handler' = Illegal
        /\ outcome' = "halted"
        /\ requests' = <<>>
     \/ /\ handler' = "null"
        /\ outcome' = "lost"
        /\ requests' = <<>>
     \/ /\ handler' \notin {Illegal, "null"}
        /\ outcome' = "running"
        /\ requests' = Requests(handler')

LookAtOperand ==
  /\ outcome = "running"
  /\ requests # <<>>
  /\ requests' = Tail(requests)
  /\ outcome' = IF Faults(Head(requests), Field(word, Head(requests).field))
                THEN "halted"
                ELSE "running"
  /\ UNCHANGED <<word, handler>>

Retire ==
  /\ outcome = "running"
  /\ requests = <<>>
  /\ outcome' = "retired"
  /\ UNCHANGED <<word, handler, requests>>

\* Before the first fetch: the word 0 counts as retired.
Init ==
  /\ word = [major |-> 0, minor |-> 0, m1 |-> 0, m2 |-> 0, m3 |-> 0]
  /\ handler = Illegal
  /\ requests = <<>>
  /\ outcome = "retired"

Next ==
  \/ \E w \in Words : executeInstruction(w)
  \/ LookAtOperand
  \/ Retire

Spec == Init /\ [][Next]_vars

-------------------------------------------------------------------------------
(* Properties.                                                               *)

\* The handler that stands for an instruction where it is not its namesake.
Generic ==
  [name \in {BranchOpcodes[op] : op \in \h10 .. \h17} |-> "condBranch"]
    @@ [name \in {BranchOpcodes[op] : op \in \h18 .. \h1F} |-> "condFault"]
    @@ [name \in {BranchOpcodes[op] : op \in \h20 .. \h27} |-> "testOp"]
    @@ [name \in {BranchOpcodes[op] : op \in \h31 .. \h36} |-> "cmpobx"]
    @@ [name \in {BranchOpcodes[op] : op \in \h38 .. \h3F} |-> "cmpibx"]
    @@ ("logicalAnd" :> "And") @@ ("andnot" :> "AndNot") @@ ("notand" :> "NotAnd")
    @@ ("logicalXor" :> "Xor") @@ ("logicalOr" :> "Or") @@ ("logicalNor" :> "Nor")
    @@ ("logicalXnor" :> "Xnor") @@ ("logicalNot" :> "Not") @@ ("ornot" :> "OrNot")
    @@ ("notor" :> "NotOr") @@ ("logicalNand" :> "Nand")
    @@ ("addo" :> "Add Ordinal") @@ ("addi" :> "Add Integer")
    @@ ("subo" :> "Subtract Ordinal") @@ ("subi" :> "Subtract Integer")
    @@ ("shri" :> "ShiftRight Integer") @@ ("shli" :> "ShiftLeft Integer")
    @@ ("rotate" :> "Rotate Ordinal")
    @@ ("concmpo" :> "concmp Ordinal") @@ ("concmpi" :> "concmp Integer")
    @@ ("mulo" :> "Multiply Ordinal") @@ ("muli" :> "Multiply Integer")
    @@ ("divo" :> "Divide Ordinal") @@ ("divi" :> "Divide Integer")
    @@ ("remo" :> "Remainder Ordinal") @@ ("remi" :> "Remainder Integer")

HandlerOf(name) == IF name \in DOMAIN Generic THEN Generic[name] ELSE name

opcode == FullOpcode(word.major, word.minor)

\* The part of the table 0x59 that its missing entry shifts.
ShiftedOpcodes == \h599 .. \h59F

Listed(op) == IF op \in DOMAIN Opcodes THEN HandlerOf(Opcodes[op]) ELSE Illegal

\* Every opcode of the list is executed by its handler, and no other word is
\* executed at all: the tables of CoreDispatch.cc, their offsets and
\* OpcodesRaw.h are three accounts of one instruction set.  They differ where
\* the table 0x59 has no entry for 0x599 (CoreDispatch.cc:221): what follows
\* is executed by the handler of the next opcode, and 0x59F by none.
TablesFollowTheList ==
  outcome # "retired" =>
    handler = CASE opcode \notin ShiftedOpcodes          -> Listed(opcode)
                [] opcode \in ShiftedOpcodes \ {\h59F} -> Listed(opcode + 1)
                [] opcode = \h59F                       -> "null"

\* No handler is reached in a format that lacks one of its operands, which
\* it would silently take to be zero (a default Operand) or fault on.
OperandsExist ==
  outcome = "running" /\ requests # <<>> => Field(word, Head(requests).field) # "Bad"

\* A listed instruction is stopped by its operands only where the code takes
\* a source for a register without looking at its mode bit.
OnlyRegisterSourcesFault ==
  outcome = "halted" /\ handler # Illegal =>
    \/ handler \in {"scanbyte", "bswap"} /\ (word.m1 = 1 \/ word.m2 = 1)
    \/ handler \in {"modac", "modtc"} /\ word.m1 = 1
====
