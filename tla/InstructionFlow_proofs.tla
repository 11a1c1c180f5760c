------------------------ MODULE InstructionFlow_proofs ------------------------
(*****************************************************************************)
(* Theorems about the course of the instruction pointer, for every size of   *)
(* the address space, every set of registers and every program.              *)
(*****************************************************************************)
EXTENDS InstructionFlow, TLAPS

-------------------------------------------------------------------------------
(* Addresses.                                                                *)

LEMMA WrapIsAddress == ASSUME NEW n \in Int PROVE Wrap(n) \in Address
BY SpaceAssumption DEF Wrap, Address

LEMMA SmallAddresses == 0 \in Address /\ 1 \in Address
BY SpaceAssumption DEF Address

LEMMA FieldTypes ==
  ASSUME NEW i \in Instructions
  PROVE  /\ i.disp \in Int /\ i.mode \in MEMFormatMode /\ i.mask \in SUBSET Bits
         /\ i.abase \in Registers /\ i.index \in Registers /\ i.dest \in Registers
         /\ i.scale \in {1, 2, 4, 8, 16} /\ advance(i) \in {4, 8}
BY InstructionAssumption DEF advance

LEMMA Computed ==
  ASSUME TypeOK, NEW i \in Instructions
  PROVE  computeMemoryAddress(i) \in Address
<1>1. /\ ip \in Int /\ i.disp \in Int /\ r[i.abase] \in Int
      /\ r[i.index] \in Nat /\ i.scale \in Nat
  BY FieldTypes DEF TypeOK, Address
<1>2. scaledIndex(i) \in Int
  BY <1>1 DEF scaledIndex
<1>3. i.mode \in MEMFormatMode
  BY FieldTypes
<1> QED
  BY <1>1, <1>2, <1>3, WrapIsAddress
     DEF computeMemoryAddress, MEMFormatMode, PlainModes, IndirectModes, IndexedModes

LEMMA AdvancedType ==
  ASSUME TypeOK, NEW i \in Instructions
  PROVE  Wrap(ip + advance(i)) \in Address /\ Wrap(ip + i.disp) \in Address
           /\ Wrap(ip + 4) \in Address
BY FieldTypes, WrapIsAddress DEF TypeOK, Address

LEMMA ComparedType ==
  ASSUME NEW a, NEW c
  PROVE  /\ compareGeneric(a, c) \in SUBSET Bits
         /\ Relation(a, c) \in {"less", "equal", "greater"}
         /\ compareGeneric(a, c) = CodeOf(Relation(a, c))
BY DEF compareGeneric, Relation, CodeOf, Bits

-------------------------------------------------------------------------------
(* The inductive invariant: types, and the code of the last relation.        *)

IInv == TypeOK /\ CodeKeepsRelation

LEMMA InitIInv == Init => IInv
BY SmallAddresses DEF Init, IInv, TypeOK, CodeKeepsRelation

\* What an instruction leaves, but for the one fetched.
Executed(i) ==
  /\ ip' \in Address
  /\ r' \in [Registers -> Address]
  /\ cc' \in SUBSET Bits
  /\ halted' \in BOOLEAN
  /\ last' \in {"none", "less", "equal", "greater"}
  /\ CodeKeepsRelation'

LEMMA ComparesExecuted ==
  ASSUME IInv, NEW i \in Instructions, cmpx(i) \/ cmpxbx(i) \/ bbx(i)
  PROVE  Executed(i)
<1>1. Wrap(ip + advance(i)) \in Address /\ Wrap(ip + i.disp) \in Address
  BY AdvancedType DEF IInv
<1>2. CASE cmpx(i)
  <2>1. /\ cc' \in SUBSET Bits /\ last' \in {"less", "equal", "greater"}
        /\ cc' = CodeOf(last')
    BY <1>2, ComparedType DEF cmpx, Compare
  <2> QED
    BY <1>1, <1>2, <2>1 DEF cmpx, Advance, Executed, IInv, TypeOK, CodeKeepsRelation, CodeOf
<1>3. CASE cmpxbx(i)
  <2>1. /\ cc' \in SUBSET Bits /\ last' \in {"less", "equal", "greater"}
        /\ cc' = CodeOf(last')
    BY <1>3, ComparedType DEF cmpxbx, Compare
  <2> QED
    BY <1>1, <1>3, <2>1
       DEF cmpxbx, Advance, ipRelativeBranch, Executed, IInv, TypeOK, CodeKeepsRelation, CodeOf
<1>4. CASE bbx(i)
  <2>1. ip' \in Address
    BY <1>1, <1>4 DEF bbx, Advance, ipRelativeBranch
  <2>2. cc' \in SUBSET Bits
    BY <1>4 DEF bbx, Bits
  <2> QED
    BY <1>4, <2>1, <2>2 DEF bbx, Executed, IInv, TypeOK, CodeKeepsRelation
<1> QED
  BY <1>2, <1>3, <1>4

\* The others leave the condition code and the relation alone.
LEMMA OthersExecuted ==
  ASSUME IInv, NEW i \in Instructions,
         \/ condBranch(i) \/ condFault(i) \/ testOp(i) \/ b(i) \/ bal(i) \/ bx(i)
         \/ balx(i) \/ lda(i) \/ transfer(i) \/ marks(i)
  PROVE  Executed(i)
<1>1. /\ Wrap(ip + advance(i)) \in Address /\ Wrap(ip + i.disp) \in Address
      /\ Wrap(ip + 4) \in Address /\ computeMemoryAddress(i) \in Address
  BY AdvancedType, Computed DEF IInv
<1>2. cc' = cc /\ last' = last
  BY DEF condBranch, condFault, testOp, b, bal, bx, balx, lda, transfer, marks
<1>3. /\ cc' \in SUBSET Bits /\ CodeKeepsRelation'
      /\ last' \in {"none", "less", "equal", "greater"}
  BY <1>2 DEF IInv, TypeOK, CodeKeepsRelation, CodeOf
<1>4. ip \in Address /\ halted \in BOOLEAN /\ r \in [Registers -> Address]
  BY DEF IInv, TypeOK
<1>5. ip' \in Address
  BY <1>1, <1>4 DEF condBranch, condFault, testOp, b, bal, bx, balx, lda, transfer, marks,
     Advance, ipRelativeBranch, absoluteBranch
<1>6. halted' \in BOOLEAN
  BY <1>4 DEF condBranch, condFault, testOp, b, bal, bx, balx, lda, transfer, marks
<1>7. r' \in [Registers -> Address]
  <2>1. CASE \/ condBranch(i) \/ condFault(i) \/ b(i) \/ bx(i) \/ marks(i)
    BY <1>4, <2>1 DEF condBranch, condFault, b, bx, marks
  <2>2. CASE testOp(i)
    BY <1>4, <2>2, SmallAddresses DEF testOp
  <2>3. CASE bal(i) \/ balx(i) \/ lda(i)
    BY <1>1, <1>4, <2>3 DEF bal, balx, lda
  <2>4. CASE transfer(i)
    BY <1>4, <2>4, LoadedAssumption DEF transfer
  <2> QED
    BY <2>1, <2>2, <2>3, <2>4
<1> QED
  BY <1>3, <1>5, <1>6, <1>7 DEF Executed

LEMMA StepIInv == ASSUME IInv, [Next]_vars PROVE IInv'
<1>1. CASE loadInstruction
  BY <1>1 DEF IInv, TypeOK, CodeKeepsRelation, CodeOf, loadInstruction
<1>2. CASE executeInstruction
  <2>1. instruction \in Instructions
    BY <1>2 DEF IInv, TypeOK, executeInstruction
  <2>2. Executed(instruction)
    BY <1>2, <2>1, ComparesExecuted, OthersExecuted DEF executeInstruction
  <2> QED
    BY <1>2, <2>2 DEF Executed, IInv, TypeOK, executeInstruction
<1>3. CASE UNCHANGED vars
  BY <1>3 DEF IInv, TypeOK, CodeKeepsRelation, CodeOf, vars
<1> QED
  BY <1>1, <1>2, <1>3 DEF Next

LEMMA AlwaysIInv == Spec => []IInv
BY InitIInv, StepIInv, PTL DEF Spec

\* The pointer, the registers and the code stay in their ranges, whatever the
\* displacements and however often addresses wrap (cycle in Core.cc).
THEOREM FlowTypeCorrect == Spec => []TypeOK
BY AlwaysIInv, PTL DEF IInv

\* No instruction between a compare and a branch disturbs the code that the
\* compare left (cmpGeneric in Core.h and all of InstructionFlow's handlers).
THEOREM CodeIsLastRelation == Spec => []CodeKeepsRelation
BY AlwaysIInv, PTL DEF IInv

-------------------------------------------------------------------------------
(* What steps do.                                                            *)

\* A step that consumes the instruction executes it.
LEMMA Consumed ==
  ASSUME TypeOK, [Next]_vars, NEW op, op # "none", Executes(op)
  PROVE  executeInstruction /\ instruction \in Instructions /\ instruction.op = op
<1>1. instruction.op = op /\ instruction' = NoInstruction /\ instruction # NoInstruction
  BY DEF Executes, NoInstruction
<1>2. ~loadInstruction /\ ~UNCHANGED vars
  BY <1>1, RegisterAssumption DEF loadInstruction, vars
<1> QED
  BY <1>1, <1>2 DEF Next, TypeOK

\* Each op has one handler.
LEMMA HandlerOfBranchAndLink ==
  ASSUME executeInstruction
  PROVE  /\ instruction.op = "bal" => bal(instruction)
         /\ instruction.op = "balx" => balx(instruction)
BY DEF executeInstruction, cmpx, cmpxbx, bbx, condBranch, condFault, testOp, b, bal, bx,
   balx, lda, transfer, marks, CompareOps

LEMMA HandlerOfDecision ==
  ASSUME executeInstruction
  PROVE  /\ instruction.op = "condBranch" => condBranch(instruction)
         /\ instruction.op = "condFault" => condFault(instruction)
         /\ instruction.op \in {"cmpobx", "cmpibx"} => cmpxbx(instruction)
         /\ instruction.op = "testOp" => testOp(instruction)
BY DEF executeInstruction, cmpx, cmpxbx, bbx, condBranch, condFault, testOp, b, bal, bx,
   balx, lda, transfer, marks, CompareOps

LEMMA Linked ==
  ASSUME TypeOK, NEW i \in Instructions, balx(i)
  PROVE  /\ r'[i.dest] = Wrap(ip + (IF i.mode \in OneWordModes THEN 4 ELSE 8))
         /\ ip' = computeMemoryAddress(i)
         /\ i.mode = "RegisterIndirect" => ip' = r[i.abase]
<1>1. i.dest \in Registers /\ r \in [Registers -> Address] /\ i.mode \in MEMFormatMode
  BY FieldTypes DEF TypeOK
<1>2. advance(i) = IF i.mode \in OneWordModes THEN 4 ELSE 8
  BY <1>1 DEF advance, isDoubleWideInstruction, OneWordModes, MemoryOps, balx,
     MEMFormatMode, PlainModes, IndirectModes, IndexedModes
<1>3. ip' = computeMemoryAddress(i)
  BY DEF balx, absoluteBranch
<1>4. ASSUME i.mode = "RegisterIndirect" PROVE ip' = r[i.abase]
  <2>1. ip' = Wrap(r[i.abase])
    BY <1>3, <1>4 DEF computeMemoryAddress
  <2>2. r[i.abase] \in Address
    BY <1>1, FieldTypes
  <2> HIDE <1>3
  <2> QED
    BY <2>1, <2>2, SpaceAssumption DEF Wrap, Address
<1> QED
  BY <1>1, <1>2, <1>3, <1>4 DEF balx

\* Programs come back from bal and balx to the word behind them, for every
\* addressing mode, and a balx through the register it links in goes where that
\* register led before (Core::balx, computeMemoryAddress).
THEOREM LinksCorrect == Spec => LinkIsNextInstruction
<1>1. IInv /\ [Next]_vars => LinkStep
  <2> SUFFICES ASSUME IInv, [Next]_vars PROVE LinkStep
    OBVIOUS
  <2>1. ASSUME Executes("bal") PROVE r'[LinkRegister] = Wrap(ip + 4)
    BY <2>1, Consumed, HandlerOfBranchAndLink, RegisterAssumption DEF IInv, TypeOK, bal
  <2>2. ASSUME Executes("balx")
        PROVE  r'[instruction.dest] =
                 Wrap(ip + (IF instruction.mode \in OneWordModes THEN 4 ELSE 8))
    BY <2>2, Consumed, HandlerOfBranchAndLink, Linked DEF IInv
  <2>3. ASSUME Executes("balx"), instruction.mode = "RegisterIndirect"
        PROVE  ip' = r[instruction.abase]
    BY <2>3, Consumed, HandlerOfBranchAndLink, Linked DEF IInv
  <2> QED
    BY <2>1, <2>2, <2>3 DEF LinkStep
<1> QED
  BY <1>1, AlwaysIInv, PTL DEF Spec, LinkIsNextInstruction

\* Quotient and remainder of a word size are one way only to write a number.
LEMMA Divided ==
  ASSUME NEW S \in Nat, S > 0, NEW a \in Int
  PROVE  a \div S \in Int /\ a % S \in 0 .. S - 1 /\ a = S * (a \div S) + (a % S)
OBVIOUS

LEMMA UniqueRemainder ==
  ASSUME NEW S \in Nat, S > 0, NEW p \in Int, NEW q \in Int,
         NEW t \in 0 .. S - 1, NEW u \in 0 .. S - 1, S * p + t = S * q + u
  PROVE  t = u
<1>1. S * (p - q) = u - t /\ S * (q - p) = t - u
  OBVIOUS
<1>2. CASE p > q
  <2>1. S * (p - q) >= S * 1
    BY <1>2
  <2> QED
    BY <1>1, <2>1
<1>3. CASE p < q
  <2>1. S * (q - p) >= S * 1
    BY <1>3
  <2> QED
    BY <1>1, <2>1
<1> QED
  BY <1>2, <1>3

\* Modulo the space, it does not matter where along a sum one wraps.
LEMMA WrapOfSum ==
  ASSUME NEW a \in Int, NEW k \in Int
  PROVE  Wrap(Wrap(a) + k) = Wrap(a + k)
<1> DEFINE x == (a % Space) + k
           y == a + k
           q == a \div Space
           dx == x \div Space
           dy == y \div Space
           t == x % Space
           u == y % Space
           e == dx + q
<1>0. Space \in Nat /\ Space > 0
  BY SpaceAssumption
<1>1. /\ q \in Int /\ Space * q \in Int /\ x \in Int /\ y \in Int /\ y = x + Space * q
  BY <1>0, Divided
<1>2. /\ dx \in Int /\ t \in 0 .. Space - 1 /\ x = Space * dx + t
      /\ dy \in Int /\ u \in 0 .. Space - 1 /\ y = Space * dy + u
  BY <1>0, <1>1, Divided
<1> HIDE DEF x, y, q, dx, dy, t, u, e
<1>3. e \in Int /\ Space * dy + u = Space * e + t
  <2>1. Space * (dx + q) = Space * dx + Space * q /\ Space * dx \in Int /\ Space * dy \in Int
    BY <1>0, <1>1, <1>2
  <2> QED
    BY <1>1, <1>2, <2>1 DEF e
<1>4. u = t
  BY <1>0, <1>1, <1>2, <1>3, UniqueRemainder
<1> QED
  BY <1>4 DEF t, u, x, y, Wrap

\* The operand of an instruction relative to ip counts from the link.
THEOREM RelativeCorrect == Spec => RelativeToLink
<1>1. IInv /\ [Next]_vars => RelativeStep
  <2> SUFFICES ASSUME IInv, [Next]_vars,
                      Executes("balx"), instruction.mode = "IPWithDisplacement"
               PROVE  ip' = Wrap(r'[instruction.dest] + instruction.disp)
    BY DEF RelativeStep
  <2>1. instruction \in Instructions /\ balx(instruction)
    BY Consumed, HandlerOfBranchAndLink DEF IInv
  <2>2. r'[instruction.dest] = Wrap(ip + 8) /\ ip' = computeMemoryAddress(instruction)
    BY <2>1, Linked DEF IInv, OneWordModes
  <2>3. ip' = Wrap(ip + instruction.disp + 8)
    BY <2>2 DEF computeMemoryAddress
  <2>4. ip \in Int /\ instruction.disp \in Int
    BY <2>1, FieldTypes DEF IInv, TypeOK, Address
  <2> DEFINE link == ip + 8
  <2>5. Wrap(Wrap(link) + instruction.disp) = Wrap(link + instruction.disp)
    <3>1. link \in Int
      BY <2>4
    <3> HIDE DEF link
    <3> QED
      BY <2>4, <3>1, WrapOfSum
  <2>6. (ip + 8) + instruction.disp = ip + instruction.disp + 8
    BY <2>4
  <2> QED
    BY <2>2, <2>3, <2>5, <2>6
<1> QED
  BY <1>1, AlwaysIInv, PTL DEF Spec, RelativeToLink

\* A mask names a relation when it holds the relation's bit.
LEMMA MaskOfRelation ==
  ASSUME NEW mask \in SUBSET Bits, NEW relation \in {"less", "equal", "greater"}
  PROVE  (relation \in Named(mask)) <=> (mask \intersect CodeOf(relation) # {})
BY DEF Named, CodeOf

\* Branches, faults, tests and comparing branches all read a compare alike.
THEOREM DecisionsCorrect == Spec => DecisionsFollowRelation
<1>1. IInv /\ [Next]_vars => DecisionStep
  <2> SUFFICES ASSUME IInv, [Next]_vars PROVE DecisionStep
    OBVIOUS
  <2> DEFINE i == instruction
  <2>1. ASSUME executeInstruction, i \in Instructions, last # "none"
        PROVE  (last \in Named(i.mask)) <=> (i.mask \intersect cc # {})
    <3>1. cc = CodeOf(last) /\ last \in {"less", "equal", "greater"} /\ i.mask \in SUBSET Bits
      BY <2>1, FieldTypes DEF IInv, TypeOK, CodeKeepsRelation
    <3> QED
      BY <3>1, MaskOfRelation
  <2>2. ASSUME last # "none"
        PROVE  cc # {}
    BY <2>2 DEF IInv, TypeOK, CodeKeepsRelation, CodeOf
  <2>3. ASSUME i \in Instructions, last # "none", executeInstruction
        PROVE  Holds(i.mask) <=> last \in Named(i.mask)
    BY <2>1, <2>2, <2>3 DEF Holds
  <2>4. ASSUME Executes("condBranch"), last # "none"
        PROVE  ip' = Decided(last)
    <3>1. i \in Instructions /\ executeInstruction /\ condBranch(i) /\ i.op = "condBranch"
      BY <2>4, Consumed, HandlerOfDecision DEF IInv
    <3>2. advance(i) = 4
      BY <3>1 DEF advance, MemoryOps
    <3> QED
      BY <2>3, <2>4, <3>1, <3>2 DEF condBranch, Advance, ipRelativeBranch, Decided
  <2>5. ASSUME Executes("condFault"), last # "none"
        PROVE  halted' = (last \in Named(i.mask))
    <3>1. i \in Instructions /\ executeInstruction /\ condFault(i)
      BY <2>5, Consumed, HandlerOfDecision DEF IInv
    <3>2. halted = FALSE
      BY <3>1 DEF executeInstruction, IInv, TypeOK
    <3>3. halted' = Holds(i.mask)
      BY <3>1, <3>2 DEF condFault, Holds
    <3> QED
      BY <2>3, <2>5, <3>1, <3>3 DEF Holds
  <2>6. ASSUME Executes("cmpobx") \/ Executes("cmpibx")
        PROVE  ip' = Decided(last')
    <3>1. i \in Instructions /\ cmpxbx(i) /\ i.op \in {"cmpobx", "cmpibx"}
      BY <2>6, Consumed, HandlerOfDecision DEF IInv
    <3>2. cc' = CodeOf(last') /\ last' \in {"less", "equal", "greater"}
      BY <3>1, ComparedType DEF cmpxbx, Compare
    <3>3. (last' \in Named(i.mask)) <=> (i.mask \intersect cc' # {})
      BY <3>1, <3>2, FieldTypes, MaskOfRelation
    <3>4. advance(i) = 4
      BY <3>1 DEF advance, MemoryOps
    <3> QED
      BY <3>1, <3>3, <3>4 DEF cmpxbx, Advance, ipRelativeBranch, Decided
  <2>7. ASSUME Executes("testOp"), last # "none"
        PROVE  r'[i.dest] = IF i.mask = {} \/ last \in Named(i.mask) THEN 1 ELSE 0
    <3>1. i \in Instructions /\ executeInstruction /\ testOp(i)
      BY <2>7, Consumed, HandlerOfDecision DEF IInv
    <3>2. conditionCodeIs(i.mask) <=> i.mask = {} \/ last \in Named(i.mask)
      BY <2>1, <2>7, <3>1 DEF conditionCodeIs
    <3> QED
      BY <3>1, <3>2, FieldTypes DEF testOp, IInv, TypeOK
  <2> QED
    BY <2>4, <2>5, <2>6, <2>7 DEF DecisionStep
<1> QED
  BY <1>1, AlwaysIInv, PTL DEF Spec, DecisionsFollowRelation
====
